CONSTANTS
  Events = {"init", "sample"}
  Size <- MCSize
  NoEvent = NoEvent
  Garbage = Garbage
  Capacity = 10
  Contexts = {1, 2, 3}
SPECIFICATION Spec
CHECK_DEADLOCK FALSE
INVARIANTS FramesStayWhole
