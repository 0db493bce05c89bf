CONSTANTS
  NumSlots = 2
  NumBlocks = 2
  Messages = {m1, m2, m3}
  Free = Free
  SendMayFail = TRUE
  MayDeinit = FALSE
  BluetoothPreempts = FALSE
SPECIFICATION FairSpec
PROPERTIES CallbackIsExecuted
