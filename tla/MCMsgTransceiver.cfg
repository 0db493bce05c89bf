CONSTANTS
  NumSlots = 2
  NumBlocks = 2
  Messages = {m1, m2, m3}
  Free = Free
  SendMayFail = TRUE
  MayDeinit = TRUE
  BluetoothPreempts = FALSE
SPECIFICATION FairSpec
CHECK_DEADLOCK FALSE
INVARIANTS TypeOK SlotsMatchBlocks
PROPERTIES CallbackOnlyForOwnMessage AcceptedCallbackIsExecuted
