CONSTANTS
  red = red
  green = green
  VariableOrder <- MCVariableOrder
  Values = {0, 1}
  Unset = Unset
  MaxRequirements = 3
  MaxAlertId = 1
  MessageIds = {0, 1, 2}
  Messages <- MCMessages
  NoAlert = NoAlert
  Kinds = {red, green}
  Off = Off
  BluetoothPreempts = TRUE
SPECIFICATION Spec
INVARIANT WalkedNodeIsAlive
CHECK_DEADLOCK FALSE
