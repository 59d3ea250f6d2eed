SPECIFICATION MCSpec
CONSTANTS
  NoMode = NoMode
  Splits <- MCSplits
  Modes <- MCModes
  Inputs <- MCInputs
  UsbDevices = {u1, u2}
  TcpDevices = {t1}
  Local = lo
  NoSerial = none
  MaxChanges = 1
INVARIANTS   AllOrNothing  AttemptIsContained FileIdsAgree BlocksInOrder
PROPERTY TransfersEnd
CHECK_DEADLOCK FALSE
