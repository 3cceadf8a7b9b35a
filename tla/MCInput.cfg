SPECIFICATION Spec
CONSTANTS
  FirmwareMasks = {{8}}
  Leftovers = {{}}
  KeepsRequests = TRUE
  FirmwareConfigs = {97}
  Width = 40
  Height = 48
  Start = 16
  Movements <- MCMovements
  Codes = {30}
  MaxKeys = 1
  MaxReports = 2
  MaxTicks = 1
INVARIANTS
  TypeOK
  OnlyGatesEntered
  KeysHandledOnce
  MouseEnabled
  PacketsInStep
PROPERTIES
  MovesPointer
  BytesAreRead
CHECK_DEADLOCK FALSE
