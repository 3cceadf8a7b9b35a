SPECIFICATION Spec
CONSTANTS
  Controllers <- MCControllers
  Ports <- MCPorts
  Disks <- MCDisks
  TakenDisks <- MCTakenDisks
  RootDirectory = 5
  SectorCount = 2
  MaxSpin = 2
  Machines <- MCMachines
  DeviceCount = 2
  FunctionCount = 2
INVARIANTS
  TypeOK
  SuccessMeansRead
  OnlyBootSectorsParsed
  HaltedPortsNotUsed
  ControllersDrivenOnce
PROPERTIES
  BasesChangeWhileStopped
  EnumerationEnds
CHECK_DEADLOCK FALSE
