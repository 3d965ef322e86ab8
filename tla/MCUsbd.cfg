SPECIFICATION Spec
CONSTANTS
  c1 = c1
  NoApp = NoApp
  BootedAs = {"NORMAL"}
  Clients = {c1}
  MsdCdrom = TRUE
  HasLun = TRUE
  HasBlockDevice = FALSE
  SigpipeKills = FALSE
  UeventKinds = {"switch"}
  AdbAnswers = {1}
  Failures = {"clear", "create", "read"}
  DeviceMessages <- FewMessages
  Requests <- FewRequests
  MaxUevents = 1
  MaxDevice = 1
  MaxDes = 1
  MaxRequests = 1
INVARIANTS CableView NeverBlocks FactoryHolds NothingLeftBehind AppUpToDate
PROPERTY AppDecides
