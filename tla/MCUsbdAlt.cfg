SPECIFICATION Spec
CONSTANTS
  c1 = c1
  NoApp = NoApp
  BootedAs = {"DEBUG", "BPTOOLS", "TABLET"}
  Clients = {}
  MsdCdrom = TRUE
  HasLun = TRUE
  HasBlockDevice = FALSE
  SigpipeKills = FALSE
  UeventKinds = {"switch", "scsi", "other"}
  AdbAnswers = {0, 1}
  Failures = {"clear", "create", "read"}
  DeviceMessages <- AllMessages
  Requests <- AllRequests
  MaxUevents = 1
  MaxDevice = 1
  MaxDes = 1
  MaxRequests = 1
INVARIANTS TetherTracked
