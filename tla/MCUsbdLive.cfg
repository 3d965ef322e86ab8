SPECIFICATION LiveSpec
CONSTANTS
  c1 = c1
  NoApp = NoApp
  BootedAs = {"NORMAL", "DEBUG"}
  Clients = {c1}
  MsdCdrom = FALSE
  HasLun = TRUE
  HasBlockDevice = TRUE
  SigpipeKills = TRUE
  UeventKinds = {"switch"}
  AdbAnswers <- AnyAnswer
  Failures = {}
  DeviceMessages <- EnumeratedOnly
  Requests = {"MSC", "MTP"}
  MaxUevents = 2
  MaxDevice = 1
  MaxDes = 1
  MaxRequests = 1
PROPERTIES  RequestsServed
CHECK_DEADLOCK FALSE
