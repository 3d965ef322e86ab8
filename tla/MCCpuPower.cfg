SPECIFICATION FairSpec
CONSTANTS
  Tables <- MCTables
  MaxEvents = 3
  Threads = {t1, t2}
  NoThread = NoThread
  Fds = {0, 1}
  MAX_FREQ_NUMBER = 6
  NOM_FREQ_INDEX = 3
  Clients = {a, b}
  NoClient = NoClient
  Backlog = 2
INVARIANTS OneDescriptor 
PROPERTIES HintsReturn CallsEnd
CHECK_DEADLOCK FALSE
