SPECIFICATION FairSpec
CONSTANTS
  Threads <- MediaThreads
  Calls <- MediaCalls
  Handles = {"h1"}
  Routes = {"mic"}
  MaxOpen = 1
  NoThread = "nobody"
INVARIANTS TypeOK   MuteEndsWithCall
PROPERTIES ImplementsSharing CallsReturn
