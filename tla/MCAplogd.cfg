SPECIFICATION Spec
CONSTANTS
  Inputs <- MCInputs
  Kernel = "kernel"
  BufSize = 3
  Buffering = 2
  LogfileMax <- MCMax
  MaxEntries = 3
  MaxEvents = 2
INVARIANTS TypeOK   NothingForgotten
