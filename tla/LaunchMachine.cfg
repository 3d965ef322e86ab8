SPECIFICATION LaunchSpec
CONSTANT MaxCounter = 10
INVARIANTS CounterIsPrefix
PROPERTY LaunchedBySequence
