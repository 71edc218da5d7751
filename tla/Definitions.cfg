SPECIFICATION Spec
CONSTANTS
  f1 = f1
  f2 = f2
  Fibers <- MCFibers
  Exchanges = {"h", "d"}
  Queues = {"q"}
  Attributes <- MCAttributes
  Wirings <- MCWirings
  SaveSize = 1
  MaxFrames = 3
  MaxRestarts = 2
SYMMETRY Symmetry
CHECK_DEADLOCK FALSE
INVARIANTS LogExact
PROPERTIES RestartRestores DeletesCascade
