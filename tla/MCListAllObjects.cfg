SPECIFICATION AllFairSpec
CONSTANTS
  root = root
  a = a
  Prefix <- ChainPrefix
  Root = root
  Pages <- ChainPages
  NoObjects <- ChainNoObjects
  Worker = {w1, w2}
  Window = 1
  Faults = {}
  WriteFails = TRUE
  OpenFails = TRUE
  ScaleUp = 120
  ScaleDown = 80
  IdleFloor = 2
INVARIANTS OutputComplete PagesInOnePlace WriterReturnsDrained
PROPERTIES NoPushAfterSignal ExitsOnceSignalled
