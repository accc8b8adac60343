SPECIFICATION FairSpec
CONSTANTS
  root = root
  a = a
  b = b
  c = c
  Prefix <- FlatPrefix
  Root = root
  Pages <- FlatPages
  Worker = {w1, w2}
  Window = 2
  Faults = {"throw"}
  ScaleUp = 120
  ScaleDown = 80
  IdleFloor = 10
PROPERTY WaitEnds
