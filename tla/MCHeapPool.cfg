SPECIFICATION HSpec
CONSTANTS
  root = root
  a = a
  b = b
  c = c
  Prefix <- DeepPrefix
  Root = root
  Pages <- DeepPages
  Worker = {w1, w2}
  Window = 1
  Faults = {"exhausted","repeated","throw"}
  ScaleUp = 120
  ScaleDown = 80
  IdleFloor = 2
SYMMETRY Symmetry
INVARIANTS HeapBooks NoneLeftInHeap Bookkeeping TypeOK QueueLengthExact ActiveExact ShutdownWhenDone CompleteListing
PROPERTIES ImplementsPool BreadthFirst WalksBucket FiniteWork
