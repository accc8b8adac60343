SPECIFICATION Spec
CONSTANTS
  Window = 3
  Loads = {0, 1, 5, 12}
  MaxWorkers = 14
  ScaleUp = 120
  ScaleDown = 50
  IdleFloor = 10
PROPERTIES KeepsUp NoSwing
