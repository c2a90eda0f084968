SPECIFICATION Spec
CONSTANT Capacity <- MCCapacity
INVARIANTS
  KnowsHost
  BatterySaves
PROPERTY ModeReturns
