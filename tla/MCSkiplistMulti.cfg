\* The multi-key policy (kKeyAllowedMulti).
SPECIFICATION Spec
CONSTANTS
  Key = {1, 2}
  Multi = TRUE
  MaxLvl = 1
  MaxNodes = 3
INVARIANTS TypeOK LevelsExact PredecessorsExact PreceedsInBounds
PROPERTIES ImplementsSpec EveryCallReturns
\* The program stops after an assertion failure or the destructor.
CHECK_DEADLOCK FALSE
