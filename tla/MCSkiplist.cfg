\* The single-key policy, the default of the constructor.
SPECIFICATION Spec
CONSTANTS
  Key = {1, 2, 3}
  Multi = FALSE
  MaxLvl = 1
  MaxNodes = 3
PROPERTY ImplementsSpec
\* The program stops after an assertion failure or the destructor.
CHECK_DEADLOCK FALSE
