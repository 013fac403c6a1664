\* Insert's own assertion, on a list of one key and two insertions.
SPECIFICATION Spec
CONSTANTS
  Key = {1, 2}
  Multi = FALSE
  MaxLvl = 1
  MaxNodes = 2
INVARIANT NeverAborts
CHECK_DEADLOCK FALSE
