\* The prototype of the skip list.
SPECIFICATION Spec
CONSTANTS
  Programs = {"skiplist"}
  Key = {1, 2, 3, 4}
  Value = {1, 2}
  Capacity = 3
  Reader = {r1, r2}
  Writer = {w1, w2}
  Main = main
  MaxLength = 4
  Positions <- MCPositions
  Number = {1, 2, 3}
  Levels <- MCLevels
  MaxNodes = 5
  Operands <- MCOperands
  Slots = 2
  MaxRequests = 4
  MaxWord = 5
  NumberBits = 10
INVARIANT NeverCrashes
CHECK_DEADLOCK FALSE
