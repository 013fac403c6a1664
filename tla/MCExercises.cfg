\* Every program: four keys of which the cache holds three, two readers and two
\* writers, lists of up to four nodes, the first five nodes of the prototype, four
\* requests for two slots, words of five letters.
SPECIFICATION Spec
CONSTANTS
  Programs = {"cache", "shared", "list", "skiplist", "reactor", "algorithms"}
  Key = {1, 2, 3, 4}
  Value = {1, 2}
  Capacity = 3
  Reader = {r1, r2}
  Writer = {w1, w2}
  Main = main
  MaxLength = 4
  Positions <- MCPositions
  Number = {1, 2, 3}
  Levels <- MCLevels
  MaxNodes = 5
  Operands <- MCOperands
  Slots = 2
  MaxRequests = 4
  MaxWord = 5
  NumberBits = 10
INVARIANTS TypeOK IteratorsExact OwnersCounted NothingLost PromisesKept AnswersRight
PROPERTIES ImplementsSpecs DestroyedOutsideLock EverythingEnds
\* The programs end, and so does a crashed one.
CHECK_DEADLOCK FALSE
