\* More bytes than were allocated at first: two reallocations.  Strings of 5, 7
\* and 9 bytes have negative lengths: reserve throws, either assertion fails.
SPECIFICATION Spec
CONSTANTS
  Byte = {0, 1}
  PreAlloc = 2
  Align = 2
  Width = 2
  IntLimit = 5
  Lengths = {0, 1, 3, 5, 7, 9}
  MaxPut = 8
INVARIANTS TypeOK PrefixIntact
PROPERTIES AbortsOnlyBeyond QueueUntilLost
\* A failed assertion ends the program, and the puts are bounded.
CHECK_DEADLOCK FALSE
