\* The promise of buffer.h, beyond the first allocation.
SPECIFICATION Spec
CONSTANTS
  Byte = {0, 1}
  PreAlloc = 2
  Align = 2
  Width = 2
  IntLimit = 5
  Lengths = {1, 3}
  MaxPut = 6
PROPERTY ImplementsQueue
\* A failed assertion ends the program, and the puts are bounded.
CHECK_DEADLOCK FALSE
