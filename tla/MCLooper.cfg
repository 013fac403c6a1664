\* A persistent event and one that is not.
SPECIFICATION Spec
CONSTANTS
  Event = {a, b}
  Persistent = {a}
  MaxExits = 2
INVARIANTS TypeOK NoDangling
PROPERTIES ImplementsLoop StopEndsLoop
\* A null ev_ ends the process.
CHECK_DEADLOCK FALSE
