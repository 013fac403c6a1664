\* Three descriptors, the ports 0..2: every failure, race and wrap-around.
SPECIFICATION Spec
CONSTANTS
  MaxFd = 2
  PortMod = 3
  Starts <- MCStarts
  Spans <- MCSpans
INVARIANTS TypeOK OnlyZeroLeaks
PROPERTIES AnswersAsAsked StatusTellsFailure PortAnswered EveryCallReturns
