SPECIFICATION Spec
CONSTANTS
  NumCalls = 4
  OpIds = {o1}
  NoOp = NoOp
  Asked <- Lifecycle
  MaxConns = 1
INVARIANTS
  OpenPoolsOwned
  ProbesForgotten
PROPERTY ClosedIdsStayClosed
