SPECIFICATION Spec
CONSTANTS
  NumCalls = 4
  OpIds = {o1, o2}
  NoOp = NoOp
  Asked <- Executing
  MaxConns = 1
INVARIANTS
  CancelledOnlyOnRequest
  ReadOnlyBatchRefused
PROPERTY StaysCancellable
