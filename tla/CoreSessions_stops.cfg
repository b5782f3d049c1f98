SPECIFICATION FairSpec
CONSTANTS
  NumCalls = 4
  OpIds = {o1}
  NoOp = NoOp
  Asked <- Pool
  MaxConns = 1
PROPERTIES
  CancelEndsExecution
  DeadlineEndsExecution
