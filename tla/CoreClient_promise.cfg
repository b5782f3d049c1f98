SPECIFICATION TimedSpec
CONSTANT NumCalls = 6
PROPERTIES
  KeepsPromise
  CallsComplete
