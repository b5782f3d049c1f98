SPECIFICATION FairSpec
CONSTANTS
  NumConns = 2
  NumSchemas = 2
  Preferred = 2
  MaxQueue = 3
INVARIANTS
  ListingSettles
  DescribesItsSession
PROPERTY SpinnerEnds
CHECK_DEADLOCK FALSE
