SPECIFICATION FairSpec
CONSTANT NumCalls = 2
PROPERTY CancelEndsQuery
