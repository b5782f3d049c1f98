SPECIFICATION FairSpec
CONSTANTS
  NumJobs = 3
  NumTabs = 2
INVARIANTS
  SessionsNeverLost
  SessionsAccounted
  ResultsInTheirTab
  NewestResultsStay
  StopNamesThisConnection
PROPERTY ConnectingEnds
