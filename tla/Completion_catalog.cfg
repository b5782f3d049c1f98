SPECIFICATION Spec
CONSTANTS
  NumCalls = 2
  Alphabet <- MCAlphabet
  Requests <- MCRequests
  Catalogs <- MCCatalogs
  Lowered <- MCLowered
  Keywords <- MCKeywords
  MaxSuggestions = 3
INVARIANTS
  AnsweredAsAsked
  
  ListingIsComplete
  DetailIsTheTables
PROPERTY
  CompletionsEnd
CHECK_DEADLOCK FALSE
