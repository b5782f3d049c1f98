SPECIFICATION Spec
CONSTANTS
  Given <- MCGiven
  NumTabs = 2
  MaxLength = 2
  MaxAsked = 1
VIEW MCView
INVARIANTS
  TextsKept
  SuggestionsSettle
