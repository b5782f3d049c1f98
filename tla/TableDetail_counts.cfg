SPECIFICATION DetailSpec
CONSTANTS
  NumTabs = 2
  NumScreens = 3
  MaxAsked = 3
INVARIANTS
  CountIsOwn
PROPERTY CountingEnds
