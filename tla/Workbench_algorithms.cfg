SPECIFICATION Spec
CONSTANTS
  Phrases <- MCPhrases
  Openings <- MCOpenings
  MaxStrokes = 4
  Headings <- MCHeadings
  Sent <- MCSent
  Limits <- MCLimits
  DefaultMaxRows = 2
  RowsSent = 3
  Entries <- MCEntries
  Existing <- MCExisting
INVARIANTS
  SplitsAtSeparators
  SplitIsStable
  
  PreviewIsOneRead
  CapKept
  BinaryStandsInBytes
  NamesTellColumnsApart
  EditorAgreesWithCore
  EncryptedUnlessAsked
CHECK_DEADLOCK FALSE
