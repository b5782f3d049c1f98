SPECIFICATION Spec
CONSTANTS
  NumOps = 3
  MaxCrashes = 1
  Profiles <- MCProfile
  Passwords = {"secret"}
  Statements = {"a"}
  Limit = 1
VIEW MCView
INVARIANTS
  FileIsWhole
  PasswordsOwned
PROPERTY
  KeepsTheBook
CHECK_DEADLOCK FALSE
