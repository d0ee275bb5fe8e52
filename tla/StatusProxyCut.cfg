CONSTANTS
  Stream <- MCStream
  Titles <- MCTitles
  MaxRead = 13
SPECIFICATION Spec
CHECK_DEADLOCK FALSE
INVARIANTS
  RoonReplaced
