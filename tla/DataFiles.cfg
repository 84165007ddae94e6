\* Three messages of an older version and one of the user, in batches of two.
CONSTANTS
  Rows = {1, 2, 3, 4}
  OldRows = {1, 2, 3}
  BatchSize = 2
  MaxStarts = 3
  MaxFaults = 2
  NoFile = NoFile
  Torn = Torn
SPECIFICATION Spec
CHECK_DEADLOCK FALSE
INVARIANTS
  NothingLost
  
  
  
