\* Two generations, of one tool round, and six messages.
CONSTANTS
  Earlier <- MCEarlier
  MaxGens = 2
  MaxRows = 6
  MaxRounds = 1
  MaxImportant = 1
  Window = 3
  SummaryMin = 3
  MergeEvery = 1
  ResetEvery = 2
SPECIFICATION Spec
INVARIANTS
  AnswersFollowCalls
  TurnsAlternate
  
  DeletedStaysEmpty
  CompressionsAreCounted
CHECK_DEADLOCK FALSE
