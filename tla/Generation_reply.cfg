\* One reply, several tool rounds, and two threads that may stop it.
CONSTANTS
  Requests = {r1}
  Convs = {c1}
  Stoppers = {s1, s2}
  MaxRounds = 3
  NoReq = NoReq
  NoConv = NoConv
SPECIFICATION FairSpec
CHECK_DEADLOCK FALSE
INVARIANTS
  
  UninterruptedReplySavedOnce
  NoSilentEnd
 
