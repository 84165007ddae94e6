\* Two requests, each opening a conversation of its own, one superseding the
\* other, and a stopper.
CONSTANTS
  Requests = {r1, r2}
  Convs = {}
  Stoppers = {s1}
  MaxRounds = 1
  NoReq = NoReq
  NoConv = NoConv
SPECIFICATION Spec
SYMMETRY Symmetry
CHECK_DEADLOCK FALSE
INVARIANTS
  NoOrphanGeneration
  
PROPERTY ImplementsExclusive
