SPECIFICATION Spec
CONSTANTS
  Threads = {t1, t2}
  Default = kb
  Collections = {kb}
  Docs = {d1, d2, d3}
  Locks = {l1, l2}
  MaxInMemory = 1
  NoLock = NoLock
  NoDoc = NoDoc
  NoMeta = NoMeta
  NoIndex = NoIndex
SYMMETRY Symmetry
INVARIANTS
  IndexIsCurrent
  CountIsExact
PROPERTIES
  UnlistedIsGone
CHECK_DEADLOCK FALSE
