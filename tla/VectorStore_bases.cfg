SPECIFICATION FairSpec
CONSTANTS
  Threads = {t1, t2}
  Default = kb
  Collections = {kb, other}
  Docs = {d1}
  Locks = {l1, l2}
  MaxInMemory = 1
  NoLock = NoLock
  NoDoc = NoDoc
  NoMeta = NoMeta
  NoIndex = NoIndex
PROPERTIES
  OperationsEnd
  ImplementsKnowledgeBase
CHECK_DEADLOCK FALSE
