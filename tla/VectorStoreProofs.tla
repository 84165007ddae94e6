-------------------------- MODULE VectorStoreProofs --------------------------
(***************************************************************************)
(* Proofs about the knowledge bases, for every number of threads, bases and  *)
(* documents: type correctness, what the lock of a collection excludes, the  *)
(* silence of the caches after Close, the refinement of KnowledgeBase, and,  *)
(* for the base that is never deleted, that its count is exact, its caches   *)
(* agree with the database and what leaves its list is gone.                 *)
(***************************************************************************)
EXTENDS VectorStore, FiniteSetTheorems, TLAPS

(* TypeOK in two halves: what all threads share, and what each has. *)
SharedOK ==
  /\ meta \in [Collections -> Metas \union {NoMeta}]
  /\ vectors \in [Collections -> SUBSET Docs]
  /\ chunks \in [Collections -> SUBSET Docs]
  /\ listed \in [Collections -> SUBSET Docs]
  /\ used \in SUBSET Docs
  /\ store \in Stages
  /\ lockOf \in [Collections -> Locks \union {NoLock}]
  /\ index \in [Collections -> Indexes \union {NoIndex}]
  /\ bm25 \in [Collections -> SUBSET Docs]
  /\ unguarded \in BOOLEAN

ThreadsOK ==
  /\ pc \in [Threads -> Phases]
  /\ op \in [Threads -> Operations]
  /\ base \in [Threads -> Collections]
  /\ doc \in [Threads -> Docs \union {NoDoc}]
  /\ myLock \in [Threads -> Locks \union {NoLock}]
  /\ attached \in [Threads -> BOOLEAN]
  /\ known \in [Threads -> Metas \union {NoMeta}]

(* What a thread has in hand at each point of its operation. *)
PhaseInvariant ==
  \A t \in Threads :
    /\ pc[t] = "idle" =>
         op[t] = "none" /\ ~attached[t] /\ myLock[t] = NoLock
    /\ pc[t] \in {"write", "meta", "vectors", "await", "keywords", "register",
                  "rollback"} => op[t] = "ingest"
    /\ pc[t] \in {"remove", "forget", "prune", "unlist"} => op[t] = "delete"
    /\ pc[t] \in {"clear", "drop"} => op[t] = "drop" /\ base[t] # Default
    /\ op[t] \in {"ingest", "delete"} => doc[t] \in Docs
    /\ pc[t] = "vectors" => known[t] # NoMeta

(* Whoever holds the index of a base that is still in use finds it there. *)
AttachedInvariant ==
  \A t \in Threads : attached[t] => index[base[t]] # NoIndex

StateInvariant ==
  SharedOK /\ ThreadsOK /\ PhaseInvariant /\ AttachedInvariant

(* Leaving an operation, a thread keeps nothing; nobody else notices. *)
LEMMA LeaveStep ==
  ASSUME ThreadsOK, PhaseInvariant, NEW t \in Threads, Leave(t)
  PROVE  /\ ThreadsOK' /\ PhaseInvariant'
         /\ pc'[t] = "idle" /\ op'[t] = "none" /\ ~attached'[t] /\ myLock'[t] = NoLock
         /\ \A u \in Threads \ {t} :
               /\ pc'[u] = pc[u] /\ op'[u] = op[u] /\ base'[u] = base[u]
               /\ doc'[u] = doc[u] /\ myLock'[u] = myLock[u]
               /\ attached'[u] = attached[u]
<1> USE VectorStoreAssumption DEF Leave, Goto, ThreadsOK, Phases, Guarded, Operations
<1>1. ThreadsOK'
  OBVIOUS
<1>2. pc'[t] = "idle" /\ op'[t] = "none" /\ ~attached'[t] /\ myLock'[t] = NoLock
  OBVIOUS
<1>3. \A u \in Threads \ {t} :
        /\ pc'[u] = pc[u] /\ op'[u] = op[u] /\ base'[u] = base[u]
        /\ doc'[u] = doc[u] /\ myLock'[u] = myLock[u] /\ attached'[u] = attached[u]
        /\ known'[u] = known[u]
  OBVIOUS
<1>4. PhaseInvariant'
  BY <1>2, <1>3 DEF PhaseInvariant
<1>5. QED
  BY <1>1, <1>2, <1>3, <1>4

(* Counts of documents, in an index just made, filled, or emptied. *)
LEMMA CountsOK ==
  /\ Nothing \in [Docs -> Nat]
  /\ \A D : Once(D) \in [Docs -> Nat]
BY DEF Nothing, Once

(* What may be assigned to the fields of an index and of the metadata. *)
LEMMA FieldsOK ==
  /\ \A i \in Indexes : \A f \in [Docs -> Nat] :
        /\ [i EXCEPT !.ids = f] \in Indexes
        /\ [i EXCEPT !.ready = TRUE, !.ids = f] \in Indexes
  /\ \A m \in Metas : \A n \in Nat :
        [m EXCEPT !.count = n] \in Metas /\ [m EXCEPT !.dim = TRUE] \in Metas
  /\ \A i \in Indexes : i.ids \in [Docs -> Nat] /\ i.dim \in BOOLEAN
  /\ \A m \in Metas : m.count \in Nat /\ m.dim \in BOOLEAN
BY DEF Indexes, Metas

(* An index whose content is changed stays an index, and stays in the map. *)
LEMMA IndexWrite ==
  ASSUME SharedOK, NEW c \in Collections, NEW f \in [Docs -> Nat],
         index[c] # NoIndex,
         \/ index' = [index EXCEPT ![c].ids = f]
         \/ index' = [index EXCEPT ![c].ready = TRUE, ![c].ids = f]
  PROVE  /\ index' \in [Collections -> Indexes \union {NoIndex}]
         /\ \A b \in Collections : index'[b] = NoIndex <=> index[b] = NoIndex
<1>1. index \in [Collections -> Indexes \union {NoIndex}] /\ index[c] \in Indexes
  BY DEF SharedOK
<1>2. PICK i \in Indexes : index' = [index EXCEPT ![c] = i]
  BY <1>1, FieldsOK
<1>3. QED
  BY <1>1, <1>2, VectorStoreAssumption

(* Every step keeps the types and what each thread has in hand. *)
LEMMA StateStep == StateInvariant /\ [Next]_vars => StateInvariant'
<1> SUFFICES ASSUME StateInvariant, [Next]_vars PROVE StateInvariant'
  OBVIOUS
<1> USE VectorStoreAssumption
     DEF StateInvariant, SharedOK, ThreadsOK, PhaseInvariant, AttachedInvariant,
         Phases, Guarded, Operations, Stages
<1>1. ASSUME NEW t \in Threads, NEW c \in Collections, NEW d \in Docs, IngestStart(t, c, d)
      PROVE  StateInvariant'
  BY <1>1 DEF Metas, IngestStart, Goto, Enter, DbUp, db, maps, locals
<1>2. ASSUME NEW t \in Threads, NEW c \in Collections, NEW d \in Docs, DeleteStart(t, c, d)
      PROVE  StateInvariant'
  BY <1>2 DEF DeleteStart, Goto, Enter, db, maps, locals
<1>3. ASSUME NEW t \in Threads, NEW c \in Collections, DropStart(t, c)
      PROVE  StateInvariant'
  BY <1>3 DEF DropStart, Goto, Enter, db, maps, locals
<1>4. ASSUME NEW t \in Threads, NEW c \in Collections, SearchStart(t, c)
      PROVE  StateInvariant'
  BY <1>4 DEF SearchStart, Goto, Enter, db, maps, locals
<1>5. ASSUME NEW t \in Threads, GetLock(t) PROVE StateInvariant'
  <2>1. /\ pc' = [pc EXCEPT ![t] = "lock"] /\ pc[t] = "getlock"
        /\ UNCHANGED <<db, store, index, bm25, op, base, doc, attached, known>>
    BY <1>5 DEF GetLock, Goto
  <2>2. /\ lockOf' \in [Collections -> Locks \union {NoLock}]
        /\ myLock' \in [Threads -> Locks \union {NoLock}]
        /\ \A u \in Threads \ {t} : myLock'[u] = myLock[u]
    BY <1>5 DEF GetLock
  <2>3. unguarded' \in BOOLEAN
    <4>1. unguarded' = unguarded \/ unguarded' = (unguarded \/ DbUp)
      BY <1>5 DEF GetLock
    <4>2. QED
      BY <4>1, Zenon
  <2>4. SharedOK' /\ ThreadsOK'
    BY <2>1, <2>2, <2>3 DEF db
  <2>5. PhaseInvariant' /\ AttachedInvariant'
    BY <2>1, <2>2 DEF db
  <2>6. QED
    BY <2>4, <2>5
<1>6. ASSUME NEW t \in Threads, Lock(t) PROVE StateInvariant'
  BY <1>6 DEF Lock, Goto, Holds, db, maps, locals
<1>7. ASSUME NEW t \in Threads, WriteChunks(t) PROVE StateInvariant'
  <2>1. SharedOK'
    BY <1>7 DEF WriteChunks, Goto, DbUp, db, maps, locals
  <2>2. ThreadsOK' /\ PhaseInvariant'
    BY <1>7, LeaveStep DEF WriteChunks, Goto, DbUp, db, maps, locals
  <2>3. AttachedInvariant'
    BY <1>7, LeaveStep DEF WriteChunks, Goto, DbUp, db, maps, locals
  <2>4. QED
    BY <2>1, <2>2, <2>3
<1>8. ASSUME NEW t \in Threads, ReadMeta(t) PROVE StateInvariant'
  <2>1. meta' \in [Collections -> Metas \union {NoMeta}]
    <4>1. CASE meta' = meta
      BY <4>1
    <4>2. CASE /\ meta[base[t]] # NoMeta
               /\ meta' = [meta EXCEPT ![base[t]] = [@ EXCEPT !.dim = TRUE]]
      BY <4>2, FieldsOK
    <4>3. QED
      BY <1>8, <4>1, <4>2 DEF ReadMeta
  <2>2. SharedOK'
    BY <1>8, <2>1 DEF ReadMeta, maps
  <2>3. ThreadsOK'
    BY <1>8 DEF ReadMeta, Goto
  <2>4. PhaseInvariant' /\ AttachedInvariant'
    BY <1>8, <2>3 DEF ReadMeta, Goto, maps
  <2>5. QED
    BY <2>2, <2>3, <2>4
<1>9. ASSUME NEW t \in Threads, WriteVectors(t) PROVE StateInvariant'
  <2>1. meta' \in [Collections -> Metas \union {NoMeta}]
    <4>1. CASE meta' = meta
      BY <4>1
    <4>2. CASE meta' = [meta EXCEPT ![base[t]] = [known[t] EXCEPT !.count = @ + 1]]
      <5>1. known[t] \in Metas
        BY <1>9 DEF WriteVectors
      <5>2. known[t].count + 1 \in Nat
        <6>1. known[t].count \in Nat
          BY <5>1, FieldsOK
        <6>2. QED
          BY <6>1
      <5>3. [known[t] EXCEPT !.count = known[t].count + 1] \in Metas
        BY <5>1, <5>2, FieldsOK
      <5>4. QED
        BY <4>2, <5>3
    <4>3. QED
      BY <1>9, <4>1, <4>2 DEF WriteVectors
  <2>2. vectors' \in [Collections -> SUBSET Docs]
    BY <1>9 DEF WriteVectors
  <2>3. SharedOK'
    BY <1>9, <2>1, <2>2 DEF WriteVectors, maps
  <2>4. ThreadsOK'
    BY <1>9 DEF WriteVectors, Goto
  <2>5. PhaseInvariant' /\ AttachedInvariant'
    BY <1>9, <2>4 DEF WriteVectors, Goto, maps
  <2>6. QED
    BY <2>3, <2>4, <2>5
<1>10. ASSUME NEW t \in Threads, InsertVectors(t) PROVE StateInvariant'
  <2>1. /\ index' \in [Collections -> Indexes \union {NoIndex}]
        /\ \A b \in Collections : index'[b] = NoIndex <=> index[b] = NoIndex
    <4>1. CASE index' = index
      BY <4>1
    <4>2. CASE attached[t] /\ index[base[t]].kind = "mem"
      <5>1. index[base[t]] \in Indexes /\ doc[t] \in Docs
        BY <1>10, <4>2 DEF InsertVectors
      <5> DEFINE ids == index[base[t]].ids
      <5>2. ids \in [Docs -> Nat]
        BY <5>1, FieldsOK
      <5>3. [ids EXCEPT ![doc[t]] = 1 + @] \in [Docs -> Nat]
        BY <5>1, <5>2
      <5>4. index' = [index EXCEPT ![base[t]].ids = [ids EXCEPT ![doc[t]] = 1 + @]]
        BY <1>10, <4>2 DEF InsertVectors
      <5>5. QED
        BY <4>2, <5>3, <5>4, IndexWrite
    <4>3. CASE attached[t] /\ index[base[t]].kind # "mem"
      <5>1. index' = [index EXCEPT ![base[t]].ids = Nothing]
        BY <1>10, <4>3 DEF InsertVectors
      <5>2. QED
        BY <4>3, <5>1, CountsOK, IndexWrite
    <4>4. QED
      BY <1>10, <4>1, <4>2, <4>3 DEF InsertVectors
  <2>2. SharedOK'
    BY <1>10, <2>1 DEF InsertVectors, db
  <2>3. ThreadsOK'
    BY <1>10 DEF InsertVectors, Goto, locals
  <2>4. PhaseInvariant'
    BY <1>10, <2>3 DEF InsertVectors, Goto, locals
  <2>5. AttachedInvariant'
    BY <1>10, <2>1 DEF InsertVectors, locals
  <2>6. QED
    BY <2>2, <2>3, <2>4, <2>5
<1>11. ASSUME NEW t \in Threads, AddKeywords(t) PROVE StateInvariant'
  <2>1. bm25' \in [Collections -> SUBSET Docs]
    BY <1>11 DEF AddKeywords
  <2>2. SharedOK'
    BY <1>11, <2>1 DEF AddKeywords, db
  <2>3. ThreadsOK'
    BY <1>11 DEF AddKeywords, Goto, locals
  <2>4. PhaseInvariant' /\ AttachedInvariant'
    BY <1>11, <2>3 DEF AddKeywords, Goto, locals
  <2>5. QED
    BY <2>2, <2>3, <2>4
<1>12. ASSUME NEW t \in Threads, Register(t) PROVE StateInvariant'
  BY <1>12 DEF Register, Goto, Leave, DbUp, db, maps, locals
<1>13. ASSUME NEW t \in Threads, Rollback(t) PROVE StateInvariant'
  <2>1. SharedOK'
    BY <1>13 DEF Rollback, Goto, DbUp, db, maps, locals
  <2>2. ThreadsOK' /\ PhaseInvariant'
    BY <1>13, LeaveStep DEF Rollback, Goto, DbUp, db, maps, locals
  <2>3. AttachedInvariant'
    BY <1>13, LeaveStep DEF Rollback, Goto, DbUp, db, maps, locals
  <2>4. QED
    BY <2>1, <2>2, <2>3
<1>14. ASSUME NEW t \in Threads, GetIndex(t) PROVE StateInvariant'
  <2> DEFINE New(large) == [kind |-> IF large THEN "disk" ELSE "mem",
                            dim |-> meta[base[t]].dim, ready |-> large, ids |-> Nothing]
  <2>1. CASE /\ index' = index
             /\ index[base[t]] # NoIndex
             /\ attached' = [attached EXCEPT ![t] = TRUE]
             /\ UNCHANGED <<op, base, doc, myLock, known>>
             /\ WithIndex(t)
    <4>1. SharedOK'
      BY <1>14, <2>1 DEF GetIndex, db
    <4>2. ThreadsOK'
      BY <2>1 DEF WithIndex, Goto
    <4>3. PhaseInvariant' /\ AttachedInvariant'
      BY <1>14, <2>1, <4>2 DEF GetIndex, WithIndex, Goto
    <4>4. QED
      BY <4>1, <4>2, <4>3
  <2>2. CASE /\ meta[base[t]] # NoMeta
             /\ attached' = [attached EXCEPT ![t] = TRUE]
             /\ UNCHANGED <<op, base, doc, myLock, known>>
             /\ \/ index' = [index EXCEPT ![base[t]] = New(TRUE)] /\ WithIndex(t)
                \/ index' = [index EXCEPT ![base[t]] = New(FALSE)] /\ Goto(t, "build")
    <4>1. meta[base[t]].dim \in BOOLEAN
      BY <2>2, FieldsOK
    <4>2. New(TRUE) \in Indexes /\ New(FALSE) \in Indexes
      BY <4>1, CountsOK DEF Indexes
    <4>3. /\ index' \in [Collections -> Indexes \union {NoIndex}]
          /\ \A b \in Collections : index'[b] = NoIndex => index[b] = NoIndex /\ b # base[t]
      <5>1. PICK i \in Indexes : index' = [index EXCEPT ![base[t]] = i]
        BY <2>2, <4>2
      <5>2. QED
        BY <5>1
    <4>4. SharedOK'
      BY <1>14, <4>3 DEF GetIndex, db
    <4>5. ThreadsOK'
      BY <2>2 DEF WithIndex, Goto
    <4>6. PhaseInvariant'
      BY <1>14, <2>2, <4>5 DEF GetIndex, WithIndex, Goto
    <4>7. AttachedInvariant'
      BY <2>2, <4>3
    <4>8. QED
      BY <4>4, <4>5, <4>6, <4>7
  <2>3. CASE WithoutIndex(t) /\ UNCHANGED index
    <4>1. SharedOK'
      BY <1>14, <2>3 DEF GetIndex, db
    <4>2. CASE Leave(t)
      BY <2>3, <4>1, <4>2, LeaveStep
    <4>3. CASE op[t] = "ingest" /\ Goto(t, "rollback") /\ UNCHANGED locals
      <5>1. ThreadsOK'
        BY <4>3 DEF Goto, locals
      <5>2. PhaseInvariant' /\ AttachedInvariant'
        BY <2>3, <4>3, <5>1 DEF Goto, locals
      <5>3. QED
        BY <4>1, <5>1, <5>2
    <4>4. QED
      BY <2>3, <4>2, <4>3 DEF WithoutIndex
  <2>4. CASE meta[base[t]].count > MaxInMemory
    BY <1>14, <2>1, <2>2, <2>3, <2>4 DEF GetIndex
  <2>5. CASE ~(meta[base[t]].count > MaxInMemory)
    BY <1>14, <2>1, <2>2, <2>3, <2>5 DEF GetIndex
  <2>6. QED
    BY <2>4, <2>5
<1>15. ASSUME NEW t \in Threads, BuildIndex(t) PROVE StateInvariant'
  <2>1. CASE /\ index' = IF ~attached[t] THEN index ELSE
                    [index EXCEPT ![base[t]].ready = TRUE,
                      ![base[t]].ids = Once(IF index[base[t]].dim THEN vectors[base[t]] ELSE {})]
             /\ WithIndex(t)
             /\ UNCHANGED locals
    <4>1. /\ index' \in [Collections -> Indexes \union {NoIndex}]
          /\ \A b \in Collections : index'[b] = NoIndex <=> index[b] = NoIndex
      BY <2>1, CountsOK, IndexWrite
    <4>2. SharedOK'
      BY <1>15, <4>1 DEF BuildIndex, db
    <4>3. ThreadsOK'
      BY <2>1 DEF WithIndex, Goto, locals
    <4>4. PhaseInvariant' /\ AttachedInvariant'
      BY <1>15, <2>1, <4>1, <4>3 DEF BuildIndex, WithIndex, Goto, locals
    <4>5. QED
      BY <4>2, <4>3, <4>4
  <2>2. CASE /\ index' = [index EXCEPT ![base[t]] = NoIndex]
             /\ attached' = Detached(base[t])
             /\ Goto(t, IF op[t] = "ingest" THEN "rollback" ELSE "scan")
             /\ UNCHANGED <<op, base, doc, myLock, known>>
    <4>1. SharedOK'
      BY <1>15, <2>2 DEF BuildIndex, db
    <4>2. \A u \in Threads : attached'[u] = (attached[u] /\ base[u] # base[t])
      BY <2>2 DEF Detached
    <4>3. attached' \in [Threads -> BOOLEAN]
      BY <2>2 DEF Detached
    <4>4. ThreadsOK'
      BY <2>2, <4>3 DEF Goto
    <4>5. PhaseInvariant'
      BY <1>15, <2>2, <4>2, <4>4 DEF BuildIndex, Goto
    <4>6. AttachedInvariant'
      BY <2>2, <4>2
    <4>7. QED
      BY <4>1, <4>4, <4>5, <4>6
  <2>3. QED
    BY <1>15, <2>1, <2>2 DEF BuildIndex
<1>16. ASSUME NEW t \in Threads, Scan(t) PROVE StateInvariant'
  <2>1. /\ index' \in [Collections -> Indexes \union {NoIndex}]
        /\ \A b \in Collections : index'[b] = NoIndex <=> index[b] = NoIndex
    <4>1. CASE index' = index
      BY <4>1
    <4>2. CASE /\ attached[t]
               /\ \E D : index' = [index EXCEPT ![base[t]].ids = Once(D)]
      <5>1. PICK D : index' = [index EXCEPT ![base[t]].ids = Once(D)]
        BY <4>2
      <5>2. QED
        BY <4>2, <5>1, CountsOK, IndexWrite
    <4>3. QED
      BY <1>16, <4>1, <4>2 DEF Scan
  <2>2. SharedOK'
    BY <1>16, <2>1 DEF Scan, db
  <2>3. ThreadsOK' /\ PhaseInvariant'
    BY <1>16, LeaveStep DEF Scan
  <2>4. AttachedInvariant'
    BY <1>16, <2>1, LeaveStep DEF Scan
  <2>5. QED
    BY <2>2, <2>3, <2>4
<1>17. ASSUME NEW t \in Threads, RemoveDocument(t) PROVE StateInvariant'
  <2>1. CASE UNCHANGED <<vectors, chunks, meta>> /\ Leave(t)
    <4>1. SharedOK'
      BY <1>17, <2>1 DEF RemoveDocument, maps
    <4>2. AttachedInvariant'
      BY <1>17, <2>1, LeaveStep DEF RemoveDocument, maps
    <4>3. QED
      BY <2>1, <4>1, <4>2, LeaveStep
  <2>2. CASE /\ meta[base[t]] # NoMeta
             /\ vectors' = [vectors EXCEPT ![base[t]] = @ \ {doc[t]}]
             /\ chunks' = [chunks EXCEPT ![base[t]] = @ \ {doc[t]}]
             /\ \E n \in Nat : meta' = [meta EXCEPT ![base[t]].count = n]
             /\ pc' \in {[pc EXCEPT ![t] = "prune"], [pc EXCEPT ![t] = "forget"]}
             /\ UNCHANGED locals
    <4>1. meta' \in [Collections -> Metas \union {NoMeta}]
      <5>1. PICK n \in Nat : meta' = [meta EXCEPT ![base[t]].count = n]
        BY <2>2
      <5>2. [meta[base[t]] EXCEPT !.count = n] \in Metas
        BY <2>2, FieldsOK
      <5>3. QED
        BY <5>1, <5>2
    <4>2. vectors' \in [Collections -> SUBSET Docs] /\ chunks' \in [Collections -> SUBSET Docs]
      BY <2>2
    <4>3. SharedOK'
      BY <1>17, <4>1, <4>2 DEF RemoveDocument, maps
    <4>4. ThreadsOK'
      BY <2>2 DEF locals
    <4>5. PhaseInvariant' /\ AttachedInvariant'
      BY <1>17, <2>2, <4>4 DEF RemoveDocument, locals, maps
    <4>6. QED
      BY <4>3, <4>4, <4>5
  <2> DEFINE gone == vectors[base[t]] \intersect {doc[t]}
             old == meta[base[t]].count
             new == IF gone = {} \/ old = 0 THEN old ELSE old - 1
  <2>3. meta[base[t]] # NoMeta => new \in Nat
    <4>1. meta[base[t]] # NoMeta => old \in Nat
      BY FieldsOK
    <4>2. QED
      BY <4>1
  <2>4. ~Leave(t) => /\ meta[base[t]] # NoMeta
                     /\ meta' = [meta EXCEPT ![base[t]].count = new]
    BY <1>17 DEF RemoveDocument
  <2>5. QED
    BY <1>17, <2>1, <2>2, <2>3, <2>4 DEF RemoveDocument, Goto
<1>18. ASSUME NEW t \in Threads, ForgetDocument(t) PROVE StateInvariant'
  <2>1. /\ index' \in [Collections -> Indexes \union {NoIndex}]
        /\ \A b \in Collections : index'[b] = NoIndex <=> index[b] = NoIndex
    <4>1. CASE index[base[t]] = NoIndex
      BY <1>18, <4>1 DEF ForgetDocument
    <4>2. CASE index[base[t]] # NoIndex
      <5> DEFINE f == IF index[base[t]].kind = "mem"
                        THEN [index[base[t]].ids EXCEPT ![doc[t]] = 0] ELSE Nothing
      <5>1. index[base[t]] \in Indexes
        BY <4>2
      <5>2. f \in [Docs -> Nat]
        BY <5>1, CountsOK, FieldsOK
      <5>3. index' = [index EXCEPT ![base[t]].ids = f]
        BY <1>18, <4>2 DEF ForgetDocument
      <5>4. QED
        BY <4>2, <5>2, <5>3, IndexWrite
    <4>3. QED
      BY <4>1, <4>2
  <2>2. bm25' \in [Collections -> SUBSET Docs]
    BY <1>18 DEF ForgetDocument
  <2>3. SharedOK'
    BY <1>18, <2>1, <2>2 DEF ForgetDocument, db
  <2>4. ThreadsOK'
    BY <1>18 DEF ForgetDocument, Goto
  <2>5. PhaseInvariant' /\ AttachedInvariant'
    BY <1>18, <2>1, <2>4 DEF ForgetDocument, Goto
  <2>6. QED
    BY <2>3, <2>4, <2>5
<1>19. ASSUME NEW t \in Threads, Unlist(t) PROVE StateInvariant'
  BY <1>19 DEF Unlist, Goto, Leave, DbUp, db, maps, locals
<1>20. ASSUME NEW t \in Threads, ClearCaches(t) PROVE StateInvariant'
  BY <1>20 DEF ClearCaches, Goto, Detached, db, maps, locals
<1>21. ASSUME NEW t \in Threads, DropKeys(t) PROVE StateInvariant'
  BY <1>21 DEF DropKeys, Goto, Leave, DbUp, db, maps, locals
<1>22. ASSUME NEW c \in Collections, CreateBase(c) PROVE StateInvariant'
  BY <1>22 DEF Metas, CreateBase, DbUp, db, maps, locals
<1>23. CASE CloseFlag
  BY <1>23 DEF CloseFlag, db, maps, locals
<1>24. CASE CloseMaps
  BY <1>24 DEF CloseMaps, db, maps, locals
<1>25. CASE CloseDb
  BY <1>25 DEF CloseDb, db, maps, locals
<1>26. CASE Restart
  BY <1>26 DEF Restart, db, maps, locals
<1>27. CASE UNCHANGED vars
  BY <1>27 DEF vars, db, maps, locals
<1>28. QED
  BY <1>1, <1>2, <1>3, <1>4, <1>5, <1>6, <1>7, <1>8, <1>9, <1>10,
     <1>11, <1>12, <1>13, <1>14, <1>15, <1>16, <1>17, <1>18, <1>19,
     <1>20, <1>21, <1>22, <1>23, <1>24, <1>25, <1>26, <1>27 DEF Next,
     Starts, Steps

(* The store is empty at first, and all threads are idle. *)
LEMMA InitialState == Init => StateInvariant
<1> SUFFICES ASSUME Init PROVE StateInvariant
  OBVIOUS
<1>1. SharedOK
  BY VectorStoreAssumption DEF Init, SharedOK, Stages
<1>2. ThreadsOK
  BY VectorStoreAssumption DEF Init, ThreadsOK, Phases, Operations
<1>3. PhaseInvariant /\ AttachedInvariant
  BY <1>2 DEF Init, PhaseInvariant, AttachedInvariant
<1>4. QED
  BY <1>1, <1>2, <1>3 DEF StateInvariant

(* Type correctness. *)
THEOREM TypeCorrect == Spec => []TypeOK
<1>1. StateInvariant => TypeOK
  BY DEF StateInvariant, SharedOK, ThreadsOK, TypeOK
<1>2. QED
  BY <1>1, InitialState, StateStep, PTL DEF Spec

-----------------------------------------------------------------------------
(* The lock of a collection. *)

(* Who leaves an operation gives up the mutex and disturbs nobody.             *)
LEMMA LeaveLock ==
  ASSUME StateInvariant, LockInvariant, NEW t \in Threads, Leave(t),
         UNCHANGED <<lockOf, store>>
  PROVE  LockInvariant'
<1>1. ThreadsOK /\ PhaseInvariant
  BY DEF StateInvariant
<1>2. /\ pc'[t] = "idle" /\ myLock'[t] = NoLock
      /\ \A u \in Threads \ {t} :
            pc'[u] = pc[u] /\ base'[u] = base[u] /\ myLock'[u] = myLock[u]
  BY <1>1, LeaveStep
<1>3. QED
  BY <1>2 DEF LockInvariant, Holds, Guarded

(* A mutex changes hands only in GetLock and when an operation is left; a      *)
(* thread comes under it only through Lock.                                   *)
LEMMA LockStep == StateInvariant /\ LockInvariant /\ [Next]_vars => LockInvariant'
<1> SUFFICES ASSUME StateInvariant, LockInvariant, [Next]_vars PROVE LockInvariant'
  OBVIOUS
<1>t. SharedOK /\ ThreadsOK /\ PhaseInvariant
  BY DEF StateInvariant
<1> USE <1>t, VectorStoreAssumption
     DEF SharedOK, ThreadsOK, PhaseInvariant, LockInvariant, Holds, Guarded
<1>1. ASSUME NEW t \in Threads, NEW c \in Collections, NEW d \in Docs,
   IngestStart(t, c, d) PROVE LockInvariant'
  BY <1>1 DEF IngestStart, Goto, Enter, DbUp, db, maps, locals
<1>2. ASSUME NEW t \in Threads, NEW c \in Collections, NEW d \in Docs,
   DeleteStart(t, c, d) PROVE LockInvariant'
  BY <1>2 DEF DeleteStart, Goto, Enter, db, maps, locals
<1>3. ASSUME NEW t \in Threads, NEW c \in Collections, DropStart(t, c) PROVE
   LockInvariant'
  BY <1>3 DEF DropStart, Goto, Enter, db, maps, locals
<1>4. ASSUME NEW t \in Threads, NEW c \in Collections, SearchStart(t, c)
   PROVE LockInvariant'
  BY <1>4 DEF SearchStart, Goto, Enter, db, maps, locals
<1>5. ASSUME NEW t \in Threads, GetLock(t) PROVE LockInvariant'
  BY <1>5 DEF GetLock, Goto, DbUp, Unused, db, maps, locals
<1>6. ASSUME NEW t \in Threads, Lock(t) PROVE LockInvariant'
  BY <1>6 DEF Lock, Goto, Holds, db, maps, locals
<1>7. ASSUME NEW t \in Threads, WriteChunks(t) PROVE LockInvariant'
  BY LeaveLock, <1>7 DEF WriteChunks, Goto, DbUp, db, maps, locals
<1>8. ASSUME NEW t \in Threads, ReadMeta(t) PROVE LockInvariant'
  BY <1>8 DEF ReadMeta, Goto, DbUp, db, maps, locals
<1>9. ASSUME NEW t \in Threads, WriteVectors(t) PROVE LockInvariant'
  BY <1>9 DEF WriteVectors, Goto, DbUp, db, maps, locals
<1>10. ASSUME NEW t \in Threads, InsertVectors(t) PROVE LockInvariant'
  BY <1>10 DEF InsertVectors, Goto, Nothing, db, maps, locals
<1>11. ASSUME NEW t \in Threads, AddKeywords(t) PROVE LockInvariant'
  BY <1>11 DEF AddKeywords, Goto, DbUp, db, maps, locals
<1>12. ASSUME NEW t \in Threads, Register(t) PROVE LockInvariant'
  BY LeaveLock, <1>12 DEF Register, Goto, DbUp, db, maps, locals
<1>13. ASSUME NEW t \in Threads, Rollback(t) PROVE LockInvariant'
  BY LeaveLock, <1>13 DEF Rollback, Goto, DbUp, db, maps, locals
<1>14. ASSUME NEW t \in Threads, GetIndex(t) PROVE LockInvariant'
  BY LeaveLock, <1>14 DEF GetIndex, Goto, WithIndex, WithoutIndex,
     Nothing, db, maps, locals
<1>15. ASSUME NEW t \in Threads, BuildIndex(t) PROVE LockInvariant'
  BY <1>15 DEF BuildIndex, Goto, DbUp, WithIndex, Detached, Once, db,
     maps, locals
<1>16. ASSUME NEW t \in Threads, Scan(t) PROVE LockInvariant'
  BY LeaveLock, <1>16 DEF Scan, Goto, DbUp, Once, Found, db, maps, locals
<1>17. ASSUME NEW t \in Threads, RemoveDocument(t) PROVE LockInvariant'
  BY LeaveLock, <1>17 DEF RemoveDocument, Goto, DbUp, db, maps, locals
<1>18. ASSUME NEW t \in Threads, ForgetDocument(t) PROVE LockInvariant'
  BY <1>18 DEF ForgetDocument, Goto, Nothing, db, maps, locals
<1>19. ASSUME NEW t \in Threads, Unlist(t) PROVE LockInvariant'
  BY LeaveLock, <1>19 DEF Unlist, Goto, DbUp, db, maps, locals
<1>20. ASSUME NEW t \in Threads, ClearCaches(t) PROVE LockInvariant'
  BY <1>20 DEF ClearCaches, Goto, Detached, db, maps, locals
<1>21. ASSUME NEW t \in Threads, DropKeys(t) PROVE LockInvariant'
  BY LeaveLock, <1>21 DEF DropKeys, Goto, DbUp, db, maps, locals
<1>22. ASSUME NEW c \in Collections, CreateBase(c) PROVE LockInvariant'
  BY <1>22 DEF CreateBase, DbUp, db, maps, locals
<1>23. CASE CloseFlag
  BY <1>23 DEF CloseFlag, db, maps, locals
<1>24. CASE CloseMaps
  BY <1>24 DEF CloseMaps, db, maps, locals
<1>25. CASE CloseDb
  BY <1>25 DEF CloseDb, db, maps, locals
<1>26. CASE Restart
  BY <1>26 DEF Restart, db, maps, locals
<1>27. CASE UNCHANGED vars
  BY <1>27 DEF vars, db, maps, locals
<1>28. QED
  BY <1>1, <1>2, <1>3, <1>4, <1>5, <1>6, <1>7, <1>8, <1>9, <1>10, <1>11,
     <1>12, <1>13, <1>14, <1>15, <1>16, <1>17, <1>18, <1>19, <1>20, <1>21,
     <1>22, <1>23, <1>24, <1>25, <1>26, <1>27 DEF Next, Starts, Steps

(* Two threads never work on a base under the same mutex, and the base that    *)
(* is never deleted has one mutex until Close takes the map away.             *)
THEOREM LockInvariantHolds == Spec => []LockInvariant
<1>1. Init => StateInvariant /\ LockInvariant
  BY InitialState DEF Init, LockInvariant, Guarded
<1>2. QED
  BY <1>1, StateStep, LockStep, PTL DEF Spec

-----------------------------------------------------------------------------
(* After Close. *)

(* The maps are nil from the moment Close has emptied them.                   *)
MapsNil ==
  /\ lockOf = [c \in Collections |-> NoLock]
  /\ index = [c \in Collections |-> NoIndex]
  /\ bm25 = [c \in Collections |-> {}]

ClosedInvariant == store \in {"emptied", "closed"} => MapsNil

(* Once they are, no step writes to them, but those of the next process.      *)
LEMMA NilStep ==
  StateInvariant /\ ClosedInvariant /\ [Next]_vars =>
    (store \in {"emptied", "closed"} /\ store' # "open" => maps' = maps)
<1> SUFFICES ASSUME StateInvariant, ClosedInvariant, [Next]_vars,
                    store \in {"emptied", "closed"}, store' # "open"
             PROVE  maps' = maps
  OBVIOUS
<1>t. /\ ThreadsOK /\ PhaseInvariant /\ MapsNil /\ store \in Stages
      /\ \A t \in Threads : ~attached[t]
  BY DEF StateInvariant, SharedOK, ThreadsOK, AttachedInvariant, ClosedInvariant, MapsNil
<1> USE <1>t DEF ThreadsOK, MapsNil
<1>1. ASSUME NEW t \in Threads, NEW c \in Collections, NEW d \in Docs,
   IngestStart(t, c, d) PROVE maps' = maps
  BY <1>1 DEF IngestStart, Goto, Enter, DbUp, db, maps, locals
<1>2. ASSUME NEW t \in Threads, NEW c \in Collections, NEW d \in Docs,
   DeleteStart(t, c, d) PROVE maps' = maps
  BY <1>2 DEF DeleteStart, Goto, Enter, db, maps, locals
<1>3. ASSUME NEW t \in Threads, NEW c \in Collections, DropStart(t, c) PROVE
   maps' = maps
  BY <1>3 DEF DropStart, Goto, Enter, db, maps, locals
<1>4. ASSUME NEW t \in Threads, NEW c \in Collections, SearchStart(t, c)
   PROVE maps' = maps
  BY <1>4 DEF SearchStart, Goto, Enter, db, maps, locals
<1>5. ASSUME NEW t \in Threads, GetLock(t) PROVE maps' = maps
  BY <1>5 DEF GetLock, Goto, DbUp, Unused, db, maps, locals
<1>6. ASSUME NEW t \in Threads, Lock(t) PROVE maps' = maps
  BY <1>6 DEF Lock, Goto, Holds, db, maps, locals
<1>7. ASSUME NEW t \in Threads, WriteChunks(t) PROVE maps' = maps
  BY <1>7 DEF WriteChunks, Goto, DbUp, db, maps, locals
<1>8. ASSUME NEW t \in Threads, ReadMeta(t) PROVE maps' = maps
  BY <1>8 DEF ReadMeta, Goto, DbUp, db, maps, locals
<1>9. ASSUME NEW t \in Threads, WriteVectors(t) PROVE maps' = maps
  BY <1>9 DEF WriteVectors, Goto, DbUp, db, maps, locals
<1>10. ASSUME NEW t \in Threads, InsertVectors(t) PROVE maps' = maps
  BY <1>10 DEF InsertVectors, Goto, Nothing, db, maps, locals
<1>11. ASSUME NEW t \in Threads, AddKeywords(t) PROVE maps' = maps
  BY <1>11 DEF AddKeywords, Goto, DbUp, db, maps, locals
<1>12. ASSUME NEW t \in Threads, Register(t) PROVE maps' = maps
  BY <1>12 DEF Register, Goto, DbUp, db, maps, locals
<1>13. ASSUME NEW t \in Threads, Rollback(t) PROVE maps' = maps
  BY <1>13 DEF Rollback, Goto, DbUp, db, maps, locals
<1>14. ASSUME NEW t \in Threads, GetIndex(t) PROVE maps' = maps
  BY <1>14 DEF GetIndex, Goto, WithIndex, WithoutIndex,
     Nothing, db, maps, locals
<1>15. ASSUME NEW t \in Threads, BuildIndex(t) PROVE maps' = maps
  BY <1>15 DEF BuildIndex, Goto, DbUp, WithIndex, Detached, Once, db,
     maps, locals
<1>16. ASSUME NEW t \in Threads, Scan(t) PROVE maps' = maps
  BY <1>16 DEF Scan, Goto, DbUp, Once, Found, db, maps, locals
<1>17. ASSUME NEW t \in Threads, RemoveDocument(t) PROVE maps' = maps
  BY <1>17 DEF RemoveDocument, Goto, DbUp, db, maps, locals
<1>18. ASSUME NEW t \in Threads, ForgetDocument(t) PROVE maps' = maps
  BY <1>18 DEF ForgetDocument, Goto, Nothing, db, maps, locals
<1>19. ASSUME NEW t \in Threads, Unlist(t) PROVE maps' = maps
  BY <1>19 DEF Unlist, Goto, DbUp, db, maps, locals
<1>20. ASSUME NEW t \in Threads, ClearCaches(t) PROVE maps' = maps
  BY <1>20 DEF ClearCaches, Goto, Detached, db, maps, locals
<1>21. ASSUME NEW t \in Threads, DropKeys(t) PROVE maps' = maps
  BY <1>21 DEF DropKeys, Goto, DbUp, db, maps, locals
<1>22. ASSUME NEW c \in Collections, CreateBase(c) PROVE maps' = maps
  BY <1>22 DEF CreateBase, DbUp, db, maps, locals
<1>23. CASE CloseFlag
  BY <1>23 DEF CloseFlag, db, maps, locals
<1>24. CASE CloseMaps
  BY <1>24 DEF CloseMaps, db, maps, locals
<1>25. CASE CloseDb
  BY <1>25 DEF CloseDb, db, maps, locals
<1>26. CASE Restart
  BY <1>26 DEF Restart, db, maps, locals
<1>27. CASE UNCHANGED vars
  BY <1>27 DEF vars, db, maps, locals
<1>28. QED
  BY <1>1, <1>2, <1>3, <1>4, <1>5, <1>6, <1>7, <1>8, <1>9, <1>10, <1>11,
     <1>12, <1>13, <1>14, <1>15, <1>16, <1>17, <1>18, <1>19, <1>20, <1>21,
     <1>22, <1>23, <1>24, <1>25, <1>26, <1>27 DEF Next, Starts, Steps

(* The store moves only in the steps of Close and at a restart.               *)
LEMMA StoreMoves ==
  [Next]_vars => store' = store \/ CloseFlag \/ CloseMaps \/ CloseDb \/ Restart
<1> SUFFICES ASSUME [Next]_vars, ~CloseFlag, ~CloseMaps, ~CloseDb, ~Restart
             PROVE  store' = store
  OBVIOUS
<1>1. ASSUME NEW t \in Threads, Starts(t) PROVE store' = store
  BY <1>1 DEF Starts, IngestStart, DeleteStart, DropStart, SearchStart
<1>2. ASSUME NEW t \in Threads, Steps(t) PROVE store' = store
  BY <1>2 DEF Steps, GetLock, Lock, WriteChunks, ReadMeta, WriteVectors,
     InsertVectors, AddKeywords, Register, Rollback, GetIndex, BuildIndex, Scan,
     RemoveDocument, ForgetDocument, Unlist, ClearCaches, DropKeys
<1>3. ASSUME NEW c \in Collections, CreateBase(c) PROVE store' = store
  BY <1>3 DEF CreateBase
<1>4. QED
  BY <1>1, <1>2, <1>3 DEF Next, vars

(* So they stay nil until then.                                               *)
LEMMA ClosedStep ==
  StateInvariant /\ ClosedInvariant /\ [Next]_vars => ClosedInvariant'
<1> SUFFICES ASSUME StateInvariant, ClosedInvariant, [Next]_vars,
                    store' \in {"emptied", "closed"}
             PROVE  MapsNil'
  BY DEF ClosedInvariant
<1>1. CASE store \in {"emptied", "closed"}
  BY <1>1, NilStep DEF ClosedInvariant, MapsNil, maps
<1>2. CASE CloseMaps
  BY <1>2 DEF CloseMaps, MapsNil
<1>3. store' = store \/ CloseFlag \/ CloseMaps \/ CloseDb \/ Restart
  BY StoreMoves
<1>4. QED
  BY <1>1, <1>2, <1>3 DEF CloseFlag, CloseDb, Restart

(* What Close has taken away no late step of an operation writes to (M3).      *)
THEOREM ClosedMapsStay == Spec => ClosedMapsUntouched
<1>1. Init => StateInvariant /\ ClosedInvariant
  BY InitialState DEF Init, ClosedInvariant
<1>2. StateInvariant /\ ClosedInvariant /\ [Next]_vars =>
        [(store \in {"emptied", "closed"} /\ store' # "open") => maps' = maps]_vars
  BY NilStep
<1>3. QED
  BY <1>1, <1>2, StateStep, ClosedStep, PTL DEF Spec, ClosedMapsUntouched

-----------------------------------------------------------------------------
(* Documents. *)

(* An upload that may yet store its document. *)
Waiting(t) ==
  op[t] = "ingest" /\ pc[t] \in {"getlock", "lock", "write", "meta", "vectors"}

(* A document has one upload.  What is listed, or about to be deleted, waits    *)
(* for no upload any more, so that what is removed does not come back.         *)
DocumentInvariant ==
  /\ \A t, u \in Threads :
        t # u /\ op[t] = "ingest" /\ op[u] = "ingest" => doc[t] # doc[u]
  /\ \A t \in Threads : op[t] \in {"ingest", "delete"} => doc[t] \in used
  /\ \A c \in Collections : listed[c] \subseteq used
  /\ \A t \in Threads : Waiting(t) =>
        /\ doc[t] \notin listed[base[t]]
        /\ \A u \in Threads : op[u] = "delete" => ~(base[u] = base[t] /\ doc[u] = doc[t])
  /\ \A t \in Threads :
        pc[t] \in {"forget", "prune", "unlist"} => doc[t] \notin vectors[base[t]]

(* Who leaves an operation may list the document it has stored; otherwise what  *)
(* is listed and stored can only have shrunk.                                 *)
LEMMA LeaveDocument ==
  ASSUME StateInvariant, DocumentInvariant, NEW t \in Threads, Leave(t), used' = used,
         \A c \in Collections :
            /\ listed'[c] \subseteq listed[c] \union {d \in {doc[t]} : op[t] = "ingest"}
            /\ vectors'[c] \subseteq vectors[c]
  PROVE  DocumentInvariant'
<1>1. ThreadsOK /\ PhaseInvariant /\ ThreadsOK' /\ PhaseInvariant'
  BY LeaveStep DEF StateInvariant
<1>2. /\ pc'[t] = "idle" /\ op'[t] = "none"
      /\ \A u \in Threads \ {t} :
            /\ pc'[u] = pc[u] /\ op'[u] = op[u] /\ base'[u] = base[u] /\ doc'[u] = doc[u]
  BY <1>1, LeaveStep
<1>3. QED
  BY <1>1, <1>2 DEF DocumentInvariant, Waiting, ThreadsOK

(* Every step keeps it: an ID is issued once, and only its upload stores it.   *)
LEMMA DocumentStep ==
  StateInvariant /\ DocumentInvariant /\ [Next]_vars => DocumentInvariant'
<1> SUFFICES ASSUME StateInvariant, DocumentInvariant, [Next]_vars PROVE DocumentInvariant'
  OBVIOUS
<1>t. SharedOK /\ ThreadsOK /\ PhaseInvariant
  BY DEF StateInvariant
<1> USE <1>t DEF SharedOK, ThreadsOK, PhaseInvariant, DocumentInvariant, Waiting
<1>1. ASSUME NEW t \in Threads, NEW c \in Collections, NEW d \in Docs,
   IngestStart(t, c, d) PROVE DocumentInvariant'
  BY <1>1 DEF IngestStart, Goto, Enter, DbUp, db, maps, locals
<1>2. ASSUME NEW t \in Threads, NEW c \in Collections, NEW d \in Docs,
   DeleteStart(t, c, d) PROVE DocumentInvariant'
  BY <1>2 DEF DeleteStart, Goto, Enter, db, maps, locals
<1>3. ASSUME NEW t \in Threads, NEW c \in Collections, DropStart(t, c) PROVE
   DocumentInvariant'
  BY <1>3 DEF DropStart, Goto, Enter, db, maps, locals
<1>4. ASSUME NEW t \in Threads, NEW c \in Collections, SearchStart(t, c)
   PROVE DocumentInvariant'
  BY <1>4 DEF SearchStart, Goto, Enter, db, maps, locals
<1>5. ASSUME NEW t \in Threads, GetLock(t) PROVE DocumentInvariant'
  BY <1>5 DEF GetLock, Goto, DbUp, Unused, db, maps, locals
<1>6. ASSUME NEW t \in Threads, Lock(t) PROVE DocumentInvariant'
  BY <1>6 DEF Lock, Goto, Holds, db, maps, locals
<1>7. ASSUME NEW t \in Threads, WriteChunks(t) PROVE DocumentInvariant'
  BY LeaveDocument, <1>7 DEF WriteChunks, Goto, DbUp, db, maps, locals
<1>8. ASSUME NEW t \in Threads, ReadMeta(t) PROVE DocumentInvariant'
  BY <1>8 DEF ReadMeta, Goto, DbUp, db, maps, locals
<1>9. ASSUME NEW t \in Threads, WriteVectors(t) PROVE DocumentInvariant'
  BY <1>9 DEF WriteVectors, Goto, DbUp, db, maps, locals
<1>10. ASSUME NEW t \in Threads, InsertVectors(t) PROVE DocumentInvariant'
  BY <1>10 DEF InsertVectors, Goto, Nothing, db, maps, locals
<1>11. ASSUME NEW t \in Threads, AddKeywords(t) PROVE DocumentInvariant'
  BY <1>11 DEF AddKeywords, Goto, DbUp, db, maps, locals
<1>12. ASSUME NEW t \in Threads, Register(t) PROVE DocumentInvariant'
  BY LeaveDocument, <1>12 DEF Register, Goto, DbUp, db, maps, locals
<1>13. ASSUME NEW t \in Threads, Rollback(t) PROVE DocumentInvariant'
  BY LeaveDocument, <1>13 DEF Rollback, Goto, DbUp, db, maps, locals
<1>14. ASSUME NEW t \in Threads, GetIndex(t) PROVE DocumentInvariant'
  BY LeaveDocument, <1>14 DEF GetIndex, Goto, WithIndex, WithoutIndex,
     Nothing, db, maps, locals
<1>15. ASSUME NEW t \in Threads, BuildIndex(t) PROVE DocumentInvariant'
  BY <1>15 DEF BuildIndex, Goto, DbUp, WithIndex, Detached, Once, db,
     maps, locals
<1>16. ASSUME NEW t \in Threads, Scan(t) PROVE DocumentInvariant'
  BY LeaveDocument, <1>16 DEF Scan, Goto, DbUp, Once, Found, db, maps, locals
<1>17. ASSUME NEW t \in Threads, RemoveDocument(t) PROVE DocumentInvariant'
  BY LeaveDocument, <1>17 DEF RemoveDocument, Goto, DbUp, db, maps, locals
<1>18. ASSUME NEW t \in Threads, ForgetDocument(t) PROVE DocumentInvariant'
  BY <1>18 DEF ForgetDocument, Goto, Nothing, db, maps, locals
<1>19. ASSUME NEW t \in Threads, Unlist(t) PROVE DocumentInvariant'
  BY LeaveDocument, <1>19 DEF Unlist, Goto, DbUp, db, maps, locals
<1>20. ASSUME NEW t \in Threads, ClearCaches(t) PROVE DocumentInvariant'
  BY <1>20 DEF ClearCaches, Goto, Detached, db, maps, locals
<1>21. ASSUME NEW t \in Threads, DropKeys(t) PROVE DocumentInvariant'
  BY LeaveDocument, <1>21 DEF DropKeys, Goto, DbUp, db, maps, locals
<1>22. ASSUME NEW c \in Collections, CreateBase(c) PROVE DocumentInvariant'
  BY <1>22 DEF CreateBase, DbUp, db, maps, locals
<1>23. CASE CloseFlag
  BY <1>23 DEF CloseFlag, db, maps, locals
<1>24. CASE CloseMaps
  BY <1>24 DEF CloseMaps, db, maps, locals
<1>25. CASE CloseDb
  BY <1>25 DEF CloseDb, db, maps, locals
<1>26. CASE Restart
  BY <1>26 DEF Restart, db, maps, locals
<1>27. CASE UNCHANGED vars
  BY <1>27 DEF vars, db, maps, locals
<1>28. QED
  BY <1>1, <1>2, <1>3, <1>4, <1>5, <1>6, <1>7, <1>8, <1>9, <1>10, <1>11,
     <1>12, <1>13, <1>14, <1>15, <1>16, <1>17, <1>18, <1>19, <1>20, <1>21,
     <1>22, <1>23, <1>24, <1>25, <1>26, <1>27 DEF Next, Starts, Steps

(* Pending in terms of the uploads that wait. *)
LEMMA PendingIsWaiting ==
  Pending = {p \in Collections \X Docs :
               \E t \in Threads : Waiting(t) /\ base[t] = p[1] /\ doc[t] = p[2]}
BY DEF Pending, Waiting

(* No upload begins to wait, and those that go on keep base and document.      *)
NoneBegins ==
  \A u \in Threads : Waiting(u)' => Waiting(u) /\ base'[u] = base[u] /\ doc'[u] = doc[u]

(* Then no document is pending that was not before ...                         *)
LEMMA PendingShrinks == NoneBegins => Pending' \subseteq Pending
BY PendingIsWaiting DEF NoneBegins, Pending, Waiting

(* ... and if none stops to wait, the same are pending.                        *)
LEMMA PendingStays ==
  ASSUME NoneBegins,
         \A u \in Threads : Waiting(u) => Waiting(u)'
  PROVE  Pending' = Pending
BY DEF NoneBegins, Pending, Waiting

(* Uploads given up, and steps that concern no document at all.                *)
LEMMA AbandonStep ==
  ASSUME UNCHANGED <<used, vectors, listed>>, NoneBegins
  PROVE  Abstract!Next
<1>1. Pending \in SUBSET (Collections \X Docs) /\ Pending' \subseteq Pending
  BY PendingShrinks DEF Pending
<1>2. Abstract!Abandon(Pending \ Pending')
  BY <1>1 DEF Abstract!Abandon
<1>3. QED
  BY <1>1, <1>2 DEF Abstract!Next

(* Every step is one of KnowledgeBase or changes nothing that it sees.         *)
LEMMA RefinementStep ==
  StateInvariant /\ DocumentInvariant /\ [Next]_vars => [Abstract!Next]_(Abstract!vars)
<1> SUFFICES ASSUME StateInvariant, DocumentInvariant, [Next]_vars
             PROVE  Abstract!Next \/ UNCHANGED Abstract!vars
  OBVIOUS
<1>t. SharedOK /\ ThreadsOK /\ PhaseInvariant
  BY DEF StateInvariant
<1> USE <1>t DEF SharedOK, ThreadsOK, PhaseInvariant
<1>1. ASSUME NEW t \in Threads, NEW c \in Collections, NEW d \in Docs, IngestStart(t, c, d)
      PROVE  Abstract!Next
  <2>1. Pending' = Pending \union {<<c, d>>}
    <3>1. \A u \in Threads \ {t} :
            (Waiting(u)' <=> Waiting(u)) /\ base'[u] = base[u] /\ doc'[u] = doc[u]
      BY <1>1 DEF IngestStart, Enter, Goto, Waiting
    <3>2. ~Waiting(t) /\ Waiting(t)' /\ base'[t] = c /\ doc'[t] = d
      BY <1>1 DEF IngestStart, Enter, Goto, Waiting
    <3>3. QED
      BY <3>1, <3>2, PendingIsWaiting DEF Pending, Waiting
  <2>2. Abstract!Issue(c, d)
    BY <1>1, <2>1 DEF IngestStart, Abstract!Issue
  <2>3. QED
    BY <2>2 DEF Abstract!Next
<1>2. ASSUME NEW t \in Threads, NEW c \in Collections, NEW d \in Docs,
   DeleteStart(t, c, d) PROVE Abstract!Next
  <2>1. NoneBegins /\ UNCHANGED <<used, vectors, listed>>
    BY <1>2 DEF NoneBegins, Waiting, DeleteStart, Goto, Enter, db, maps,
       locals
  <2>2. QED
    BY <2>1, AbandonStep
<1>3. ASSUME NEW t \in Threads, NEW c \in Collections, DropStart(t, c) PROVE
   Abstract!Next
  <2>1. NoneBegins /\ UNCHANGED <<used, vectors, listed>>
    BY <1>3 DEF NoneBegins, Waiting, DropStart, Goto, Enter, db, maps,
       locals
  <2>2. QED
    BY <2>1, AbandonStep
<1>4. ASSUME NEW t \in Threads, NEW c \in Collections, SearchStart(t, c)
   PROVE Abstract!Next
  <2>1. NoneBegins /\ UNCHANGED <<used, vectors, listed>>
    BY <1>4 DEF NoneBegins, Waiting, SearchStart, Goto, Enter, db, maps,
       locals
  <2>2. QED
    BY <2>1, AbandonStep
<1>5. ASSUME NEW t \in Threads, GetLock(t) PROVE Abstract!Next
  <2>1. NoneBegins /\ UNCHANGED <<used, vectors, listed>>
    BY <1>5 DEF NoneBegins, Waiting, GetLock, Goto, DbUp, Unused, db,
       maps, locals
  <2>2. QED
    BY <2>1, AbandonStep
<1>6. ASSUME NEW t \in Threads, Lock(t) PROVE Abstract!Next
  <2>1. NoneBegins /\ UNCHANGED <<used, vectors, listed>>
    BY <1>6 DEF NoneBegins, Waiting, Lock, Goto, Holds, db, maps, locals
  <2>2. QED
    BY <2>1, AbandonStep
<1>7. ASSUME NEW t \in Threads, WriteChunks(t) PROVE Abstract!Next
  <2>1. NoneBegins /\ UNCHANGED <<used, vectors, listed>>
    BY LeaveStep, <1>7 DEF NoneBegins, Waiting, WriteChunks, Goto, DbUp,
       db, maps, locals
  <2>2. QED
    BY <2>1, AbandonStep
<1>8. ASSUME NEW t \in Threads, ReadMeta(t) PROVE Abstract!Next
  <2>1. NoneBegins /\ UNCHANGED <<used, vectors, listed>>
    BY <1>8 DEF NoneBegins, Waiting, ReadMeta, Goto, DbUp, db, maps,
       locals
  <2>2. QED
    BY <2>1, AbandonStep
<1>9. ASSUME NEW t \in Threads, WriteVectors(t) PROVE Abstract!Next
  <2>1. CASE vectors' = vectors
    <3>1. NoneBegins
      BY <1>9 DEF WriteVectors, Goto, NoneBegins, Waiting
    <3>2. QED
      BY <1>9, <2>1, <3>1, AbandonStep DEF WriteVectors
  <2>2. CASE vectors' = [vectors EXCEPT ![base[t]] = @ \union {doc[t]}]
    <3>1. Waiting(t) /\ ~Waiting(t)' /\ base[t] \in Collections /\ doc[t] \in Docs
      BY <1>9 DEF WriteVectors, Goto, Waiting
    <3>2. \A u \in Threads \ {t} :
            /\ Waiting(u)' <=> Waiting(u)
            /\ base'[u] = base[u] /\ doc'[u] = doc[u]
            /\ Waiting(u) => doc[u] # doc[t]
      BY <1>9 DEF WriteVectors, Goto, Waiting, DocumentInvariant
    <3>3. Pending' = Pending \ {<<base[t], doc[t]>>} /\ <<base[t], doc[t]>> \in Pending
      BY <3>1, <3>2, PendingIsWaiting DEF Pending, Waiting
    <3>4. Abstract!Store(base[t], doc[t])
      BY <1>9, <2>2, <3>3 DEF WriteVectors, Abstract!Store
    <3>5. QED
      BY <3>1, <3>4 DEF Abstract!Next
  <2>3. QED
    BY <1>9, <2>1, <2>2 DEF WriteVectors
<1>10. ASSUME NEW t \in Threads, InsertVectors(t) PROVE Abstract!Next
  <2>1. NoneBegins /\ UNCHANGED <<used, vectors, listed>>
    BY <1>10 DEF NoneBegins, Waiting, InsertVectors, Goto, Nothing, db,
       maps, locals
  <2>2. QED
    BY <2>1, AbandonStep
<1>11. ASSUME NEW t \in Threads, AddKeywords(t) PROVE Abstract!Next
  <2>1. NoneBegins /\ UNCHANGED <<used, vectors, listed>>
    BY <1>11 DEF NoneBegins, Waiting, AddKeywords, Goto, DbUp, db, maps,
       locals
  <2>2. QED
    BY <2>1, AbandonStep
<1>12. ASSUME NEW t \in Threads, Register(t) PROVE Abstract!Next
  <2>1. NoneBegins /\ (\A u \in Threads : Waiting(u) => Waiting(u)')
    BY <1>12, LeaveStep DEF Register, NoneBegins, Waiting
  <2>2. CASE listed' = listed
    BY <1>12, <2>1, <2>2, AbandonStep DEF Register
  <2>3. CASE listed' = [listed EXCEPT ![base[t]] = @ \union {doc[t]}]
    <3>1. Pending' = Pending
      BY <2>1, PendingStays
    <3>2. doc[t] \in used /\ doc[t] \in Docs /\ <<base[t], doc[t]>> \notin Pending
      BY <1>12, PendingIsWaiting DEF Register, DocumentInvariant, Waiting
    <3>3. Abstract!Show(base[t], doc[t])
      BY <1>12, <2>3, <3>1, <3>2 DEF Register, Abstract!Show
    <3>4. QED
      BY <3>2, <3>3 DEF Abstract!Next
  <2>4. QED
    BY <1>12, <2>2, <2>3 DEF Register
<1>13. ASSUME NEW t \in Threads, Rollback(t) PROVE Abstract!Next
  <2>1. NoneBegins /\ UNCHANGED <<used, vectors, listed>>
    BY LeaveStep, <1>13 DEF NoneBegins, Waiting, Rollback, Goto, DbUp,
       db, maps, locals
  <2>2. QED
    BY <2>1, AbandonStep
<1>14. ASSUME NEW t \in Threads, GetIndex(t) PROVE Abstract!Next
  <2>1. NoneBegins /\ UNCHANGED <<used, vectors, listed>>
    BY LeaveStep, <1>14 DEF NoneBegins, Waiting, GetIndex, Goto,
       WithIndex, WithoutIndex, Nothing, db, maps, locals
  <2>2. QED
    BY <2>1, AbandonStep
<1>15. ASSUME NEW t \in Threads, BuildIndex(t) PROVE Abstract!Next
  <2>1. NoneBegins /\ UNCHANGED <<used, vectors, listed>>
    BY <1>15 DEF NoneBegins, Waiting, BuildIndex, Goto, DbUp, WithIndex,
       Detached, Once, db, maps, locals
  <2>2. QED
    BY <2>1, AbandonStep
<1>16. ASSUME NEW t \in Threads, Scan(t) PROVE Abstract!Next
  <2>1. NoneBegins /\ UNCHANGED <<used, vectors, listed>>
    BY LeaveStep, <1>16 DEF NoneBegins, Waiting, Scan, Goto, DbUp, Once,
       Found, db, maps, locals
  <2>2. QED
    BY <2>1, AbandonStep
<1>17. ASSUME NEW t \in Threads, RemoveDocument(t) PROVE Abstract!Next
  <2>1. NoneBegins /\ (\A u \in Threads : Waiting(u) => Waiting(u)')
    BY <1>17, LeaveStep DEF RemoveDocument, NoneBegins, Waiting, Goto, locals
  <2>2. CASE vectors' = vectors
    BY <1>17, <2>1, <2>2, AbandonStep DEF RemoveDocument
  <2>3. CASE vectors' = [vectors EXCEPT ![base[t]] = @ \ {doc[t]}]
    <3>1. Pending' = Pending
      BY <2>1, PendingStays
    <3>2. Abstract!Remove(base[t], {doc[t]}) /\ doc[t] \in Docs
      BY <1>17, <2>3, <3>1 DEF RemoveDocument, Abstract!Remove
    <3>3. QED
      BY <3>2 DEF Abstract!Next
  <2>4. QED
    BY <1>17, <2>2, <2>3 DEF RemoveDocument
<1>18. ASSUME NEW t \in Threads, ForgetDocument(t) PROVE Abstract!Next
  <2>1. NoneBegins /\ UNCHANGED <<used, vectors, listed>>
    BY <1>18 DEF NoneBegins, Waiting, ForgetDocument, Goto, Nothing, db,
       maps, locals
  <2>2. QED
    BY <2>1, AbandonStep
<1>19. ASSUME NEW t \in Threads, Unlist(t) PROVE Abstract!Next
  <2>1. NoneBegins /\ (\A u \in Threads : Waiting(u) => Waiting(u)')
    BY <1>19, LeaveStep DEF Unlist, NoneBegins, Waiting
  <2>2. CASE listed' = listed
    BY <1>19, <2>1, <2>2, AbandonStep DEF Unlist
  <2>3. CASE listed' = [listed EXCEPT ![base[t]] = @ \ {doc[t]}]
    <3>1. Pending' = Pending
      BY <2>1, PendingStays
    <3>2. doc[t] \notin vectors[base[t]] /\ doc[t] \in Docs /\ <<base[t], doc[t]>> \notin Pending
      BY <1>19, PendingIsWaiting DEF Unlist, DocumentInvariant, Waiting
    <3>3. Abstract!Hide(base[t], doc[t])
      BY <1>19, <2>3, <3>1, <3>2 DEF Unlist, Abstract!Hide
    <3>4. QED
      BY <3>2, <3>3 DEF Abstract!Next
  <2>4. QED
    BY <1>19, <2>2, <2>3 DEF Unlist
<1>20. ASSUME NEW t \in Threads, ClearCaches(t) PROVE Abstract!Next
  <2>1. NoneBegins /\ UNCHANGED <<used, vectors, listed>>
    BY <1>20 DEF NoneBegins, Waiting, ClearCaches, Goto, Detached, db,
       maps, locals
  <2>2. QED
    BY <2>1, AbandonStep
<1>21. ASSUME NEW t \in Threads, DropKeys(t) PROVE Abstract!Next
  <2>1. NoneBegins /\ (\A u \in Threads : Waiting(u) => Waiting(u)')
    BY <1>21, LeaveStep DEF DropKeys, NoneBegins, Waiting
  <2>2. CASE vectors' = vectors
    BY <1>21, <2>1, <2>2, AbandonStep DEF DropKeys
  <2>3. CASE vectors' = [vectors EXCEPT ![base[t]] = {}]
    <3>1. Pending' = Pending
      BY <2>1, PendingStays
    <3>2. vectors[base[t]] \ Docs = {}
      OBVIOUS
    <3>3. Abstract!Remove(base[t], Docs)
      BY <1>21, <2>3, <3>1, <3>2 DEF DropKeys, Abstract!Remove
    <3>4. QED
      BY <3>3 DEF Abstract!Next
  <2>4. QED
    BY <1>21, <2>2, <2>3 DEF DropKeys
<1>22. ASSUME NEW c \in Collections, CreateBase(c) PROVE Abstract!Next
  <2>1. NoneBegins /\ UNCHANGED <<used, vectors, listed>>
    BY <1>22 DEF NoneBegins, Waiting, CreateBase, DbUp, db, maps, locals
  <2>2. QED
    BY <2>1, AbandonStep
<1>23. CASE CloseFlag
  <2>1. NoneBegins /\ UNCHANGED <<used, vectors, listed>>
    BY <1>23 DEF NoneBegins, Waiting, CloseFlag, db, maps, locals
  <2>2. QED
    BY <2>1, AbandonStep
<1>24. CASE CloseMaps
  <2>1. NoneBegins /\ UNCHANGED <<used, vectors, listed>>
    BY <1>24 DEF NoneBegins, Waiting, CloseMaps, db, maps, locals
  <2>2. QED
    BY <2>1, AbandonStep
<1>25. CASE CloseDb
  <2>1. NoneBegins /\ UNCHANGED <<used, vectors, listed>>
    BY <1>25 DEF NoneBegins, Waiting, CloseDb, db, maps, locals
  <2>2. QED
    BY <2>1, AbandonStep
<1>26. CASE Restart
  <2>1. NoneBegins /\ UNCHANGED <<used, vectors, listed>>
    BY <1>26 DEF NoneBegins, Waiting, Restart, db, maps, locals
  <2>2. QED
    BY <2>1, AbandonStep
<1>27. CASE UNCHANGED vars
  BY <1>27 DEF vars, db, locals, Abstract!vars, Pending
<1>28. QED
  BY <1>1, <1>2, <1>3, <1>4, <1>5, <1>6, <1>7, <1>8, <1>9, <1>10, <1>11,
     <1>12, <1>13, <1>14, <1>15, <1>16, <1>17, <1>18, <1>19, <1>20, <1>21,
     <1>22, <1>23, <1>24, <1>25, <1>26, <1>27 DEF Next, Starts, Steps

(* Whatever fails, crashes or is deleted in between, documents come and go as   *)
(* KnowledgeBase says.                                                        *)
THEOREM Refinement == Spec => ImplementsKnowledgeBase
<1>1. Init => StateInvariant /\ DocumentInvariant
  BY InitialState DEF Init, DocumentInvariant, Waiting
<1>2. Init => Abstract!Init
  BY DEF Init, Abstract!Init, Pending
<1>3. QED
  BY <1>1, <1>2, StateStep, DocumentStep, RefinementStep, PTL
     DEF Spec, ImplementsKnowledgeBase, Abstract!Spec

-----------------------------------------------------------------------------
(* Who works on the base that is never deleted. *)

(* Its mutex is one and the same, from GetLock to the end of the operation, and *)
(* whoever waits for it or works on the base has it.                          *)
ExclusionInvariant ==
  /\ \A t, u \in Threads :
        /\ base[t] = Default /\ base[u] = Default
        /\ myLock[t] # NoLock /\ myLock[u] # NoLock
        => myLock[t] = myLock[u]
  /\ ~unguarded /\ DbUp =>
        \A t \in Threads :
           base[t] = Default /\ pc[t] \in Guarded \union {"lock"} => myLock[t] # NoLock

LEMMA LeaveExclusion ==
  ASSUME StateInvariant, ExclusionInvariant, NEW t \in Threads, Leave(t),
         UNCHANGED <<store, unguarded>>
  PROVE  ExclusionInvariant'
<1>1. ThreadsOK /\ PhaseInvariant
  BY DEF StateInvariant
<1>2. /\ pc'[t] = "idle" /\ myLock'[t] = NoLock
      /\ \A u \in Threads \ {t} :
            pc'[u] = pc[u] /\ base'[u] = base[u] /\ myLock'[u] = myLock[u]
  BY <1>1, LeaveStep
<1>3. QED
  BY <1>2 DEF ExclusionInvariant, Guarded, DbUp

LEMMA ExclusionStep ==
  StateInvariant /\ LockInvariant /\ ExclusionInvariant /\ [Next]_vars => ExclusionInvariant'
<1> SUFFICES ASSUME StateInvariant, LockInvariant, ExclusionInvariant, [Next]_vars
             PROVE  ExclusionInvariant'
  OBVIOUS
<1>t. SharedOK /\ ThreadsOK /\ PhaseInvariant
  BY DEF StateInvariant
<1> USE <1>t, VectorStoreAssumption
     DEF SharedOK, ThreadsOK, PhaseInvariant, ExclusionInvariant, Guarded, DbUp, Stages
<1>1. ASSUME NEW t \in Threads, NEW c \in Collections, NEW d \in Docs, IngestStart(t, c, d)
      PROVE  ExclusionInvariant'
  BY <1>1 DEF IngestStart, Goto, Enter, DbUp, db, maps, locals
<1>2. ASSUME NEW t \in Threads, NEW c \in Collections, NEW d \in Docs, DeleteStart(t, c, d)
      PROVE  ExclusionInvariant'
  BY <1>2 DEF DeleteStart, Goto, Enter, db, maps, locals
<1>3. ASSUME NEW t \in Threads, NEW c \in Collections, DropStart(t, c)
      PROVE  ExclusionInvariant'
  BY <1>3 DEF DropStart, Goto, Enter, db, maps, locals
<1>4. ASSUME NEW t \in Threads, NEW c \in Collections, SearchStart(t, c)
      PROVE  ExclusionInvariant'
  BY <1>4 DEF SearchStart, Goto, Enter, db, maps, locals
<1>5. ASSUME NEW t \in Threads, GetLock(t) PROVE ExclusionInvariant'
  <2>1. /\ pc[t] = "getlock" /\ pc' = [pc EXCEPT ![t] = "lock"]
        /\ base' = base /\ store' = store
    BY <1>5 DEF GetLock, Goto
  <2>2. CASE store \in {"open", "closing"} /\ unguarded' = unguarded
             /\ \E l \in Locks :
                   /\ lockOf[base[t]] # NoLock => l = lockOf[base[t]]
                   /\ myLock' = [myLock EXCEPT ![t] = l]
    <3>1. PICK l \in Locks : /\ lockOf[base[t]] # NoLock => l = lockOf[base[t]]
                             /\ myLock' = [myLock EXCEPT ![t] = l]
      BY <2>2
    <3>2. myLock'[t] # NoLock /\ \A u \in Threads \ {t} : myLock'[u] = myLock[u]
      BY <3>1
    <3>3. ASSUME NEW u \in Threads \ {t}, base[t] = Default, base[u] = Default,
                 myLock[u] # NoLock
          PROVE  myLock'[t] = myLock[u]
      BY <2>2, <3>1, <3>3 DEF LockInvariant
    <3>4. QED
      BY <2>1, <2>2, <3>2, <3>3
  <2>3. CASE myLock' = myLock /\ unguarded' = (unguarded \/ DbUp)
    <3>1. ~(~unguarded' /\ DbUp')
      BY <2>1, <2>3
    <3>2. QED
      BY <2>1, <2>3, <3>1
  <2>4. QED
    BY <1>5, <2>2, <2>3 DEF GetLock
<1>6. ASSUME NEW t \in Threads, Lock(t) PROVE ExclusionInvariant'
  BY <1>6 DEF Lock, Goto, Holds, db, maps, locals
<1>7. ASSUME NEW t \in Threads, WriteChunks(t) PROVE ExclusionInvariant'
  BY <1>7, LeaveExclusion DEF WriteChunks, Goto, DbUp, db, maps, locals
<1>8. ASSUME NEW t \in Threads, ReadMeta(t) PROVE ExclusionInvariant'
  BY <1>8 DEF ReadMeta, Goto, DbUp, db, maps, locals
<1>9. ASSUME NEW t \in Threads, WriteVectors(t) PROVE ExclusionInvariant'
  BY <1>9 DEF WriteVectors, Goto, DbUp, db, maps, locals
<1>10. ASSUME NEW t \in Threads, InsertVectors(t) PROVE ExclusionInvariant'
  BY <1>10 DEF InsertVectors, Goto, db, maps, locals
<1>11. ASSUME NEW t \in Threads, AddKeywords(t) PROVE ExclusionInvariant'
  BY <1>11 DEF AddKeywords, Goto, DbUp, db, maps, locals
<1>12. ASSUME NEW t \in Threads, Register(t) PROVE ExclusionInvariant'
  BY <1>12, LeaveExclusion DEF Register, DbUp, db, maps, locals
<1>13. ASSUME NEW t \in Threads, Rollback(t) PROVE ExclusionInvariant'
  BY <1>13, LeaveExclusion DEF Rollback, DbUp, db, maps, locals
<1>14. ASSUME NEW t \in Threads, GetIndex(t) PROVE ExclusionInvariant'
  BY <1>14, LeaveExclusion DEF GetIndex, Goto, WithIndex, WithoutIndex, db,
     maps, locals
<1>15. ASSUME NEW t \in Threads, BuildIndex(t) PROVE ExclusionInvariant'
  BY <1>15 DEF BuildIndex, Goto, DbUp, WithIndex, Detached, db, maps, locals
<1>16. ASSUME NEW t \in Threads, Scan(t) PROVE ExclusionInvariant'
  BY <1>16, LeaveExclusion DEF Scan, DbUp, db, maps, locals
<1>17. ASSUME NEW t \in Threads, RemoveDocument(t) PROVE ExclusionInvariant'
  BY <1>17, LeaveExclusion DEF RemoveDocument, Goto, DbUp, db, maps, locals
<1>18. ASSUME NEW t \in Threads, ForgetDocument(t) PROVE ExclusionInvariant'
  BY <1>18 DEF ForgetDocument, Goto, db, maps, locals
<1>19. ASSUME NEW t \in Threads, Unlist(t) PROVE ExclusionInvariant'
  BY <1>19, LeaveExclusion DEF Unlist, DbUp, db, maps, locals
<1>20. ASSUME NEW t \in Threads, ClearCaches(t) PROVE ExclusionInvariant'
  BY <1>20 DEF ClearCaches, Goto, Detached, db, maps, locals
<1>21. ASSUME NEW t \in Threads, DropKeys(t) PROVE ExclusionInvariant'
  BY <1>21, LeaveExclusion DEF DropKeys, DbUp, db, maps, locals
<1>22. ASSUME NEW c \in Collections, CreateBase(c) PROVE ExclusionInvariant'
  BY <1>22 DEF CreateBase, DbUp, db, maps, locals
<1>23. CASE CloseFlag
  BY <1>23 DEF CloseFlag, db, maps, locals
<1>24. CASE CloseMaps
  BY <1>24 DEF CloseMaps, db, maps, locals
<1>25. CASE CloseDb
  BY <1>25 DEF CloseDb, db, maps, locals
<1>26. CASE Restart
  BY <1>26 DEF Restart, db, maps, locals
<1>27. CASE UNCHANGED vars
  BY <1>27 DEF vars, db, maps, locals
<1>28. QED
  BY <1>1, <1>2, <1>3, <1>4, <1>5, <1>6, <1>7, <1>8, <1>9, <1>10, <1>11,
     <1>12, <1>13, <1>14, <1>15, <1>16, <1>17, <1>18, <1>19, <1>20, <1>21,
     <1>22, <1>23, <1>24, <1>25, <1>26, <1>27 DEF Next, Starts, Steps

(* So one thread at a time works on it, as long as the database is open and     *)
(* nobody was given a mutex of his own.                                       *)
LEMMA Alone ==
  ASSUME LockInvariant, ExclusionInvariant, ~unguarded, DbUp,
         NEW t \in Threads, base[t] = Default, pc[t] \in Guarded,
         NEW u \in Threads, base[u] = Default, pc[u] \in Guarded
  PROVE  t = u
BY DEF LockInvariant, ExclusionInvariant, Holds

(* Uploads to it, and deletions of its documents. *)
Uploading(t) == op[t] = "ingest" /\ base[t] = Default
Deleting(t) == op[t] = "delete" /\ base[t] = Default

(* What an upload has in hand is not listed, and nobody deletes it.            *)
OneOwner ==
  \A u \in Threads : op[u] = "ingest" =>
     /\ doc[u] \notin listed[Default]
     /\ \A t \in Threads : Deleting(t) => doc[t] # doc[u]

(* Nothing is stored or cached under an ID that was not issued.                *)
OnlyIssued == vectors[Default] \union chunks[Default] \union bm25[Default] \subseteq used

(* What an upload has stored when; before, its document is nowhere.            *)
StoredInOrder ==
  \A t \in Threads : Uploading(t) =>
     /\ pc[t] \in {"getlock", "lock", "write"} => doc[t] \notin chunks[Default]
     /\ pc[t] \in {"getlock", "lock", "write", "meta", "vectors"} =>
          doc[t] \notin vectors[Default]
     /\ pc[t] \in {"index", "build", "await", "keywords", "register"} =>
          doc[t] \in vectors[Default]
     /\ pc[t] # "register" => doc[t] \notin bm25[Default]

(* A document that is listed or being deleted has vectors if it has texts:     *)
(* RemoveDocument, which looks at the vectors, knows what the caches have.     *)
TextsHaveVectors ==
  /\ \A d \in listed[Default] : d \in chunks[Default] => d \in vectors[Default]
  /\ \A t \in Threads :
        Deleting(t) /\ doc[t] \in chunks[Default] => doc[t] \in vectors[Default]

(* Texts that are removed do not come back.                                   *)
TextsGone ==
  \A t \in Threads : Deleting(t) /\ pc[t] \in {"forget", "prune", "unlist"} =>
     doc[t] \notin chunks[Default]

ContentInvariant == OneOwner /\ OnlyIssued /\ StoredInOrder /\ TextsHaveVectors /\ TextsGone

(* Who leaves an operation may list what it has stored, or take back its texts. *)
LEMMA LeaveContent ==
  ASSUME StateInvariant, DocumentInvariant, ContentInvariant, NEW t \in Threads, Leave(t),
         used' = used, vectors'[Default] = vectors[Default], bm25'[Default] = bm25[Default],
         chunks'[Default] \subseteq chunks[Default],
         listed'[Default] \subseteq listed[Default] \union
            {d \in {doc[t]} : pc[t] = "register" /\ base[t] = Default}
  PROVE  ContentInvariant'
<1>1. ThreadsOK /\ PhaseInvariant
  BY DEF StateInvariant
<1>2. /\ pc'[t] = "idle" /\ op'[t] = "none"
      /\ \A u \in Threads \ {t} :
            pc'[u] = pc[u] /\ op'[u] = op[u] /\ base'[u] = base[u] /\ doc'[u] = doc[u]
  BY <1>1, LeaveStep
<1>3. pc[t] = "register" => op[t] = "ingest"
  BY <1>1 DEF PhaseInvariant
<1>4. OneOwner' /\ OnlyIssued'
  BY <1>2, <1>3 DEF ContentInvariant, OneOwner, OnlyIssued, Deleting, DocumentInvariant
<1>5. StoredInOrder'
  BY <1>2 DEF ContentInvariant, StoredInOrder, Uploading
<1>6. TextsHaveVectors' /\ TextsGone'
  BY <1>2, <1>3 DEF ContentInvariant, TextsHaveVectors, TextsGone, StoredInOrder,
     Deleting, Uploading
<1>7. QED
  BY <1>4, <1>5, <1>6 DEF ContentInvariant

LEMMA ContentStep ==
  StateInvariant /\ DocumentInvariant /\ ContentInvariant /\ [Next]_vars => ContentInvariant'
<1> SUFFICES ASSUME StateInvariant, DocumentInvariant, ContentInvariant, [Next]_vars
             PROVE  ContentInvariant'
  OBVIOUS
<1>t. SharedOK /\ ThreadsOK /\ PhaseInvariant
  BY DEF StateInvariant
<1> USE <1>t, VectorStoreAssumption
     DEF SharedOK, ThreadsOK, PhaseInvariant, ContentInvariant, OneOwner, OnlyIssued,
         StoredInOrder, TextsHaveVectors, TextsGone, Uploading, Deleting
<1>1. ASSUME NEW t \in Threads, NEW c \in Collections, NEW d \in Docs, IngestStart(t, c, d)
      PROVE  ContentInvariant'
  BY <1>1 DEF IngestStart, Goto, Enter, DbUp, db, maps, locals,
     DocumentInvariant
<1>2. ASSUME NEW t \in Threads, NEW c \in Collections, NEW d \in Docs, DeleteStart(t, c, d)
      PROVE  ContentInvariant'
  BY <1>2 DEF DeleteStart, Goto, Enter, db, maps, locals, DocumentInvariant
<1>3. ASSUME NEW t \in Threads, NEW c \in Collections, DropStart(t, c)
      PROVE  ContentInvariant'
  BY <1>3 DEF DropStart, Goto, Enter, db, maps, locals
<1>4. ASSUME NEW t \in Threads, NEW c \in Collections, SearchStart(t, c)
      PROVE  ContentInvariant'
  BY <1>4 DEF SearchStart, Goto, Enter, db, maps, locals
<1>5. ASSUME NEW t \in Threads, GetLock(t) PROVE ContentInvariant'
  BY <1>5 DEF GetLock, Goto, DbUp, Unused, db, maps, locals
<1>6. ASSUME NEW t \in Threads, Lock(t) PROVE ContentInvariant'
  BY <1>6 DEF Lock, Goto, Holds, db, maps, locals
<1>7. ASSUME NEW t \in Threads, WriteChunks(t) PROVE ContentInvariant'
  BY <1>7, LeaveContent DEF WriteChunks, Goto, DbUp, db, maps, locals,
     DocumentInvariant
<1>8. ASSUME NEW t \in Threads, ReadMeta(t) PROVE ContentInvariant'
  BY <1>8 DEF ReadMeta, Goto, DbUp, db, maps, locals
<1>9. ASSUME NEW t \in Threads, WriteVectors(t) PROVE ContentInvariant'
  BY <1>9 DEF WriteVectors, Goto, DbUp, db, maps, locals, DocumentInvariant
<1>10. ASSUME NEW t \in Threads, InsertVectors(t) PROVE ContentInvariant'
  BY <1>10 DEF InsertVectors, Goto, db, maps, locals
<1>11. ASSUME NEW t \in Threads, AddKeywords(t) PROVE ContentInvariant'
  BY <1>11 DEF AddKeywords, Goto, DbUp, db, maps, locals, DocumentInvariant
<1>12. ASSUME NEW t \in Threads, Register(t) PROVE ContentInvariant'
  BY <1>12, LeaveContent DEF Register, DbUp, db, maps, locals
<1>13. ASSUME NEW t \in Threads, Rollback(t) PROVE ContentInvariant'
  BY <1>13, LeaveContent DEF Rollback, DbUp, db, maps, locals
<1>14. ASSUME NEW t \in Threads, GetIndex(t) PROVE ContentInvariant'
  BY <1>14, LeaveContent DEF GetIndex, Goto, WithIndex, WithoutIndex, db,
     maps, locals
<1>15. ASSUME NEW t \in Threads, BuildIndex(t) PROVE ContentInvariant'
  BY <1>15 DEF BuildIndex, Goto, DbUp, WithIndex, Detached, db, maps, locals
<1>16. ASSUME NEW t \in Threads, Scan(t) PROVE ContentInvariant'
  BY <1>16, LeaveContent DEF Scan, DbUp, db, maps, locals
<1>17. ASSUME NEW t \in Threads, RemoveDocument(t) PROVE ContentInvariant'
  BY <1>17, LeaveContent DEF RemoveDocument, Goto, DbUp, db, maps, locals,
     DocumentInvariant
<1>18. ASSUME NEW t \in Threads, ForgetDocument(t) PROVE ContentInvariant'
  BY <1>18 DEF ForgetDocument, Goto, db, maps, locals
<1>19. ASSUME NEW t \in Threads, Unlist(t) PROVE ContentInvariant'
  BY <1>19, LeaveContent DEF Unlist, DbUp, db, maps, locals
<1>20. ASSUME NEW t \in Threads, ClearCaches(t) PROVE ContentInvariant'
  BY <1>20 DEF ClearCaches, Goto, Detached, db, maps, locals
<1>21. ASSUME NEW t \in Threads, DropKeys(t) PROVE ContentInvariant'
  BY <1>21, LeaveContent DEF DropKeys, DbUp, db, maps, locals
<1>22. ASSUME NEW c \in Collections, CreateBase(c) PROVE ContentInvariant'
  BY <1>22 DEF CreateBase, DbUp, db, maps, locals
<1>23. CASE CloseFlag
  BY <1>23 DEF CloseFlag, db, maps, locals
<1>24. CASE CloseMaps
  BY <1>24 DEF CloseMaps, db, maps, locals
<1>25. CASE CloseDb
  BY <1>25 DEF CloseDb, db, maps, locals
<1>26. CASE Restart
  BY <1>26 DEF Restart, db, maps, locals
<1>27. CASE UNCHANGED vars
  BY <1>27 DEF vars, db, maps, locals
<1>28. QED
  BY <1>1, <1>2, <1>3, <1>4, <1>5, <1>6, <1>7, <1>8, <1>9, <1>10, <1>11,
     <1>12, <1>13, <1>14, <1>15, <1>16, <1>17, <1>18, <1>19, <1>20, <1>21,
     <1>22, <1>23, <1>24, <1>25, <1>26, <1>27 DEF Next, Starts, Steps

-----------------------------------------------------------------------------
(* The count. *)

(* It is exact, and the one that an upload has read is still the one recorded   *)
(* when it writes it back: nobody else has worked on the base in between.      *)
CountInvariant ==
  /\ meta[Default] = NoMeta => vectors[Default] = {}
  /\ IsFiniteSet(vectors[Default])
  /\ CountIsExact
  /\ ~unguarded /\ DbUp =>
        \A t \in Threads : base[t] = Default /\ pc[t] = "vectors" =>
           meta[Default] # NoMeta /\ known[t].count = meta[Default].count

(* A step that neither stores nor removes vectors of the base and leaves its    *)
(* count alone; nobody has read a count that he had not read before.           *)
LEMMA CountUntouched ==
  ASSUME CountInvariant,
         vectors'[Default] = vectors[Default],
         meta[Default] # NoMeta => meta'[Default] # NoMeta
                                   /\ meta'[Default].count = meta[Default].count,
         meta[Default] = NoMeta /\ meta'[Default] # NoMeta => meta'[Default].count = 0,
         unguarded => unguarded',
         DbUp' => DbUp \/ \A t \in Threads : pc'[t] # "vectors",
         \A t \in Threads : base'[t] = Default /\ pc'[t] = "vectors" =>
            /\ base[t] = Default /\ pc[t] = "vectors" /\ known'[t] = known[t]
  PROVE  CountInvariant'
<1>1. Cardinality({}) = 0
  BY FS_EmptySet
<1>2. QED
  BY <1>1 DEF CountInvariant, CountIsExact

LEMMA LeaveCount ==
  ASSUME StateInvariant, CountInvariant, NEW t \in Threads, Leave(t),
         vectors'[Default] = vectors[Default], meta'[Default] = meta[Default],
         UNCHANGED <<store, unguarded>>
  PROVE  CountInvariant'
<1>1. ThreadsOK
  BY DEF StateInvariant
<1>2. /\ pc'[t] = "idle"
      /\ \A u \in Threads \ {t} :
            pc'[u] = pc[u] /\ base'[u] = base[u] /\ known'[u] = known[u]
  BY <1>1 DEF Leave, Goto, ThreadsOK
<1>3. QED
  BY <1>2 DEF CountInvariant, CountIsExact, DbUp

LEMMA CountStep ==
  /\ StateInvariant /\ LockInvariant /\ ExclusionInvariant /\ ContentInvariant
  /\ CountInvariant /\ [Next]_vars
  => CountInvariant'
<1> SUFFICES ASSUME StateInvariant, LockInvariant, ExclusionInvariant, ContentInvariant,
                    CountInvariant, [Next]_vars
             PROVE  CountInvariant'
  OBVIOUS
<1>t. SharedOK /\ ThreadsOK /\ PhaseInvariant
  BY DEF StateInvariant
<1> USE <1>t, CountUntouched, VectorStoreAssumption
     DEF SharedOK, ThreadsOK, PhaseInvariant
<1>1. ASSUME NEW t \in Threads, NEW c \in Collections, NEW d \in Docs, IngestStart(t, c, d)
      PROVE  CountInvariant'
  BY <1>1 DEF IngestStart, Goto, Enter, DbUp, db, maps, locals
<1>2. ASSUME NEW t \in Threads, NEW c \in Collections, NEW d \in Docs, DeleteStart(t, c, d)
      PROVE  CountInvariant'
  BY <1>2 DEF DeleteStart, Goto, Enter, db, maps, locals, DbUp
<1>3. ASSUME NEW t \in Threads, NEW c \in Collections, DropStart(t, c)
      PROVE  CountInvariant'
  BY <1>3 DEF DropStart, Goto, Enter, db, maps, locals, DbUp
<1>4. ASSUME NEW t \in Threads, NEW c \in Collections, SearchStart(t, c)
      PROVE  CountInvariant'
  BY <1>4 DEF SearchStart, Goto, Enter, db, maps, locals, DbUp
<1>5. ASSUME NEW t \in Threads, GetLock(t) PROVE CountInvariant'
  BY <1>5 DEF GetLock, Goto, DbUp, Unused, db, maps, locals
<1>6. ASSUME NEW t \in Threads, Lock(t) PROVE CountInvariant'
  BY <1>6 DEF Lock, Goto, Holds, db, maps, locals, DbUp
<1>7. ASSUME NEW t \in Threads, WriteChunks(t) PROVE CountInvariant'
  BY <1>7, LeaveCount DEF WriteChunks, Goto, DbUp, db, maps, locals, DbUp
<1>8. ASSUME NEW t \in Threads, ReadMeta(t) PROVE CountInvariant'
  <2>1. vectors'[Default] = vectors[Default] /\ unguarded' = unguarded /\ store' = store
    BY <1>8 DEF ReadMeta
  <2>2. meta[Default] # NoMeta => meta'[Default] # NoMeta
                                  /\ meta'[Default].count = meta[Default].count
    <3>1. CASE meta' = meta
      BY <3>1
    <3>2. CASE /\ meta[base[t]] # NoMeta
               /\ meta' = [meta EXCEPT ![base[t]] = [@ EXCEPT !.dim = TRUE]]
      <4>1. meta[base[t]] \in Metas
        BY <3>2
      <4>2. /\ [meta[base[t]] EXCEPT !.dim = TRUE] \in Metas
            /\ [meta[base[t]] EXCEPT !.dim = TRUE].count = meta[base[t]].count
        BY <4>1 DEF Metas
      <4>3. QED
        BY <3>2, <4>2
    <3>3. QED
      BY <1>8, <3>1, <3>2 DEF ReadMeta
  <2>3. meta[Default] = NoMeta => meta'[Default] = NoMeta
    BY <1>8 DEF ReadMeta
  <2>4. CASE pc'[t] = "vectors"
    <3>1. /\ DbUp /\ meta[base[t]] # NoMeta /\ known'[t] = meta[base[t]]
          /\ \A u \in Threads \ {t} : pc'[u] = pc[u] /\ known'[u] = known[u]
          /\ base' = base
      BY <1>8, <2>4 DEF ReadMeta, Goto
    <3>2. ~unguarded' => \A u \in Threads : base'[u] = Default /\ pc'[u] = "vectors" =>
            meta'[Default] # NoMeta /\ known'[u].count = meta'[Default].count
      BY <2>1, <2>2, <3>1 DEF CountInvariant
    <3>3. CountIsExact'
      BY <2>1, <2>2, <2>3 DEF CountInvariant, CountIsExact
    <3>4. QED
      BY <2>1, <2>2, <2>3, <3>2, <3>3 DEF CountInvariant
  <2>5. CASE pc'[t] # "vectors"
    BY <1>8, <2>1, <2>2, <2>3, <2>5 DEF ReadMeta, Goto, DbUp
  <2>6. QED
    BY <2>4, <2>5
<1>9. ASSUME NEW t \in Threads, WriteVectors(t) PROVE CountInvariant'
  <2>1. CASE vectors' = vectors /\ meta' = meta
    BY <1>9, <2>1 DEF WriteVectors, Goto, DbUp
  <2>2. CASE base[t] # Default
    BY <1>9, <2>2 DEF WriteVectors, Goto, DbUp
  <2>3. CASE /\ base[t] = Default /\ DbUp
             /\ vectors' = [vectors EXCEPT ![Default] = @ \union {doc[t]}]
             /\ meta' = [meta EXCEPT ![Default] = [known[t] EXCEPT !.count = @ + 1]]
    <3>1. doc[t] \notin vectors[Default]
      BY <1>9, <2>3 DEF WriteVectors, ContentInvariant, StoredInOrder, Uploading
    <3>2. /\ vectors'[Default] = vectors[Default] \union {doc[t]}
          /\ IsFiniteSet(vectors'[Default])
          /\ Cardinality(vectors'[Default]) = Cardinality(vectors[Default]) + 1
      BY <2>3, <3>1, FS_AddElement DEF CountInvariant
    <3>3. known[t] \in Metas
      BY <1>9 DEF WriteVectors
    <3>4. /\ meta'[Default] \in Metas
          /\ meta'[Default].count = known[t].count + 1
      BY <2>3, <3>3 DEF Metas
    <3>5. ~unguarded => Cardinality(vectors'[Default]) = meta'[Default].count
      BY <1>9, <2>3, <3>2, <3>4 DEF WriteVectors, CountInvariant, CountIsExact
    <3>6. ASSUME ~unguarded, NEW u \in Threads, base'[u] = Default, pc'[u] = "vectors"
          PROVE  FALSE
      BY <1>9, <2>3, <3>6, Alone DEF WriteVectors, Goto, Guarded
    <3>7. QED
      BY <1>9, <3>2, <3>4, <3>5, <3>6 DEF WriteVectors, CountInvariant, CountIsExact
  <2>4. QED
    BY <1>9, <2>1, <2>2, <2>3 DEF WriteVectors
<1>10. ASSUME NEW t \in Threads, InsertVectors(t) PROVE CountInvariant'
  BY <1>10 DEF InsertVectors, Goto, db, maps, locals, DbUp
<1>11. ASSUME NEW t \in Threads, AddKeywords(t) PROVE CountInvariant'
  BY <1>11 DEF AddKeywords, Goto, DbUp, db, maps, locals
<1>12. ASSUME NEW t \in Threads, Register(t) PROVE CountInvariant'
  BY <1>12, LeaveCount DEF Register, DbUp, db, maps, locals
<1>13. ASSUME NEW t \in Threads, Rollback(t) PROVE CountInvariant'
  BY <1>13, LeaveCount DEF Rollback, DbUp, db, maps, locals
<1>14. ASSUME NEW t \in Threads, GetIndex(t) PROVE CountInvariant'
  BY <1>14, LeaveCount DEF GetIndex, Goto, WithIndex, WithoutIndex, db, maps,
     locals, DbUp
<1>15. ASSUME NEW t \in Threads, BuildIndex(t) PROVE CountInvariant'
  BY <1>15 DEF BuildIndex, Goto, DbUp, WithIndex, Detached, db, maps, locals
<1>16. ASSUME NEW t \in Threads, Scan(t) PROVE CountInvariant'
  BY <1>16, LeaveCount DEF Scan, DbUp, db, maps, locals
<1>17. ASSUME NEW t \in Threads, RemoveDocument(t) PROVE CountInvariant'
  <2>1. CASE base[t] # Default \/ UNCHANGED <<vectors, chunks, meta>>
    BY <1>17, <2>1, LeaveCount DEF RemoveDocument, Goto, DbUp, maps, locals
  <2>2. CASE /\ base[t] = Default /\ DbUp /\ meta[Default] # NoMeta
             /\ vectors' = [vectors EXCEPT ![Default] = @ \ {doc[t]}]
             /\ UNCHANGED locals
    <3> DEFINE gone == vectors[Default] \intersect {doc[t]}
               old == meta[Default].count
    <3>1. /\ vectors'[Default] = vectors[Default] \ {doc[t]}
          /\ IsFiniteSet(vectors'[Default])
          /\ Cardinality(vectors'[Default]) =
                IF gone = {} THEN Cardinality(vectors[Default])
                ELSE Cardinality(vectors[Default]) - 1
      <4>1. IsFiniteSet(vectors[Default]) /\ (gone = {} <=> doc[t] \notin vectors[Default])
        BY DEF CountInvariant
      <4>2. vectors'[Default] = vectors[Default] \ {doc[t]}
        BY <2>2
      <4>3. /\ IsFiniteSet(vectors[Default] \ {doc[t]})
            /\ Cardinality(vectors[Default] \ {doc[t]}) =
                 IF doc[t] \in vectors[Default] THEN Cardinality(vectors[Default]) - 1
                 ELSE Cardinality(vectors[Default])
        BY <4>1, FS_RemoveElement, Zenon
      <4>4. QED
        BY <4>1, <4>2, <4>3
    <3>2. /\ old \in Nat
          /\ meta'[Default] \in Metas
          /\ meta'[Default].count = IF gone = {} \/ old = 0 THEN old ELSE old - 1
      <4>1. old \in Nat
        BY <2>2, FieldsOK
      <4>2. meta'[Default] = [meta[Default] EXCEPT !.count =
                                IF gone = {} \/ @ = 0 THEN @ ELSE @ - 1]
        BY <1>17, <2>2, LeaveStep DEF RemoveDocument, Goto, locals
      <4>3. QED
        <5>1. PICK n \in Nat : n = IF gone = {} \/ old = 0 THEN old ELSE old - 1
          BY <4>1
        <5>2. meta[Default] \in Metas /\ meta'[Default] = [meta[Default] EXCEPT !.count = n]
          BY <2>2, <4>2, <5>1
        <5>3. meta'[Default] \in Metas /\ meta'[Default].count = n
          BY <5>2 DEF Metas
        <5>4. QED
          BY <4>1, <5>1, <5>3
    <3>3. gone # {} => Cardinality(vectors[Default]) # 0
      BY FS_EmptySet DEF CountInvariant
    <3>4. ~unguarded => Cardinality(vectors'[Default]) = meta'[Default].count
      BY <2>2, <3>1, <3>2, <3>3 DEF CountInvariant, CountIsExact
    <3>5. ASSUME ~unguarded, NEW u \in Threads, base'[u] = Default, pc'[u] = "vectors"
          PROVE  FALSE
      <4>1. pc[t] = "remove" /\ pc'[t] # "vectors" /\ base'[u] = base[u]
            /\ (u # t => pc'[u] = pc[u])
        BY <1>17, <2>2, LeaveStep DEF RemoveDocument, Goto, locals
      <4>2. QED
        BY <2>2, <3>5, <4>1, Alone DEF Guarded
    <3>6. QED
      BY <1>17, <3>1, <3>2, <3>4, <3>5 DEF RemoveDocument, CountInvariant, CountIsExact
  <2>3. QED
    BY <1>17, <2>1, <2>2 DEF RemoveDocument
<1>18. ASSUME NEW t \in Threads, ForgetDocument(t) PROVE CountInvariant'
  BY <1>18 DEF ForgetDocument, Goto, db, maps, locals, DbUp
<1>19. ASSUME NEW t \in Threads, Unlist(t) PROVE CountInvariant'
  BY <1>19, LeaveCount DEF Unlist, DbUp, db, maps, locals
<1>20. ASSUME NEW t \in Threads, ClearCaches(t) PROVE CountInvariant'
  BY <1>20 DEF ClearCaches, Goto, Detached, db, maps, locals, DbUp
<1>21. ASSUME NEW t \in Threads, DropKeys(t) PROVE CountInvariant'
  BY <1>21, LeaveCount DEF DropKeys, DbUp, db, maps, locals
<1>22. ASSUME NEW c \in Collections, CreateBase(c) PROVE CountInvariant'
  BY <1>22 DEF CreateBase, DbUp, db, maps, locals
<1>23. CASE CloseFlag
  BY <1>23 DEF CloseFlag, db, maps, locals, DbUp
<1>24. CASE CloseMaps
  BY <1>24 DEF CloseMaps, db, maps, locals, DbUp
<1>25. CASE CloseDb
  BY <1>25 DEF CloseDb, db, maps, locals, DbUp
<1>26. CASE Restart
  BY <1>26 DEF Restart, db, maps, locals, DbUp
<1>27. CASE UNCHANGED vars
  BY <1>27 DEF vars, db, maps, locals, DbUp
<1>28. QED
  BY <1>1, <1>2, <1>3, <1>4, <1>5, <1>6, <1>7, <1>8, <1>9, <1>10, <1>11,
     <1>12, <1>13, <1>14, <1>15, <1>16, <1>17, <1>18, <1>19, <1>20, <1>21,
     <1>22, <1>23, <1>24, <1>25, <1>26, <1>27 DEF Next, Starts, Steps

(* All of it holds at first. *)
LEMMA InitialContent ==
  Init => LockInvariant /\ ExclusionInvariant /\ DocumentInvariant /\ ContentInvariant
<1> SUFFICES ASSUME Init
             PROVE  LockInvariant /\ ExclusionInvariant /\ DocumentInvariant /\ ContentInvariant
  OBVIOUS
<1>1. LockInvariant /\ ExclusionInvariant
  BY DEF Init, LockInvariant, ExclusionInvariant, Guarded
<1>2. DocumentInvariant
  BY DEF Init, DocumentInvariant, Waiting
<1>3. ContentInvariant
  BY VectorStoreAssumption
     DEF Init, ContentInvariant, OneOwner, OnlyIssued, StoredInOrder, TextsHaveVectors,
         TextsGone, Uploading, Deleting
<1>4. QED
  BY <1>1, <1>2, <1>3

(* The recorded count is the number of documents that have vectors (M-6).      *)
THEOREM CountExact == Spec => []CountIsExact
<1>1. Init => CountInvariant
  BY FS_EmptySet, VectorStoreAssumption DEF Init, CountInvariant, CountIsExact
<1>2. CountInvariant => CountIsExact
  BY DEF CountInvariant
<1>3. QED
  BY <1>1, <1>2, InitialState, InitialContent, StateStep, LockStep, ExclusionStep,
     DocumentStep, ContentStep, CountStep, PTL DEF Spec

-----------------------------------------------------------------------------
(* The keyword index. *)

(* While the caches are in use and nobody works beside the lock, a cache may    *)
(* still find what a deletion has just removed, until it comes to "forget".    *)
Cached == ~unguarded /\ store \in {"open", "closing"}
Forgetting(d) == \E t \in Threads : Deleting(t) /\ pc[t] = "forget" /\ doc[t] = d

KeywordInvariant ==
  /\ Cached => \A d \in bm25[Default] : d \in chunks[Default] \/ Forgetting(d)
  /\ ~unguarded =>
        \A t \in Threads :
           Deleting(t) /\ pc[t] \in {"prune", "unlist"} => doc[t] \notin bm25[Default]

(* A step that takes nothing from the texts that the keyword index has, adds    *)
(* nothing to it, and leaves the deletions where they are.                    *)
LEMMA KeywordUntouched ==
  ASSUME KeywordInvariant,
         unguarded => unguarded',
         Cached' => Cached,
         bm25'[Default] \subseteq bm25[Default],
         \A d \in bm25[Default] : d \in chunks[Default] => d \in chunks'[Default],
         \A t \in Threads : Deleting(t) /\ pc[t] = "forget" =>
            Deleting(t)' /\ pc'[t] = "forget" /\ doc'[t] = doc[t],
         \A t \in Threads : Deleting(t)' /\ pc'[t] \in {"prune", "unlist"} =>
            Deleting(t) /\ pc[t] \in {"prune", "unlist"} /\ doc'[t] = doc[t]
  PROVE  KeywordInvariant'
BY DEF KeywordInvariant, Forgetting

LEMMA LeaveKeyword ==
  ASSUME StateInvariant, KeywordInvariant, NEW t \in Threads, Leave(t),
         pc[t] # "forget", bm25'[Default] = bm25[Default],
         \A d \in bm25[Default] : d \in chunks[Default] => d \in chunks'[Default],
         UNCHANGED <<store, unguarded>>
  PROVE  KeywordInvariant'
<1>1. ThreadsOK /\ PhaseInvariant
  BY DEF StateInvariant
<1>2. /\ pc'[t] = "idle" /\ op'[t] = "none"
      /\ \A u \in Threads \ {t} :
            pc'[u] = pc[u] /\ op'[u] = op[u] /\ base'[u] = base[u] /\ doc'[u] = doc[u]
  BY <1>1, LeaveStep
<1>3. QED
  BY <1>2, KeywordUntouched DEF Cached, Deleting

LEMMA KeywordStep ==
  /\ StateInvariant /\ LockInvariant /\ ExclusionInvariant /\ ContentInvariant
  /\ ClosedInvariant /\ KeywordInvariant /\ [Next]_vars
  => KeywordInvariant'
<1> SUFFICES ASSUME StateInvariant, LockInvariant, ExclusionInvariant, ContentInvariant,
                    ClosedInvariant, KeywordInvariant, [Next]_vars
             PROVE  KeywordInvariant'
  OBVIOUS
<1>t. SharedOK /\ ThreadsOK /\ PhaseInvariant
  BY DEF StateInvariant
<1> USE <1>t, KeywordUntouched, VectorStoreAssumption
     DEF SharedOK, ThreadsOK, PhaseInvariant, Cached, Deleting
<1>1. ASSUME NEW t \in Threads, NEW c \in Collections, NEW d \in Docs, IngestStart(t, c, d)
      PROVE  KeywordInvariant'
  BY <1>1 DEF IngestStart, Goto, Enter, DbUp, db, maps, locals
<1>2. ASSUME NEW t \in Threads, NEW c \in Collections, NEW d \in Docs, DeleteStart(t, c, d)
      PROVE  KeywordInvariant'
  BY <1>2 DEF DeleteStart, Goto, Enter, db, maps, locals
<1>3. ASSUME NEW t \in Threads, NEW c \in Collections, DropStart(t, c)
      PROVE  KeywordInvariant'
  BY <1>3 DEF DropStart, Goto, Enter, db, maps, locals
<1>4. ASSUME NEW t \in Threads, NEW c \in Collections, SearchStart(t, c)
      PROVE  KeywordInvariant'
  BY <1>4 DEF SearchStart, Goto, Enter, db, maps, locals
<1>5. ASSUME NEW t \in Threads, GetLock(t) PROVE KeywordInvariant'
  BY <1>5 DEF GetLock, Goto, DbUp, Unused, db, maps, locals
<1>6. ASSUME NEW t \in Threads, Lock(t) PROVE KeywordInvariant'
  BY <1>6 DEF Lock, Goto, Holds, db, maps, locals
<1>7. ASSUME NEW t \in Threads, WriteChunks(t) PROVE KeywordInvariant'
  BY <1>7, LeaveKeyword DEF WriteChunks, Goto, DbUp, db, maps, locals
<1>8. ASSUME NEW t \in Threads, ReadMeta(t) PROVE KeywordInvariant'
  BY <1>8 DEF ReadMeta, Goto, DbUp, db, maps, locals
<1>9. ASSUME NEW t \in Threads, WriteVectors(t) PROVE KeywordInvariant'
  BY <1>9 DEF WriteVectors, Goto, DbUp, db, maps, locals
<1>10. ASSUME NEW t \in Threads, InsertVectors(t) PROVE KeywordInvariant'
  BY <1>10 DEF InsertVectors, Goto, db, maps, locals
<1>11. ASSUME NEW t \in Threads, AddKeywords(t) PROVE KeywordInvariant'
  <2>1. CASE bm25' = bm25
    BY <1>11, <2>1 DEF AddKeywords, Goto, db, locals
  <2>2. CASE /\ bm25' = [bm25 EXCEPT ![base[t]] = @ \union {doc[t]}]
             /\ doc[t] \in chunks[base[t]]
    <3>1. \A d \in bm25'[Default] :
            d \in bm25[Default] \/ (d \in chunks[Default] /\ base[t] = Default /\ d = doc[t])
      BY <2>2
    <3>2. base[t] = Default =>
            \A u \in Threads : Deleting(u) => doc[u] # doc[t]
      BY <1>11 DEF AddKeywords, ContentInvariant, OneOwner
    <3>3. /\ UNCHANGED <<chunks, op, base, doc, store, unguarded>>
          /\ \A u \in Threads \ {t} : pc'[u] = pc[u]
          /\ op[t] = "ingest"
      BY <1>11 DEF AddKeywords, Goto, db, locals
    <3>4. QED
      BY <3>1, <3>2, <3>3 DEF KeywordInvariant, Forgetting
  <2>3. QED
    BY <1>11, <2>1, <2>2 DEF AddKeywords
<1>12. ASSUME NEW t \in Threads, Register(t) PROVE KeywordInvariant'
  BY <1>12, LeaveKeyword DEF Register, DbUp, db, maps, locals
<1>13. ASSUME NEW t \in Threads, Rollback(t) PROVE KeywordInvariant'
  <2>1. base[t] = Default => doc[t] \notin bm25[Default]
    BY <1>13 DEF Rollback, ContentInvariant, StoredInOrder, Uploading
  <2>2. QED
    BY <1>13, <2>1, LeaveKeyword DEF Rollback, DbUp, maps
<1>14. ASSUME NEW t \in Threads, GetIndex(t) PROVE KeywordInvariant'
  BY <1>14, LeaveKeyword DEF GetIndex, Goto, WithIndex, WithoutIndex, db,
     maps, locals
<1>15. ASSUME NEW t \in Threads, BuildIndex(t) PROVE KeywordInvariant'
  BY <1>15 DEF BuildIndex, Goto, DbUp, WithIndex, Detached, db, maps, locals
<1>16. ASSUME NEW t \in Threads, Scan(t) PROVE KeywordInvariant'
  BY <1>16, LeaveKeyword DEF Scan, DbUp, db, maps, locals
<1>17. ASSUME NEW t \in Threads, RemoveDocument(t) PROVE KeywordInvariant'
  <2>1. CASE Leave(t) /\ UNCHANGED <<vectors, chunks, meta>>
    BY <1>17, <2>1, LeaveKeyword DEF RemoveDocument, maps
  <2>2. CASE /\ base[t] # Default /\ UNCHANGED locals
             /\ chunks' = [chunks EXCEPT ![base[t]] = @ \ {doc[t]}]
             /\ pc' \in {[pc EXCEPT ![t] = "forget"], [pc EXCEPT ![t] = "prune"]}
    BY <1>17, <2>2 DEF RemoveDocument, maps, locals
  <2>3. CASE /\ base[t] = Default /\ DbUp
             /\ chunks' = [chunks EXCEPT ![Default] = @ \ {doc[t]}]
             /\ pc' = [pc EXCEPT ![t] = IF doc[t] \in vectors[Default] THEN "forget" ELSE "prune"]
             /\ UNCHANGED locals
    <3>1. /\ UNCHANGED <<bm25, store, unguarded>>
          /\ pc[t] = "remove" /\ op[t] = "delete"
      BY <1>17 DEF RemoveDocument, maps
    <3>2. ~unguarded => ~\E d : Forgetting(d)
      BY <2>3, <3>1, Alone DEF Forgetting, Guarded
    <3>3. Cached => bm25[Default] \subseteq chunks[Default]
      BY <3>2 DEF KeywordInvariant
    <3>4. doc[t] \in chunks[Default] => doc[t] \in vectors[Default]
      BY <2>3, <3>1 DEF ContentInvariant, TextsHaveVectors
    <3>5. ~Cached /\ ~unguarded => bm25[Default] = {}
      BY DEF ClosedInvariant, MapsNil, Stages
    <3>6. ASSUME Cached' PROVE \A d \in bm25'[Default] : d \in chunks'[Default] \/ Forgetting(d)'
      <4>1. CASE doc[t] \in vectors[Default]
        BY <2>3, <3>1, <3>3, <3>6, <4>1 DEF Forgetting, locals
      <4>2. CASE doc[t] \notin vectors[Default]
        BY <2>3, <3>1, <3>3, <3>4, <3>6, <4>2
      <4>3. QED
        BY <4>1, <4>2
    <3>7. ASSUME ~unguarded', NEW u \in Threads, Deleting(u)', pc'[u] \in {"prune", "unlist"}
          PROVE  doc'[u] \notin bm25'[Default]
      <4>1. CASE u = t
        BY <2>3, <3>1, <3>3, <3>4, <3>5, <3>7, <4>1 DEF locals
      <4>2. CASE u # t
        BY <2>3, <3>1, <3>7, <4>2 DEF KeywordInvariant, locals
      <4>3. QED
        BY <4>1, <4>2
    <3>8. QED
      BY <3>6, <3>7 DEF KeywordInvariant
  <2>4. QED
    BY <1>17, <2>1, <2>3, <2>2 DEF RemoveDocument, Goto
<1>18. ASSUME NEW t \in Threads, ForgetDocument(t) PROVE KeywordInvariant'
  <2>1. /\ op[t] = "delete" /\ pc' = [pc EXCEPT ![t] = "unlist"]
        /\ UNCHANGED <<chunks, op, base, doc, store, unguarded>>
    BY <1>18 DEF ForgetDocument, Goto, db
  <2>2. CASE pc[t] = "forget" /\ bm25' = [bm25 EXCEPT ![base[t]] = @ \ {doc[t]}]
    <3>1. ASSUME Cached', NEW d \in bm25'[Default] PROVE d \in chunks'[Default] \/ Forgetting(d)'
      <4>1. d \in bm25[Default] /\ (base[t] = Default => d # doc[t])
        BY <2>2, <3>1
      <4>2. CASE d \in chunks[Default]
        BY <2>1, <4>2
      <4>3. CASE Forgetting(d)
        BY <2>1, <4>1, <4>3 DEF Forgetting
      <4>4. QED
        BY <2>1, <3>1, <4>1, <4>2, <4>3 DEF KeywordInvariant
    <3>2. ASSUME ~unguarded', NEW u \in Threads, Deleting(u)', pc'[u] \in {"prune", "unlist"}
          PROVE  doc'[u] \notin bm25'[Default]
      BY <2>1, <2>2, <3>2 DEF KeywordInvariant
    <3>3. QED
      BY <3>1, <3>2 DEF KeywordInvariant
  <2>3. CASE pc[t] = "prune" /\ bm25' = bm25
    BY <2>1, <2>3
  <2>4. QED
    BY <1>18, <2>2, <2>3 DEF ForgetDocument
<1>19. ASSUME NEW t \in Threads, Unlist(t) PROVE KeywordInvariant'
  BY <1>19, LeaveKeyword DEF Unlist, DbUp, db, maps, locals
<1>20. ASSUME NEW t \in Threads, ClearCaches(t) PROVE KeywordInvariant'
  BY <1>20 DEF ClearCaches, Goto, Detached, db, maps, locals
<1>21. ASSUME NEW t \in Threads, DropKeys(t) PROVE KeywordInvariant'
  BY <1>21, LeaveKeyword DEF DropKeys, DbUp, db, maps, locals
<1>22. ASSUME NEW c \in Collections, CreateBase(c) PROVE KeywordInvariant'
  BY <1>22 DEF CreateBase, DbUp, db, maps, locals
<1>23. CASE CloseFlag
  BY <1>23 DEF CloseFlag, db, maps, locals
<1>24. CASE CloseMaps
  BY <1>24 DEF CloseMaps, db, maps, locals
<1>25. CASE CloseDb
  BY <1>25 DEF CloseDb, db, maps, locals
<1>26. CASE Restart
  <2>1. bm25'[Default] = chunks'[Default] /\ \A u \in Threads : pc'[u] = "idle"
    BY <1>26 DEF Restart, db
  <2>2. QED
    BY <2>1 DEF KeywordInvariant
<1>27. CASE UNCHANGED vars
  BY <1>27 DEF vars, db, maps, locals
<1>28. QED
  BY <1>1, <1>2, <1>3, <1>4, <1>5, <1>6, <1>7, <1>8, <1>9, <1>10, <1>11,
     <1>12, <1>13, <1>14, <1>15, <1>16, <1>17, <1>18, <1>19, <1>20, <1>21,
     <1>22, <1>23, <1>24, <1>25, <1>26, <1>27 DEF Next, Starts, Steps

-----------------------------------------------------------------------------
(* The index. *)

(* An upload whose vectors are stored and not yet in the index.                *)
Inserting(d) ==
  \E t \in Threads : Uploading(t) /\ pc[t] \in {"index", "build", "await"} /\ doc[t] = d

(* Who fills an index, or waits for one, has the index that is in use; one that *)
(* is not filled is being filled.                                              *)
IndexOwned ==
  /\ \A t \in Threads : base[t] = Default /\ pc[t] \in {"build", "await"} => attached[t]
  /\ index[Default] # NoIndex /\ ~index[Default].ready =>
       \E t \in Threads : base[t] = Default /\ pc[t] = "build"

(* It finds what is stored, but for the document in hand of the one who works.  *)
FoundIsStored == \A d \in Searchable(Default) : d \in vectors[Default] \/ Forgetting(d)

StoredIsFound ==
  index[Default] # NoIndex /\ index[Default].ready /\ index[Default].dim =>
    \/ \A d \in vectors[Default] : d \in Searchable(Default) \/ Inserting(d)
    \/ index[Default].kind = "disk" /\ Searchable(Default) = {}

(* What is about to leave the list it does not find.                           *)
DeletedNotFound ==
  \A t \in Threads : Deleting(t) /\ pc[t] = "unlist" => doc[t] \notin Searchable(Default)

IndexInvariant == Cached => IndexOwned /\ FoundIsStored /\ StoredIsFound /\ DeletedNotFound

(* A step that leaves the index and the vectors alone; threads may take up work *)
(* or leave it, but not with a document that is not yet in the index, or still  *)
(* in it.                                                                     *)
LEMMA IndexUntouched ==
  ASSUME IndexInvariant,
         Cached' => Cached,
         index'[Default] = index[Default], vectors'[Default] = vectors[Default],
         \A t \in Threads : base'[t] = Default /\ pc'[t] \in {"build", "await"} =>
            attached'[t] \/ (base[t] = Default /\ pc[t] \in {"build", "await"} /\ ~attached[t]),
         \A t \in Threads : base[t] = Default /\ pc[t] = "build" =>
            base'[t] = Default /\ pc'[t] = "build",
         \A t \in Threads : Deleting(t) /\ pc[t] = "forget" =>
            Deleting(t)' /\ pc'[t] = "forget" /\ doc'[t] = doc[t],
         \A t \in Threads : Uploading(t) /\ pc[t] \in {"index", "build", "await"} =>
            Uploading(t)' /\ pc'[t] \in {"index", "build", "await"} /\ doc'[t] = doc[t],
         \A t \in Threads : Deleting(t)' /\ pc'[t] = "unlist" =>
            Deleting(t) /\ pc[t] = "unlist" /\ doc'[t] = doc[t]
  PROVE  IndexInvariant'
<1> SUFFICES ASSUME Cached'
             PROVE  (IndexOwned /\ FoundIsStored /\ StoredIsFound /\ DeletedNotFound)'
  BY DEF IndexInvariant
<1>1. Cached /\ IndexOwned /\ FoundIsStored /\ StoredIsFound /\ DeletedNotFound
  BY DEF IndexInvariant
<1>2. Searchable(Default)' = Searchable(Default)
  BY DEF Searchable, Found
<1>3. \A d : Forgetting(d) => Forgetting(d)'
  BY DEF Forgetting
<1>4. \A d : Inserting(d) => Inserting(d)'
  BY DEF Inserting
<1>5. IndexOwned'
  BY <1>1 DEF IndexOwned
<1>6. FoundIsStored' /\ DeletedNotFound'
  BY <1>1, <1>2, <1>3 DEF FoundIsStored, DeletedNotFound
<1>7. StoredIsFound'
  BY <1>1, <1>2, <1>4 DEF StoredIsFound
<1>8. QED
  BY <1>5, <1>6, <1>7

LEMMA LeaveIndex ==
  ASSUME StateInvariant, IndexInvariant, NEW t \in Threads, Leave(t),
         pc[t] \notin {"forget", "build", "await"},
         ~(op[t] = "ingest" /\ pc[t] = "index"),
         index'[Default] = index[Default], vectors'[Default] = vectors[Default],
         UNCHANGED <<store, unguarded>>
  PROVE  IndexInvariant'
<1>1. ThreadsOK /\ PhaseInvariant
  BY DEF StateInvariant
<1>2. /\ pc'[t] = "idle" /\ op'[t] = "none"
      /\ \A u \in Threads \ {t} :
            /\ pc'[u] = pc[u] /\ op'[u] = op[u] /\ base'[u] = base[u]
            /\ doc'[u] = doc[u] /\ attached'[u] = attached[u]
  BY <1>1, LeaveStep
<1>3. QED
  BY <1>2, IndexUntouched DEF Cached, Deleting, Uploading, ThreadsOK

(* Where there is no index, only those count who expect one.                   *)
LEMMA IndexAbsent ==
  ASSUME index'[Default] = NoIndex,
         Cached' => \A t \in Threads :
            base'[t] = Default /\ pc'[t] \in {"build", "await"} => attached'[t]
  PROVE  IndexInvariant'
BY DEF IndexInvariant, IndexOwned, FoundIsStored, StoredIsFound, DeletedNotFound, Searchable

(* An index after a change of its content.                                     *)
LEMMA IndexContent ==
  ASSUME SharedOK, NEW f \in [Docs -> Nat], index[Default] # NoIndex,
         \/ index' = [index EXCEPT ![Default].ids = f]
         \/ index' = [index EXCEPT ![Default].ready = TRUE, ![Default].ids = f]
  PROVE  /\ index'[Default] # NoIndex
         /\ index'[Default].kind = index[Default].kind
         /\ index'[Default].dim = index[Default].dim
         /\ index[Default].ready => index'[Default].ready
         /\ ~index'[Default].ready =>
              ~index[Default].ready /\ index' = [index EXCEPT ![Default].ids = f]
         /\ Searchable(Default)' = {d \in Docs : f[d] > 0}
<1>1. index \in [Collections -> Indexes \union {NoIndex}] /\ index[Default] \in Indexes
  BY VectorStoreAssumption DEF SharedOK
<1>2. CASE index' = [index EXCEPT ![Default].ids = f]
  <2>1. index'[Default] = [index[Default] EXCEPT !.ids = f]
    BY <1>1, <1>2, VectorStoreAssumption
  <2>2. index'[Default] \in Indexes /\ index'[Default].ids = f
        /\ index'[Default].kind = index[Default].kind
        /\ index'[Default].dim = index[Default].dim
        /\ index'[Default].ready = index[Default].ready
    BY <1>1, <2>1 DEF Indexes
  <2>3. QED
    BY <1>2, <2>2, VectorStoreAssumption DEF Searchable, Found
<1>3. CASE index' = [index EXCEPT ![Default].ready = TRUE, ![Default].ids = f]
  <2>1. index'[Default] = [index[Default] EXCEPT !.ready = TRUE, !.ids = f]
    BY <1>1, <1>3, VectorStoreAssumption
  <2>2. index'[Default] \in Indexes /\ index'[Default].ids = f
        /\ index'[Default].kind = index[Default].kind
        /\ index'[Default].dim = index[Default].dim
        /\ index'[Default].ready
    BY <1>1, <2>1 DEF Indexes
  <2>3. QED
    BY <2>2, VectorStoreAssumption DEF Searchable, Found
<1>4. QED
  BY <1>2, <1>3

(* What counts of documents say is found.                                      *)
LEMMA FoundContent ==
  /\ {d \in Docs : Nothing[d] > 0} = {}
  /\ \A D \in SUBSET Docs : {d \in Docs : Once(D)[d] > 0} = D
BY DEF Nothing, Once

LEMMA IndexStep ==
  /\ StateInvariant /\ LockInvariant /\ ExclusionInvariant /\ DocumentInvariant
  /\ ContentInvariant /\ IndexInvariant /\ [Next]_vars
  => IndexInvariant'
<1> SUFFICES ASSUME StateInvariant, LockInvariant, ExclusionInvariant, DocumentInvariant,
                    ContentInvariant, IndexInvariant, [Next]_vars
             PROVE  IndexInvariant'
  OBVIOUS
<1>t. SharedOK /\ ThreadsOK /\ PhaseInvariant /\ AttachedInvariant
  BY DEF StateInvariant
<1>a. ASSUME Cached, NEW t \in Threads, base[t] = Default, pc[t] \in Guarded,
             NEW u \in Threads, base[u] = Default, pc[u] \in Guarded
      PROVE  t = u
  BY <1>a, Alone DEF Cached, DbUp
<1> DEFINE Now == IndexOwned /\ FoundIsStored /\ StoredIsFound /\ DeletedNotFound
<1>i. Cached => Now
  BY DEF IndexInvariant
<1> HIDE DEF Now
<1> USE <1>t, VectorStoreAssumption
     DEF SharedOK, ThreadsOK, PhaseInvariant, Cached, Deleting, Uploading
<1>1. ASSUME NEW t \in Threads, NEW c \in Collections, NEW d \in Docs, IngestStart(t, c, d)
      PROVE  IndexInvariant'
  BY <1>1, IndexUntouched DEF IngestStart, Goto, Enter, DbUp, db, maps,
     locals
<1>2. ASSUME NEW t \in Threads, NEW c \in Collections, NEW d \in Docs, DeleteStart(t, c, d)
      PROVE  IndexInvariant'
  BY <1>2, IndexUntouched DEF DeleteStart, Goto, Enter, db, maps, locals
<1>3. ASSUME NEW t \in Threads, NEW c \in Collections, DropStart(t, c)
      PROVE  IndexInvariant'
  BY <1>3, IndexUntouched DEF DropStart, Goto, Enter, db, maps, locals
<1>4. ASSUME NEW t \in Threads, NEW c \in Collections, SearchStart(t, c)
      PROVE  IndexInvariant'
  BY <1>4, IndexUntouched DEF SearchStart, Goto, Enter, db, maps, locals
<1>5. ASSUME NEW t \in Threads, GetLock(t) PROVE IndexInvariant'
  BY <1>5, IndexUntouched DEF GetLock, Goto, DbUp, Unused, db, maps, locals
<1>6. ASSUME NEW t \in Threads, Lock(t) PROVE IndexInvariant'
  BY <1>6, IndexUntouched DEF Lock, Goto, Holds, db, maps, locals
<1>7. ASSUME NEW t \in Threads, WriteChunks(t) PROVE IndexInvariant'
  BY <1>7, LeaveIndex, IndexUntouched DEF WriteChunks, Goto, DbUp, db, maps,
     locals
<1>8. ASSUME NEW t \in Threads, ReadMeta(t) PROVE IndexInvariant'
  BY <1>8, IndexUntouched DEF ReadMeta, Goto, DbUp, db, maps, locals
<1>9. ASSUME NEW t \in Threads, WriteVectors(t) PROVE IndexInvariant'
  <2>1. CASE vectors'[Default] = vectors[Default]
    BY <1>9, <2>1, IndexUntouched DEF WriteVectors, Goto, maps
  <2>2. CASE /\ base[t] = Default
             /\ vectors' = [vectors EXCEPT ![Default] = @ \union {doc[t]}]
             /\ pc' = [pc EXCEPT ![t] = "index"]
    <3>1. /\ pc[t] = "vectors" /\ op[t] = "ingest"
          /\ UNCHANGED <<index, store, unguarded, op, base, doc, attached>>
      BY <1>9 DEF WriteVectors, maps
    <3>2. SUFFICES ASSUME Cached PROVE Now'
      BY <3>1 DEF IndexInvariant, Now
    <3>3. Searchable(Default)' = Searchable(Default)
      BY <3>1 DEF Searchable, Found
    <3>4. \A d : (Forgetting(d) => Forgetting(d)') /\ (Inserting(d) => Inserting(d)')
      BY <2>2, <3>1 DEF Forgetting, Inserting
    <3>5. Inserting(doc[t])'
      BY <2>2, <3>1 DEF Inserting
    <3>6. IndexOwned'
      BY <1>i, <2>2, <3>1, <3>2 DEF IndexOwned, Now
    <3>7. FoundIsStored' /\ DeletedNotFound'
      BY <1>i, <2>2, <3>1, <3>2, <3>3, <3>4 DEF FoundIsStored, DeletedNotFound, Now
    <3>8. StoredIsFound'
      BY <1>i, <2>2, <3>1, <3>2, <3>3, <3>4, <3>5 DEF StoredIsFound, Now
    <3>9. QED
      BY <3>6, <3>7, <3>8 DEF Now
  <2>3. QED
    BY <1>9, <2>1, <2>2 DEF WriteVectors, Goto
<1>10. ASSUME NEW t \in Threads, InsertVectors(t) PROVE IndexInvariant'
  <2>1. /\ pc[t] = "await" /\ op[t] = "ingest"
        /\ UNCHANGED <<vectors, store, unguarded, op, base, doc, attached>>
        /\ \A u \in Threads \ {t} : pc'[u] = pc[u]
        /\ pc'[t] \in {"keywords", "rollback"}
    BY <1>10 DEF InsertVectors, Goto, db, locals
  <2>2. CASE base[t] # Default
    BY <1>10, <2>1, <2>2, IndexUntouched DEF InsertVectors
  <2>3. CASE base[t] = Default
    <3>1. SUFFICES ASSUME Cached PROVE Now'
      BY <2>1 DEF IndexInvariant, Now
    <3>2. /\ attached[t] /\ index[Default] # NoIndex /\ index[Default].ready
          /\ index[Default] \in Indexes /\ doc[t] \in Docs
      BY <1>10, <1>i, <2>1, <2>3, <3>1
         DEF InsertVectors, Now, IndexOwned, AttachedInvariant
    <3> DEFINE old == index[Default].ids
    <3>3. old \in [Docs -> Nat] /\ Searchable(Default) = {d \in Docs : old[d] > 0}
      BY <3>2, FieldsOK DEF Searchable, Found
    <3>4. \A d : Forgetting(d) => Forgetting(d)'
      BY <2>1 DEF Forgetting
    <3>5. \A d : Inserting(d) => d = doc[t]
      BY <1>a, <2>1, <2>3, <3>1 DEF Inserting, Guarded
    <3>6. CASE index[Default].kind = "mem"
      <4> DEFINE f == [old EXCEPT ![doc[t]] = 1 + @]
      <4>1. index' = [index EXCEPT ![Default].ids = f]
        BY <1>10, <2>3, <3>2, <3>6 DEF InsertVectors
      <4>2. f \in [Docs -> Nat] /\ {d \in Docs : f[d] > 0} = Searchable(Default) \union {doc[t]}
        BY <3>2, <3>3
      <4> HIDE DEF f
      <4>3. /\ index'[Default].ready /\ index'[Default].dim = index[Default].dim
            /\ index'[Default].kind = "mem"
            /\ Searchable(Default)' = Searchable(Default) \union {doc[t]}
        BY <3>2, <3>6, <4>1, <4>2, IndexContent
      <4>4. doc[t] \in vectors[Default]
        BY <2>1, <2>3 DEF ContentInvariant, StoredInOrder
      <4>5. IndexOwned'
        BY <1>i, <2>1, <3>1, <4>3 DEF Now, IndexOwned
      <4>6. FoundIsStored'
        BY <1>i, <2>1, <3>1, <3>4, <4>3, <4>4 DEF Now, FoundIsStored
      <4>7. StoredIsFound'
        BY <1>i, <2>1, <3>1, <3>2, <3>5, <3>6, <4>3 DEF Now, StoredIsFound
      <4>8. DeletedNotFound'
        BY <1>i, <2>1, <2>3, <3>1, <4>3
           DEF Now, DeletedNotFound, ContentInvariant, OneOwner
      <4>9. QED
        BY <4>5, <4>6, <4>7, <4>8 DEF Now
    <3>7. CASE index[Default].kind # "mem"
      <4>1. index' = [index EXCEPT ![Default].ids = Nothing]
        BY <1>10, <2>3, <3>2, <3>7 DEF InsertVectors
      <4>2. /\ index'[Default].ready /\ index'[Default].kind = "disk"
            /\ Searchable(Default)' = {}
        <5>1. index[Default].kind = "disk"
          BY <3>2, <3>7 DEF Indexes
        <5>2. Nothing \in [Docs -> Nat]
          BY CountsOK
        <5>3. QED
          BY <3>2, <4>1, <5>1, <5>2, FoundContent, IndexContent
      <4>3. IndexOwned'
        BY <1>i, <2>1, <3>1, <4>2 DEF Now, IndexOwned
      <4>4. QED
        BY <4>2, <4>3 DEF Now, FoundIsStored, StoredIsFound, DeletedNotFound
    <3>8. QED
      BY <3>6, <3>7
  <2>4. QED
    BY <2>2, <2>3
<1>11. ASSUME NEW t \in Threads, AddKeywords(t) PROVE IndexInvariant'
  BY <1>11, IndexUntouched DEF AddKeywords, Goto, DbUp, db, maps, locals
<1>12. ASSUME NEW t \in Threads, Register(t) PROVE IndexInvariant'
  BY <1>12, LeaveIndex DEF Register, DbUp, db, maps, locals
<1>13. ASSUME NEW t \in Threads, Rollback(t) PROVE IndexInvariant'
  BY <1>13, LeaveIndex DEF Rollback, DbUp, db, maps, locals
<1>14. ASSUME NEW t \in Threads, GetIndex(t) PROVE IndexInvariant'
  <2>1. /\ pc[t] = "index" /\ UNCHANGED <<vectors, store, unguarded>>
        /\ \A u \in Threads \ {t} :
              /\ pc'[u] = pc[u] /\ op'[u] = op[u] /\ base'[u] = base[u]
              /\ doc'[u] = doc[u] /\ attached'[u] = attached[u]
    <3>1. CASE Leave(t)
      BY <1>14, <3>1, LeaveStep DEF GetIndex, db
    <3>2. CASE ~Leave(t)
      BY <1>14, <3>2 DEF GetIndex, Goto, WithIndex, WithoutIndex, db, locals
    <3>3. QED
      BY <3>1, <3>2
  <2>2. CASE Leave(t)
    <3>1. op[t] # "ingest" /\ index' = index
      BY <1>14, <2>2 DEF GetIndex, Goto, WithIndex, WithoutIndex, Leave
    <3>2. QED
      BY <2>1, <2>2, <3>1, LeaveIndex
  <2>3. CASE ~Leave(t) /\ UNCHANGED <<op, base, doc>> /\ base[t] # Default
    BY <1>14, <2>1, <2>3, IndexUntouched DEF GetIndex, Goto, WithIndex, WithoutIndex
  <2>4. CASE /\ UNCHANGED <<op, base, doc, index>> /\ attached'[t]
             /\ pc'[t] \in {"await", "scan"} /\ (op[t] = "ingest" => pc'[t] = "await")
    BY <2>1, <2>4, IndexUntouched
  <2>5. CASE /\ UNCHANGED <<op, base, doc, index>> /\ pc'[t] = "rollback"
             /\ index[base[t]] = NoIndex /\ base[t] = Default
    <3>1. index'[Default] = NoIndex
      BY <2>5
    <3>2. Cached => \A u \in Threads : base[u] = Default => pc[u] \notin {"build", "await"}
      BY <1>a, <2>1, <2>5 DEF Guarded
    <3>3. QED
      BY <2>1, <2>5, <3>1, <3>2, IndexAbsent
  <2> DEFINE New(large) == [kind |-> IF large THEN "disk" ELSE "mem",
                            dim |-> meta[base[t]].dim, ready |-> large, ids |-> Nothing]
  <2>6. CASE /\ UNCHANGED <<op, base, doc>> /\ base[t] = Default /\ attached'[t]
             /\ index[Default] = NoIndex
             /\ \/ /\ index' = [index EXCEPT ![Default] = New(TRUE)]
                   /\ pc'[t] \in {"await", "scan"}
                \/ /\ index' = [index EXCEPT ![Default] = New(FALSE)]
                   /\ pc'[t] = "build"
    <3>1. SUFFICES ASSUME Cached PROVE Now'
      BY <2>1 DEF IndexInvariant, Now
    <3>2. \/ index'[Default] = New(TRUE) /\ pc'[t] \in {"await", "scan"}
          \/ index'[Default] = New(FALSE) /\ pc'[t] = "build"
      BY <2>6
    <3>3. Searchable(Default)' = {}
      BY <3>2, FoundContent DEF Searchable, Found
    <3>4. IndexOwned'
      <4>1. index'[Default].ready \/ pc'[t] = "build"
        BY <3>2
      <4>2. QED
        BY <1>i, <2>1, <2>6, <3>1, <4>1 DEF Now, IndexOwned
    <3>5. StoredIsFound'
      <4>1. ~index'[Default].ready \/ index'[Default].kind = "disk"
        BY <3>2
      <4>2. QED
        BY <3>3, <4>1 DEF StoredIsFound
    <3>6. QED
      BY <3>3, <3>4, <3>5 DEF Now, FoundIsStored, DeletedNotFound
  <2>7. CASE index[base[t]] # NoIndex /\ WithIndex(t) /\ UNCHANGED <<index, op, base, doc>>
             /\ attached' = [attached EXCEPT ![t] = TRUE]
    <3>1. attached'[t] /\ pc'[t] \in {"await", "scan"} /\ (op[t] = "ingest" => pc'[t] = "await")
      BY <2>7 DEF WithIndex, Goto
    <3>2. QED
      BY <2>4, <2>7, <3>1
  <2>8. CASE /\ index[base[t]] = NoIndex /\ UNCHANGED <<op, base, doc>>
             /\ attached' = [attached EXCEPT ![t] = TRUE]
             /\ \/ index' = [index EXCEPT ![base[t]] = New(TRUE)] /\ WithIndex(t)
                \/ index' = [index EXCEPT ![base[t]] = New(FALSE)] /\ Goto(t, "build")
    <3>1. attached'[t]
      BY <2>8
    <3>2. \/ index' = [index EXCEPT ![base[t]] = New(TRUE)] /\ pc'[t] \in {"await", "scan"}
          \/ index' = [index EXCEPT ![base[t]] = New(FALSE)] /\ pc'[t] = "build"
      BY <2>8 DEF WithIndex, Goto
    <3> HIDE DEF New
    <3>3. CASE base[t] = Default
      BY <2>6, <2>8, <3>1, <3>2, <3>3
    <3>4. CASE base[t] # Default /\ ~Leave(t)
      BY <2>3, <2>8, <3>4
    <3>5. QED
      BY <2>2, <3>3, <3>4
  <2>9. CASE index[base[t]] = NoIndex /\ WithoutIndex(t) /\ UNCHANGED index
    <3>1. CASE op[t] = "ingest" /\ ~Leave(t)
      BY <2>3, <2>5, <2>9, <3>1 DEF WithoutIndex, Goto, locals
    <3>2. QED
      BY <2>2, <2>9, <3>1 DEF WithoutIndex
  <2>10. CASE meta[base[t]].count > MaxInMemory
    BY <1>14, <2>7, <2>8, <2>9, <2>10 DEF GetIndex
  <2>11. CASE ~(meta[base[t]].count > MaxInMemory)
    <3>1. CASE \/ index[base[t]] # NoIndex
               \/ index[base[t]] = NoIndex /\ WithoutIndex(t) /\ UNCHANGED index
      BY <1>14, <2>7, <2>9, <3>1 DEF GetIndex
    <3>2. CASE /\ index[base[t]] = NoIndex /\ UNCHANGED <<op, base, doc>>
               /\ attached' = [attached EXCEPT ![t] = TRUE]
               /\ index' = [index EXCEPT ![base[t]] =
                              [kind |-> "mem", dim |-> meta[base[t]].dim,
                               ready |-> meta[base[t]].count > MaxInMemory,
                               ids |-> Nothing]]
               /\ Goto(t, "build")
      <4>1. (meta[base[t]].count > MaxInMemory) = FALSE
        BY <2>11
      <4>2. index' = [index EXCEPT ![base[t]] = New(FALSE)]
        BY <3>2, <4>1
      <4>3. QED
        BY <2>8, <3>2, <4>2
    <3>3. QED
      BY <1>14, <2>11, <3>1, <3>2 DEF GetIndex
  <2>12. QED
    BY <2>10, <2>11
<1>15. ASSUME NEW t \in Threads, BuildIndex(t) PROVE IndexInvariant'
  <2>1. /\ pc[t] = "build" /\ UNCHANGED <<vectors, store, unguarded, op, base, doc>>
        /\ \A u \in Threads \ {t} : pc'[u] = pc[u]
        /\ pc'[t] \in {"await", "scan", "rollback"}
    BY <1>15 DEF BuildIndex, Goto, WithIndex, db, locals
  <2>2. CASE base[t] # Default
    <3>1. \A u \in Threads : base[u] = Default => attached'[u] = attached[u]
      BY <1>15, <2>2 DEF BuildIndex, Detached, locals
    <3>2. index'[Default] = index[Default]
      BY <1>15, <2>2 DEF BuildIndex
    <3>3. QED
      BY <2>1, <2>2, <3>1, <3>2, IndexUntouched
  <2>3. CASE base[t] = Default /\ index' = [index EXCEPT ![Default] = NoIndex]
    <3>1. Cached => \A u \in Threads \ {t} : base[u] = Default => pc[u] \notin {"build", "await"}
      BY <1>a, <2>1, <2>3 DEF Guarded
    <3>2. CASE pc'[t] # "await"
      BY <2>1, <2>3, <3>1, <3>2, IndexAbsent
    <3>3. CASE pc'[t] = "await" /\ attached' = attached
      BY <1>i, <2>1, <2>3, <3>1, <3>3, IndexAbsent DEF Now, IndexOwned
    <3>4. QED
      BY <1>15, <3>2, <3>3 DEF BuildIndex, Goto, locals
  <2>4. CASE /\ base[t] = Default /\ UNCHANGED locals
             /\ index' = IF ~attached[t] THEN index ELSE
                   [index EXCEPT ![base[t]].ready = TRUE,
                     ![base[t]].ids = Once(IF index[base[t]].dim THEN vectors[base[t]] ELSE {})]
             /\ pc'[t] = IF op[t] = "ingest" THEN "await" ELSE "scan"
    <3>1. SUFFICES ASSUME Cached PROVE Now'
      BY <2>1 DEF IndexInvariant, Now
    <3> DEFINE S == IF index[Default].dim THEN vectors[Default] ELSE {}
               f == Once(S)
    <3>2. attached[t] /\ index[Default] # NoIndex
      BY <1>i, <2>1, <2>4, <3>1 DEF Now, IndexOwned, AttachedInvariant
    <3>3. index' = [index EXCEPT ![Default].ready = TRUE, ![Default].ids = f]
      BY <2>4, <3>2
    <3>4. S \in SUBSET Docs /\ S \subseteq vectors[Default]
      OBVIOUS
    <3>5. f \in [Docs -> Nat] /\ {d \in Docs : f[d] > 0} = S
      BY <3>4, CountsOK, FoundContent
    <3> HIDE DEF f
    <3>6. /\ index'[Default].dim = index[Default].dim
          /\ Searchable(Default)' = S
      BY <3>2, <3>3, <3>5, IndexContent
    <3>7. index'[Default].ready
      <4>1. index[Default] \in Indexes
        BY <3>2
      <4>2. index'[Default] = [index[Default] EXCEPT !.ready = TRUE, !.ids = f]
        BY <3>3
      <4>3. QED
        BY <4>1, <4>2 DEF Indexes
    <3>8. IndexOwned'
      BY <1>i, <2>1, <2>4, <3>1, <3>7 DEF Now, IndexOwned, locals
    <3>9. FoundIsStored' /\ StoredIsFound'
      BY <2>1, <3>6 DEF FoundIsStored, StoredIsFound
    <3>10. DeletedNotFound'
      <4>1. ASSUME NEW u \in Threads, Deleting(u)', pc'[u] = "unlist"
            PROVE  doc'[u] \notin vectors[Default]
        BY <2>1, <4>1 DEF DocumentInvariant
      <4>2. QED
        BY <3>4, <3>6, <4>1 DEF DeletedNotFound
    <3>11. QED
      BY <3>8, <3>9, <3>10 DEF Now
  <2>5. QED
    BY <1>15, <2>2, <2>3, <2>4 DEF BuildIndex, WithIndex, Goto
<1>16. ASSUME NEW t \in Threads, Scan(t) PROVE IndexInvariant'
  <2>1. /\ pc[t] = "scan" /\ Leave(t) /\ UNCHANGED <<vectors, store, unguarded>>
    BY <1>16 DEF Scan, db
  <2>2. CASE base[t] # Default \/ index' = index
    BY <1>16, <2>1, <2>2, LeaveIndex DEF Scan
  <2>3. CASE /\ base[t] = Default /\ attached[t] /\ index[Default].ready
             /\ index[Default].kind = "disk"
             /\ index' = [index EXCEPT ![Default].ids =
                            Once(Found(index[Default]) \union vectors[Default])]
    <3>1. SUFFICES ASSUME Cached PROVE Now'
      BY <2>1 DEF IndexInvariant, Now
    <3> DEFINE S == Searchable(Default) \union vectors[Default]
               f == Once(S)
    <3>2. index[Default] # NoIndex
      BY <2>3 DEF AttachedInvariant
    <3>3. S \in SUBSET Docs /\ S = Found(index[Default]) \union vectors[Default]
      BY <3>2 DEF Searchable, Found
    <3>4. f \in [Docs -> Nat] /\ {d \in Docs : f[d] > 0} = S
      BY <3>3, CountsOK, FoundContent
    <3>5. index' = [index EXCEPT ![Default].ids = f]
      BY <2>3, <3>3
    <3> HIDE DEF f
    <3>6. /\ index'[Default].ready /\ Searchable(Default)' = S
      BY <2>3, <3>2, <3>4, <3>5, IndexContent
    <3>7. \A u \in Threads \ {t} :
            /\ pc'[u] = pc[u] /\ op'[u] = op[u] /\ base'[u] = base[u]
            /\ doc'[u] = doc[u] /\ attached'[u] = attached[u]
      BY <2>1, LeaveStep
    <3>8. pc'[t] = "idle" /\ op'[t] = "none"
      BY <2>1, LeaveStep
    <3>9. IndexOwned'
      BY <1>i, <2>1, <3>1, <3>6, <3>7, <3>8 DEF Now, IndexOwned
    <3>10. \A d : Forgetting(d) => Forgetting(d)'
      BY <2>1, <3>7 DEF Forgetting
    <3>11. FoundIsStored' /\ StoredIsFound'
      BY <1>i, <2>1, <3>1, <3>6, <3>10 DEF Now, FoundIsStored, StoredIsFound
    <3>12. DeletedNotFound'
      BY <1>i, <3>1, <3>6, <3>7, <3>8 DEF Now, DeletedNotFound, DocumentInvariant
    <3>13. QED
      BY <3>9, <3>11, <3>12 DEF Now
  <2>4. QED
    BY <1>16, <2>2, <2>3 DEF Scan
<1>17. ASSUME NEW t \in Threads, RemoveDocument(t) PROVE IndexInvariant'
  <2>1. CASE Leave(t) /\ UNCHANGED <<vectors, chunks, meta>>
    BY <1>17, <2>1, LeaveIndex DEF RemoveDocument, maps
  <2>2. CASE /\ base[t] # Default /\ UNCHANGED locals
             /\ vectors' = [vectors EXCEPT ![base[t]] = @ \ {doc[t]}]
             /\ pc' \in {[pc EXCEPT ![t] = "forget"], [pc EXCEPT ![t] = "prune"]}
    BY <1>17, <2>2, IndexUntouched DEF RemoveDocument, maps, locals
  <2>3. CASE /\ base[t] = Default /\ UNCHANGED locals
             /\ vectors' = [vectors EXCEPT ![Default] = @ \ {doc[t]}]
             /\ pc' = [pc EXCEPT ![t] = IF doc[t] \in vectors[Default] THEN "forget" ELSE "prune"]
    <3>1. /\ pc[t] = "remove" /\ op[t] = "delete"
          /\ UNCHANGED <<index, store, unguarded, op, base, doc, attached>>
      BY <1>17, <2>3 DEF RemoveDocument, maps, locals
    <3>2. SUFFICES ASSUME Cached PROVE Now'
      BY <3>1 DEF IndexInvariant, Now
    <3>3. Searchable(Default)' = Searchable(Default)
      BY <3>1 DEF Searchable, Found
    <3>4. \A d : ~Forgetting(d)
      BY <1>a, <2>3, <3>1, <3>2 DEF Forgetting, Guarded
    <3>5. \A d : Inserting(d) => Inserting(d)'
      BY <2>3, <3>1 DEF Inserting
    <3>6. doc[t] \in vectors[Default] => Forgetting(doc[t])'
      BY <2>3, <3>1 DEF Forgetting
    <3>7. IndexOwned'
      BY <1>i, <2>3, <3>1, <3>2 DEF Now, IndexOwned
    <3>8. FoundIsStored'
      BY <1>i, <2>3, <3>1, <3>2, <3>3, <3>4, <3>6 DEF Now, FoundIsStored
    <3>9. StoredIsFound'
      BY <1>i, <2>3, <3>1, <3>2, <3>3, <3>5 DEF Now, StoredIsFound
    <3>10. DeletedNotFound'
      BY <1>i, <2>3, <3>1, <3>2, <3>3 DEF Now, DeletedNotFound
    <3>11. QED
      BY <3>7, <3>8, <3>9, <3>10 DEF Now
  <2>4. QED
    BY <1>17, <2>1, <2>2, <2>3 DEF RemoveDocument, Goto
<1>18. ASSUME NEW t \in Threads, ForgetDocument(t) PROVE IndexInvariant'
  <2>1. /\ pc[t] \in {"forget", "prune"} /\ op[t] = "delete" /\ doc[t] \in Docs
        /\ pc' = [pc EXCEPT ![t] = "unlist"]
        /\ UNCHANGED <<vectors, store, unguarded, op, base, doc, attached>>
    BY <1>18 DEF ForgetDocument, Goto, db
  <2>2. CASE base[t] # Default
    BY <1>18, <2>1, <2>2, IndexUntouched DEF ForgetDocument
  <2>3. CASE base[t] = Default /\ index[Default] = NoIndex
    <3>1. index' = index
      BY <1>18, <2>3 DEF ForgetDocument
    <3>2. Cached => \A u \in Threads : base[u] = Default => pc[u] \notin {"build", "await"}
      BY <1>a, <2>1, <2>3 DEF Guarded
    <3>3. QED
      BY <2>1, <2>3, <3>1, <3>2, IndexAbsent
  <2>4. CASE base[t] = Default /\ index[Default] # NoIndex
    <3>1. SUFFICES ASSUME Cached PROVE Now'
      BY <2>1 DEF IndexInvariant, Now
    <3> DEFINE old == index[Default].ids
               f == IF index[Default].kind = "mem" THEN [old EXCEPT ![doc[t]] = 0] ELSE Nothing
               S == IF index[Default].kind = "mem" THEN Searchable(Default) \ {doc[t]} ELSE {}
    <3>2. index[Default] \in Indexes /\ old \in [Docs -> Nat]
          /\ Searchable(Default) = {d \in Docs : old[d] > 0}
      BY <2>4, FieldsOK DEF Searchable, Found
    <3>3. f \in [Docs -> Nat] /\ {d \in Docs : f[d] > 0} = S
      <4>1. CASE index[Default].kind = "mem"
        BY <2>1, <3>2, <4>1
      <4>2. CASE index[Default].kind # "mem"
        BY <4>2, CountsOK, FoundContent
      <4>3. QED
        BY <4>1, <4>2
    <3>4. index' = [index EXCEPT ![Default].ids = f]
      BY <1>18, <2>4 DEF ForgetDocument
    <3> HIDE DEF f
    <3>5. /\ index'[Default] # NoIndex
          /\ index'[Default].kind = index[Default].kind
          /\ index'[Default].dim = index[Default].dim
          /\ Searchable(Default)' = S
      BY <2>4, <3>3, <3>4, IndexContent
    <3>6. index'[Default].ready = index[Default].ready
      <4>1. index'[Default] = [index[Default] EXCEPT !.ids = f]
        BY <3>4
      <4>2. QED
        BY <3>2, <4>1 DEF Indexes
    <3>7. IndexOwned'
      BY <1>i, <2>1, <2>4, <3>1, <3>6 DEF Now, IndexOwned
    <3>8. doc[t] \notin vectors[Default]
      BY <2>1, <2>4 DEF DocumentInvariant
    <3>9. \A d \in S : d \in vectors[Default]
      <4>1. \A d : Forgetting(d) => d = doc[t]
        BY <1>a, <2>1, <2>4, <3>1 DEF Forgetting, Guarded
      <4>2. QED
        BY <1>i, <3>1, <4>1 DEF Now, FoundIsStored
    <3>10. \A d : Inserting(d) => Inserting(d)'
      BY <2>1 DEF Inserting
    <3>11. FoundIsStored'
      BY <2>1, <3>5, <3>9 DEF FoundIsStored
    <3>12. StoredIsFound'
      <4>1. CASE index[Default].kind = "mem"
        BY <1>i, <2>1, <2>4, <3>1, <3>5, <3>6, <3>8, <3>10, <4>1 DEF Now, StoredIsFound
      <4>2. CASE index[Default].kind # "mem"
        BY <3>2, <3>5, <4>2 DEF StoredIsFound, Indexes
      <4>3. QED
        BY <4>1, <4>2
    <3>13. DeletedNotFound'
      BY <1>i, <2>1, <3>1, <3>5 DEF Now, DeletedNotFound
    <3>14. QED
      BY <3>7, <3>11, <3>12, <3>13 DEF Now
  <2>5. QED
    BY <2>2, <2>3, <2>4
<1>19. ASSUME NEW t \in Threads, Unlist(t) PROVE IndexInvariant'
  BY <1>19, LeaveIndex DEF Unlist, DbUp, db, maps, locals
<1>20. ASSUME NEW t \in Threads, ClearCaches(t) PROVE IndexInvariant'
  BY <1>20, IndexUntouched DEF ClearCaches, Goto, Detached, db, maps, locals
<1>21. ASSUME NEW t \in Threads, DropKeys(t) PROVE IndexInvariant'
  BY <1>21, LeaveIndex DEF DropKeys, DbUp, db, maps, locals
<1>22. ASSUME NEW c \in Collections, CreateBase(c) PROVE IndexInvariant'
  BY <1>22, IndexUntouched DEF CreateBase, DbUp, db, maps, locals
<1>23. CASE CloseFlag
  BY <1>23, IndexUntouched DEF CloseFlag, db, maps, locals
<1>24. CASE CloseMaps
  BY <1>24 DEF CloseMaps, IndexInvariant
<1>25. CASE CloseDb
  BY <1>25, IndexUntouched DEF CloseDb, db, maps, locals
<1>26. CASE Restart
  BY <1>26, IndexAbsent DEF Restart
<1>27. CASE UNCHANGED vars
  BY <1>27, IndexUntouched DEF vars, db, maps, locals
<1>28. QED
  BY <1>1, <1>2, <1>3, <1>4, <1>5, <1>6, <1>7, <1>8, <1>9, <1>10, <1>11,
     <1>12, <1>13, <1>14, <1>15, <1>16, <1>17, <1>18, <1>19, <1>20, <1>21,
     <1>22, <1>23, <1>24, <1>25, <1>26, <1>27 DEF Next, Starts, Steps

LEMMA InitialCaches == Init => ClosedInvariant /\ KeywordInvariant /\ IndexInvariant
BY VectorStoreAssumption
   DEF Init, ClosedInvariant, KeywordInvariant, IndexInvariant, IndexOwned,
       FoundIsStored, StoredIsFound, DeletedNotFound, Searchable, Deleting

(* While nobody works on the base, its caches find nothing that is not stored,  *)
(* and an index of the right dimension finds all of it.                       *)
THEOREM IndexCurrent == Spec => []IndexIsCurrent
<1>1. StateInvariant /\ ClosedInvariant /\ KeywordInvariant /\ IndexInvariant => IndexIsCurrent
  <2> SUFFICES ASSUME StateInvariant, ClosedInvariant, KeywordInvariant, IndexInvariant,
                      ~unguarded, Quiet(Default)
               PROVE  /\ bm25[Default] \subseteq chunks[Default]
                      /\ Searchable(Default) \subseteq vectors[Default]
                      /\ index[Default] # NoIndex =>
                           /\ index[Default].ready
                           /\ index[Default].dim =>
                                \/ Searchable(Default) = vectors[Default]
                                \/ index[Default].kind = "disk" /\ Searchable(Default) = {}
    BY DEF IndexIsCurrent
  <2>1. store \in Stages
    BY DEF StateInvariant, SharedOK
  <2>2. CASE store \in {"emptied", "closed"}
    BY <2>2, VectorStoreAssumption DEF ClosedInvariant, MapsNil, Searchable
  <2>3. CASE Cached
    <3>1. /\ \A d : ~Forgetting(d) /\ ~Inserting(d)
          /\ ~\E t \in Threads : base[t] = Default /\ pc[t] = "build"
      BY DEF Quiet, Guarded, Forgetting, Inserting, Deleting, Uploading
    <3>2. bm25[Default] \subseteq chunks[Default]
      BY <2>3, <3>1 DEF KeywordInvariant
    <3>3. Searchable(Default) \subseteq vectors[Default]
      BY <2>3, <3>1 DEF IndexInvariant, FoundIsStored
    <3>4. index[Default] # NoIndex => index[Default].ready
      BY <2>3, <3>1 DEF IndexInvariant, IndexOwned
    <3>5. QED
      BY <2>3, <3>1, <3>2, <3>3, <3>4 DEF IndexInvariant, StoredIsFound
  <2>4. QED
    BY <2>1, <2>2, <2>3 DEF Cached, Stages
<1>2. QED
  BY <1>1, InitialState, InitialContent, InitialCaches, StateStep, LockStep, ExclusionStep,
     DocumentStep, ContentStep, ClosedStep, KeywordStep, IndexStep, PTL DEF Spec

(* A document leaves the list in one step only: its deletion, at its end.      *)
LEMMA UnlistOnly ==
  ASSUME StateInvariant, [Next]_vars, NEW d \in listed[Default], d \notin listed'[Default]
  PROVE  \E t \in Threads : Deleting(t) /\ pc[t] = "unlist" /\ doc[t] = d
<1>t. SharedOK /\ PhaseInvariant
  BY DEF StateInvariant
<1>1. ASSUME NEW t \in Threads, Unlist(t)
      PROVE  Deleting(t) /\ pc[t] = "unlist" /\ doc[t] = d
  BY <1>t, <1>1, VectorStoreAssumption DEF Unlist, SharedOK, PhaseInvariant, Deleting
<1>2. ASSUME NEW t \in Threads, Register(t) PROVE FALSE
  BY <1>t, <1>2, VectorStoreAssumption DEF Register, SharedOK
<1>3. ASSUME NEW t \in Threads, Starts(t) PROVE FALSE
  BY <1>3 DEF Starts, IngestStart, DeleteStart, DropStart, SearchStart, db
<1>4. ASSUME NEW t \in Threads, Steps(t), ~Unlist(t), ~Register(t) PROVE FALSE
  BY <1>4 DEF Steps, GetLock, Lock, WriteChunks, ReadMeta, WriteVectors, InsertVectors,
     AddKeywords, Rollback, GetIndex, BuildIndex, Scan, RemoveDocument, ForgetDocument,
     ClearCaches, DropKeys, db
<1>5. ASSUME NEW c \in Collections, CreateBase(c) PROVE FALSE
  BY <1>5 DEF CreateBase
<1>6. QED
  BY <1>1, <1>2, <1>3, <1>4, <1>5
     DEF Next, CloseFlag, CloseMaps, CloseDb, Restart, vars, db

(* What leaves the list is gone from the database and from both caches (M10).   *)
THEOREM UnlistedGone == Spec => UnlistedIsGone
<1>1. ASSUME StateInvariant, DocumentInvariant, ContentInvariant, ClosedInvariant,
             KeywordInvariant, IndexInvariant, [Next]_vars, ~unguarded,
             NEW d \in listed[Default] \ listed'[Default]
      PROVE  d \notin vectors[Default] \union chunks[Default] \union bm25[Default]
                     \union Searchable(Default)
  <2>1. PICK t \in Threads : Deleting(t) /\ pc[t] = "unlist" /\ doc[t] = d
    BY <1>1, UnlistOnly
  <2>2. d \notin vectors[Default]
    BY <1>1, <2>1 DEF DocumentInvariant, Deleting
  <2>3. d \notin chunks[Default]
    BY <1>1, <2>1 DEF ContentInvariant, TextsGone
  <2>4. d \notin bm25[Default]
    BY <1>1, <2>1 DEF KeywordInvariant
  <2>5. d \notin Searchable(Default)
    <3>1. CASE Cached
      BY <1>1, <2>1, <3>1 DEF IndexInvariant, DeletedNotFound
    <3>2. CASE ~Cached
      BY <1>1, <3>2, VectorStoreAssumption
         DEF Cached, ClosedInvariant, MapsNil, Searchable, StateInvariant, SharedOK, Stages
    <3>3. QED
      BY <3>1, <3>2
  <2>6. QED
    BY <2>2, <2>3, <2>4, <2>5
<1>2. /\ StateInvariant /\ DocumentInvariant /\ ContentInvariant /\ ClosedInvariant
      /\ KeywordInvariant /\ IndexInvariant /\ [Next]_vars
      => [~unguarded => \A d \in listed[Default] \ listed'[Default] :
            d \notin vectors[Default] \union chunks[Default] \union bm25[Default]
                    \union Searchable(Default)]_vars
  BY <1>1
<1>3. QED
  BY <1>2, InitialState, InitialContent, InitialCaches, StateStep, LockStep, ExclusionStep,
     DocumentStep, ContentStep, ClosedStep, KeywordStep, IndexStep, PTL
     DEF Spec, UnlistedIsGone

=============================================================================
