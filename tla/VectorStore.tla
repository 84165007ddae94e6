----------------------------- MODULE VectorStore -----------------------------
(***************************************************************************)
(* The knowledge bases (src/internal/rag, src/app_rag.go): a Badger         *)
(* database, caches of it in memory, and operations that run concurrently   *)
(* in the goroutines of the front end's calls and of the replies.           *)
(*                                                                         *)
(* An operation is a sequence of steps between calls that wait: a Badger    *)
(* transaction, a mutex, an index under construction.  A lock per           *)
(* collection serialises uploads, deletions of documents and searches;      *)
(* DeleteCollection and Close do not take it.  Failures of a transaction,   *)
(* the end of the process at any point and the rebuilding of the caches     *)
(* afterwards are part of the model.  A document stands for its chunks,     *)
(* which every transaction treats alike.                                    *)
(***************************************************************************)
EXTENDS Naturals, FiniteSets

CONSTANTS
  Threads,             \* goroutines, each runs one operation after the other
  Collections, Default,\* names of bases; the one the application never deletes
  Docs,                \* document IDs, each issued to one upload
  Locks,               \* mutex objects of a collection
  MaxInMemory,         \* maxInMemoryVectors, counted in documents
  NoLock, NoDoc, NoMeta, NoIndex

Metas == [dim : BOOLEAN, count : Nat]
Indexes == [kind : {"mem", "disk"}, dim : BOOLEAN, ready : BOOLEAN,
            ids : [Docs -> Nat]]

ASSUME VectorStoreAssumption ==
  /\ Default \in Collections
  /\ NoLock \notin Locks
  /\ NoDoc \notin Docs
  /\ MaxInMemory \in Nat
  /\ NoMeta \notin Metas
  /\ NoIndex \notin Indexes

VARIABLES
  meta,        \* "collection:" keys: is the dimension known, how many vectors
  vectors,     \* "vector:" keys
  chunks,      \* "chunk:" and "chunkmeta:" keys
  listed,      \* "docmeta:" keys
  used,        \* document IDs issued
  store,       \* "open", "closing" (flag set), "emptied" (maps nil), "closed"
  lockOf,      \* the map locks
  index,       \* the map indexes, each entry with the content of its object
  bm25,        \* the map bm25Indexes
  pc, op,      \* where a thread is, and in which operation
  base, doc,   \* what its operation is about
  myLock,      \* the mutex it waits for or holds; NoLock: one nobody shares
  attached,    \* is the index it holds still the one in the map?
  known,       \* the collection's metadata it has read
  unguarded    \* history: was a mutex that nobody shares handed out while the
               \* database was still open?

db == <<meta, vectors, chunks, listed, used>>
maps == <<lockOf, index, bm25>>
locals == <<op, base, doc, myLock, attached, known>>
vars == <<db, store, maps, pc, locals, unguarded>>

Guarded == {"write", "meta", "vectors", "index", "build", "await", "keywords",
            "register", "rollback", "remove", "forget", "prune", "scan"}
Phases == {"idle", "getlock", "lock", "unlist", "clear", "drop"} \union Guarded
Operations == {"none", "ingest", "delete", "search", "drop"}
Stages == {"open", "closing", "emptied", "closed"}

TypeOK ==
  /\ meta \in [Collections -> Metas \union {NoMeta}]
  /\ vectors \in [Collections -> SUBSET Docs]
  /\ chunks \in [Collections -> SUBSET Docs]
  /\ listed \in [Collections -> SUBSET Docs]
  /\ used \in SUBSET Docs
  /\ store \in Stages
  /\ lockOf \in [Collections -> Locks \union {NoLock}]
  /\ index \in [Collections -> Indexes \union {NoIndex}]
  /\ bm25 \in [Collections -> SUBSET Docs]
  /\ pc \in [Threads -> Phases]
  /\ op \in [Threads -> Operations]
  /\ base \in [Threads -> Collections]
  /\ doc \in [Threads -> Docs \union {NoDoc}]
  /\ myLock \in [Threads -> Locks \union {NoLock}]
  /\ attached \in [Threads -> BOOLEAN]
  /\ known \in [Threads -> Metas \union {NoMeta}]
  /\ unguarded \in BOOLEAN

Init ==
  /\ meta = [c \in Collections |-> NoMeta]
  /\ vectors = [c \in Collections |-> {}]
  /\ chunks = [c \in Collections |-> {}]
  /\ listed = [c \in Collections |-> {}]
  /\ used = {}
  /\ store = "open"
  /\ lockOf = [c \in Collections |-> NoLock]
  /\ index = [c \in Collections |-> NoIndex]
  /\ bm25 = [c \in Collections |-> {}]
  /\ pc = [t \in Threads |-> "idle"]
  /\ op = [t \in Threads |-> "none"]
  /\ base = [t \in Threads |-> Default]
  /\ doc = [t \in Threads |-> NoDoc]
  /\ myLock = [t \in Threads |-> NoLock]
  /\ attached = [t \in Threads |-> FALSE]
  /\ known = [t \in Threads |-> NoMeta]
  /\ unguarded = FALSE

-----------------------------------------------------------------------------
(* Helpers. *)

Goto(t, phase) == pc' = [pc EXCEPT ![t] = phase]

DbUp == store # "closed"      \* afterwards every transaction returns an error

(* A thread takes up operation o, and leaves it, with every lock it holds.   *)
Enter(t, o, c, d, phase) ==
  /\ pc[t] = "idle"
  /\ Goto(t, phase)
  /\ op' = [op EXCEPT ![t] = o]
  /\ base' = [base EXCEPT ![t] = c]
  /\ doc' = [doc EXCEPT ![t] = d]
  /\ UNCHANGED <<myLock, attached, known>>

Leave(t) ==
  /\ Goto(t, "idle")
  /\ op' = [op EXCEPT ![t] = "none"]
  /\ base' = [base EXCEPT ![t] = Default]
  /\ doc' = [doc EXCEPT ![t] = NoDoc]
  /\ myLock' = [myLock EXCEPT ![t] = NoLock]
  /\ attached' = [attached EXCEPT ![t] = FALSE]
  /\ known' = [known EXCEPT ![t] = NoMeta]

Nothing == [d \in Docs |-> 0]
Once(D) == [d \in Docs |-> IF d \in D THEN 1 ELSE 0]
Found(i) == {d \in Docs : i.ids[d] > 0}

(* What follows when the index is there, and when it cannot be had. *)
WithIndex(t) == Goto(t, IF op[t] = "ingest" THEN "await" ELSE "scan")
WithoutIndex(t) ==
  IF op[t] = "ingest" THEN Goto(t, "rollback") /\ UNCHANGED locals ELSE Leave(t)

(* Everyone who holds the index of base c holds one that is no longer used. *)
Detached(c) == [t \in Threads |-> attached[t] /\ base[t] # c]

-----------------------------------------------------------------------------
(* The lock of a collection. *)

Holds(t, c, l) == base[t] = c /\ myLock[t] = l /\ pc[t] \in Guarded
Unused(c, l) == l # lockOf[c] /\ \A t \in Threads : ~(base[t] = c /\ myLock[t] = l)

(* collectionLock: the mutex in the map, made on first use.  The flag is     *)
(* read before vs.mu is taken, so that Close may set it in between; once it  *)
(* is set, or the maps are nil, the caller gets a mutex of its own.          *)
GetLock(t) ==
  LET c == base[t] IN
  /\ pc[t] = "getlock"
  /\ Goto(t, "lock")
  /\ \/ /\ store \in {"open", "closing"}
        /\ \E l \in Locks :
              /\ IF lockOf[c] = NoLock THEN Unused(c, l) ELSE l = lockOf[c]
              /\ lockOf' = [lockOf EXCEPT ![c] = l]
              /\ myLock' = [myLock EXCEPT ![t] = l]
        /\ UNCHANGED unguarded
     \/ /\ store # "open"
        /\ unguarded' = (unguarded \/ DbUp)
        /\ UNCHANGED <<lockOf, myLock>>
  /\ UNCHANGED <<db, store, index, bm25, op, base, doc, attached, known>>

(* Mutant: the mutex is not waited for. *)
LockWithoutWaiting(t) ==
  /\ pc[t] = "lock"
  /\ Goto(t, CASE op[t] = "ingest" -> "write"
               [] op[t] = "delete" -> "remove"
               [] OTHER -> "index")
  /\ UNCHANGED <<db, store, maps, locals, unguarded>>

Lock(t) ==
  /\ pc[t] = "lock"
  /\ myLock[t] # NoLock => ~\E u \in Threads : Holds(u, base[t], myLock[t])
  /\ Goto(t, CASE op[t] = "ingest" -> "write"
               [] op[t] = "delete" -> "remove"
               [] OTHER -> "index")
  /\ UNCHANGED <<db, store, maps, locals, unguarded>>

-----------------------------------------------------------------------------
(* IngestDocumentWithMeta: an upload, once its text is cut and embedded. *)

(* CreateCollection with the dimension of the vectors; an existing one is    *)
(* kept as it is.                                                            *)
IngestStart(t, c, d) ==
  /\ d \notin used
  /\ DbUp
  /\ Enter(t, "ingest", c, d, "getlock")
  /\ used' = used \union {d}
  /\ meta' = [meta EXCEPT ![c] =
                IF @ = NoMeta THEN [dim |-> TRUE, count |-> 0] ELSE @]
  /\ UNCHANGED <<vectors, chunks, listed, store, maps, unguarded>>

(* One transaction for the texts; if too many of them could not be written   *)
(* the rest is taken back.                                                   *)
WriteChunks(t) ==
  /\ pc[t] = "write"
  /\ \/ /\ DbUp
        /\ chunks' = [chunks EXCEPT ![base[t]] = @ \union {doc[t]}]
        /\ Goto(t, "meta") \/ Goto(t, "rollback")
        /\ UNCHANGED locals
     \/ UNCHANGED chunks /\ Leave(t)
  /\ UNCHANGED <<meta, vectors, listed, used, store, maps, unguarded>>

(* addVectorsCore reads the metadata and, where the dimension is not known   *)
(* yet, records it (updateCollectionDim).  A collection that is gone, or of  *)
(* another dimension, ends the upload.                                       *)
ReadMeta(t) ==
  LET c == base[t] IN
  /\ pc[t] = "meta"
  /\ \/ /\ DbUp /\ meta[c] # NoMeta
        /\ known' = [known EXCEPT ![t] = meta[c]]
        /\ meta' = [meta EXCEPT ![c].dim = TRUE]
        /\ Goto(t, "vectors")
     \/ /\ Goto(t, "rollback")
        /\ UNCHANGED <<known, meta>>
  /\ UNCHANGED <<vectors, chunks, listed, used, store, maps, op, base, doc,
                 myLock, attached, unguarded>>

(* The vectors, and the metadata as it was read before, with the new count:  *)
(* the transaction reads nothing, so it overwrites what others have written. *)
WriteVectors(t) ==
  LET c == base[t] IN
  /\ pc[t] = "vectors"
  /\ \/ /\ DbUp
        /\ vectors' = [vectors EXCEPT ![c] = @ \union {doc[t]}]
        /\ meta' = [meta EXCEPT ![c] = [known[t] EXCEPT !.count = @ + 1]]
        /\ Goto(t, "index")
     \/ /\ Goto(t, "rollback")
        /\ UNCHANGED <<vectors, meta>>
  /\ known' = [known EXCEPT ![t] = NoMeta]
  /\ UNCHANGED <<chunks, listed, used, store, maps, op, base, doc, myLock,
                 attached, unguarded>>

(* Mutant: the cache on disk is kept. *)
InsertVectorsKeepingCache(t) ==
  LET c == base[t]  i == index[c] IN
  /\ pc[t] = "await"
  /\ attached[t] => i.ready
  /\ index' = IF attached[t] /\ i.kind = "mem"
                THEN [index EXCEPT ![c].ids[doc[t]] = 1 + @] ELSE index
  /\ Goto(t, "keywords")
  /\ UNCHANGED <<db, store, lockOf, bm25, locals, unguarded>>

(* memIndex.insert, once the index is ready; a cache on disk is emptied.     *)
(* An index that was taken out of the map meanwhile may fail or not: what is *)
(* put into it, nobody sees.                                                 *)
InsertVectors(t) ==
  LET c == base[t]  i == index[c] IN
  /\ pc[t] = "await"
  /\ \/ /\ attached[t] /\ i.ready
        /\ index' = [index EXCEPT ![c].ids =
                       IF i.kind = "mem" THEN [i.ids EXCEPT ![doc[t]] = 1 + @]
                       ELSE Nothing]
        /\ Goto(t, "keywords")
     \/ /\ ~attached[t]
        /\ Goto(t, "keywords") \/ Goto(t, "rollback")
        /\ UNCHANGED index
  /\ UNCHANGED <<db, store, lockOf, bm25, locals, unguarded>>

(* The keyword index takes the texts it can read; after Close it is one that *)
(* is thrown away (getOrCreateBM25).                                         *)
AddKeywords(t) ==
  LET c == base[t] IN
  /\ pc[t] = "keywords"
  /\ \/ /\ DbUp /\ doc[t] \in chunks[c] /\ store \in {"open", "closing"}
        /\ bm25' = [bm25 EXCEPT ![c] = @ \union {doc[t]}]
     \/ UNCHANGED bm25
  /\ Goto(t, "register")
  /\ UNCHANGED <<db, store, lockOf, index, locals, unguarded>>

(* DocumentStore.Put; a failure is only logged.  The lock is released. *)
Register(t) ==
  /\ pc[t] = "register"
  /\ \/ /\ DbUp
        /\ listed' = [listed EXCEPT ![base[t]] = @ \union {doc[t]}]
     \/ UNCHANGED listed
  /\ Leave(t)
  /\ UNCHANGED <<meta, vectors, chunks, used, store, maps, unguarded>>

Rollback(t) ==
  /\ pc[t] = "rollback"
  /\ \/ /\ DbUp
        /\ chunks' = [chunks EXCEPT ![base[t]] = @ \ {doc[t]}]
     \/ UNCHANGED chunks
  /\ Leave(t)
  /\ UNCHANGED <<meta, vectors, listed, used, store, maps, unguarded>>

-----------------------------------------------------------------------------
(* getOrLoadIndex, for uploads and searches, under the collection's lock. *)

GetIndex(t) ==
  LET c == base[t] IN
  /\ pc[t] = "index"
  /\ \/ /\ index[c] # NoIndex
        /\ attached' = [attached EXCEPT ![t] = TRUE]
        /\ WithIndex(t)
        /\ UNCHANGED <<index, op, base, doc, myLock, known>>
     \/ /\ index[c] = NoIndex /\ store = "open" /\ meta[c] # NoMeta
        /\ attached' = [attached EXCEPT ![t] = TRUE]
        /\ LET large == meta[c].count > MaxInMemory IN
           /\ index' = [index EXCEPT ![c] =
                          [kind |-> IF large THEN "disk" ELSE "mem",
                           dim |-> meta[c].dim, ready |-> large, ids |-> Nothing]]
           /\ IF large THEN WithIndex(t) ELSE Goto(t, "build")
        /\ UNCHANGED <<op, base, doc, myLock, known>>
     \/ /\ index[c] = NoIndex
        /\ WithoutIndex(t)
        /\ UNCHANGED index
  /\ UNCHANGED <<db, store, lockOf, bm25, unguarded>>

(* Mutant: the placeholder stays in the map when it could not be filled. *)
BuildIndexKeepsPlaceholder(t) ==
  LET c == base[t] IN
  /\ pc[t] = "build"
  /\ \/ /\ DbUp
        /\ index' = IF ~attached[t] THEN index ELSE
                      [index EXCEPT ![c].ready = TRUE,
                                    ![c].ids = Once(IF index[c].dim THEN vectors[c] ELSE {})]
        /\ WithIndex(t)
        /\ UNCHANGED locals
     \/ UNCHANGED index /\ WithoutIndex(t)
  /\ UNCHANGED <<db, store, lockOf, bm25, unguarded>>

(* The placeholder is filled from the database, outside vs.mu; vectors of    *)
(* another length than the dimension recorded are skipped.  On a failure     *)
(* whatever the map has for the name is removed.                             *)
BuildIndex(t) ==
  LET c == base[t] IN
  /\ pc[t] = "build"
  /\ \/ /\ DbUp
        /\ index' = IF ~attached[t] THEN index ELSE
                      [index EXCEPT ![c].ready = TRUE,
                                    ![c].ids = Once(IF index[c].dim THEN vectors[c] ELSE {})]
        /\ WithIndex(t)
        /\ UNCHANGED locals
     \/ /\ index' = [index EXCEPT ![c] = NoIndex]
        /\ attached' = Detached(c)
        /\ Goto(t, IF op[t] = "ingest" THEN "rollback" ELSE "scan")
        /\ UNCHANGED <<op, base, doc, myLock, known>>
  /\ UNCHANGED <<db, store, lockOf, bm25, unguarded>>

-----------------------------------------------------------------------------
(* App.DeleteDocument: vectors and texts, the caches, then the entry of the   *)
(* list, which the user sees as long as anything of the rest may be left.     *)

(* Mutant: the list first, as it was before M10. *)
DeleteStartUnlisting(t, c, d) ==
  /\ store = "open"
  /\ d \in listed[c]
  /\ Enter(t, "delete", c, d, "getlock")
  /\ listed' = [listed EXCEPT ![c] = @ \ {d}]
  /\ UNCHANGED <<meta, vectors, chunks, used, store, maps, unguarded>>

DeleteStart(t, c, d) ==
  /\ store = "open"
  /\ d \in listed[c]
  /\ Enter(t, "delete", c, d, "getlock")
  /\ UNCHANGED <<db, store, maps, unguarded>>

RemoveDocument(t) ==
  LET c == base[t]  d == doc[t]  gone == vectors[c] \intersect {d} IN
  /\ pc[t] = "remove"
  /\ \/ /\ DbUp /\ meta[c] # NoMeta
        /\ vectors' = [vectors EXCEPT ![c] = @ \ {d}]
        /\ chunks' = [chunks EXCEPT ![c] = @ \ {d}]
        /\ meta' = [meta EXCEPT ![c].count =
                       IF gone = {} \/ @ = 0 THEN @ ELSE @ - 1]
        /\ Goto(t, IF gone = {} THEN "prune" ELSE "forget")
        /\ UNCHANGED locals
     \/ /\ Leave(t)
        /\ UNCHANGED <<vectors, chunks, meta>>
  /\ UNCHANGED <<listed, used, store, maps, unguarded>>

(* Mutant: the keyword index keeps what is deleted. *)
ForgetDocumentNotKeywords(t) ==
  LET c == base[t]  d == doc[t] IN
  /\ pc[t] \in {"forget", "prune"}
  /\ index' = IF index[c] = NoIndex THEN index
              ELSE [index EXCEPT ![c].ids =
                      IF index[c].kind = "mem" THEN [@ EXCEPT ![d] = 0] ELSE Nothing]
  /\ myLock' = [myLock EXCEPT ![t] = NoLock]
  /\ Goto(t, "unlist")
  /\ UNCHANGED <<db, store, lockOf, bm25, op, base, doc, attached, known, unguarded>>

(* The keyword index forgets what had vectors, the index drops the document. *)
(* The lock is released before the entry of the list is deleted.             *)
ForgetDocument(t) ==
  LET c == base[t]  d == doc[t] IN
  /\ pc[t] \in {"forget", "prune"}
  /\ bm25' = IF pc[t] = "forget" THEN [bm25 EXCEPT ![c] = @ \ {d}] ELSE bm25
  /\ index' = IF index[c] = NoIndex THEN index
              ELSE [index EXCEPT ![c].ids =
                      IF index[c].kind = "mem" THEN [@ EXCEPT ![d] = 0] ELSE Nothing]
  /\ myLock' = [myLock EXCEPT ![t] = NoLock]
  /\ Goto(t, "unlist")
  /\ UNCHANGED <<db, store, lockOf, op, base, doc, attached, known, unguarded>>

Unlist(t) ==
  /\ pc[t] = "unlist"
  /\ \/ /\ DbUp
        /\ listed' = [listed EXCEPT ![base[t]] = @ \ {doc[t]}]
     \/ UNCHANGED listed
  /\ Leave(t)
  /\ UNCHANGED <<meta, vectors, chunks, used, store, maps, unguarded>>

-----------------------------------------------------------------------------
(* Knowledge bases as a whole. *)

(* App.CreateKnowledgeBase: a base of dimension 0. *)
CreateBase(c) ==
  /\ DbUp /\ meta[c] = NoMeta
  /\ meta' = [meta EXCEPT ![c] = [dim |-> FALSE, count |-> 0]]
  /\ UNCHANGED <<vectors, chunks, listed, used, store, maps, pc, locals, unguarded>>

(* App.DeleteKnowledgeBase, DeleteCollection: no lock of the collection is   *)
(* taken; its mutex and its caches go first, its keys after them.            *)
DropStart(t, c) ==
  /\ c # Default
  /\ store = "open" /\ meta[c] # NoMeta
  /\ Enter(t, "drop", c, NoDoc, "clear")
  /\ UNCHANGED <<db, store, maps, unguarded>>

ClearCaches(t) ==
  LET c == base[t] IN
  /\ pc[t] = "clear"
  /\ index' = [index EXCEPT ![c] = NoIndex]
  /\ attached' = Detached(c)
  /\ lockOf' = [lockOf EXCEPT ![c] = NoLock]
  /\ bm25' = [bm25 EXCEPT ![c] = {}]
  /\ Goto(t, "drop")
  /\ UNCHANGED <<db, store, op, base, doc, myLock, known, unguarded>>

DropKeys(t) ==
  LET c == base[t] IN
  /\ pc[t] = "drop"
  /\ \/ /\ DbUp
        /\ meta' = [meta EXCEPT ![c] = NoMeta]
        /\ vectors' = [vectors EXCEPT ![c] = {}]
        /\ chunks' = [chunks EXCEPT ![c] = {}]
     \/ UNCHANGED <<meta, vectors, chunks>>
  /\ Leave(t)
  /\ UNCHANGED <<listed, used, store, maps, unguarded>>

-----------------------------------------------------------------------------
(* Search, as far as it changes state: it may load the index, and a cache on  *)
(* disk keeps what it has read, unless the deadline cuts it short.           *)

SearchStart(t, c) ==
  /\ store = "open" /\ meta[c] # NoMeta
  /\ meta[c].dim
  /\ Enter(t, "search", c, NoDoc, "getlock")
  /\ UNCHANGED <<db, store, maps, unguarded>>

Scan(t) ==
  LET c == base[t]  i == index[c] IN
  /\ pc[t] = "scan"
  /\ attached[t] => i.ready
  /\ \/ /\ attached[t] /\ i.kind = "disk" /\ i.dim /\ DbUp
        /\ index' = [index EXCEPT ![c].ids = Once(Found(i) \union vectors[c])]
     \/ UNCHANGED index
  /\ Leave(t)
  /\ UNCHANGED <<db, store, lockOf, bm25, unguarded>>

-----------------------------------------------------------------------------
(* The end of the store. *)

(* VectorStore.Close: the flag, the maps under vs.mu, the database. *)
CloseFlag ==
  /\ store = "open"
  /\ store' = "closing"
  /\ UNCHANGED <<db, maps, pc, locals, unguarded>>

CloseMaps ==
  /\ store = "closing"
  /\ store' = "emptied"
  /\ index' = [c \in Collections |-> NoIndex]
  /\ attached' = [t \in Threads |-> FALSE]
  /\ lockOf' = [c \in Collections |-> NoLock]
  /\ bm25' = [c \in Collections |-> {}]
  /\ UNCHANGED <<db, pc, op, base, doc, myLock, known, unguarded>>

CloseDb ==
  /\ store = "emptied"
  /\ store' = "closed"
  /\ UNCHANGED <<db, maps, pc, locals, unguarded>>

(* The process ends, at any point, and the next one opens the store:         *)
(* NewVectorStore, rebuildBM25Index.                                         *)
Restart ==
  /\ store' = "open"
  /\ pc' = [t \in Threads |-> "idle"]
  /\ op' = [t \in Threads |-> "none"]
  /\ base' = [t \in Threads |-> Default]
  /\ doc' = [t \in Threads |-> NoDoc]
  /\ myLock' = [t \in Threads |-> NoLock]
  /\ attached' = [t \in Threads |-> FALSE]
  /\ known' = [t \in Threads |-> NoMeta]
  /\ lockOf' = [c \in Collections |-> NoLock]
  /\ index' = [c \in Collections |-> NoIndex]
  /\ bm25' = chunks
  /\ UNCHANGED <<db, unguarded>>

-----------------------------------------------------------------------------
Steps(t) ==
  \/ GetLock(t) \/ Lock(t)
  \/ WriteChunks(t) \/ ReadMeta(t) \/ WriteVectors(t) \/ InsertVectors(t)
  \/ AddKeywords(t) \/ Register(t) \/ Rollback(t)
  \/ GetIndex(t) \/ BuildIndex(t) \/ Scan(t)
  \/ RemoveDocument(t) \/ ForgetDocument(t) \/ Unlist(t)
  \/ ClearCaches(t) \/ DropKeys(t)

Starts(t) ==
  \E c \in Collections :
     \/ DropStart(t, c) \/ SearchStart(t, c)
     \/ \E d \in Docs : IngestStart(t, c, d) \/ DeleteStart(t, c, d)

Next ==
  \/ \E t \in Threads : Starts(t) \/ Steps(t)
  \/ \E c \in Collections : CreateBase(c)
  \/ CloseFlag \/ CloseMaps \/ CloseDb \/ Restart

Spec == Init /\ [][Next]_vars

(* What a goroutine does by itself it does in the end; a Go mutex does not    *)
(* starve those who wait for it.                                              *)
Fairness == \A t \in Threads : WF_vars(Steps(t)) /\ SF_vars(Lock(t))
FairSpec == Spec /\ Fairness

-----------------------------------------------------------------------------
(* Properties. *)

Quiet(c) == \A t \in Threads : base[t] = c => pc[t] \notin Guarded
Searchable(c) == IF index[c] = NoIndex THEN {} ELSE Found(index[c])

(* Two threads never work on a collection under the same mutex, and on the   *)
(* base that is never deleted every mutex handed out is the same, until      *)
(* Close takes the map away (collectionLock, DeleteCollection).              *)
LockInvariant ==
  /\ \A t, u \in Threads :
        /\ t # u /\ pc[t] \in Guarded /\ Holds(u, base[t], myLock[t])
        => myLock[t] = NoLock
  /\ \A t \in Threads :
        /\ base[t] = Default /\ myLock[t] # NoLock
        /\ store \in {"open", "closing"}
        => myLock[t] = lockOf[Default]

(* While nobody works on the base, its index and its keyword index find      *)
(* nothing that is not stored, and an index built with the right dimension   *)
(* finds all of it: no failure, crash or reload in between makes them differ.*)
IndexIsCurrent ==
  ~unguarded /\ Quiet(Default) =>
    /\ bm25[Default] \subseteq chunks[Default]
    /\ Searchable(Default) \subseteq vectors[Default]
    /\ index[Default] # NoIndex =>
         /\ index[Default].ready
         /\ index[Default].dim =>
              \/ Searchable(Default) = vectors[Default]
              \/ index[Default].kind = "disk" /\ Searchable(Default) = {}

(* The count that decides how an index is kept does not drift (the comment   *)
(* on DeleteDocument, M-6), although an upload reads it in one transaction   *)
(* and writes it in another.                                                 *)
CountIsExact ==
  ~unguarded /\ meta[Default] # NoMeta =>
    meta[Default].count = Cardinality(vectors[Default])

(* When a document leaves the list nothing of it can be found any more       *)
(* (App.DeleteDocument, M10): neither stored nor in a cache.                 *)
UnlistedIsGone ==
  [][~unguarded =>
       \A d \in listed[Default] \ listed'[Default] :
          d \notin vectors[Default] \union chunks[Default] \union bm25[Default]
                  \union Searchable(Default)]_vars

(* After Close has set the maps to nil nobody writes to them, which would    *)
(* panic, however far an operation had come (M3).                            *)
ClosedMapsUntouched ==
  [][ (store \in {"emptied", "closed"} /\ store' # "open") => (maps' = maps) ]_vars

(* An operation ends: no step waits for a lock or for an index that nobody   *)
(* will ever release or complete.                                            *)
OperationsEnd == \A t \in Threads : pc[t] # "idle" ~> pc[t] = "idle"

(* The documents of all bases, as KnowledgeBase has them. *)
Pending == {p \in Collections \X Docs :
              \E t \in Threads :
                 /\ op[t] = "ingest" /\ base[t] = p[1] /\ doc[t] = p[2]
                 /\ pc[t] \in {"getlock", "lock", "write", "meta", "vectors"}}

Abstract == INSTANCE KnowledgeBase
  WITH issued <- used, pending <- Pending, stored <- vectors, shown <- listed

(* Documents come and go as KnowledgeBase says, whatever operations,         *)
(* failures, deletions of bases and ends of the process do in between.       *)
ImplementsKnowledgeBase == Abstract!Spec
=============================================================================
