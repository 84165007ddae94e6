---------------------------- MODULE KnowledgeBase ----------------------------
(***************************************************************************)
(* What the knowledge base promises of documents, whatever happens to its  *)
(* caches, locks and processes.  A document ID is issued once, for one     *)
(* base.  The upload that holds it stores the document, all chunks at      *)
(* once, or abandons it; after that nothing stores it again.  A document   *)
(* is listed only when it has been stored before, and it leaves the list   *)
(* only when nothing of it is stored any more.                             *)
(***************************************************************************)
CONSTANTS Collections, Docs

VARIABLES
    issued,   \* the IDs taken so far
    pending,  \* <<base, ID>> of the uploads that may yet store a document
    stored,   \* what a search by vector can find, per base
    shown     \* what the list of documents shows, per base

vars == <<issued, pending, stored, shown>>

Init ==
    /\ issued = {}
    /\ pending = {}
    /\ stored = [c \in Collections |-> {}]
    /\ shown = [c \in Collections |-> {}]

Issue(c, d) ==
    /\ d \notin issued
    /\ issued' = issued \union {d}
    /\ pending' = pending \union {<<c, d>>}
    /\ UNCHANGED <<stored, shown>>

\* Uploads fail one by one, and all together when the application ends.
Abandon(U) ==
    /\ pending' = pending \ U
    /\ UNCHANGED <<issued, stored, shown>>

Store(c, d) ==
    /\ <<c, d>> \in pending
    /\ pending' = pending \ {<<c, d>>}
    /\ stored' = [stored EXCEPT ![c] = @ \union {d}]
    /\ UNCHANGED <<issued, shown>>

Remove(c, D) ==
    /\ stored' = [stored EXCEPT ![c] = @ \ D]
    /\ UNCHANGED <<issued, pending, shown>>

Show(c, d) ==
    /\ d \in issued
    /\ <<c, d>> \notin pending
    /\ shown' = [shown EXCEPT ![c] = @ \union {d}]
    /\ UNCHANGED <<issued, pending, stored>>

Hide(c, d) ==
    /\ d \notin stored[c]
    /\ <<c, d>> \notin pending
    /\ shown' = [shown EXCEPT ![c] = @ \ {d}]
    /\ UNCHANGED <<issued, pending, stored>>

Next ==
    \/ \E c \in Collections, d \in Docs :
          Issue(c, d) \/ Store(c, d) \/ Show(c, d) \/ Hide(c, d)
    \/ \E U \in SUBSET (Collections \X Docs) : Abandon(U)
    \/ \E c \in Collections, D \in SUBSET Docs : Remove(c, D)

Spec == Init /\ [][Next]_vars
=============================================================================
