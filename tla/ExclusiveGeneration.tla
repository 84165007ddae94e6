------------------------ MODULE ExclusiveGeneration ------------------------
(***************************************************************************)
(* What the chat service promises about concurrent generations, without    *)
(* the slot, tokens and contexts that implement it                          *)
(* (src/internal/chat/service.go, beginGeneration and StopGeneration).      *)
(*                                                                         *)
(* A generation is live from the moment it takes the generation slot until *)
(* its deferred cleanup has run.  Starting one dooms every other live one, *)
(* stopping dooms all of them, and a doomed generation is never revived.   *)
(***************************************************************************)

CONSTANT Requests   \* calls of SendMessage or RegenerateMessage

VARIABLES
  live,     \* the generations that run
  doomed    \* those of them that are cancelled, or certain to be

vars == <<live, doomed>>

TypeOK ==
  /\ live \in SUBSET Requests
  /\ doomed \in SUBSET live

Init ==
  /\ live = {}
  /\ doomed = {}

(* A new generation begins: all that ran before it are superseded. *)
Start(r) ==
  /\ r \notin live
  /\ live' = live \cup {r}
  /\ doomed' = live

(* The user stops whatever is being generated. *)
StopAll ==
  /\ doomed' = live
  /\ UNCHANGED live

(* A generation is over, by itself or because it was doomed. *)
End(r) ==
  /\ r \in live
  /\ live' = live \ {r}
  /\ doomed' = doomed \ {r}

Next ==
  \/ \E r \in Requests : Start(r) \/ End(r)
  \/ StopAll

Spec == Init /\ [][Next]_vars

-----------------------------------------------------------------------------

(* At most one generation runs that nobody has decided to end. *)
AtMostOneUndoomed == \A a, b \in live \ doomed : a = b

=============================================================================
