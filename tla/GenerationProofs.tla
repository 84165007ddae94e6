-------------------------- MODULE GenerationProofs --------------------------
(***************************************************************************)
(* Proofs about the generation slot, for every number of requests, stops     *)
(* and tool rounds: type correctness, the inductive invariant behind the     *)
(* cancel-function bookkeeping, the refinement of ExclusiveGeneration, and   *)
(* that the events and saves of a request tell what became of its reply.     *)
(***************************************************************************)
EXTENDS Generation, TLAPS

(* Type correctness of the service's state; the number of tool rounds stays in  *)
(* range because of where a request may start one.                           *)
THEOREM TypeCorrect == Spec => [](TypeOK /\ RoundsLeft)
<1>1. Init => TypeOK /\ RoundsLeft
  BY GenerationAssumption DEF Init, TypeOK, RoundsLeft, Phases, FinishReasons, Notices, Idle
<1>2. TypeOK /\ RoundsLeft /\ [Next]_vars => TypeOK' /\ RoundsLeft'
  <2> SUFFICES ASSUME TypeOK, RoundsLeft, [Next]_vars PROVE TypeOK' /\ RoundsLeft'
    OBVIOUS
  <2> USE GenerationAssumption DEF TypeOK, RoundsLeft, Phases, FinishReasons, Notices, ConvIds, Goto, Emit
  <2>1. ASSUME NEW r \in Requests, NEW c \in Convs \cup {NoConv}, Begin(r, c) PROVE TypeOK' /\ RoundsLeft'
    BY <2>1 DEF Begin, acc, outcome
  <2>2. ASSUME NEW r \in Requests, CancelOld(r) PROVE TypeOK' /\ RoundsLeft'
    BY <2>2 DEF CancelOld, slot, identity, acc, outcome
  <2>3. ASSUME NEW r \in Requests, FindConversation(r) PROVE TypeOK' /\ RoundsLeft'
    <3>1. failed' \in SUBSET Requests /\ replies' = replies
          /\ emitted' \in [Requests -> SUBSET Notices]
      BY <2>3 DEF FindConversation, Fail, outcome
    <3>2. pc' \in [Requests -> Phases] /\ target' \in [Requests -> ConvIds \cup {NoConv}]
      BY <2>3 DEF FindConversation, Fail
    <3>3. \A q \in Requests : pc'[q] \in {"finalize", "tools"} => pc[q] = pc'[q]
      BY <2>3 DEF FindConversation, Fail
    <3>4. QED
      BY <2>3, <3>1, <3>2, <3>3 DEF FindConversation, slot, acc
  <2>4. ASSUME NEW r \in Requests, AdoptConversation(r) PROVE TypeOK' /\ RoundsLeft'
    BY <2>4 DEF AdoptConversation, identity, acc, outcome
  <2>5. ASSUME NEW r \in Requests, Compose(r) PROVE TypeOK' /\ RoundsLeft'
    <3>1. failed' \in SUBSET Requests /\ replies' = replies
          /\ emitted' \in [Requests -> SUBSET Notices]
      BY <2>5 DEF Compose, Fail, outcome
    <3>2. pc' \in [Requests -> Phases]
      BY <2>5 DEF Compose, Fail
    <3>3. \A q \in Requests : pc'[q] \in {"finalize", "tools"} => pc[q] = pc'[q]
      BY <2>5 DEF Compose, Fail
    <3>4. QED
      BY <2>5, <3>1, <3>2, <3>3 DEF Compose, slot, identity, acc
  <2>6. ASSUME NEW r \in Requests, Chunk(r) PROVE TypeOK' /\ RoundsLeft'
    BY <2>6 DEF Chunk, slot, identity, outcome
  <2>7. ASSUME NEW r \in Requests, ChunkFinish(r) PROVE TypeOK' /\ RoundsLeft'
    BY <2>7 DEF ChunkFinish, slot, identity, outcome
  <2>8. ASSUME NEW r \in Requests, StreamOk(r) PROVE TypeOK' /\ RoundsLeft'
    BY <2>8 DEF StreamOk, AfterStream, slot, identity, acc, outcome
  <2>9. ASSUME NEW r \in Requests, StreamStopped(r) PROVE TypeOK' /\ RoundsLeft'
    <3>1. replies' \in [Requests -> Nat] /\ emitted' \in [Requests -> SUBSET Notices]
      BY <2>9 DEF StreamStopped, SaveReply
    <3>2. QED
      BY <2>9, <3>1 DEF StreamStopped, slot, identity, acc
  <2>10. ASSUME NEW r \in Requests, StreamExceeded(r) PROVE TypeOK' /\ RoundsLeft'
    BY <2>10 DEF StreamExceeded, slot, identity, outcome
  <2>11. ASSUME NEW r \in Requests, StreamFailed(r) PROVE TypeOK' /\ RoundsLeft'
    BY <2>11 DEF StreamFailed, Fail, slot, identity, acc
  <2>12. ASSUME NEW r \in Requests, Finalize(r) PROVE TypeOK' /\ RoundsLeft'
    BY <2>12 DEF Finalize, SaveReply, slot, identity, acc
  <2>13. ASSUME NEW r \in Requests, ToolRound(r) PROVE TypeOK' /\ RoundsLeft'
    <3>1. CASE /\ round' = [round EXCEPT ![r] = @ + 1]
               /\ content' \in {content, [content EXCEPT ![r] = FALSE]}
               /\ finish' = [finish EXCEPT ![r] = "other"]
               /\ Goto(r, "stream")
               /\ UNCHANGED <<completionID, outcome>>
      <4>1. content' \in [Requests -> BOOLEAN]
        BY <3>1
      <4>2. round' \in [Requests -> 0..MaxRounds] /\ finish' \in [Requests -> FinishReasons]
        BY <2>13, <3>1 DEF ToolRound
      <4>3. QED
        BY <2>13, <3>1, <4>1, <4>2 DEF ToolRound, slot, identity, outcome
    <3>2. CASE Fail(r, "closing", {}) /\ completionID' = NoReq /\ UNCHANGED acc
      BY <2>13, <3>2 DEF ToolRound, Fail, slot, identity, acc
    <3>3. QED
      BY <2>13, <3>1, <3>2 DEF ToolRound
  <2>14. ASSUME NEW r \in Requests, SaveFinal(r) PROVE TypeOK' /\ RoundsLeft'
    BY <2>14 DEF SaveFinal, Fail, slot, identity, acc
  <2>15. ASSUME NEW r \in Requests, Close(r) PROVE TypeOK' /\ RoundsLeft'
    BY <2>15 DEF Close, slot, identity
  <2>16. ASSUME NEW r \in Requests, Cleanup(r) PROVE TypeOK' /\ RoundsLeft'
    BY <2>16 DEF Cleanup, identity, acc, outcome
  <2>17. ASSUME NEW r \in Requests, Report(r) PROVE TypeOK' /\ RoundsLeft'
    BY <2>17 DEF Report, slot, identity, acc
  <2>18. ASSUME NEW s \in Stoppers, StopTake(s) PROVE TypeOK' /\ RoundsLeft'
    BY <2>18 DEF StopTake, identity, acc, outcome
  <2>19. ASSUME NEW s \in Stoppers, StopCancel(s) PROVE TypeOK' /\ RoundsLeft'
    BY <2>19 DEF StopCancel, Idle, slot, identity, acc, outcome
  <2>20. CASE UNCHANGED vars
    BY <2>20 DEF vars, slot, identity, acc, outcome
  <2>21. QED
    BY <2>1, <2>2, <2>3, <2>4, <2>5, <2>6, <2>7, <2>8, <2>9, <2>10, <2>11, <2>12,
       <2>13, <2>14, <2>15, <2>16, <2>17, <2>18, <2>19, <2>20 DEF Next, Proceed
<1>3. QED
  BY <1>1, <1>2, PTL DEF Spec

-----------------------------------------------------------------------------
(* Which steps touch the slot. *)

(* A step between taking the slot and giving it back, of one request that is   *)
(* live before and after it.                                                 *)
Quiet(r) ==
  \/ FindConversation(r) \/ AdoptConversation(r) \/ Compose(r)
  \/ Chunk(r) \/ ChunkFinish(r) \/ StreamOk(r) \/ StreamStopped(r)
  \/ StreamExceeded(r) \/ StreamFailed(r)
  \/ Finalize(r) \/ ToolRound(r) \/ SaveFinal(r) \/ Close(r)

(* Such a step moves its request within the live phases past "begun" and       *)
(* leaves the slot's owner, the tokens and every held cancel function alone.   *)
LEMMA QuietStep ==
  ASSUME TypeOK, NEW r \in Requests, Quiet(r)
  PROVE  /\ UNCHANGED <<currentCancel, genToken, token, oldCancel, ctxDone, stopping>>
         /\ pc[r] \notin {"idle", "begun", "report", "done"}
         /\ pc' \in [Requests -> Phases]
         /\ pc'[r] \notin {"idle", "begun", "report", "done"}
         /\ \A q \in Requests \ {r} : pc'[q] = pc[q]
<1> USE DEF TypeOK, Phases, Goto, slot, identity
<1>1. CASE FindConversation(r)
  BY <1>1 DEF FindConversation, Fail
<1>2. CASE AdoptConversation(r)
  BY <1>2 DEF AdoptConversation
<1>3. CASE Compose(r)
  BY <1>3 DEF Compose, Fail
<1>4. CASE Chunk(r) \/ ChunkFinish(r)
  BY <1>4 DEF Chunk, ChunkFinish, Streaming
<1>5. CASE StreamOk(r)
  BY <1>5 DEF StreamOk, AfterStream, Streaming
<1>6. CASE StreamStopped(r)
  BY <1>6 DEF StreamStopped, Streaming
<1>7. CASE StreamExceeded(r)
  BY <1>7 DEF StreamExceeded
<1>8. CASE StreamFailed(r)
  BY <1>8 DEF StreamFailed, Streaming, Fail
<1>9. CASE Finalize(r)
  BY <1>9 DEF Finalize
<1>10. CASE ToolRound(r)
  BY <1>10 DEF ToolRound, Fail
<1>11. CASE SaveFinal(r)
  BY <1>11 DEF SaveFinal, Fail
<1>12. CASE Close(r)
  BY <1>12 DEF Close
<1>13. QED
  BY <1>1, <1>2, <1>3, <1>4, <1>5, <1>6, <1>7, <1>8, <1>9, <1>10, <1>11, <1>12 DEF Quiet

(* Next, seen from the slot. *)
LEMMA NextCases ==
  ASSUME Next
  PROVE  \/ \E r \in Requests, c \in Convs \cup {NoConv} : Begin(r, c)
         \/ \E r \in Requests : CancelOld(r) \/ Quiet(r) \/ Cleanup(r) \/ Report(r)
         \/ \E s \in Stoppers : StopTake(s) \/ StopCancel(s)
BY DEF Next, Proceed, Quiet

-----------------------------------------------------------------------------
(* The slot invariant. *)

(* The part of SlotInvariant that speaks of the slot. *)
SlotPart == TokensIdentify /\ CancelHeldBriefly /\ SlotHoldsNewest /\ NoOrphanGeneration

LEMMA SlotPartInit == Init => SlotPart
BY GenerationAssumption DEF Init, Idle, SlotPart, TokensIdentify, CancelHeldBriefly,
   SlotHoldsNewest, NoOrphanGeneration, Live, Doomed

(* Each kind of step preserves it. *)
LEMMA SlotPartNext == TypeOK /\ SlotPart /\ [Next]_vars => SlotPart'
<1> SUFFICES ASSUME TypeOK, SlotPart, [Next]_vars PROVE SlotPart'
  OBVIOUS
<1> USE GenerationAssumption
     DEF TypeOK, SlotPart, TokensIdentify, CancelHeldBriefly, SlotHoldsNewest,
         NoOrphanGeneration, Live, Doomed
<1>1. ASSUME NEW r \in Requests, NEW c \in Convs \cup {NoConv}, Begin(r, c)
      PROVE  SlotPart'
  BY <1>1 DEF Begin, Goto, Phases
<1>2. ASSUME NEW r \in Requests, CancelOld(r) PROVE SlotPart'
  BY <1>2 DEF CancelOld, Goto, slot, identity, Phases
<1>3. ASSUME NEW r \in Requests, Quiet(r) PROVE SlotPart'
  BY <1>3, QuietStep DEF Phases
<1>4. ASSUME NEW r \in Requests, Cleanup(r) PROVE SlotPart'
  BY <1>4 DEF Cleanup, Goto, identity, Phases
<1>5. ASSUME NEW r \in Requests, Report(r) PROVE SlotPart'
  BY <1>5 DEF Report, Goto, slot, identity, Phases
<1>6. ASSUME NEW s \in Stoppers, StopTake(s) PROVE SlotPart'
  BY <1>6 DEF StopTake, identity
<1>7. ASSUME NEW s \in Stoppers, StopCancel(s) PROVE SlotPart'
  BY <1>7 DEF StopCancel, Idle, slot, identity
<1>8. CASE UNCHANGED vars
  BY <1>8 DEF vars, slot, identity
<1>9. QED
  BY <1>1, <1>2, <1>3, <1>4, <1>5, <1>6, <1>7, <1>8, NextCases

(* The bookkeeping of cancel functions is right in every reachable state. *)
THEOREM SlotInvariantHolds == Spec => []SlotInvariant
<1>1. Init => SlotPart
  BY SlotPartInit
<1>2. TypeOK /\ SlotPart /\ [Next]_vars => SlotPart'
  BY SlotPartNext
<1>3. SlotPart /\ RoundsLeft => SlotInvariant
  BY DEF SlotPart, SlotInvariant
<1>4. QED
  BY <1>1, <1>2, <1>3, TypeCorrect, PTL DEF Spec

(* No generation runs out of the slot's reach, whatever the interleaving of    *)
(* starts, stops and late cleanups.                                          *)
THEOREM NoOrphans == Spec => []NoOrphanGeneration
<1>1. SlotInvariant => NoOrphanGeneration
  BY DEF SlotInvariant
<1>2. QED
  BY <1>1, SlotInvariantHolds, PTL

(* A stop is never spent on a generation that is over or already cancelled. *)
THEOREM SlotNewest == Spec => []SlotHoldsNewest
<1>1. SlotInvariant => SlotHoldsNewest
  BY DEF SlotInvariant
<1>2. QED
  BY <1>1, SlotInvariantHolds, PTL

-----------------------------------------------------------------------------
(* The service implements exclusive generation. *)

(* The slot implements ExclusiveGeneration: a step is the start of a           *)
(* generation, its end, a stop of everything, or invisible.  The slot          *)
(* invariant is what makes a start doom all the others.                      *)
THEOREM Refinement == Spec => ImplementsExclusive
<1>1. Init => Exclusive!Init
  BY DEF Init, Exclusive!Init, Live
<1>2. TypeOK /\ SlotPart /\ [Next]_vars => [Exclusive!Next]_(Exclusive!vars)
  <2> SUFFICES ASSUME TypeOK, SlotPart, [Next]_vars
               PROVE  [Exclusive!Next]_(Exclusive!vars)
    OBVIOUS
  <2> DEFINE L == {r \in Requests : Live(r)}
             D == {r \in Requests : Live(r) /\ Doomed(r)}
  <2> USE GenerationAssumption
       DEF TypeOK, SlotPart, TokensIdentify, CancelHeldBriefly, SlotHoldsNewest,
           NoOrphanGeneration, Live, Doomed, Phases
  <2>1. ASSUME NEW r \in Requests, NEW c \in Convs \cup {NoConv}, Begin(r, c)
        PROVE  Exclusive!Start(r)
    <3>1. r \notin L /\ L' = L \cup {r}
      BY <2>1 DEF Begin, Goto
    <3>2. D' = L
      BY <2>1 DEF Begin, Goto
    <3>3. QED
      BY <3>1, <3>2 DEF Exclusive!Start
  <2>2. ASSUME NEW r \in Requests, Cleanup(r) PROVE Exclusive!End(r)
    <3>1. r \in L /\ L' = L \ {r}
      BY <2>2 DEF Cleanup, Goto
    <3>2. D' = D \ {r}
      BY <2>2 DEF Cleanup, Goto
    <3>3. QED
      BY <3>1, <3>2 DEF Exclusive!End
  <2>3. ASSUME NEW s \in Stoppers, StopTake(s) PROVE Exclusive!StopAll
    <3>1. L' = L
      BY <2>3 DEF StopTake
    <3>2. D' = L
      BY <2>3 DEF StopTake
    <3>3. QED
      BY <3>1, <3>2 DEF Exclusive!StopAll
  <2>4. ASSUME NEW s \in Stoppers, StopCancel(s) PROVE L' = L /\ D' = D
    BY <2>4 DEF StopCancel, Idle, slot, identity
  <2>5. ASSUME NEW r \in Requests, CancelOld(r) PROVE L' = L /\ D' = D
    BY <2>5 DEF CancelOld, Goto, slot, identity
  <2>6. ASSUME NEW r \in Requests, Quiet(r) PROVE L' = L /\ D' = D
    BY <2>6, QuietStep
  <2>7. ASSUME NEW r \in Requests, Report(r) PROVE L' = L /\ D' = D
    BY <2>7 DEF Report, Goto, slot, identity
  <2>8. CASE UNCHANGED vars
    BY <2>8 DEF vars, slot, identity, Exclusive!vars
  <2>9. QED
    BY <2>1, <2>2, <2>3, <2>4, <2>5, <2>6, <2>7, <2>8, NextCases
       DEF Exclusive!Next, Exclusive!vars
<1>3. QED
  BY <1>1, <1>2, TypeCorrect, SlotInvariantHolds, PTL
     DEF Spec, SlotInvariant, SlotPart, ImplementsExclusive, Exclusive!Spec

-----------------------------------------------------------------------------
(* What becomes of a reply. *)

Unsaved == {"idle", "begun", "prepare", "adopt", "compose", "stream", "retry",
            "finalize", "tools", "saveFinal"}
Answering == {"stream", "retry", "finalize", "tools", "saveFinal", "closing"}

(* A request reaches its cleanup with an error to report or with its end       *)
(* announced: streamWithSearch has no third way out.                         *)
CleanupIsAnnounced ==
  \A r \in Requests : pc[r] = "cleanup" => r \in failed \/ "ended" \in emitted[r]

(* Each save of an uninterrupted reply is the request's last step before       *)
(* closing: until then there is none.                                        *)
SavedOnlyAtTheEnd ==
  \A r \in Requests \ ctxDone : pc[r] \in Unsaved => replies[r] = 0

ReplyInvariant ==
  /\ CompletionIDIsLive
  /\ NoSpuriousStop
  /\ CleanupIsAnnounced /\ NoSilentEnd
  /\ SavedOnlyAtTheEnd /\ UninterruptedReplySavedOnce

(* The same of one request. *)
ReplyRight(r) ==
  /\ completionID = r => pc[r] \in Answering
  /\ "stopped" \in emitted[r] => r \in ctxDone
  /\ pc[r] = "cleanup" => r \in failed \/ "ended" \in emitted[r]
  /\ pc[r] = "done" => emitted[r] \cap {"stopped", "ended"} # {}
  /\ r \notin ctxDone => replies[r] <= 1 /\ (pc[r] \in Unsaved => replies[r] = 0)

(* A step of one request leaves what belongs to the others alone, but for the *)
(* completion ID, which it takes or gives up, and for contexts it cancels.    *)
LEMMA OthersAlone ==
  ASSUME TypeOK, NEW r \in Requests, NEW q \in Requests, q # r,
         (\E c \in Convs \cup {NoConv} : Begin(r, c)) \/ CancelOld(r) \/ Quiet(r)
           \/ Cleanup(r) \/ Report(r)
  PROVE  /\ pc'[q] = pc[q] /\ emitted'[q] = emitted[q] /\ replies'[q] = replies[q]
         /\ q \in failed' <=> q \in failed
         /\ completionID' = q => completionID = q
         /\ ctxDone \subseteq ctxDone'
<1>t. /\ pc \in [Requests -> Phases] /\ emitted \in [Requests -> SUBSET Notices]
      /\ replies \in [Requests -> Nat]
  BY DEF TypeOK
<1> USE <1>t, GenerationAssumption DEF Goto, Emit, outcome
<1>1. CASE \E c \in Convs \cup {NoConv} : Begin(r, c)
  BY <1>1 DEF Begin
<1>2. CASE CancelOld(r)
  BY <1>2 DEF CancelOld
<1>3. CASE FindConversation(r) \/ AdoptConversation(r) \/ Compose(r)
  BY <1>3 DEF FindConversation, AdoptConversation, Compose, Fail
<1>4. CASE Chunk(r) \/ ChunkFinish(r) \/ StreamOk(r) \/ StreamExceeded(r)
  BY <1>4 DEF Chunk, ChunkFinish, StreamOk, StreamExceeded
<1>5. CASE StreamStopped(r)
  BY <1>5 DEF StreamStopped, SaveReply
<1>6. CASE StreamFailed(r) \/ ToolRound(r)
  BY <1>6 DEF StreamFailed, ToolRound, Fail
<1>7. CASE Finalize(r)
  BY <1>7 DEF Finalize, SaveReply
<1>8. CASE SaveFinal(r)
  BY <1>8 DEF SaveFinal, Fail
<1>9. CASE Close(r) \/ Cleanup(r) \/ Report(r)
  BY <1>9 DEF Close, Cleanup, Report
<1>10. QED
  BY <1>1, <1>2, <1>3, <1>4, <1>5, <1>6, <1>7, <1>8, <1>9 DEF Quiet

(* And what it does to its own reply. *)
LEMMA OwnReplyRight ==
  ASSUME TypeOK, NEW r \in Requests, ReplyRight(r),
         (\E c \in Convs \cup {NoConv} : Begin(r, c)) \/ CancelOld(r) \/ Quiet(r)
           \/ Cleanup(r) \/ Report(r)
  PROVE  ReplyRight(r)'
<1> USE GenerationAssumption
     DEF TypeOK, Goto, Emit, outcome, acc, ReplyRight, Unsaved, Answering, Phases, Notices
<1>1. CASE \E c \in Convs \cup {NoConv} : Begin(r, c)
  BY <1>1 DEF Begin
<1>2. CASE CancelOld(r)
  BY <1>2 DEF CancelOld
<1>3. CASE FindConversation(r)
  BY <1>3 DEF FindConversation, Fail
<1>4. CASE AdoptConversation(r)
  BY <1>4 DEF AdoptConversation
<1>5. CASE Compose(r)
  BY <1>5 DEF Compose, Fail
<1>6. CASE Chunk(r) \/ ChunkFinish(r)
  BY <1>6 DEF Chunk, ChunkFinish, Streaming
<1>7. CASE StreamOk(r)
  BY <1>7 DEF StreamOk, AfterStream, Streaming
<1>8. CASE StreamStopped(r)
  BY <1>8 DEF StreamStopped, SaveReply, Streaming
<1>9. CASE StreamExceeded(r)
  BY <1>9 DEF StreamExceeded
<1>10. CASE StreamFailed(r)
  BY <1>10 DEF StreamFailed, Fail, Streaming
<1>11. CASE Finalize(r)
  BY <1>11 DEF Finalize, SaveReply
<1>12. CASE ToolRound(r)
  BY <1>12 DEF ToolRound, Fail
<1>13. CASE SaveFinal(r)
  BY <1>13 DEF SaveFinal, Fail
<1>14. CASE Close(r)
  BY <1>14 DEF Close
<1>15. CASE Cleanup(r)
  BY <1>15 DEF Cleanup
<1>16. CASE Report(r)
  BY <1>16 DEF Report
<1>17. QED
  BY <1>1, <1>2, <1>3, <1>4, <1>5, <1>6, <1>7, <1>8, <1>9, <1>10, <1>11, <1>12, <1>13,
     <1>14, <1>15, <1>16 DEF Quiet

(* Every reply that leaves the service, in every interleaving: the published  *)
(* completion ID names a call that is still made, only a cancelled reply is    *)
(* called stopped, every request says that it has ended, and an uninterrupted  *)
(* reply is stored at most once.                                             *)
THEOREM ReplyInvariantHolds == Spec => []ReplyInvariant
<1>1. Init => ReplyInvariant
  BY GenerationAssumption DEF Init, ReplyInvariant, CompletionIDIsLive, NoSpuriousStop,
     CleanupIsAnnounced, NoSilentEnd, SavedOnlyAtTheEnd, UninterruptedReplySavedOnce
<1>2. TypeOK /\ ReplyInvariant /\ [Next]_vars => ReplyInvariant'
  <2> SUFFICES ASSUME TypeOK, \A r \in Requests : ReplyRight(r), [Next]_vars,
                      NEW q \in Requests
               PROVE  ReplyRight(q)'
    BY DEF ReplyInvariant, ReplyRight, CompletionIDIsLive, NoSpuriousStop, CleanupIsAnnounced,
       NoSilentEnd, SavedOnlyAtTheEnd, UninterruptedReplySavedOnce, Answering
  <2>1. ASSUME NEW r \in Requests,
               (\E c \in Convs \cup {NoConv} : Begin(r, c)) \/ CancelOld(r) \/ Quiet(r)
                 \/ Cleanup(r) \/ Report(r)
        PROVE  ReplyRight(q)'
    <3>1. CASE q = r
      BY <2>1, <3>1, OwnReplyRight
    <3>2. CASE q # r
      BY <2>1, <3>2, OthersAlone DEF ReplyRight
    <3>3. QED
      BY <3>1, <3>2
  <2>2. ASSUME NEW s \in Stoppers, StopTake(s) \/ StopCancel(s) PROVE ReplyRight(q)'
    BY <2>2 DEF StopTake, StopCancel, ReplyRight, outcome
  <2>3. CASE UNCHANGED vars
    BY <2>3 DEF vars, ReplyRight, outcome
  <2>4. QED
    BY <2>1, <2>2, <2>3, NextCases
<1>3. QED
  BY <1>1, <1>2, TypeCorrect, PTL DEF Spec

(* The handle of "stop thinking" never outlives the call it names.            *)
THEOREM CompletionIDLive == Spec => []CompletionIDIsLive
<1>1. ReplyInvariant => CompletionIDIsLive
  BY DEF ReplyInvariant
<1>2. QED
  BY <1>1, ReplyInvariantHolds, PTL

(* "stopped" is only said of a reply whose context was cancelled.             *)
THEOREM StopsAreMeant == Spec => []NoSpuriousStop
<1>1. ReplyInvariant => NoSpuriousStop
  BY DEF ReplyInvariant
<1>2. QED
  BY <1>1, ReplyInvariantHolds, PTL

(* No request ends without a "stopped", a "done" or an error.                 *)
THEOREM EndsAreAnnounced == Spec => []NoSilentEnd
<1>1. ReplyInvariant => NoSilentEnd
  BY DEF ReplyInvariant
<1>2. QED
  BY <1>1, ReplyInvariantHolds, PTL

(* Retries, tool rounds and failed saves store an uninterrupted reply once.    *)
THEOREM SavedOnce == Spec => []UninterruptedReplySavedOnce
<1>1. ReplyInvariant => UninterruptedReplySavedOnce
  BY DEF ReplyInvariant
<1>2. QED
  BY <1>1, ReplyInvariantHolds, PTL

=============================================================================
