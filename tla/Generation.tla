----------------------------- MODULE Generation -----------------------------
(***************************************************************************)
(* The life of a reply in the chat service (src/internal/chat).             *)
(*                                                                         *)
(* Every SendMessage or RegenerateMessage call of the front end runs in a   *)
(* goroutine of its own (app_chat.go) and is a request here.  Requests      *)
(* share one generation slot: the cancel function, the conversation and the *)
(* token of the newest of them, guarded by Service.mutex.  A request takes  *)
(* the slot (beginGeneration), cancels the one it superseded, prepares the   *)
(* prompt, streams the answer from llama-server, runs tool rounds, saves the *)
(* reply and gives the slot back.  StopGeneration empties the slot at any    *)
(* time and cancels what it found there.  What happens between two locked    *)
(* sections is a step of its own, so that requests and stops interleave as   *)
(* goroutines do.                                                           *)
(***************************************************************************)
EXTENDS Naturals

CONSTANTS
  Requests,    \* calls of SendMessage / RegenerateMessage, each made once
  Convs,       \* conversations that exist from the start
  Stoppers,    \* threads that call StopGeneration, as often as they like
  MaxRounds,   \* tool rounds of one reply (toolCallMaxRounds)
  NoReq,       \* a nil cancel function, or no completion ID
  NoConv       \* the empty conversation ID

ASSUME GenerationAssumption ==
  /\ NoReq \notin Requests
  /\ NoConv \notin Convs \cup Requests
  /\ MaxRounds \in Nat \ {0}

(* The conversation that request r creates is named r. *)
ConvIds == Convs \cup Requests

VARIABLES
  currentCancel,   \* the request whose cancel function is in the slot
  currentConvID,   \* the conversation in the slot
  genToken,        \* number of generations begun so far
  completionID,    \* the request whose completion ID is published
  pc,              \* [Requests -> phase of the request]
  target,          \* the conversation the reply belongs to, once it is known
  token,           \* the token beginGeneration gave to the request
  oldCancel,       \* what the request found in the slot and has yet to cancel
  ctxDone,         \* the requests whose context is cancelled
  content,         \* has the accumulator any text or thinking?
  finish,          \* the accumulator's finish reason, as far as code looks at it
  round,           \* tool rounds executed so far
  failed,          \* the requests that have an error to report
  replies,         \* assistant replies persisted for the request
  emitted,         \* the notices the request itself has sent to the front end
  stopping         \* [Stoppers -> what StopGeneration took from the slot]

slot == <<currentCancel, currentConvID, genToken>>
identity == <<target, token>>
acc == <<content, finish, round>>
outcome == <<failed, replies, emitted>>
vars == <<slot, completionID, pc, identity, oldCancel, ctxDone, acc, outcome, stopping>>

Phases == {"idle", "begun", "prepare", "adopt", "compose", "stream", "retry",
           "finalize", "tools", "saveFinal", "closing", "cleanup", "report", "done"}
FinishReasons == {"other", "length", "tool_calls"}   \* "other": none yet, or "stop"
Notices == {"stopped", "ended", "truncated"}         \* "ended": "done" or "error"
Idle == [busy |-> FALSE, cancel |-> NoReq]

TypeOK ==
  /\ currentCancel \in Requests \cup {NoReq}
  /\ currentConvID \in ConvIds \cup {NoConv}
  /\ genToken \in Nat
  /\ completionID \in Requests \cup {NoReq}
  /\ pc \in [Requests -> Phases]
  /\ target \in [Requests -> ConvIds \cup {NoConv}]
  /\ token \in [Requests -> Nat]
  /\ oldCancel \in [Requests -> Requests \cup {NoReq}]
  /\ ctxDone \in SUBSET Requests
  /\ content \in [Requests -> BOOLEAN]
  /\ finish \in [Requests -> FinishReasons]
  /\ round \in [Requests -> 0..MaxRounds]
  /\ failed \in SUBSET Requests
  /\ replies \in [Requests -> Nat]
  /\ emitted \in [Requests -> SUBSET Notices]
  /\ stopping \in [Stoppers -> [busy : BOOLEAN, cancel : Requests \cup {NoReq}]]

Init ==
  /\ currentCancel = NoReq
  /\ currentConvID = NoConv
  /\ genToken = 0
  /\ completionID = NoReq
  /\ pc = [r \in Requests |-> "idle"]
  /\ target = [r \in Requests |-> NoConv]
  /\ token = [r \in Requests |-> 0]
  /\ oldCancel = [r \in Requests |-> NoReq]
  /\ ctxDone = {}
  /\ content = [r \in Requests |-> FALSE]
  /\ finish = [r \in Requests |-> "other"]
  /\ round = [r \in Requests |-> 0]
  /\ failed = {}
  /\ replies = [r \in Requests |-> 0]
  /\ emitted = [r \in Requests |-> {}]
  /\ stopping = [s \in Stoppers |-> Idle]

-----------------------------------------------------------------------------
(* Helpers: moving a request on, and telling the front end something. *)

Goto(r, phase) == pc' = [pc EXCEPT ![r] = phase]

Emit(r, notices) == emitted' = [emitted EXCEPT ![r] = @ \cup notices]

(* The request returns an error, which its goroutine will report (Report);   *)
(* some failures have sent an "error" event of their own by then.            *)
Fail(r, phase, notices) ==
  /\ failed' = failed \cup {r}
  /\ Emit(r, notices)
  /\ Goto(r, phase)
  /\ UNCHANGED replies

(* store.CreateMessage of the reply: persisted and announced, or an error. *)
SaveReply(r, onSaved, onError) ==
  \/ /\ replies' = [replies EXCEPT ![r] = @ + 1]
     /\ Emit(r, onSaved)
  \/ /\ Emit(r, onError)
     /\ UNCHANGED replies

-----------------------------------------------------------------------------
(* Taking the slot. *)

(* The locked section of beginGeneration.  c is the conversation SendMessage *)
(* was given; a message that opens a new conversation and a regeneration      *)
(* begin with an empty one.                                                 *)
Begin(r, c) ==
  /\ pc[r] = "idle"
  /\ target' = [target EXCEPT ![r] = c]
  /\ genToken' = genToken + 1
  /\ token' = [token EXCEPT ![r] = genToken + 1]
  /\ oldCancel' = [oldCancel EXCEPT ![r] = currentCancel]
  /\ currentCancel' = r
  /\ currentConvID' = c
  /\ Goto(r, "begun")
  /\ UNCHANGED <<completionID, ctxDone, acc, outcome, stopping>>

(* Mutant: the superseded generation is forgotten instead of cancelled. *)
CancelOldForgets(r) ==
  /\ pc[r] = "begun"
  /\ oldCancel' = [oldCancel EXCEPT ![r] = NoReq]
  /\ Goto(r, IF target[r] = NoConv THEN "prepare" ELSE "compose")
  /\ UNCHANGED <<slot, completionID, identity, ctxDone, acc, outcome, stopping>>

(* beginGeneration after the unlock: cancel the superseded generation. *)
CancelOld(r) ==
  /\ pc[r] = "begun"
  /\ ctxDone' = ctxDone \cup ({oldCancel[r]} \ {NoReq})
  /\ oldCancel' = [oldCancel EXCEPT ![r] = NoReq]
  /\ Goto(r, IF target[r] = NoConv THEN "prepare" ELSE "compose")
  /\ UNCHANGED <<slot, completionID, identity, acc, outcome, stopping>>

(* SendMessage creates conversation r, RegenerateMessage looks up the one of  *)
(* the message to be answered again; only SendMessage sends its failures.    *)
FindConversation(r) ==
  /\ pc[r] = "prepare"
  /\ \/ /\ \E c \in Convs \cup {r} : target' = [target EXCEPT ![r] = c]
        /\ Goto(r, "adopt")
        /\ UNCHANGED outcome
     \/ /\ \E notices \in {{}, {"ended"}} : Fail(r, "cleanup", notices)
        /\ UNCHANGED target
  /\ UNCHANGED <<slot, completionID, token, oldCancel, ctxDone, acc, stopping>>

(* The second locked section: the slot learns the conversation. *)
AdoptConversation(r) ==
  /\ pc[r] = "adopt"
  /\ currentConvID' = target[r]
  /\ Goto(r, "compose")
  /\ UNCHANGED <<currentCancel, genToken, completionID, identity, oldCancel,
                 ctxDone, acc, outcome, stopping>>

(* Saving the user's message or deleting the old replies, searching, and     *)
(* building the prompt; none of it looks at the request's context.          *)
Compose(r) ==
  /\ pc[r] = "compose"
  /\ \/ Goto(r, "stream") /\ UNCHANGED outcome
     \/ \E notices \in {{}, {"ended"}} : Fail(r, "cleanup", notices)
  /\ UNCHANGED <<slot, completionID, identity, oldCancel, ctxDone, acc, stopping>>

-----------------------------------------------------------------------------
(* Streaming. *)

Streaming(r) == pc[r] \in {"stream", "retry"}

(* A chunk with text.  The first attempt also publishes its completion ID;   *)
(* the retry uses the bare accumulator callback and publishes nothing.      *)
Chunk(r) ==
  /\ Streaming(r)
  /\ content' = [content EXCEPT ![r] = TRUE]
  /\ completionID' = IF pc[r] = "stream" THEN r ELSE completionID
  /\ UNCHANGED <<slot, pc, identity, oldCancel, ctxDone, finish, round, outcome, stopping>>

(* The chunk that carries the finish reason. *)
ChunkFinish(r) ==
  /\ Streaming(r)
  /\ finish[r] = "other"
  /\ \E f \in FinishReasons \ {"other"} : finish' = [finish EXCEPT ![r] = f]
  /\ UNCHANGED <<slot, completionID, pc, identity, oldCancel, ctxDone, content,
                 round, outcome, stopping>>

(* Where a request goes once runStreamWithStandardErrors has returned        *)
(* streamContinue: the first answer is finalised, a later round either asks  *)
(* for more tools or is the final answer.                                   *)
AfterStream(r) ==
  IF round[r] = 0 THEN "finalize"
  ELSE IF finish[r] = "tool_calls" /\ round[r] < MaxRounds THEN "tools"
  ELSE "saveFinal"

(* The stream ends without an error: the answer is complete, or the server   *)
(* closed it early (which is what DELETE /v1/stream does).                   *)
StreamOk(r) ==
  /\ Streaming(r)
  /\ Goto(r, AfterStream(r))
  /\ UNCHANGED <<slot, completionID, identity, oldCancel, ctxDone, acc, outcome, stopping>>

(* Mutant: any stream error is taken for a stop. *)
StreamStoppedOnAnyError(r) ==
  /\ Streaming(r)
  /\ IF content[r]
     THEN SaveReply(r, {"stopped"}, {"stopped", "ended"})
     ELSE Emit(r, {"stopped"}) /\ UNCHANGED replies
  /\ Goto(r, IF round[r] = 0 THEN "finalize" ELSE "closing")
  /\ completionID' = IF round[r] = 0 THEN completionID ELSE NoReq
  /\ UNCHANGED <<slot, identity, oldCancel, ctxDone, acc, failed, stopping>>

(* The stream fails and the context turns out to be cancelled: the partial   *)
(* reply is saved, "stopped" is sent, and nil is returned.  The first stream's *)
(* caller drops the streamStopped result and goes on to finalise; the tool    *)
(* loop returns.                                                            *)
StreamStopped(r) ==
  /\ Streaming(r)
  /\ r \in ctxDone
  /\ IF content[r]
     THEN SaveReply(r, {"stopped"}, {"stopped", "ended"})
     ELSE Emit(r, {"stopped"}) /\ UNCHANGED replies
  /\ Goto(r, IF round[r] = 0 THEN "finalize" ELSE "closing")
  /\ completionID' = IF round[r] = 0 THEN completionID ELSE NoReq
  /\ UNCHANGED <<slot, identity, oldCancel, ctxDone, acc, failed, stopping>>

(* Mutant: the partial reply is saved before the retry. *)
StreamExceededSaves(r) ==
  /\ pc[r] = "stream"
  /\ r \notin ctxDone
  /\ content[r]
  /\ SaveReply(r, {}, {})
  /\ content' \in {content, [content EXCEPT ![r] = FALSE]}
  /\ finish' = [finish EXCEPT ![r] = "other"]
  /\ Goto(r, "retry")
  /\ UNCHANGED <<slot, completionID, identity, oldCancel, ctxDone, round, failed, stopping>>

(* The first attempt overflows the context: the prompt is trimmed, the       *)
(* accumulator is reset (thinking survives) and the stream is retried once.  *)
StreamExceeded(r) ==
  /\ pc[r] = "stream"
  /\ r \notin ctxDone
  /\ content' \in {content, [content EXCEPT ![r] = FALSE]}
  /\ finish' = [finish EXCEPT ![r] = "other"]
  /\ Goto(r, "retry")
  /\ UNCHANGED <<slot, completionID, identity, oldCancel, ctxDone, round, outcome, stopping>>

(* Any other failure, the stream's own timeout included. *)
StreamFailed(r) ==
  /\ Streaming(r)
  /\ r \notin ctxDone
  /\ Fail(r, "closing", {"ended"})
  /\ UNCHANGED <<slot, completionID, identity, oldCancel, ctxDone, acc, stopping>>

-----------------------------------------------------------------------------
(* What happens to the answer. *)

(* finalizeStreamResult.  It has no notion of a stopped stream: whatever the  *)
(* accumulator holds is saved.  An empty answer is an error unless the        *)
(* context is cancelled.  All branches but the tool loop return nil.         *)
Finalize(r) ==
  /\ pc[r] = "finalize"
  /\ \/ /\ finish[r] = "tool_calls"
        /\ Goto(r, "tools")
        /\ UNCHANGED <<replies, emitted>>
     \/ /\ finish[r] # "tool_calls" /\ ~content[r]
        /\ Emit(r, IF r \in ctxDone THEN {} ELSE {"ended"})
        /\ Goto(r, "closing")
        /\ UNCHANGED replies
     \/ /\ finish[r] # "tool_calls" /\ content[r]
        /\ SaveReply(r, {}, {"ended"})
        /\ Goto(r, "closing")
  /\ UNCHANGED <<slot, completionID, identity, oldCancel, ctxDone, acc, failed, stopping>>

(* One round of handleToolCallLoop: the tools run to an end (an approval or a *)
(* tool ends by itself, by its timeout or by the cancelled context), and      *)
(* their messages are stored in one transaction, or the loop is left.        *)
ToolRound(r) ==
  /\ pc[r] = "tools"
  /\ \/ /\ round' = [round EXCEPT ![r] = @ + 1]
        /\ content' \in {content, [content EXCEPT ![r] = FALSE]}
        /\ finish' = [finish EXCEPT ![r] = "other"]
        /\ Goto(r, "stream")
        /\ UNCHANGED <<completionID, outcome>>
     \/ /\ Fail(r, "closing", {})
        /\ completionID' = NoReq
        /\ UNCHANGED acc
  /\ UNCHANGED <<slot, identity, oldCancel, ctxDone, stopping>>

(* saveToolCallFinalMessage, and the loop's deferred reset of the ID. *)
SaveFinal(r) ==
  /\ pc[r] = "saveFinal"
  /\ \/ /\ replies' = [replies EXCEPT ![r] = @ + 1]
        /\ Emit(r, IF finish[r] = "length" THEN {"truncated"} ELSE {})
        /\ Goto(r, "closing")
        /\ UNCHANGED failed
     \/ Fail(r, "closing", {})
  /\ completionID' = NoReq
  /\ UNCHANGED <<slot, identity, oldCancel, ctxDone, acc, stopping>>

(* Mutant: the completion ID is left behind. *)
CloseKeepsID(r) ==
  /\ pc[r] = "closing"
  /\ Emit(r, IF r \in failed THEN {} ELSE {"ended"})
  /\ content' = [content EXCEPT ![r] = FALSE]
  /\ finish' = [finish EXCEPT ![r] = "other"]
  /\ round' = [round EXCEPT ![r] = 0]
  /\ Goto(r, "cleanup")
  /\ UNCHANGED <<slot, completionID, identity, oldCancel, ctxDone, failed, replies, stopping>>

(* The end of streamWithSearch: unless it fails, the KV slot is saved, the    *)
(* title updated and "done" sent; either way the completion ID is reset and   *)
(* the accumulator is gone.                                                 *)
Close(r) ==
  /\ pc[r] = "closing"
  /\ Emit(r, IF r \in failed THEN {} ELSE {"ended"})
  /\ completionID' = NoReq
  /\ content' = [content EXCEPT ![r] = FALSE]
  /\ finish' = [finish EXCEPT ![r] = "other"]
  /\ round' = [round EXCEPT ![r] = 0]
  /\ Goto(r, "cleanup")
  /\ UNCHANGED <<slot, identity, oldCancel, ctxDone, failed, replies, stopping>>

(* Mutant: cleanup empties the slot whoever owns it. *)
CleanupUnguarded(r) ==
  /\ pc[r] = "cleanup"
  /\ currentCancel' = NoReq /\ currentConvID' = NoConv
  /\ Goto(r, IF r \in failed THEN "report" ELSE "done")
  /\ UNCHANGED <<genToken, completionID, identity, oldCancel, ctxDone, acc, outcome, stopping>>

(* Mutant: an error that the service returns is swallowed by the goroutine. *)
CleanupSwallowsError(r) ==
  /\ pc[r] = "cleanup"
  /\ IF genToken = token[r]
     THEN currentCancel' = NoReq /\ currentConvID' = NoConv
     ELSE UNCHANGED <<currentCancel, currentConvID>>
  /\ Goto(r, "done")
  /\ UNCHANGED <<genToken, completionID, identity, oldCancel, ctxDone, acc, outcome, stopping>>

(* The deferred cleanup: the slot is emptied only by its newest owner. *)
Cleanup(r) ==
  /\ pc[r] = "cleanup"
  /\ IF genToken = token[r]
     THEN currentCancel' = NoReq /\ currentConvID' = NoConv
     ELSE UNCHANGED <<currentCancel, currentConvID>>
  /\ Goto(r, IF r \in failed THEN "report" ELSE "done")
  /\ UNCHANGED <<genToken, completionID, identity, oldCancel, ctxDone, acc, outcome, stopping>>

(* The goroutine in app_chat.go turns a returned error into an event. *)
Report(r) ==
  /\ pc[r] = "report"
  /\ Emit(r, {"ended"})
  /\ failed' = failed \ {r}
  /\ Goto(r, "done")
  /\ UNCHANGED <<slot, completionID, identity, oldCancel, ctxDone, acc, replies, stopping>>

-----------------------------------------------------------------------------
(* Stopping. *)

(* StopGeneration's locked section takes the slot's content away. *)
StopTake(s) ==
  /\ ~stopping[s].busy
  /\ stopping' = [stopping EXCEPT ![s] = [busy |-> TRUE, cancel |-> currentCancel]]
  /\ currentCancel' = NoReq
  /\ currentConvID' = NoConv
  /\ UNCHANGED <<genToken, completionID, pc, identity, oldCancel, ctxDone, acc, outcome>>

(* Mutant: only the DELETE request is sent, the context is never cancelled. *)
StopCancelDeletesOnly(s) ==
  /\ stopping[s].busy
  /\ stopping' = [stopping EXCEPT ![s] = Idle]
  /\ UNCHANGED <<slot, completionID, pc, identity, oldCancel, ctxDone, acc, outcome>>

(* After the DELETE request (up to 5 s later): the context is cancelled. *)
StopCancel(s) ==
  /\ stopping[s].busy
  /\ ctxDone' = ctxDone \cup ({stopping[s].cancel} \ {NoReq})
  /\ stopping' = [stopping EXCEPT ![s] = Idle]
  /\ UNCHANGED <<slot, completionID, pc, identity, oldCancel, acc, outcome>>

-----------------------------------------------------------------------------

(* Everything a request does by itself, the stream's success excepted. *)
Proceed(r) ==
  \/ CancelOld(r) \/ FindConversation(r) \/ AdoptConversation(r) \/ Compose(r)
  \/ StreamStopped(r)
  \/ Finalize(r) \/ ToolRound(r) \/ SaveFinal(r) \/ Close(r)
  \/ Cleanup(r) \/ Report(r)

Next ==
  \/ \E r \in Requests :
       \/ (\E c \in Convs \cup {NoConv} : Begin(r, c)) \/ Proceed(r)
       \/ Chunk(r) \/ ChunkFinish(r)
       \/ StreamOk(r) \/ StreamExceeded(r) \/ StreamFailed(r)
  \/ \E s \in Stoppers : StopTake(s) \/ StopCancel(s)

Spec == Init /\ [][Next]_vars

(* A goroutine that can move moves.  Nothing is assumed of the model: an     *)
(* answer may go on for ever, and only a cancelled context ends it for sure. *)
FairSpec ==
  /\ Spec
  /\ \A r \in Requests : WF_vars(Proceed(r))
  /\ \A s \in Stoppers : WF_vars(StopCancel(s))

-----------------------------------------------------------------------------
(* Properties. *)

(* A generation is live until its cleanup has run. *)
Live(r) == pc[r] \notin {"idle", "report", "done"}

(* Someone has cancelled r, or holds its cancel function and will call it. *)
Doomed(r) ==
  \/ r \in ctxDone
  \/ \E q \in Requests : oldCancel[q] = r
  \/ \E s \in Stoppers : stopping[s].cancel = r

(* However starts, stops and late cleanups interleave, no generation runs     *)
(* that the slot does not reach: it is the slot's own, or already on its way  *)
(* out (beginGeneration, cleanup, StopGeneration).                          *)
NoOrphanGeneration ==
  \A r \in Requests : Live(r) => (currentCancel = r \/ Doomed(r))

(* The slot never offers a cancel function of a generation that is over or   *)
(* was given up: a stop is never spent on the wrong one.                     *)
SlotHoldsNewest ==
  \A r \in Requests : currentCancel = r =>
    /\ token[r] = genToken
    /\ Live(r)
    /\ ~Doomed(r)

(* A published completion ID, the handle of "stop thinking", never outlives   *)
(* the call it names (deferred setCurrentCompletionID).                      *)
CompletionIDIsLive ==
  \A r \in Requests : completionID = r =>
    pc[r] \in {"stream", "retry", "finalize", "tools", "saveFinal", "closing"}

(* "stopped" is only said of a reply that the user stopped or superseded,     *)
(* never of one that failed or was cut off by the server.                    *)
NoSpuriousStop ==
  \A r \in Requests : "stopped" \in emitted[r] => r \in ctxDone

(* A reply nobody interrupts is stored at most once, through retries, tool    *)
(* rounds and failed saves.                                                  *)
UninterruptedReplySavedOnce ==
  \A r \in Requests : r \notin ctxDone => replies[r] <= 1

(* No request ends in silence: the front end would wait for ever. *)
NoSilentEnd ==
  \A r \in Requests : pc[r] = "done" => emitted[r] \cap {"stopped", "ended"} # {}

(* A superseded or stopped generation comes to its end whatever the model     *)
(* and the server do.                                                        *)
DoomedGenerationsEnd ==
  \A r \in Requests : Doomed(r) ~> (pc[r] = "done")

(* The first answer is finalised before any tool has run, and tools run only   *)
(* while the reply has a round left.                                         *)
RoundsLeft ==
  \A r \in Requests :
    /\ pc[r] = "finalize" => round[r] = 0
    /\ pc[r] = "tools" => round[r] < MaxRounds

(* What keeps the two slot properties true, as an inductive invariant: tokens  *)
(* identify requests, a superseded cancel function is held only until it is   *)
(* called, and so is the one StopGeneration took.                            *)
TokensIdentify ==
  /\ \A r \in Requests : token[r] <= genToken /\ (pc[r] = "idle" <=> token[r] = 0)
  /\ \A r, q \in Requests : token[r] = token[q] /\ token[r] # 0 => r = q

CancelHeldBriefly ==
  /\ \A r \in Requests : oldCancel[r] # NoReq => pc[r] = "begun"
  /\ \A s \in Stoppers : ~stopping[s].busy => stopping[s].cancel = NoReq
  /\ \A r \in Requests : pc[r] = "idle" => ~Doomed(r)

(* Tokens, held cancel functions and the slot agree at every step; the        *)
(* conjunction is preserved by each step on its own.                         *)
SlotInvariant ==
  /\ RoundsLeft
  /\ TokensIdentify
  /\ CancelHeldBriefly
  /\ SlotHoldsNewest
  /\ NoOrphanGeneration

(* The slot implements exclusive generation. *)
Exclusive == INSTANCE ExclusiveGeneration WITH
  live <- {r \in Requests : Live(r)},
  doomed <- {r \in Requests : Live(r) /\ Doomed(r)}

(* Every step of the service is a step of the abstract specification. *)
ImplementsExclusive == Exclusive!Spec
=============================================================================
