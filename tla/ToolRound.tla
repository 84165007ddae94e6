------------------------------ MODULE ToolRound -----------------------------
(***************************************************************************)
(* The tool rounds of a reply (src/internal/chat): the model asks for      *)
(* tools, each call passes the approval gate in turn while the calls let   *)
(* through before it already run, the results are stored in one            *)
(* transaction, and the model is asked again.  Several loops exist when a  *)
(* reply is superseded; they share the pending approvals, what the user    *)
(* allowed for the session, the cached tool list and the circuit breakers  *)
(* of the search providers.                                                *)
(***************************************************************************)
EXTENDS Integers, Sequences

CONSTANTS
  Loops,        \* calls of handleToolCallLoop
  ReadOnly, Writing, Undeclared,  \* llama-server's tools by their permissions
  Search,       \* the tool the application runs itself
  Modes,        \* settings of cfg.AgentApproval that a loop may find
  MaxRounds,    \* cfg.AgentMaxRounds
  MaxCalls,     \* bound: calls in one answer of the model
  Providers,    \* length of the search chain
  Threshold,    \* DefaultFailureThreshold
  NoLoop        \* nobody is inside the sync.Once

McpTools == ReadOnly \union Writing \union Undeclared
Tools    == McpTools \union {Search}

ASSUME ToolRoundAssumption ==
  /\ Search \notin McpTools /\ NoLoop \notin Loops
  /\ Modes \subseteq {"auto", "always", "never"}
  /\ {MaxRounds, MaxCalls, Threshold} \subseteq Nat \ {0} /\ Providers \in Nat

VARIABLES
  alive,     \* the process runs
  pc,        \* where each loop is
  mode,      \* the approval mode in the loop's snapshot of the configuration
  round,     \* rounds the loop has completed
  calls,     \* the tool calls of the loop's current round
  cancelled, \* the loops whose context is cancelled
  pending,   \* the loops with an entry in pendingApprovals
  answer,    \* what is in the channel of the loop's approval request
  allowed,   \* sessionAllowedTools
  known,     \* mcpToolsCache
  listed,    \* mcpToolsInitialized
  once,      \* mcpToolsOnce: has it run, and who is inside
  refresher, \* the goroutine of RefreshMcpToolsCache
  breaker,   \* the circuit breaker of each provider of the chain
  unsaved,   \* the executed calls whose messages are not in the database
  trusted    \* history: the tools that the user allowed for the session

loopVars  == <<pc, mode, round>>
gateVars  == <<pending, answer, allowed, trusted>>
cacheVars == <<known, listed, once, refresher>>
vars == <<alive, loopVars, calls, cancelled, gateVars, cacheVars, breaker, unsaved>>

Over     == {"over", "failed"}
Settled  == {"skipped", "denied", "answered"}
Circuit  == [state : {"closed", "open", "half"}, failures : 0..Threshold]
Statuses == Settled \union {"todo", "asked", "started", "seek", "calling", "running"}

TypeOK ==
  /\ pc \in [Loops -> Over \union {"idle", "offer", "listing", "stream", "tools"}]
  /\ mode \in [Loops -> Modes] /\ round \in [Loops -> 0..MaxRounds]
  /\ \A l \in Loops : Len(calls[l]) <= MaxCalls /\ calls[l] \in
       Seq([tool : Tools, st : Statuses, at : 1..Providers + 1,
            chain : {"current", "replaced"}, yes : BOOLEAN])
  /\ cancelled \subseteq Loops /\ pending \subseteq Loops
  /\ answer \in [Loops -> {"none", "yes", "no"}] /\ allowed \subseteq Tools
  /\ known \subseteq McpTools /\ refresher \in {"rest", "unlisted", "listing"}
  /\ once \in [done : BOOLEAN, holder : Loops \union {NoLoop}]
  /\ {alive, listed} \subseteq BOOLEAN
  /\ breaker \in [1..Providers -> Circuit]
  /\ unsaved \subseteq Loops \X (1..MaxCalls) /\ trusted \subseteq Tools

Init ==
  /\ alive = TRUE
  /\ pc = [l \in Loops |-> "idle"] /\ mode \in [Loops -> Modes]
  /\ round = [l \in Loops |-> 0] /\ calls = [l \in Loops |-> <<>>]
  /\ cancelled = {} /\ pending = {} /\ answer = [l \in Loops |-> "none"] /\ allowed = {}
  /\ known = {} /\ listed = FALSE /\ refresher = "rest"
  /\ once = [done |-> FALSE, holder |-> NoLoop]
  /\ breaker = [p \in 1..Providers |-> [state |-> "closed", failures |-> 0]]
  /\ unsaved = {} /\ trusted = {}

-----------------------------------------------------------------------------
At(l, where) == alive /\ pc[l] = where
Goto(l, where) == pc' = [pc EXCEPT ![l] = where]
Is(l, i, st) == alive /\ i \in DOMAIN calls[l] /\ calls[l][i].st = st
Becomes(l, i, st) == calls' = [calls EXCEPT ![l][i].st = st]
Runs(l, i, st) == Becomes(l, i, st) /\ unsaved' = unsaved \union {<<l, i>>}

(* A reply begins; the one it supersedes is cancelled.                     *)
Begin(l) ==
  /\ At(l, "idle") /\ Goto(l, "offer")
  /\ cancelled' = cancelled \union {k \in Loops : pc[k] \notin Over \union {"idle"}}
  /\ UNCHANGED <<alive, mode, round, calls, gateVars, cacheVars, breaker, unsaved>>

Cancel(l) ==
  /\ alive /\ pc[l] \notin Over \union {"idle"} /\ l \notin cancelled
  /\ cancelled' = cancelled \union {l}
  /\ UNCHANGED <<alive, loopVars, calls, gateVars, cacheVars, breaker, unsaved>>

-----------------------------------------------------------------------------
(* The tool list: getMcpTools, refreshMcpToolsCache, RefreshMcpToolsCache. *)

(* GET /tools brings any list, or fails and leaves the cache as it was.    *)
Fetched == listed' = TRUE /\ known' \in SUBSET McpTools

Offer(l) ==
  /\ At(l, "offer")
  /\ \/ (listed \/ once.done) /\ Goto(l, "stream") /\ UNCHANGED once
     \/ /\ ~listed /\ ~once.done /\ once.holder = NoLoop
        /\ once' = [once EXCEPT !.holder = l] /\ Goto(l, "listing")
  /\ UNCHANGED <<alive, mode, round, calls, cancelled, gateVars, known, listed, refresher,
                 breaker, unsaved>>

(* The function given to Once.Do returns.  If the Once was replaced        *)
(* meanwhile, the mutex it unlocks is not the one it locked: nobody holds  *)
(* it, which is fatal, or somebody else does.                              *)
Listed(l) ==
  /\ At(l, "listing") /\ Fetched
  /\ IF once.holder = NoLoop
     THEN alive' = FALSE /\ UNCHANGED <<once, pc>>
     ELSE once' = [done |-> TRUE, holder |-> NoLoop] /\ Goto(l, "stream") /\ UNCHANGED alive
  /\ UNCHANGED <<mode, round, calls, cancelled, gateVars, refresher, breaker, unsaved>>

RefreshBegins ==
  /\ alive /\ refresher = "rest" /\ refresher' = "unlisted" /\ listed' = FALSE
  /\ UNCHANGED <<alive, loopVars, calls, cancelled, gateVars, known, once, breaker, unsaved>>

RefreshResetsOnce ==
  /\ alive /\ refresher = "unlisted" /\ refresher' = "listing"
  /\ once' = [done |-> FALSE, holder |-> NoLoop]
  /\ UNCHANGED <<alive, loopVars, calls, cancelled, gateVars, known, listed, breaker, unsaved>>

RefreshEnds ==
  /\ alive /\ refresher = "listing" /\ refresher' = "rest" /\ Fetched
  /\ UNCHANGED <<alive, loopVars, calls, cancelled, gateVars, once, breaker, unsaved>>

-----------------------------------------------------------------------------
(* The model's answer.                                                     *)

NewCall(t) == [tool |-> t, st |-> "todo", at |-> 1, chain |-> "current", yes |-> FALSE]

(* It asks for tools, offered or not.                                      *)
AsksForTools(l) ==
  /\ At(l, "stream") /\ round[l] < MaxRounds
  /\ \E n \in 1..MaxCalls : \E want \in [1..n -> Tools] :
       calls' = [calls EXCEPT ![l] = [i \in 1..n |-> NewCall(want[i])]]
  /\ Goto(l, "tools")
  /\ UNCHANGED <<alive, mode, round, cancelled, gateVars, cacheVars, breaker, unsaved>>

(* It answers, or the last round is over: the reply is saved, or cannot    *)
(* be; or the stream fails, which a cancelled one reports as a stop.       *)
StreamEnds(l) ==
  /\ At(l, "stream")
  /\ \/ Goto(l, "over")
     \/ Goto(l, "failed")
  /\ UNCHANGED <<alive, mode, round, calls, cancelled, gateVars, cacheVars, breaker, unsaved>>

-----------------------------------------------------------------------------
(* The gate: executeToolCallsConcurrently, toolNeedsApproval,              *)
(* requestToolApproval, ResolveToolApproval.                               *)

(* What the mode and the permissions alone ask for.                        *)
AsksUser(m, t) == m = "always" \/ (m = "auto" /\ t \in Writing \union Undeclared)

NeedsApproval(l, t) == t \notin allowed /\ AsksUser(mode[l], t)

(* The loop looks at call i: everything before it is past the gate.        *)
Reaches(l, i) ==
  /\ At(l, "tools") /\ Is(l, i, "todo")
  /\ \A j \in 1..i - 1 : calls[l][j].st \notin {"todo", "asked"}

IsTool(t) == t = Search \/ t \in known

Gate(l, i) ==
  /\ Reaches(l, i)
  /\ LET t == calls[l][i].tool IN
       IF ~IsTool(t) THEN Becomes(l, i, "skipped") /\ UNCHANGED <<pending, answer>>
       ELSE IF ~NeedsApproval(l, t) THEN Becomes(l, i, "started") /\ UNCHANGED <<pending, answer>>
       ELSE /\ Becomes(l, i, "asked")
            /\ pending' = pending \union {l} /\ answer' = [answer EXCEPT ![l] = "none"]
  /\ UNCHANGED <<alive, loopVars, cancelled, allowed, trusted, cacheVars, breaker, unsaved>>

(* Mutant: a refusal that is to be remembered is remembered as a yes.      *)
UserAnswersRemembers(l, i, yes, remember) ==
  /\ Is(l, i, "asked") /\ l \in pending
  /\ pending' = pending \ {l}
  /\ answer' = [answer EXCEPT ![l] = IF yes THEN "yes" ELSE "no"]
  /\ allowed' = IF remember THEN allowed \union {calls[l][i].tool} ELSE allowed
  /\ trusted' = IF yes /\ remember THEN trusted \union {calls[l][i].tool} ELSE trusted
  /\ calls' = [calls EXCEPT ![l][i].yes = yes]
  /\ UNCHANGED <<alive, loopVars, cancelled, cacheVars, breaker, unsaved>>

UserAnswers(l, i, yes, remember) ==
  /\ Is(l, i, "asked") /\ l \in pending
  /\ pending' = pending \ {l}
  /\ answer' = [answer EXCEPT ![l] = IF yes THEN "yes" ELSE "no"]
  /\ allowed' = IF yes /\ remember THEN allowed \union {calls[l][i].tool} ELSE allowed
  /\ trusted' = IF yes /\ remember THEN trusted \union {calls[l][i].tool} ELSE trusted
  /\ calls' = [calls EXCEPT ![l][i].yes = yes]
  /\ UNCHANGED <<alive, loopVars, cancelled, cacheVars, breaker, unsaved>>

(* Mutant: only a cancelled generation stops waiting for the user.         *)
WaitEndsOnlyCancelled(l, i) ==
  /\ Is(l, i, "asked")
  /\ \/ answer[l] # "none" /\ Becomes(l, i, IF answer[l] = "yes" THEN "started" ELSE "denied")
     \/ l \in cancelled /\ Becomes(l, i, "denied")
  /\ pending' = pending \ {l} /\ answer' = [answer EXCEPT ![l] = "none"]
  /\ UNCHANGED <<alive, loopVars, cancelled, allowed, trusted, cacheVars, breaker,
                 unsaved>>

(* The select of requestToolApproval takes any branch that is ready; the   *)
(* timeout and the cancelled context refuse, an answer in the channel or   *)
(* not.  The deferred function removes the request.                        *)
WaitEnds(l, i) ==
  /\ Is(l, i, "asked")
  /\ \/ answer[l] # "none" /\ Becomes(l, i, IF answer[l] = "yes" THEN "started" ELSE "denied")
     \/ Becomes(l, i, "denied")
  /\ pending' = pending \ {l} /\ answer' = [answer EXCEPT ![l] = "none"]
  /\ UNCHANGED <<alive, loopVars, cancelled, allowed, trusted, cacheVars, breaker,
                 unsaved>>

-----------------------------------------------------------------------------
(* Running: executeSingleToolCall, each in a goroutine of its own.         *)

(* Arguments that are no JSON, a tool that is no longer known or a client  *)
(* that is missing answer at once.                                         *)
Run(l, i) ==
  /\ Is(l, i, "started")
  /\ LET t == calls[l][i].tool IN
       \/ Becomes(l, i, "answered") /\ UNCHANGED unsaved
       \/ t = Search /\ Becomes(l, i, "seek") /\ UNCHANGED unsaved
       \/ t \in known /\ Runs(l, i, "running")
  /\ UNCHANGED <<alive, loopVars, cancelled, gateVars, cacheVars, breaker>>

(* An answer, an error, the timeout of 30 s or a recovered panic.          *)
ToolReturns(l, i) ==
  /\ Is(l, i, "running") /\ Becomes(l, i, "answered")
  /\ UNCHANGED <<alive, loopVars, cancelled, gateVars, cacheVars, breaker, unsaved>>

(* SearchChain.SearchWithCategory: providers in turn.  IsOpen lets a call  *)
(* through if the circuit is not open, or has been for longer than         *)
(* ResetTimeout; a half-open one lets everybody through.                   *)
Seek(l, i) ==
  /\ Is(l, i, "seek")
  /\ LET p == calls[l][i].at
         passes == \/ p <= Providers /\ calls[l][i].chain = "replaced"
                   \/ p <= Providers /\ breaker[p].state # "open" IN
       \/ p > Providers /\ Becomes(l, i, "answered") /\ UNCHANGED <<breaker, unsaved>>
       \/ passes /\ Runs(l, i, "calling") /\ UNCHANGED breaker
       \/ /\ p <= Providers /\ breaker[p].state = "open" /\ calls[l][i].chain = "current"
          /\ \/ /\ breaker' = [breaker EXCEPT ![p].state = "half"]
                /\ Runs(l, i, "calling")
             \/ calls' = [calls EXCEPT ![l][i].at = p + 1] /\ UNCHANGED <<breaker, unsaved>>
       \/ /\ p <= Providers /\ calls[l][i].chain = "replaced"
          /\ calls' = [calls EXCEPT ![l][i].at = p + 1] /\ UNCHANGED <<breaker, unsaved>>
  /\ UNCHANGED <<alive, loopVars, cancelled, gateVars, cacheVars>>

(* Mutant: success closes the circuit and forgets to clear the count.      *)
SucceededKeepsCount(c) == [c EXCEPT !.state = "closed"]

Succeeded(c) == [state |-> "closed", failures |-> 0]

(* Only whether the threshold is reached matters: the count stops there.   *)
Failed(c) ==
  LET n == IF c.failures < Threshold THEN c.failures + 1 ELSE Threshold IN
  [state |-> IF n >= Threshold THEN "open" ELSE c.state, failures |-> n]

(* Results end the search, none or an error pass on to the next provider.  *)
(* A cancelled context is an error like any other.                         *)
ProviderReturns(l, i) ==
  /\ Is(l, i, "calling")
  /\ LET p == calls[l][i].at
         Report(c) == IF calls[l][i].chain = "current"
                      THEN breaker' = [breaker EXCEPT ![p] = c] ELSE UNCHANGED breaker
         Next_ == calls' = [calls EXCEPT ![l][i] = [@ EXCEPT !.at = p + 1, !.st = "seek"]] IN
       \/ l \notin cancelled /\ Becomes(l, i, "answered") /\ Report(Succeeded(breaker[p]))
       \/ l \notin cancelled /\ Next_ /\ Report(Succeeded(breaker[p]))
       \/ Next_ /\ Report(Failed(breaker[p]))
  /\ UNCHANGED <<alive, loopVars, cancelled, gateVars, cacheVars, unsaved>>

(* UpdateConfig builds a new chain; the searches under way keep the old.   *)
ReplaceChain ==
  /\ alive
  /\ breaker' = [p \in 1..Providers |-> Succeeded(breaker[p])]
  /\ calls' = [l \in Loops |-> [i \in DOMAIN calls[l] |->
                 IF calls[l][i].st \in {"seek", "calling"}
                 THEN [calls[l][i] EXCEPT !.chain = "replaced"] ELSE calls[l][i]]]
  /\ UNCHANGED <<alive, loopVars, cancelled, gateVars, cacheVars, unsaved>>

-----------------------------------------------------------------------------
(* The end of a round: toolWg.Wait and appendToolCallMessages.             *)

RoundDone(l) ==
  /\ At(l, "tools") /\ \A i \in DOMAIN calls[l] : calls[l][i].st \in Settled

Results(l) == {<<l, i>> : i \in {j \in DOMAIN calls[l] : calls[l][j].st # "skipped"}}

Forget(l) == calls' = [calls EXCEPT ![l] = <<>>]

Continues(l) ==
  /\ round' = [round EXCEPT ![l] = @ + 1] /\ Forget(l)
  /\ Goto(l, IF round[l] + 1 < MaxRounds THEN "offer" ELSE "stream")

(* Mutant: the write error is logged and the loop goes on.                 *)
StoreResultsLogsError(l) ==
  /\ RoundDone(l) /\ Continues(l)
  /\ \/ unsaved' = unsaved \ Results(l)
     \/ Results(l) # {} /\ UNCHANGED unsaved
  /\ UNCHANGED <<alive, mode, cancelled, gateVars, cacheVars, breaker>>

(* All messages of the round in one transaction, or the loop ends with an  *)
(* error.  In the last round no tools are offered.                         *)
StoreResults(l) ==
  /\ RoundDone(l)
  /\ \/ unsaved' = unsaved \ Results(l) /\ Continues(l)
     \/ Results(l) # {} /\ Goto(l, "failed") /\ Forget(l) /\ UNCHANGED <<unsaved, round>>
  /\ UNCHANGED <<alive, mode, cancelled, gateVars, cacheVars, breaker>>

-----------------------------------------------------------------------------
LoopStep(l) == Offer(l) \/ Listed(l) \/ AsksForTools(l) \/ StreamEnds(l) \/ StoreResults(l)

CallStep(l, i) ==
  Gate(l, i) \/ WaitEnds(l, i) \/ Run(l, i) \/ ToolReturns(l, i) \/ Seek(l, i)
  \/ ProviderReturns(l, i)

User(l) ==
  \/ Begin(l) \/ Cancel(l)
  \/ \E i \in 1..MaxCalls : \E yes, remember \in BOOLEAN : UserAnswers(l, i, yes, remember)

Refresh == RefreshBegins \/ RefreshResetsOnce \/ RefreshEnds

Next ==
  \/ \E l \in Loops : LoopStep(l) \/ User(l) \/ \E i \in 1..MaxCalls : CallStep(l, i)
  \/ Refresh \/ ReplaceChain
  \/ ~alive /\ UNCHANGED vars

(* Requests to llama-server and providers time out, the wait for the user  *)
(* too; nothing is assumed of the user.                                    *)
Fairness ==
  /\ \A l \in Loops : WF_vars(LoopStep(l)) /\ \A i \in 1..MaxCalls : WF_vars(CallStep(l, i))
  /\ WF_vars(RefreshResetsOnce) /\ WF_vars(RefreshEnds)

Spec == Init /\ [][Next]_vars /\ Fairness

-----------------------------------------------------------------------------
(* A tool that the mode and its declared permissions put behind the user's *)
(* approval runs only if the user said yes to this very call, or yes for   *)
(* the session to a call of the same tool: no late answer, no refusal that *)
(* was to be remembered, no other loop's approval lets it run.             *)
RunsWithConsent ==
  \A l \in Loops : \A i \in DOMAIN calls[l] :
    calls[l][i].st \in {"running", "calling"} /\ AsksUser(mode[l], calls[l][i].tool)
      => calls[l][i].yes \/ calls[l][i].tool \in trusted

(* The model is asked again, and a reply ends without an error, only when  *)
(* every tool call that was executed is in the database with its answer:   *)
(* what a tool did to the user's files can be read in the conversation.    *)
StoredBeforeNext ==
  \A l \in Loops :
    pc[l] \in {"offer", "listing", "stream", "over"} => \A i \in 1..MaxCalls : <<l, i>> \notin unsaved

(* A provider is skipped exactly while its last calls have failed as often *)
(* as the threshold says, whatever the order in which concurrent searches  *)
(* report: a closed circuit has room for a failure, an open or half-open   *)
(* one has not seen a success since.                                       *)
CircuitMatchesFailures ==
  \A p \in 1..Providers : breaker[p].state = "closed" <=> breaker[p].failures < Threshold

(* A loop of tool rounds ends, with a reply or an error, even if the user  *)
(* never answers a request and whatever is refreshed meanwhile - unless    *)
(* the process dies of the replaced sync.Once.                             *)
LoopsEnd == \A l \in Loops : pc[l] # "idle" ~> (pc[l] \in Over \/ ~alive)

=============================================================================
