--------------------------- MODULE ToolRoundProofs --------------------------
(***************************************************************************)
(* What holds of the tool rounds for any number of loops, rounds, calls    *)
(* and providers, and for every set of tools: consent, storing and the     *)
(* circuit breakers.                                                       *)
(***************************************************************************)
EXTENDS ToolRound, TLAPS

-----------------------------------------------------------------------------
(* The circuit breakers.                                                   *)

CircuitInv ==
  /\ breaker \in [1..Providers -> Circuit]
  /\ CircuitMatchesFailures

(* Every report of a provider keeps a circuit in step with its count.      *)
Matches(c) == c \in Circuit /\ (c.state = "closed" <=> c.failures < Threshold)

LEMMA ReportsMatch ==
  ASSUME NEW c, Matches(c)
  PROVE  /\ Matches(Succeeded(c)) /\ Matches(Failed(c))
         /\ c.state = "open" => Matches([c EXCEPT !.state = "half"])
<1>1. Threshold \in Nat \ {0}
  BY ToolRoundAssumption
<1>2. Matches(Succeeded(c))
  BY <1>1 DEF Matches, Succeeded, Circuit
<1>3. Matches(Failed(c))
  <2>1. CASE c.failures < Threshold /\ c.failures + 1 < Threshold
    BY <1>1, <2>1 DEF Matches, Failed, Circuit
  <2>2. CASE c.failures < Threshold /\ c.failures + 1 = Threshold
    BY <1>1, <2>2 DEF Matches, Failed, Circuit
  <2>3. CASE c.failures = Threshold
    BY <1>1, <2>3 DEF Matches, Failed, Circuit
  <2>4. QED
    BY <1>1, <2>1, <2>2, <2>3 DEF Matches, Circuit
<1>4. ASSUME c.state = "open" PROVE Matches([c EXCEPT !.state = "half"])
  BY <1>1, <1>4 DEF Matches, Circuit
<1>5. QED
  BY <1>2, <1>3, <1>4

(* One circuit changes at a time, or all of them are new.                  *)
LEMMA CircuitStep ==
  ASSUME CircuitInv,
         \/ UNCHANGED breaker
         \/ \E p : breaker' = [breaker EXCEPT ![p] = Succeeded(breaker[p])]
         \/ \E p : breaker' = [breaker EXCEPT ![p] = Failed(breaker[p])]
         \/ \E p : breaker[p].state = "open" /\ breaker' = [breaker EXCEPT ![p].state = "half"]
         \/ breaker' = [p \in 1..Providers |-> Succeeded(breaker[p])]
  PROVE  CircuitInv'
<1>1. \A p \in 1..Providers : Matches(breaker[p])
  BY DEF CircuitInv, CircuitMatchesFailures, Matches
<1>2. \A p \in 1..Providers :
        /\ Matches(Succeeded(breaker[p])) /\ Matches(Failed(breaker[p]))
        /\ breaker[p].state = "open" => Matches([breaker[p] EXCEPT !.state = "half"])
  BY <1>1, ReportsMatch
<1>3. SUFFICES breaker' = [p \in 1..Providers |-> breaker'[p]]
               /\ \A p \in 1..Providers : Matches(breaker'[p])
  BY DEF CircuitInv, CircuitMatchesFailures, Matches
<1>4. CASE UNCHANGED breaker
  BY <1>1, <1>4 DEF CircuitInv
<1>5. CASE \E p : breaker' = [breaker EXCEPT ![p] = Succeeded(breaker[p])]
  BY <1>1, <1>2, <1>5 DEF CircuitInv
<1>6. CASE \E p : breaker' = [breaker EXCEPT ![p] = Failed(breaker[p])]
  BY <1>1, <1>2, <1>6 DEF CircuitInv
<1>7. CASE \E p : breaker[p].state = "open" /\ breaker' = [breaker EXCEPT ![p].state = "half"]
  BY <1>1, <1>2, <1>7 DEF CircuitInv
<1>8. CASE breaker' = [p \in 1..Providers |-> Succeeded(breaker[p])]
  BY <1>2, <1>8
<1>9. QED
  BY <1>4, <1>5, <1>6, <1>7, <1>8

(* Whatever the order in which concurrent searches report, a circuit is    *)
(* closed exactly while its count is below the threshold (CircuitBreaker). *)
THEOREM CircuitsMatch == Spec => []CircuitMatchesFailures
<1>1. Init => CircuitInv
  BY ToolRoundAssumption DEF Init, CircuitInv, CircuitMatchesFailures, Circuit
<1>2. CircuitInv /\ [Next]_vars => CircuitInv'
  <2> SUFFICES ASSUME CircuitInv, [Next]_vars PROVE CircuitInv'
    OBVIOUS
  <2>1. ASSUME NEW l \in Loops, LoopStep(l) \/ User(l) PROVE UNCHANGED breaker
    BY <2>1 DEF LoopStep, User, Offer, Listed, AsksForTools, StreamEnds, StoreResults,
                Begin, Cancel, UserAnswers
  <2>2. ASSUME NEW l \in Loops, NEW i \in 1..MaxCalls,
               Gate(l, i) \/ WaitEnds(l, i) \/ Run(l, i) \/ ToolReturns(l, i)
        PROVE  UNCHANGED breaker
    BY <2>2 DEF Gate, WaitEnds, Run, ToolReturns
  <2>3. ASSUME NEW l \in Loops, NEW i \in 1..MaxCalls, Seek(l, i) PROVE CircuitInv'
    <3>1. UNCHANGED breaker
          \/ \E p : breaker[p].state = "open" /\ breaker' = [breaker EXCEPT ![p].state = "half"]
      BY <2>3 DEF Seek
    <3>2. QED
      BY <3>1, CircuitStep
  <2>4. ASSUME NEW l \in Loops, NEW i \in 1..MaxCalls, ProviderReturns(l, i) PROVE CircuitInv'
    <3>1. \/ UNCHANGED breaker
          \/ \E p : breaker' = [breaker EXCEPT ![p] = Succeeded(breaker[p])]
          \/ \E p : breaker' = [breaker EXCEPT ![p] = Failed(breaker[p])]
      BY <2>4 DEF ProviderReturns
    <3>2. QED
      BY <3>1, CircuitStep
  <2>5. CASE ReplaceChain
    BY <2>5, CircuitStep DEF ReplaceChain
  <2>6. CASE Refresh \/ UNCHANGED vars
    BY <2>6, CircuitStep
       DEF Refresh, RefreshBegins, RefreshResetsOnce, RefreshEnds, vars
  <2>7. QED
    BY <2>1, <2>2, <2>3, <2>4, <2>5, <2>6, CircuitStep DEF Next, CallStep
<1>3. CircuitInv => CircuitMatchesFailures
  BY DEF CircuitInv
<1>4. QED
  BY <1>1, <1>2, <1>3, PTL DEF Spec

-----------------------------------------------------------------------------
(* The calls of a round.                                                   *)

CallRecord == [tool : Tools, st : Statuses, at : Nat, chain : {"current", "replaced"},
               yes : BOOLEAN]

(* A loop's calls are a function from places to records, and there are     *)
(* some only in the middle of a round.                                     *)
Shape ==
  /\ calls = [l \in Loops |-> calls[l]] /\ pc = [l \in Loops |-> pc[l]]
  /\ \A l \in Loops :
       /\ calls[l] = [i \in DOMAIN calls[l] |-> calls[l][i]]
       /\ \A i \in DOMAIN calls[l] : i \in Nat \ {0} /\ calls[l][i] \in CallRecord
       /\ pc[l] # "tools" => DOMAIN calls[l] = {}

(* Call i of loop l gets a new status, and may get a yes or another place. *)
Moves(l, i, st) ==
  /\ i \in DOMAIN calls[l] /\ calls' = [calls EXCEPT ![l] = calls'[l]]
  /\ calls'[l] = [calls[l] EXCEPT ![i] = calls'[l][i]]
  /\ calls'[l][i] \in CallRecord
  /\ calls'[l][i].st = st /\ calls'[l][i].tool = calls[l][i].tool
  /\ calls[l][i].yes => calls'[l][i].yes

LEMMA BecomesMoves ==
  ASSUME Shape, NEW l \in Loops, NEW i, i \in DOMAIN calls[l], NEW st \in Statuses,
         Becomes(l, i, st)
  PROVE  Moves(l, i, st)
  BY DEF Shape, Becomes, Moves, CallRecord

LEMMA MovesInShape ==
  ASSUME Shape, NEW l \in Loops, NEW i, NEW st, Moves(l, i, st), UNCHANGED pc
  PROVE  /\ Shape'
         /\ \A k \in Loops : DOMAIN calls'[k] = DOMAIN calls[k]
         /\ \A k \in Loops : \A j \in DOMAIN calls[k] :
              ~(k = l /\ j = i) => calls'[k][j] = calls[k][j]
  BY DEF Shape, Moves

(* The statuses in which a call has passed the gate and has not ended.     *)
LetThrough == {"started", "seek", "calling", "running"}
\* Those of calls that may have been executed.
Executed   == {"seek", "calling", "running", "answered"}

(* A call let through has the user's yes or a tool that the user trusts;   *)
(* an answer in the channel is that to the one call that is asked about,   *)
(* behind which no other call has reached the gate.                        *)
ConsentInv ==
  /\ allowed \subseteq trusted /\ answer = [l \in Loops |-> answer[l]]
  /\ \A l \in Loops : \A i \in DOMAIN calls[l] :
       /\ calls[l][i].st \in LetThrough /\ AsksUser(mode[l], calls[l][i].tool)
            => calls[l][i].yes \/ calls[l][i].tool \in trusted
       /\ calls[l][i].st = "asked" =>
            /\ answer[l] = "yes" => calls[l][i].yes
            /\ \A j \in DOMAIN calls[l] : j < i => calls[l][j].st \notin {"todo", "asked"}

(* What is executed and not stored belongs to the round under way, or to   *)
(* a loop that has failed.                                                 *)
UnsavedInv ==
  \A l \in Loops : \A i : <<l, i>> \in unsaved =>
    \/ pc[l] = "failed"
    \/ pc[l] = "tools" /\ i \in DOMAIN calls[l] /\ calls[l][i].st \in Executed

RoundInv == Shape /\ ConsentInv /\ UnsavedInv

(* Steps of one call behind the gate.                                      *)
LEMMA CallMoves ==
  ASSUME RoundInv, NEW l \in Loops, NEW i, NEW st \in Statuses \ {"todo", "asked"},
         Moves(l, i, st),
         UNCHANGED <<pc, mode, allowed, trusted>>,
         answer' = answer \/ (calls[l][i].st = "asked" /\ answer' = [answer EXCEPT ![l] = "none"]),
         unsaved' \in {unsaved, unsaved \union {<<l, i>>}},
         <<l, i>> \in unsaved' => st \in Executed,
         st \in LetThrough /\ AsksUser(mode[l], calls[l][i].tool) =>
           calls'[l][i].yes \/ calls[l][i].tool \in trusted
  PROVE  RoundInv'
<1>1. /\ Shape' /\ \A k \in Loops : DOMAIN calls'[k] = DOMAIN calls[k]
      /\ \A k \in Loops : \A j \in DOMAIN calls[k] :
           ~(k = l /\ j = i) => calls'[k][j] = calls[k][j]
  BY MovesInShape DEF RoundInv
<1>2. calls'[l][i].st = st /\ calls'[l][i].tool = calls[l][i].tool /\ i \in DOMAIN calls[l]
  BY DEF Moves
<1>3. i \in Int /\ pc[l] = "tools"
  BY <1>2 DEF RoundInv, Shape
<1>4. ConsentInv'
  <2> SUFFICES ASSUME NEW k \in Loops, NEW j \in DOMAIN calls'[k]
        PROVE  /\ calls'[k][j].st \in LetThrough /\ AsksUser(mode'[k], calls'[k][j].tool)
                    => calls'[k][j].yes \/ calls'[k][j].tool \in trusted'
               /\ calls'[k][j].st = "asked" =>
                    /\ answer'[k] = "yes" => calls'[k][j].yes
                    /\ \A h \in DOMAIN calls'[k] : h < j =>
                         calls'[k][h].st \notin {"todo", "asked"}
    BY DEF RoundInv, ConsentInv
  <2>1. CASE k = l /\ j = i
    BY <1>2, <2>1 DEF Statuses
  <2>2. CASE ~(k = l /\ j = i)
    <3>1. j \in DOMAIN calls[k] /\ calls'[k][j] = calls[k][j]
      BY <1>1, <2>2
    <3>2. answer'[k] = "yes" => answer[k] = "yes"
      BY DEF RoundInv, ConsentInv
    <3>3. \A h \in DOMAIN calls'[k] :
            calls[k][h].st \notin {"todo", "asked"} => calls'[k][h].st \notin {"todo", "asked"}
      BY <1>1, <1>2
    <3>4. QED
      BY <1>1, <3>1, <3>2, <3>3 DEF RoundInv, ConsentInv, AsksUser
  <2>3. QED
    BY <2>1, <2>2
<1>5. UnsavedInv'
  <2> SUFFICES ASSUME NEW k \in Loops, NEW j, <<k, j>> \in unsaved'
        PROVE  \/ pc'[k] = "failed"
               \/ pc'[k] = "tools" /\ j \in DOMAIN calls'[k] /\ calls'[k][j].st \in Executed
    BY DEF UnsavedInv
  <2>1. CASE k = l /\ j = i
    BY <1>1, <1>2, <1>3, <2>1
  <2>2. CASE ~(k = l /\ j = i)
    <3>1. <<k, j>> \in unsaved
      BY <2>2
    <3>2. QED
      BY <1>1, <2>2, <3>1 DEF RoundInv, UnsavedInv
  <2>3. QED
    BY <2>1, <2>2
<1>6. QED
  BY <1>1, <1>4, <1>5 DEF RoundInv

LEMMA GateKeeps ==
  ASSUME RoundInv, NEW l \in Loops, NEW i, Gate(l, i)
  PROVE  RoundInv'
<1> DEFINE t == calls[l][i].tool
<1>1. /\ i \in DOMAIN calls[l] /\ calls[l][i].st = "todo" /\ UNCHANGED <<pc, mode, allowed, trusted, unsaved>>
      /\ \A j \in 1..i - 1 : calls[l][j].st \notin {"todo", "asked"}
  BY DEF Gate, Reaches, Is, loopVars
<1>2. <<l, i>> \notin unsaved \/ pc[l] = "failed"
  BY <1>1 DEF RoundInv, UnsavedInv, Executed
<1>3. pc[l] = "tools"
  BY <1>1 DEF RoundInv, Shape
<1>4. CASE Becomes(l, i, "skipped") /\ UNCHANGED answer
  <2>1. Moves(l, i, "skipped")
    BY <1>1, <1>4, BecomesMoves DEF RoundInv, Statuses, Settled
  <2>2. QED
    BY <1>1, <1>2, <1>3, <1>4, <2>1, CallMoves DEF Statuses, Settled, LetThrough
<1>5. CASE ~NeedsApproval(l, t) /\ Becomes(l, i, "started") /\ UNCHANGED answer
  <2>1. Moves(l, i, "started")
    BY <1>1, <1>5, BecomesMoves DEF RoundInv, Statuses
  <2>2. AsksUser(mode[l], t) => t \in trusted
    BY <1>5 DEF NeedsApproval, RoundInv, ConsentInv
  <2>3. QED
    BY <1>1, <1>2, <1>3, <1>5, <2>1, <2>2, CallMoves DEF Statuses
<1>6. CASE Becomes(l, i, "asked") /\ answer' = [answer EXCEPT ![l] = "none"]
  <2>1. Moves(l, i, "asked")
    BY <1>1, <1>6, BecomesMoves DEF RoundInv, Statuses
  <2>2. /\ Shape' /\ \A k \in Loops : DOMAIN calls'[k] = DOMAIN calls[k]
        /\ \A k \in Loops : \A j \in DOMAIN calls[k] :
             ~(k = l /\ j = i) => calls'[k][j] = calls[k][j]
    BY <1>1, <2>1, MovesInShape DEF RoundInv
  <2>3. calls'[l][i].st = "asked" /\ answer'[l] # "yes" /\ \A k \in Loops : k # l => answer'[k] = answer[k]
    BY <1>6, <2>1 DEF Moves, RoundInv, ConsentInv
  <2>4. \A j \in DOMAIN calls[l] : j < i => calls'[l][j].st \notin {"todo", "asked"}
    BY <1>1, <2>2 DEF RoundInv, Shape
  <2>5. ConsentInv'
    <3>a. answer' = [k \in Loops |-> answer'[k]]
      BY <1>6 DEF RoundInv, ConsentInv
    <3> SUFFICES ASSUME NEW k \in Loops, NEW j \in DOMAIN calls'[k]
          PROVE  /\ calls'[k][j].st \in LetThrough /\ AsksUser(mode'[k], calls'[k][j].tool)
                      => calls'[k][j].yes \/ calls'[k][j].tool \in trusted'
                 /\ calls'[k][j].st = "asked" =>
                      /\ answer'[k] = "yes" => calls'[k][j].yes
                      /\ \A h \in DOMAIN calls'[k] : h < j =>
                           calls'[k][h].st \notin {"todo", "asked"}
      BY <3>a, <1>1 DEF RoundInv, ConsentInv
    <3>1. CASE k = l /\ j = i
      BY <2>2, <2>3, <2>4, <3>1 DEF LetThrough
    <3>2. CASE ~(k = l /\ j = i)
      <4>1. j \in DOMAIN calls[k] /\ calls'[k][j] = calls[k][j]
        BY <2>2, <3>2
      <4>2. calls[k][j].st = "asked" => ~(k = l /\ i < j)
        BY <1>1, <4>1 DEF RoundInv, ConsentInv
      <4>3. \A h \in DOMAIN calls'[k] : calls[k][j].st = "asked" /\ h < j =>
              calls'[k][h] = calls[k][h]
        BY <2>2, <4>2
      <4>4. answer'[k] = "yes" => answer[k] = "yes"
        BY <2>3
      <4>5. QED
        BY <1>1, <2>2, <4>1, <4>3, <4>4 DEF RoundInv, ConsentInv, AsksUser
    <3>3. QED
      BY <3>1, <3>2
  <2>6. UnsavedInv'
    BY <1>1, <1>2, <1>3, <2>2 DEF RoundInv, UnsavedInv
  <2>7. QED
    BY <2>2, <2>5, <2>6 DEF RoundInv
<1>7. QED
  BY <1>4, <1>5, <1>6 DEF Gate

LEMMA AnswerKeeps ==
  ASSUME RoundInv, NEW l \in Loops, NEW i, NEW yes \in BOOLEAN, NEW remember \in BOOLEAN,
         UserAnswers(l, i, yes, remember)
  PROVE  RoundInv'
<1>1. /\ i \in DOMAIN calls[l] /\ calls[l][i].st = "asked"
      /\ calls' = [calls EXCEPT ![l][i].yes = yes]
      /\ answer' = [answer EXCEPT ![l] = IF yes THEN "yes" ELSE "no"]
      /\ UNCHANGED <<pc, mode, unsaved>>
      /\ trusted \subseteq trusted' /\ allowed' \subseteq trusted'
  BY DEF UserAnswers, Is, RoundInv, ConsentInv, loopVars
<1>2. \A j \in DOMAIN calls[l] : calls[l][j].st = "asked" => j = i
  <2> SUFFICES ASSUME NEW j \in DOMAIN calls[l], calls[l][j].st = "asked", j # i PROVE FALSE
    OBVIOUS
  <2>1. i \in DOMAIN calls[l] /\ calls[l][i].st = "asked" /\ i \in Nat /\ j \in Nat
    BY <1>1 DEF RoundInv, Shape
  <2>2. CASE j < i
    BY <2>1, <2>2 DEF RoundInv, ConsentInv
  <2>3. CASE i < j
    BY <2>1, <2>3 DEF RoundInv, ConsentInv
  <2>4. QED
    BY <2>1, <2>2, <2>3
<1>3. /\ Shape' /\ calls'[l][i].yes = yes
      /\ \A k \in Loops : DOMAIN calls'[k] = DOMAIN calls[k]
      /\ \A k \in Loops : \A j \in DOMAIN calls[k] :
           /\ calls'[k][j].st = calls[k][j].st /\ calls'[k][j].tool = calls[k][j].tool
           /\ ~(k = l /\ j = i) => calls'[k][j] = calls[k][j]
  <2> DEFINE c == [calls[l][i] EXCEPT !.yes = yes]
  <2>1. calls[l][i] \in CallRecord
    BY <1>1 DEF RoundInv, Shape
  <2>2. c \in CallRecord /\ c.yes = yes /\ c.st = calls[l][i].st /\ c.tool = calls[l][i].tool
    BY <2>1 DEF CallRecord
  <2>3. calls' = [calls EXCEPT ![l] = [calls[l] EXCEPT ![i] = c]]
    BY <1>1
  <2> HIDE DEF c
  <2>5. /\ \A k \in Loops : k # l => calls'[k] = calls[k]
        /\ calls' = [k \in Loops |-> calls'[k]]
        /\ calls'[l] = [calls[l] EXCEPT ![i] = c]
    BY <2>3 DEF RoundInv, Shape
  <2>6. /\ DOMAIN calls'[l] = DOMAIN calls[l] /\ calls'[l][i] = c
        /\ calls'[l] = [j \in DOMAIN calls'[l] |-> calls'[l][j]]
        /\ \A j \in DOMAIN calls[l] : j # i => calls'[l][j] = calls[l][j]
    <3>1. i \in DOMAIN calls[l] /\ calls[l] = [j \in DOMAIN calls[l] |-> calls[l][j]]
      BY <1>1 DEF RoundInv, Shape
    <3>2. calls'[l] = [j \in DOMAIN calls[l] |-> IF j = i THEN c ELSE calls[l][j]]
      BY <2>5, <3>1
    <3>3. QED
      BY <3>1, <3>2
  <2>7. /\ \A k \in Loops : DOMAIN calls'[k] = DOMAIN calls[k]
        /\ \A k \in Loops : \A j \in DOMAIN calls[k] :
             ~(k = l /\ j = i) => calls'[k][j] = calls[k][j]
    BY <2>5, <2>6
  <2>8. Shape'
    <3>1. pc' = [k \in Loops |-> pc'[k]] /\ \A k \in Loops : pc'[k] = pc[k]
      BY <1>1 DEF RoundInv, Shape
    <3> SUFFICES ASSUME NEW k \in Loops
          PROVE  /\ calls'[k] = [j \in DOMAIN calls'[k] |-> calls'[k][j]]
                 /\ \A j \in DOMAIN calls'[k] : j \in Nat \ {0} /\ calls'[k][j] \in CallRecord
                 /\ pc'[k] # "tools" => DOMAIN calls'[k] = {}
      BY <2>5, <3>1 DEF Shape
    <3>2. CASE k = l
      BY <2>2, <2>6, <3>1, <3>2 DEF RoundInv, Shape
    <3>3. CASE k # l
      BY <2>5, <3>1, <3>3 DEF RoundInv, Shape
    <3>4. QED
      BY <3>2, <3>3
  <2>9. QED
    BY <2>2, <2>6, <2>7, <2>8
<1>4. ConsentInv'
  <2>a. answer' = [k \in Loops |-> answer'[k]]
    BY <1>1 DEF RoundInv, ConsentInv
  <2> SUFFICES ASSUME NEW k \in Loops, NEW j \in DOMAIN calls[k]
        PROVE  /\ calls[k][j].st \in LetThrough /\ AsksUser(mode[k], calls[k][j].tool)
                    => calls'[k][j].yes \/ calls[k][j].tool \in trusted'
               /\ calls[k][j].st = "asked" =>
                    /\ answer'[k] = "yes" => calls'[k][j].yes
                    /\ \A h \in DOMAIN calls[k] : h < j =>
                         calls[k][h].st \notin {"todo", "asked"}
    BY <2>a, <1>1, <1>3 DEF ConsentInv, AsksUser
  <2>1. CASE k = l /\ j = i
    <3>1. answer'[k] = "yes" => yes
      BY <1>1, <2>1 DEF RoundInv, ConsentInv
    <3>2. QED
      BY <1>1, <1>3, <2>1, <3>1 DEF RoundInv, ConsentInv, LetThrough
  <2>2. CASE ~(k = l /\ j = i)
    <3>1. calls[k][j].st = "asked" => answer'[k] = answer[k]
      BY <1>1, <1>2, <2>2
    <3>2. QED
      BY <1>1, <1>3, <2>2, <3>1 DEF RoundInv, ConsentInv
  <2>3. QED
    BY <2>1, <2>2
<1>5. UnsavedInv'
  BY <1>1, <1>3 DEF RoundInv, UnsavedInv
<1>6. QED
  BY <1>3, <1>4, <1>5 DEF RoundInv

LEMMA CallStepKeeps ==
  ASSUME RoundInv, NEW l \in Loops, NEW i, CallStep(l, i)
  PROVE  RoundInv'
<1> DEFINE t == calls[l][i].tool
<1>1. CASE Gate(l, i)
  BY <1>1, GateKeeps
<1>2. ASSUME NEW st \in Statuses \ {"todo", "asked"}, i \in DOMAIN calls[l],
             Moves(l, i, st), UNCHANGED <<pc, mode, allowed, trusted, answer>>,
             calls[l][i].st \in LetThrough, st \in LetThrough \union {"answered"},
             unsaved' \in {unsaved, unsaved \union {<<l, i>>}},
             <<l, i>> \in unsaved' => st \in Executed
      PROVE  RoundInv'
  <2>1. AsksUser(mode[l], t) => calls'[l][i].yes \/ t \in trusted
    BY <1>2 DEF RoundInv, ConsentInv, Moves
  <2>2. QED
    BY <1>2, <2>1, CallMoves
<1>3. CASE WaitEnds(l, i)
  <2>1. /\ i \in DOMAIN calls[l] /\ calls[l][i].st = "asked"
        /\ UNCHANGED <<pc, mode, allowed, trusted, unsaved>>
        /\ answer' = [answer EXCEPT ![l] = "none"]
    BY <1>3 DEF WaitEnds, Is, loopVars
  <2>2. <<l, i>> \notin unsaved
    BY <2>1 DEF RoundInv, UnsavedInv, Executed, Shape
  <2>3. CASE Becomes(l, i, "denied")
    <3>1. Moves(l, i, "denied")
      BY <2>1, <2>3, BecomesMoves DEF RoundInv, Statuses, Settled
    <3>2. QED
      BY <2>1, <2>2, <3>1, CallMoves DEF Statuses, Settled, LetThrough
  <2>4. CASE answer[l] = "yes" /\ Becomes(l, i, "started")
    <3>1. Moves(l, i, "started")
      BY <2>1, <2>4, BecomesMoves DEF RoundInv, Statuses
    <3>2. calls'[l][i].yes
      BY <2>1, <2>4, <3>1 DEF RoundInv, ConsentInv, Moves
    <3>3. QED
      BY <2>1, <2>2, <3>1, <3>2, CallMoves DEF Statuses
  <2>5. QED
    BY <1>3, <2>3, <2>4 DEF WaitEnds
<1>4. CASE Run(l, i) \/ ToolReturns(l, i)
  <2>1. /\ i \in DOMAIN calls[l] /\ calls[l][i].st \in LetThrough
        /\ UNCHANGED <<pc, mode, allowed, trusted, answer>>
        /\ unsaved' \in {unsaved, unsaved \union {<<l, i>>}}
        /\ \E st \in {"answered", "seek", "running"} : Becomes(l, i, st)
    BY <1>4 DEF Run, ToolReturns, Is, LetThrough, Runs, loopVars, gateVars
  <2>2. PICK st \in {"answered", "seek", "running"} : Becomes(l, i, st)
    BY <2>1
  <2>3. Moves(l, i, st) /\ st \in Statuses \ {"todo", "asked"}
    BY <2>1, <2>2, BecomesMoves DEF RoundInv, Statuses, Settled
  <2>4. QED
    BY <1>2, <2>1, <2>3 DEF LetThrough, Executed
<1>5. CASE Seek(l, i) \/ ProviderReturns(l, i)
  <2>1. /\ i \in DOMAIN calls[l] /\ calls[l][i].st \in {"seek", "calling"}
        /\ UNCHANGED <<pc, mode, allowed, trusted, answer>>
        /\ unsaved' \in {unsaved, unsaved \union {<<l, i>>}}
    BY <1>5 DEF Seek, ProviderReturns, Is, Runs, loopVars, gateVars
  <2>2. \/ \E st \in {"answered", "calling"} : Becomes(l, i, st)
        \/ calls' = [calls EXCEPT ![l][i].at = calls[l][i].at + 1]
        \/ calls' = [calls EXCEPT ![l][i] = [calls[l][i] EXCEPT !.at = calls[l][i].at + 1, !.st = "seek"]]
    BY <1>5 DEF Seek, ProviderReturns, Runs
  <2>3. \E st \in {"answered", "calling", "seek"} : Moves(l, i, st)
    <3>1. CASE \E st \in {"answered", "calling"} : Becomes(l, i, st)
      BY <2>1, <3>1, BecomesMoves DEF RoundInv, Statuses, Settled
    <3>2. CASE calls' = [calls EXCEPT ![l][i].at = calls[l][i].at + 1]
      BY <2>1, <3>2 DEF Moves, RoundInv, Shape, CallRecord
    <3>3. CASE calls' = [calls EXCEPT ![l][i] = [calls[l][i] EXCEPT !.at = calls[l][i].at + 1, !.st = "seek"]]
      <4> DEFINE c == [calls[l][i] EXCEPT !.at = calls[l][i].at + 1, !.st = "seek"]
      <4>1. calls[l][i] \in CallRecord
        BY <2>1 DEF RoundInv, Shape
      <4>2. c \in CallRecord /\ c.yes = calls[l][i].yes /\ c.st = "seek" /\ c.tool = calls[l][i].tool
        <5>1. calls[l][i].at + 1 \in Nat /\ "seek" \in Statuses
          BY <4>1 DEF CallRecord, Statuses
        <5>2. c \in CallRecord
          BY <4>1, <5>1 DEF CallRecord
        <5>3. QED
          BY <4>1, <5>2 DEF CallRecord
      <4>3. calls' = [calls EXCEPT ![l] = [calls[l] EXCEPT ![i] = c]]
        BY <3>3
      <4> HIDE DEF c
      <4>4. QED
        BY <2>1, <4>2, <4>3 DEF Moves, RoundInv, Shape
    <3>4. QED
      BY <2>2, <3>1, <3>2, <3>3
  <2>4. PICK st \in {"answered", "calling", "seek"} : Moves(l, i, st)
    BY <2>3
  <2>5. QED
    BY <1>2, <2>1, <2>4 DEF LetThrough, Executed, Statuses, Settled
<1>6. QED
  BY <1>1, <1>3, <1>4, <1>5 DEF CallStep

LEMMA LoopStepKeeps ==
  ASSUME RoundInv, NEW l \in Loops, LoopStep(l) \/ Begin(l) \/ Cancel(l)
  PROVE  RoundInv'
<1>1. CASE Offer(l) \/ Listed(l) \/ StreamEnds(l) \/ Begin(l) \/ Cancel(l)
  <2>1. /\ UNCHANGED <<mode, calls, answer, allowed, trusted, unsaved>>
        /\ pc' = pc \/ (pc[l] \notin {"tools", "failed"} /\ \E w : w # "tools" /\ pc' = [pc EXCEPT ![l] = w])
    BY <1>1 DEF Offer, Listed, StreamEnds, Begin, Cancel, At, Goto, loopVars, gateVars
  <2>2. Shape'
    BY <2>1 DEF RoundInv, Shape
  <2>3. ConsentInv'
    BY <2>1 DEF RoundInv, ConsentInv, AsksUser
  <2>4. UnsavedInv'
    BY <2>1 DEF RoundInv, UnsavedInv, Shape
  <2>5. QED
    BY <2>2, <2>3, <2>4 DEF RoundInv
<1>2. CASE AsksForTools(l)
  <2>1. /\ pc[l] = "stream" /\ pc' = [pc EXCEPT ![l] = "tools"]
        /\ UNCHANGED <<mode, answer, allowed, trusted, unsaved>>
    BY <1>2 DEF AsksForTools, At, Goto, gateVars
  <2>a. PICK n \in 1..MaxCalls : \E want \in [1..n -> Tools] :
          calls' = [calls EXCEPT ![l] = [i \in 1..n |-> NewCall(want[i])]]
    BY <1>2 DEF AsksForTools
  <2>2. PICK want \in [1..n -> Tools] :
          calls' = [calls EXCEPT ![l] = [i \in 1..n |-> NewCall(want[i])]]
    BY <2>a
  <2>3. MaxCalls \in Nat
    BY ToolRoundAssumption
  <2>4. \A t \in Tools : NewCall(t) \in CallRecord /\ NewCall(t).st = "todo"
    BY DEF NewCall, CallRecord, Statuses
  <2>5. /\ calls' = [k \in Loops |-> calls'[k]] /\ DOMAIN calls'[l] = 1..n
        /\ calls'[l] = [i \in 1..n |-> calls'[l][i]]
        /\ \A i \in 1..n : calls'[l][i] \in CallRecord /\ calls'[l][i].st = "todo"
        /\ \A k \in Loops : k # l => calls'[k] = calls[k]
    BY <2>2, <2>4 DEF RoundInv, Shape
  <2>6. Shape'
    <3>1. pc' = [k \in Loops |-> pc'[k]] /\ pc'[l] = "tools" /\ \A k \in Loops : k # l => pc'[k] = pc[k]
      BY <2>1 DEF RoundInv, Shape
    <3>2. \A i \in 1..n : i \in Nat \ {0}
      BY <2>3
    <3>3. QED
      BY <2>5, <3>1, <3>2 DEF RoundInv, Shape
  <2>7. ConsentInv'
    BY <2>1, <2>5 DEF RoundInv, ConsentInv, LetThrough, AsksUser
  <2>8. UnsavedInv'
    BY <2>1, <2>5 DEF RoundInv, UnsavedInv, Shape
  <2>9. QED
    BY <2>6, <2>7, <2>8 DEF RoundInv
<1>3. CASE StoreResults(l)
  <2>1. /\ pc[l] = "tools" /\ calls' = [calls EXCEPT ![l] = <<>>]
        /\ UNCHANGED <<mode, answer, allowed, trusted>>
    BY <1>3 DEF StoreResults, RoundDone, At, gateVars, Continues, Forget
  <2>2. /\ \E w : w # "tools" /\ pc' = [pc EXCEPT ![l] = w]
        /\ \/ pc' = [pc EXCEPT ![l] = "failed"] /\ unsaved' = unsaved
           \/ unsaved' = unsaved \ Results(l)
    BY <1>3 DEF StoreResults, Continues, Goto
  <2>3. DOMAIN calls'[l] = {} /\ \A k \in Loops : k # l => calls'[k] = calls[k]
    BY <2>1 DEF RoundInv, Shape
  <2>4. Shape'
    <3>1. pc' = [k \in Loops |-> pc'[k]] /\ \A k \in Loops : k # l => pc'[k] = pc[k]
      BY <2>2 DEF RoundInv, Shape
    <3>2. calls' = [k \in Loops |-> calls'[k]] /\ calls'[l] = <<>>
      BY <2>1 DEF RoundInv, Shape
    <3>3. calls'[l] = [i \in DOMAIN calls'[l] |-> calls'[l][i]]
      BY <3>2
    <3>4. QED
      BY <2>3, <3>1, <3>2, <3>3 DEF RoundInv, Shape
  <2>5. ConsentInv'
    BY <2>1, <2>3 DEF RoundInv, ConsentInv, AsksUser
  <2>6. \A i : <<l, i>> \in unsaved => <<l, i>> \in Results(l)
    BY <2>1 DEF RoundInv, UnsavedInv, Results, Executed
  <2>7. UnsavedInv'
    BY <2>2, <2>3, <2>6 DEF RoundInv, UnsavedInv, Shape
  <2>8. QED
    BY <2>4, <2>5, <2>7 DEF RoundInv
<1>4. QED
  BY <1>1, <1>2, <1>3 DEF LoopStep

LEMMA ReplaceKeeps ==
  ASSUME RoundInv, ReplaceChain
  PROVE  RoundInv'
<1>1. /\ UNCHANGED <<pc, mode, answer, allowed, trusted, unsaved>>
      /\ calls' = [l \in Loops |-> [i \in DOMAIN calls[l] |->
                    IF calls[l][i].st \in {"seek", "calling"}
                    THEN [calls[l][i] EXCEPT !.chain = "replaced"] ELSE calls[l][i]]]
  BY DEF ReplaceChain, loopVars, gateVars
<1>2. /\ \A l \in Loops : DOMAIN calls'[l] = DOMAIN calls[l]
      /\ \A l \in Loops : \A i \in DOMAIN calls[l] :
           /\ calls'[l][i] \in CallRecord /\ calls'[l][i].st = calls[l][i].st
           /\ calls'[l][i].tool = calls[l][i].tool /\ calls'[l][i].yes = calls[l][i].yes
  BY <1>1 DEF RoundInv, Shape, CallRecord
<1>3. Shape'
  BY <1>1, <1>2 DEF RoundInv, Shape
<1>4. ConsentInv'
  BY <1>1, <1>2 DEF RoundInv, ConsentInv, AsksUser
<1>5. UnsavedInv'
  BY <1>1, <1>2 DEF RoundInv, UnsavedInv
<1>6. QED
  BY <1>3, <1>4, <1>5 DEF RoundInv

LEMMA RoundInit == Init => RoundInv
<1> SUFFICES ASSUME Init PROVE RoundInv
  OBVIOUS
<1>1. /\ calls = [l \in Loops |-> <<>>] /\ pc = [l \in Loops |-> "idle"]
      /\ answer = [l \in Loops |-> "none"] /\ allowed = {} /\ unsaved = {}
  BY DEF Init
<1>2. ASSUME NEW l \in Loops
      PROVE  DOMAIN calls[l] = {} /\ calls[l] = [i \in DOMAIN calls[l] |-> calls[l][i]]
  <2>1. calls[l] = <<>>
    BY <1>1
  <2>2. QED
    BY <2>1
<1>3. \A l \in Loops : calls[l] = <<>>
  BY <1>1
<1>4. QED
  BY <1>1, <1>2, <1>3 DEF RoundInv, Shape, ConsentInv, UnsavedInv

LEMMA RoundNext == RoundInv /\ [Next]_vars => RoundInv'
<1> SUFFICES ASSUME RoundInv, [Next]_vars PROVE RoundInv'
  OBVIOUS
<1>1. ASSUME NEW l \in Loops, User(l) PROVE RoundInv'
  BY <1>1, LoopStepKeeps, AnswerKeeps DEF User
<1>2. CASE Refresh \/ UNCHANGED vars
  <2>1. UNCHANGED <<pc, mode, calls, answer, allowed, trusted, unsaved>>
    BY <1>2 DEF Refresh, RefreshBegins, RefreshResetsOnce, RefreshEnds, vars, loopVars, gateVars
  <2>2. QED
    BY <2>1 DEF RoundInv, Shape, ConsentInv, UnsavedInv, AsksUser
<1>3. QED
  BY <1>1, <1>2, LoopStepKeeps, CallStepKeeps, ReplaceKeeps DEF Next

(* No call that the user must allow runs without a yes to it or to its     *)
(* tool, whatever other loops, late answers and timeouts do                *)
(* (executeToolCallsConcurrently, requestToolApproval,                     *)
(* ResolveToolApproval).                                                   *)
THEOREM Consent == Spec => []RunsWithConsent
<1>1. RoundInv => RunsWithConsent
  BY DEF RoundInv, ConsentInv, RunsWithConsent, LetThrough
<1>2. QED
  BY RoundInit, RoundNext, <1>1, PTL DEF Spec

(* The results of a round are stored before the model is asked again       *)
(* (appendToolCallMessages).                                               *)
THEOREM ResultsStored == Spec => []StoredBeforeNext
<1>1. RoundInv => StoredBeforeNext
  BY DEF RoundInv, UnsavedInv, StoredBeforeNext
<1>2. QED
  BY RoundInit, RoundNext, <1>1, PTL DEF Spec

=============================================================================
