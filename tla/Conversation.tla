---------------------------- MODULE Conversation ----------------------------
(***************************************************************************)
(* One conversation: the rows of its messages, what the model is sent of   *)
(* them, and the summary kept of the rest.  Generations, the user's        *)
(* deletions and the summary goroutines work on the same rows with no lock *)
(* between them.  A message gets its time (its place in the conversation)  *)
(* before its row is inserted, and what one reads of the rows may be old   *)
(* when it is used.  A text is left out; a message is its place, its role, *)
(* and for a tool's answer the call that it answers.                       *)
(***************************************************************************)
EXTENDS Integers, FiniteSets, Sequences, SequencesExt

CONSTANTS
  Earlier,    \* what the conversation may hold from before: sequences of [role, of]
  MaxGens,    \* bound: generations, in the order in which they begin
  MaxRows,    \* bound: messages ever created
  MaxRounds,  \* tool rounds of one generation
  MaxImportant, \* bound: messages kept for their content, out of their turn
  Window,     \* CalcSlidingWindowSize: messages kept by a compression (6, 12 or 20)
  SummaryMin, \* messages worth a summary (4 in the code)
  MergeEvery, ResetEvery \* summaryMergeInterval, summaryResetInterval (5 and 10)

Roles == {"system", "user", "assistant", "call", "tool"}
None  == 0
EarlierRows == [role : Roles \ {"system"}, of : 0..MaxRows]

ASSUME ConversationAssumption ==
  /\ \A s \in Earlier : \E n \in 0..MaxRows : s \in [1..n -> EarlierRows] /\ \A i \in 1..n :
       IF s[i].role = "tool" THEN s[i].of \in 1..i - 1 ELSE s[i].of = None
  /\ {MaxGens, MaxRows, MaxRounds, MaxImportant} \subseteq Nat
  /\ {Window, SummaryMin, MergeEvery, ResetEvery} \subseteq Nat \ {0}

Gens  == 1..MaxGens
ByHand  == 0                     \* the compression that the user asks for, until one is saved
Writers == Gens \union {ByHand}  \* those that write summaries

Message(id, role, of) == [id |-> id, role |-> role, of |-> of]
SystemPrompt  == Message(0, "system", 0)
SummaryNote   == Message(-1, "system", 0)
SearchCall    == Message(-2, "call", 0)   \* the search made before the model is asked,
SearchAnswer  == Message(-3, "tool", -2)  \* shown to it as if it had called the tool

VARIABLES
  exists,   \* the conversation's row
  rows,     \* its messages
  crossed,  \* history: calls have stood in it whose answers came across each other
  clock,    \* the next message's time
  pc, stopped, rounds,
  held,     \* messages that have a time and no row yet
  seen,     \* the rows as the generation last read them
  prompt,   \* what the model is sent
  kind,     \* what was done to the prompt
  newest,   \* the message that the prompt is about, or none
  deleting, \* the rows that a DeleteMessage under way has chosen, or none
  summary,  \* short and long summary (there is one or not), compress_count
  jobs      \* what each writer of a summary does, and what it captured

genVars == <<pc, stopped, rounds, held, seen, prompt, kind, newest>>
vars == <<exists, rows, crossed, clock, genVars, deleting, summary, jobs>>

NoJob    == [on |-> "no", short |-> FALSE, long |-> FALSE, count |-> 0]
SavedJob == [on |-> "saved", short |-> FALSE, long |-> FALSE, count |-> 0]
Places == {"idle", "question", "picked", "read", "streaming", "calling", "reply", "over"}
Kinds  == {"none", "history", "extended", "squeezed", "trimmed"}

Messages == [id : -3..MaxRows, role : Roles, of : -3..MaxRows]

(***************************************************************************)
(* The algorithms on message lists, in the order in which they are used.   *)
(***************************************************************************)

IsAssistant(m) == m.role \in {"assistant", "call"}

(* The k-th smallest number of J. *)
Rank(J, i) == Cardinality({j \in J : j <= i})
Nth(J, k) == CHOOSE i \in J : Rank(J, i) = k

(* The messages of s at the places of I, in their order. *)
At(s, I) ==
  LET J == I \cap DOMAIN s
  IN [k \in 1..Cardinality(J) |-> s[Nth(J, k)]]

(* s from its first message with one of these roles. *)
From(s, R) == At(s, {i \in DOMAIN s : \E j \in 1..i : s[j].role \in R})

InOrder(R) ==
  LET ids == {m.id : m \in R}
  IN [k \in 1..Cardinality(ids) |-> CHOOSE m \in R : m.id = Nth(ids, k)]

StartsWell == {"user", "system"}

Answered(s, i) ==
  s[i].role = "call" /\ \E j \in i + 1..Len(s) : s[j].role = "tool" /\ s[j].of = s[i].id

(* Mutant: an answer is kept wherever it stands.                           *)
KeepTheAnsweredLenient(s) == {i \in DOMAIN s : s[i].role = "call" => Answered(s, i)}

(* A call stays only if its answer comes later, an answer only right       *)
(* behind a call that stays: only calls that go are between the two.       *)
BehindCall(s, i) == \E j \in 1..i - 1 :
  Answered(s, j) /\ \A k \in j + 1..i - 1 : s[k].role = "call" /\ ~Answered(s, k)
KeepTheAnswered(s) ==
  {i \in DOMAIN s : /\ s[i].role = "call" => Answered(s, i)
                    /\ s[i].role = "tool" => BehindCall(s, i)}

(* Mutant: what the assistant said twice in a row is sent twice.           *)
MergedNot(s) == s

(* Of assistant messages in a row the last one stays.                      *)
Merged(s) ==
  At(s, {i \in DOMAIN s : ~(i < Len(s) /\ IsAssistant(s[i]) /\ IsAssistant(s[i + 1]))})

CleanHistory(s) ==
  LET t == From(s, StartsWell) IN Merged(At(t, KeepTheAnswered(t)))

(* cleanToolCallPairs: answers at the front go, and calls that no answer   *)
(* follows before the next message of the user or the assistant.           *)
CleanPairs(s) ==
  LET t == From(s, Roles \ {"tool"})
      Followed(i) == \E j \in i + 1..Len(t) :
        t[j].role = "tool" /\ \A k \in i + 1..j - 1 : t[k].role = "system"
  IN At(t, {i \in DOMAIN t : t[i].role = "call" => Followed(i)})

(* Mutant: the window ends one message early.                              *)
CompressedShort(s, I, noted) ==
  LET rest == Tail(s)
      out  == Len(rest) - (IF Window < Len(rest) THEN Window ELSE Len(rest))
  IN From(CleanPairs(<<s[1]>> \o (IF noted THEN <<SummaryNote>> ELSE <<>>)
            \o At(rest, I) \o SubSeq(rest, IF out = 0 THEN 1 ELSE out, Len(rest) - 1)), StartsWell)

(* Messages kept for their content: those that score high, and as many of  *)
(* the others as the budget holds, by their score.                         *)
Important(I) == UNION {kSubset(n, I) : n \in 0..MaxImportant}

(* CompressContext: the system prompt, the summary, the important messages *)
(* (at I) among those in front of the window, and the window.              *)
Outside(s) == 1..Len(s) - 1 - Window
Compressed(s, I, noted) ==
  LET rest == Tail(s)
      out  == Len(rest) - (IF Window < Len(rest) THEN Window ELSE Len(rest))
  IN From(CleanPairs(<<s[1]>> \o (IF noted THEN <<SummaryNote>> ELSE <<>>)
            \o At(rest, I) \o SubSeq(rest, out + 1, Len(rest))), StartsWell)

(* TrimMessagesToFit, after the server refused the prompt as too long: the *)
(* messages at I fit between the system prompt and the last message.       *)
Trimmed(s, I) ==
  LET kept   == From(CleanPairs(At(s, I)), StartsWell)
      Askers == {i \in DOMAIN s : s[i].role = "user"}
      Asker  == IF Askers = {} \/ \E m \in Range(kept) \union {Last(s)} : m.role = "user"
                THEN <<>>
                ELSE <<s[CHOOSE i \in Askers : \A j \in Askers : j <= i]>>
  IN IF Len(s) <= 2 THEN s ELSE <<s[1]>> \o kept \o Asker \o <<Last(s)>>

-----------------------------------------------------------------------------

TypeOK ==
  /\ exists \in BOOLEAN /\ crossed \in BOOLEAN /\ clock \in 1..MaxRows + 1
  /\ rows \subseteq Messages /\ \A m \in rows : m.id \in 1..clock - 1
  /\ pc \in [Gens -> Places] /\ stopped \in [Gens -> BOOLEAN]
  /\ rounds \in [Gens -> 0..MaxRounds] /\ kind \in [Gens -> Kinds]
  /\ newest \in [Gens -> -3..MaxRows]
  /\ {held, seen, prompt} \subseteq [Gens -> Seq(Messages)]
  /\ deleting \subseteq 1..MaxRows
  /\ summary.short \in BOOLEAN /\ summary.long \in BOOLEAN /\ summary.count \in 0..MaxGens + 1
  /\ \A w \in Writers : jobs[w].on \in {"no", "writing", "saved"}

(* Two answers whose calls were made before either of them was there.      *)
Crossed(R) == \E t, u \in R :
  /\ t # u /\ t.role = "tool" /\ u.role = "tool"
  /\ ~(t.id < u.of) /\ ~(u.id < t.of)

Init ==
  /\ \E s \in Earlier :
       /\ rows = {Message(i, s[i].role, s[i].of) : i \in DOMAIN s}
       /\ clock = Len(s) + 1
  /\ crossed = Crossed(rows)
  /\ exists = TRUE
  /\ pc = [g \in Gens |-> "idle"] /\ stopped = [g \in Gens |-> FALSE]
  /\ rounds = [g \in Gens |-> 0] /\ kind = [g \in Gens |-> "none"]
  /\ held = [g \in Gens |-> <<>>] /\ seen = [g \in Gens |-> <<>>]
  /\ prompt = [g \in Gens |-> <<>>] /\ newest = [g \in Gens |-> None]
  /\ deleting = {} /\ summary = [short |-> FALSE, long |-> FALSE, count |-> 0]
  /\ jobs = [w \in Writers |-> NoJob]

(* The window offers a new generation while it shows none under way, which *)
(* is as soon as the user has stopped it; and only the next one begins.    *)
MayBegin(g) ==
  /\ exists /\ pc[g] = "idle"
  /\ \A h \in 1..g - 1 : pc[h] = "over" \/ (pc[h] # "idle" /\ stopped[h])

Stamp(g, role, of) ==
  /\ clock <= MaxRows /\ clock' = clock + 1
  /\ held' = [held EXCEPT ![g] = Append(@, Message(clock, role, of))]

Over(g) ==
  /\ pc' = [pc EXCEPT ![g] = "over"]
  /\ held' = [held EXCEPT ![g] = <<>>] /\ seen' = [seen EXCEPT ![g] = <<>>]
  /\ prompt' = [prompt EXCEPT ![g] = <<>>] /\ newest' = [newest EXCEPT ![g] = None]
  /\ kind' = [kind EXCEPT ![g] = "none"] /\ rounds' = [rounds EXCEPT ![g] = 0]
  /\ stopped' = [stopped EXCEPT ![g] = FALSE]

-----------------------------------------------------------------------------
(* SendMessage: the question, its row, and the rows read after it. *)

SendMessage(g) ==
  /\ MayBegin(g) /\ Stamp(g, "user", None)
  /\ pc' = [pc EXCEPT ![g] = "question"]
  /\ UNCHANGED <<exists, rows, crossed, stopped, rounds, seen, prompt, kind, newest,
                 deleting, summary, jobs>>

(* Mutant: nothing ties a message's row to its conversation's.             *)
StoresUntied(g, next) ==
  /\ rows' = rows \union Range(held[g]) /\ held' = [held EXCEPT ![g] = <<>>]
  /\ pc' = [pc EXCEPT ![g] = next]

(* The held messages are inserted in one transaction; the foreign key      *)
(* refuses them once the conversation is gone.                             *)
Stores(g, next) ==
  /\ exists /\ rows' = rows \union Range(held[g]) /\ held' = [held EXCEPT ![g] = <<>>]
  /\ pc' = [pc EXCEPT ![g] = next]

StoreQuestion(g) ==
  /\ pc[g] = "question" /\ Stores(g, "read")
  /\ seen' = [seen EXCEPT ![g] = InOrder(rows')]
  /\ UNCHANGED <<exists, crossed, clock, stopped, rounds, prompt, kind, newest, deleting,
                 summary, jobs>>

(* RegenerateMessage: the rows are read, then what the assistant said      *)
(* right after the question is deleted, and the prompt is built from what  *)
(* was read.  The window asks for it from an edited question, too.         *)
Replies(s, id) ==
  LET at == CHOOSE i \in DOMAIN s : s[i].id = id
  IN {s[i].id : i \in {i \in at + 1..Len(s) : \A j \in at + 1..i : IsAssistant(s[j])}}

Regenerate(g, u) ==
  /\ MayBegin(g) /\ u \in rows /\ u.role = "user"
  /\ pc' = [pc EXCEPT ![g] = "picked"]
  /\ seen' = [seen EXCEPT ![g] = InOrder(rows)]
  /\ newest' = [newest EXCEPT ![g] = u.id]
  /\ UNCHANGED <<exists, rows, crossed, clock, stopped, rounds, held, prompt, kind,
                 deleting, summary, jobs>>

DeleteReplies(g) ==
  /\ pc[g] = "picked"
  /\ LET gone == Replies(seen[g], newest[g])
     IN /\ rows' = {m \in rows : m.id \notin gone}
        /\ seen' = [seen EXCEPT ![g] = At(@, {i \in DOMAIN @ : @[i].id \notin gone})]
  /\ pc' = [pc EXCEPT ![g] = "read"]
  /\ UNCHANGED <<exists, crossed, clock, stopped, rounds, held, prompt, kind, newest,
                 deleting, summary, jobs>>

-----------------------------------------------------------------------------
(* buildLLMMessages *)

ShouldReset(count) == count > 0 /\ (count + 1) % ResetEvery = 0
ShouldMerge(count) == (count + 1) % MergeEvery = 0

(* The summary of the rows that were left out is written in the            *)
(* background, from what there was when the prompt was built.              *)
Summarise(w, left) ==
  jobs' = IF left < SummaryMin THEN jobs
          ELSE [jobs EXCEPT ![w] = [on |-> "writing", short |-> summary.short,
                                    long |-> summary.long, count |-> summary.count]]

Noted == summary.short \/ summary.long

Built(p, done, left) == [prompt |-> p, kind |-> done, left |-> left]

(* All of the rows fit.                                                    *)
WholeHistory(s) == {Built(<<SystemPrompt>> \o CleanHistory(s), "history", 0)}

(* The rows up to place k do not fit.                                      *)
LaterHistory(s) == UNION {
  LET h == <<SystemPrompt>> \o CleanHistory(SubSeq(s, k + 1, Len(s)))
  IN {Built(Compressed(h, I, Noted), "squeezed", k) : I \in Important(Outside(h))} :
    k \in 1..Len(s) - 1}

(* Not even the last row fits: the summary is all that goes with it, or    *)
(* not even that.                                                          *)
LastRowOnly(s) ==
  LET h == <<SystemPrompt>> \o (IF s = <<>> THEN <<>> ELSE <<Last(s)>>)
  IN {Built(p, "squeezed", Len(s)) : p \in {h, Compressed(h, {}, Noted)}}

(* A model that calls no tools is shown what a search for the question has *)
(* found; nothing is searched for a regeneration.                          *)
WithSearch(b) ==
  [b EXCEPT !.prompt = @ \o <<SearchCall, SearchAnswer>>,
            !.kind = IF @ = "history" THEN "extended" ELSE @]

(* The question, if nothing has got behind it.                             *)
About(s) == IF s # <<>> /\ Last(s).role = "user" THEN Last(s).id ELSE None

BuildPrompt(g) ==
  /\ pc[g] = "read" /\ pc' = [pc EXCEPT ![g] = "streaming"]
  /\ \E b \in WholeHistory(seen[g]) \union LaterHistory(seen[g]) \union LastRowOnly(seen[g]),
        searched \in {FALSE, newest[g] = None} :
       LET c == IF searched THEN WithSearch(b) ELSE b
       IN /\ prompt' = [prompt EXCEPT ![g] = c.prompt]
          /\ kind' = [kind EXCEPT ![g] = c.kind]
          /\ newest' = [newest EXCEPT ![g] = IF searched THEN SearchAnswer.id
                                             ELSE About(seen[g])]
          /\ rounds' = [rounds EXCEPT ![g] = IF searched THEN MaxRounds ELSE 0]
          /\ Summarise(g, b.left)
  /\ seen' = [seen EXCEPT ![g] = <<>>]
  /\ UNCHANGED <<exists, rows, crossed, clock, stopped, held, deleting, summary>>

-----------------------------------------------------------------------------
(* What becomes of the prompt. *)

(* The server finds the prompt too long, and it is cut once.               *)
Retry(g) ==
  /\ pc[g] = "streaming" /\ kind[g] # "trimmed"
  /\ \E k \in 2..Len(prompt[g]) : \E I \in Important(2..k - 1) :
       prompt' = [prompt EXCEPT ![g] = Trimmed(@, I \union k..Len(@) - 1)]
  /\ kind' = [kind EXCEPT ![g] = "trimmed"]
  /\ UNCHANGED <<exists, rows, crossed, clock, pc, stopped, rounds, held, seen, newest,
                 deleting, summary, jobs>>

(* A call of the model has been made: its row gets its time, and has to    *)
(* wait while another generation's transaction writes.                     *)
StampCall(g) ==
  /\ pc[g] = "streaming" /\ ~stopped[g] /\ rounds[g] < MaxRounds
  /\ Stamp(g, "call", None)
  /\ pc' = [pc EXCEPT ![g] = "calling"]
  /\ UNCHANGED <<exists, rows, crossed, stopped, rounds, seen, prompt, kind, newest,
                 deleting, summary, jobs>>

(* The call's row is inserted, and nobody else writes until its answer has *)
(* got a time and a row, too.  Both are sent, in a prompt that may have to *)
(* be compressed.                                                          *)
StoreRound(g) ==
  /\ pc[g] = "calling" /\ exists /\ clock <= MaxRows /\ clock' = clock + 1
  /\ LET call   == held[g][1]
         answer == Message(clock, "tool", call.id)
         s      == prompt[g] \o <<call, answer>>
     IN /\ rows' = rows \union {call, answer}
        /\ newest' = [newest EXCEPT ![g] = answer.id]
        /\ \/ /\ prompt' = [prompt EXCEPT ![g] = s]
              /\ kind' = [kind EXCEPT ![g] = IF @ = "history" THEN "extended" ELSE @]
           \/ /\ \E I \in Important(Outside(s)) :
                   prompt' = [prompt EXCEPT ![g] = Compressed(s, I, Noted)]
              /\ kind' = [kind EXCEPT ![g] = "squeezed"]
  /\ crossed' = (crossed \/ Crossed(rows'))
  /\ held' = [held EXCEPT ![g] = <<>>] /\ pc' = [pc EXCEPT ![g] = "streaming"]
  /\ rounds' = [rounds EXCEPT ![g] = @ + 1]
  /\ UNCHANGED <<exists, stopped, seen, deleting, summary, jobs>>

StampReply(g) ==
  /\ pc[g] = "streaming" /\ Stamp(g, "assistant", None)
  /\ pc' = [pc EXCEPT ![g] = "reply"]
  /\ UNCHANGED <<exists, rows, crossed, stopped, rounds, seen, prompt, kind, newest,
                 deleting, summary, jobs>>

StoreReply(g) ==
  /\ pc[g] = "reply" /\ exists
  /\ rows' = rows \union Range(held[g]) /\ Over(g)
  /\ UNCHANGED <<exists, crossed, clock, deleting, summary, jobs>>

(* The stream fails or is stopped with nothing to keep, or a row cannot be *)
(* inserted.                                                               *)
Fails(g) ==
  /\ pc[g] \in {"question", "streaming", "calling", "reply"} /\ Over(g)
  /\ UNCHANGED <<exists, rows, crossed, clock, deleting, summary, jobs>>

Stop(g) ==
  /\ pc[g] \notin {"idle", "over"} /\ ~stopped[g]
  /\ stopped' = [stopped EXCEPT ![g] = TRUE]
  /\ UNCHANGED <<exists, rows, crossed, clock, pc, rounds, held, seen, prompt, kind,
                 newest, deleting, summary, jobs>>

-----------------------------------------------------------------------------
(* The summary goroutine.  An empty long summary leaves the old one: the   *)
(* statement then sets the short one only.                                 *)

(* Mutant: the count that was captured, plus one, is written.              *)
SaveSummaryFromCaptured(w, long) ==
  summary' = [short |-> TRUE, long |-> long \/ summary.long, count |-> jobs[w].count + 1]

SaveSummary(w, long) ==
  summary' = [short |-> TRUE, long |-> long \/ summary.long, count |-> summary.count + 1]

SummaryWritten(w) ==
  /\ jobs[w].on = "writing"
  /\ IF exists
     THEN SaveSummary(w, ~ShouldReset(jobs[w].count) /\ ShouldMerge(jobs[w].count))
     ELSE summary' = summary
  /\ jobs' = [jobs EXCEPT ![w] = IF exists THEN SavedJob ELSE NoJob]
  /\ UNCHANGED <<exists, rows, crossed, clock, genVars, deleting>>

SummaryFails(w) ==
  /\ jobs[w].on = "writing" /\ jobs' = [jobs EXCEPT ![w] = NoJob]
  /\ UNCHANGED <<exists, rows, crossed, clock, genVars, deleting, summary>>

(* CompressConversation: the user asks for the summary of all rows but the *)
(* newest, whatever else is under way.                                     *)
Compress ==
  /\ exists /\ jobs[ByHand].on = "no" /\ Cardinality(rows) - Window >= SummaryMin
  /\ Summarise(ByHand, Cardinality(rows) - Window)
  /\ UNCHANGED <<exists, rows, crossed, clock, genVars, deleting, summary>>

-----------------------------------------------------------------------------
(* The user deletes a question, at any time: the rows are read, then what  *)
(* the assistant said right after it is deleted with it.                   *)

ChooseDeleted(u) ==
  /\ exists /\ deleting = {} /\ u \in rows /\ u.role = "user"
  /\ deleting' = {u.id} \union Replies(InOrder(rows), u.id)
  /\ UNCHANGED <<exists, rows, crossed, clock, genVars, summary, jobs>>

DeleteMessage ==
  /\ deleting # {} /\ deleting' = {}
  /\ rows' = {m \in rows : m.id \notin deleting}
  /\ UNCHANGED <<exists, crossed, clock, genVars, summary, jobs>>

(* One transaction takes the conversation and all of its messages.         *)
DeleteConversation ==
  /\ exists /\ exists' = FALSE /\ rows' = {}
  /\ UNCHANGED <<crossed, clock, genVars, deleting, summary, jobs>>

-----------------------------------------------------------------------------

Generate(g) ==
  \/ SendMessage(g) \/ StoreQuestion(g) \/ (\E u \in rows : Regenerate(g, u))
  \/ DeleteReplies(g) \/ BuildPrompt(g) \/ Retry(g) \/ StampCall(g)
  \/ StoreRound(g) \/ StampReply(g) \/ StoreReply(g) \/ Fails(g) \/ Stop(g)

Next ==
  \/ \E g \in Gens : Generate(g)
  \/ Compress \/ (\E w \in Writers : SummaryWritten(w) \/ SummaryFails(w))
  \/ (\E u \in rows : ChooseDeleted(u)) \/ DeleteMessage \/ DeleteConversation

Spec == Init /\ [][Next]_vars

-----------------------------------------------------------------------------

Sent(g) == prompt[g] # <<>>

(* A prompt that no compression and no retry has cut holds a tool's answer *)
(* only right behind a call, whatever was deleted, regenerated or stored   *)
(* late among the rows it was built from; and it is the call that it       *)
(* answers, unless two generations have made calls across each other       *)
(* (cleanHistoryMessages, appendToolCallMessages, appendAuxiliaryContext). *)
AnswersFollowCalls == \A g \in Gens : kind[g] \in {"history", "extended"} =>
  \A i \in DOMAIN prompt[g] : prompt[g][i].role = "tool" =>
    /\ i > 1 /\ prompt[g][i - 1].role = "call"
    /\ crossed \/ prompt[g][i].of = prompt[g][i - 1].id

(* A prompt built of the whole history begins, after the system prompt,    *)
(* with the user, and the assistant never speaks twice in a row in it: the *)
(* chat templates of the models refuse anything else                       *)
(* (cleanHistoryMessages).                                                 *)
TurnsAlternate == \A g \in Gens : kind[g] = "history" =>
  /\ Len(prompt[g]) > 1 => prompt[g][2].role = "user"
  /\ \A i \in 2..Len(prompt[g]) - 1 : ~(IsAssistant(prompt[g][i]) /\ IsAssistant(prompt[g][i + 1]))

(* However a prompt was cut, it ends with what the model is to answer: the *)
(* question, if it was the newest row when the rows were read, or the last *)
(* answer of a tool (CompressContext, TrimMessagesToFit).                  *)
NewestIsSent == \A g \in Gens :
  Sent(g) /\ newest[g] # None => Last(prompt[g]).id = newest[g]

(* A deleted conversation stays empty, though a generation and a deletion  *)
(* that began before may still want to write (DeleteConversation, the      *)
(* foreign key of the messages).                                           *)
DeletedStaysEmpty == ~exists => rows = {}

(* compress_count, which decides when summaries are merged and renewed,    *)
(* counts every summary that was saved, although two of them may be        *)
(* written at once from the same count (UpdateConversationLayeredSummary). *)
CompressionsAreCounted ==
  summary.count = Cardinality({w \in Writers : jobs[w].on = "saved"})

=============================================================================
