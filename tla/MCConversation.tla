--------------------------- MODULE MCConversation ---------------------------
(* The conversation for TLC.  It may be new, hold a reply that used a      *)
(* tool, or two calls whose answers came across each other; the bounds are *)
(* in the configuration.                                                   *)
EXTENDS Conversation, TLC

Row(role) == [role |-> role, of |-> None]
AnswerTo(call) == [role |-> "tool", of |-> call]

MCEarlier == {
  <<>>, <<Row("user"), Row("call"), AnswerTo(2), Row("assistant")>>,
  <<Row("user"), Row("call"), Row("call"), AnswerTo(2), AnswerTo(3)>>}

-----------------------------------------------------------------------------
(* The second loop of cleanHistoryMessages as it runs, message by message, *)
(* with what it has kept so far.                                           *)
KeepsNext(s, kept, i) ==
  LET stays ==
        CASE s[i].role = "tool" -> kept # <<>> /\ s[Last(kept)].role = "call"
          [] s[i].role = "call" -> Answered(s, i)
          [] OTHER -> TRUE
  IN IF stays THEN Append(kept, i) ELSE kept
KeptByLoop(s) ==
  FoldLeft(LAMBDA kept, i : KeepsNext(s, kept, i), <<>>, [i \in DOMAIN s |-> i])

(* Of every list of up to five messages the loop keeps the answers that    *)
(* BehindCall describes, and At lists what is kept in the loop's order.    *)
Lists == UNION {[1..n -> {Row("user"), Row("assistant"), Row("call")}
                           \union {AnswerTo(c) : c \in 1..n}] : n \in 0..5}
ASSUME LoopKeepsAnswersBehindCalls == \A l \in Lists :
  LET s    == [i \in DOMAIN l |-> Message(i, l[i].role, l[i].of)]
      kept == KeptByLoop(s)
  IN /\ \A i \in DOMAIN s : s[i].role = "tool" => (i \in Range(kept) <=> BehindCall(s, i))
     /\ At(s, Range(kept)) = [k \in DOMAIN kept |-> s[kept[k]]]
=============================================================================
