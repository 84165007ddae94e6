------------------------- MODULE ConversationProofs -------------------------
(***************************************************************************)
(* The properties of a conversation, for any number of generations and of  *)
(* messages, for every window and every choice of important messages: what *)
(* the model is sent is well formed, a deleted conversation stays empty,   *)
(* and no summary is written without being counted.                        *)
(***************************************************************************)
EXTENDS Conversation, TLAPS, FiniteSetTheorems, SequenceTheorems

-----------------------------------------------------------------------------
(* Lists: the messages at some places of a list. *)

(* A finite set of places, in which places can be counted. *)
Ranked(J) == IsFiniteSet(J) /\ \A j \in J : j \in Int

(* The count of what is not above grows from one place to the next. *)
LEMMA RankGrows ==
  ASSUME NEW J, Ranked(J), NEW i \in J, NEW j \in J, i < j
  PROVE  Rank(J, i) < Rank(J, j)
<1> DEFINE A == {h \in J : h <= i}
           B == {h \in J : h <= j}
<1>1. IsFiniteSet(A) /\ IsFiniteSet(B) /\ A \subseteq B /\ A # B
  <2>1. A \in SUBSET J /\ B \in SUBSET J
    OBVIOUS
  <2>2. A \subseteq B /\ j \in B /\ j \notin A
    BY DEF Ranked
  <2>3. QED
    BY <2>1, <2>2, FS_Subset DEF Ranked
<1>2. Cardinality(A) \in Nat /\ Cardinality(B) \in Nat
  BY <1>1, FS_CardinalityType
<1>3. Cardinality(A) <= Cardinality(B) /\ Cardinality(A) # Cardinality(B)
  BY <1>1, FS_Subset
<1>4. QED
  BY <1>2, <1>3 DEF Rank

(* A place of J counts at least itself and at most J. *)
LEMMA RankBounds ==
  ASSUME NEW J, Ranked(J), NEW i \in J
  PROVE  Cardinality(J) \in Nat /\ Rank(J, i) \in 1..Cardinality(J)
<1> DEFINE A == {h \in J : h <= i}
<1>1. A \in SUBSET J /\ i \in A
  BY DEF Ranked
<1>2. IsFiniteSet(A) /\ Cardinality(A) <= Cardinality(J)
  BY <1>1, FS_Subset DEF Ranked
<1>3. Cardinality(A) \in Nat /\ Cardinality(J) \in Nat /\ Cardinality(A) # 0
  BY <1>1, <1>2, FS_CardinalityType, FS_EmptySet DEF Ranked
<1>4. QED
  BY <1>2, <1>3 DEF Rank

(* A pigeon-hole argument: the counts of the places of J are all           *)
(* different, so they are all of 1..Cardinality(J).                        *)
LEMMA RankMeetsAll ==
  ASSUME NEW J, Ranked(J), NEW k \in 1..Cardinality(J)
  PROVE  \E i \in J : Rank(J, i) = k
<1> DEFINE n == Cardinality(J)
           f == [i \in J |-> Rank(J, i)]
<1>1. n \in Nat
  BY FS_CardinalityType DEF Ranked
<1>2. IsFiniteSet(1..n) /\ Cardinality(1..n) = n
  <2>1. Cardinality(1..n) = IF 1 > n THEN 0 ELSE n - 1 + 1
    BY <1>1, FS_Interval
  <2>2. QED
    BY <1>1, <2>1, FS_Interval
<1>3. f \in [J -> 1..n]
  BY RankBounds
<1>4. \A i, j \in J : f[i] = f[j] => i = j
  <2> SUFFICES ASSUME NEW i \in J, NEW j \in J, i # j PROVE f[i] # f[j]
    OBVIOUS
  <2>1. Rank(J, i) \in Int /\ Rank(J, j) \in Int
    BY RankBounds
  <2>2. i < j \/ j < i
    BY DEF Ranked
  <2>3. QED
    BY <2>1, <2>2, RankGrows
<1>5. f \in Injection(J, 1..n)
  BY <1>3, <1>4 DEF Injection, IsInjective
<1> HIDE DEF f
<1>6. f \in Surjection(J, 1..n)
  BY <1>2, <1>5, FS_Injection
<1>7. QED
  BY <1>6 DEF Surjection, f

(* Nth lists J in its order: it grows with k and reaches every place of J. *)
LEMMA NthCounts ==
  ASSUME NEW J, Ranked(J)
  PROVE  /\ Cardinality(J) \in Nat
         /\ \A k \in 1..Cardinality(J) : Nth(J, k) \in J
         /\ \A k, l \in 1..Cardinality(J) : k < l <=> Nth(J, k) < Nth(J, l)
         /\ \A i \in J : \E k \in 1..Cardinality(J) : Nth(J, k) = i
<1>1. Cardinality(J) \in Nat
  BY FS_CardinalityType DEF Ranked
<1>2. \A k \in 1..Cardinality(J) : Nth(J, k) \in J /\ Rank(J, Nth(J, k)) = k
  BY RankMeetsAll DEF Nth
<1>3. ASSUME NEW i \in J, NEW j \in J, Rank(J, i) <= Rank(J, j) PROVE i <= j
  <2>1. Rank(J, i) \in Int /\ Rank(J, j) \in Int
    BY RankBounds
  <2>2. CASE j < i
    BY <1>3, <2>1, <2>2, RankGrows
  <2>3. QED
    BY <2>2 DEF Ranked
<1>4. ASSUME NEW i \in J PROVE \E k \in 1..Cardinality(J) : Nth(J, k) = i
  <2>1. Rank(J, i) \in 1..Cardinality(J)
    BY RankBounds
  <2>2. Nth(J, Rank(J, i)) \in J /\ Rank(J, Nth(J, Rank(J, i))) = Rank(J, i)
    BY <1>2, <2>1
  <2>3. Nth(J, Rank(J, i)) <= i /\ i <= Nth(J, Rank(J, i))
    BY <1>1, <1>3, <2>1, <2>2
  <2>4. Nth(J, Rank(J, i)) = i
    BY <2>2, <2>3 DEF Ranked
  <2>5. QED
    BY <2>1, <2>4
<1>5. ASSUME NEW k \in 1..Cardinality(J), NEW l \in 1..Cardinality(J)
      PROVE  k < l <=> Nth(J, k) < Nth(J, l)
  <2>1. Nth(J, k) \in J /\ Nth(J, l) \in J /\ Rank(J, Nth(J, k)) = k /\ Rank(J, Nth(J, l)) = l
    BY <1>2
  <2>2. Nth(J, k) \in Int /\ Nth(J, l) \in Int /\ k \in Int /\ l \in Int
    BY <1>1, <2>1 DEF Ranked
  <2>3. k <= l => Nth(J, k) <= Nth(J, l)
    BY <1>3, <2>1
  <2>4. l <= k => Nth(J, l) <= Nth(J, k)
    BY <1>3, <2>1
  <2>5. QED
    BY <2>1, <2>2, <2>3, <2>4, RankGrows
<1>6. QED
  BY <1>1, <1>2, <1>4, <1>5

(* t is what s has at the places of I: f says where in s its k-th message  *)
(* was.                                                                    *)
Picks(f, s, I, t) ==
  /\ f \in [1..Len(t) -> I \cap (1..Len(s))]
  /\ \A k, l \in 1..Len(t) : k < l <=> f[k] < f[l]
  /\ \A i \in I \cap (1..Len(s)) : \E k \in 1..Len(t) : f[k] = i
  /\ \A k \in 1..Len(t) : t[k] = s[f[k]]

(* At(s, I) is such a list, which is all that the lemmas below use of it. *)
LEMMA AtPicks ==
  ASSUME NEW S, NEW s \in Seq(S), NEW I
  PROVE  At(s, I) \in Seq(S) /\ \E f : Picks(f, s, I, At(s, I))
<1> DEFINE J == I \cap (1..Len(s))
           n == Cardinality(J)
           t == [k \in 1..n |-> s[Nth(J, k)]]
           f == [k \in 1..n |-> Nth(J, k)]
<1>1. Len(s) \in Nat /\ DOMAIN s = 1..Len(s) /\ \A i \in 1..Len(s) : s[i] \in S
  BY LenProperties, ElementOfSeq
<1>2. At(s, I) = t
  BY <1>1 DEF At
<1>3. Ranked(J)
  <2>1. IsFiniteSet(1..Len(s)) /\ J \in SUBSET (1..Len(s))
    BY <1>1, FS_Interval
  <2>2. IsFiniteSet(J)
    BY <2>1, FS_Subset
  <2>3. QED
    BY <1>1, <2>2 DEF Ranked
<1> HIDE DEF J
<1>4. /\ n \in Nat
      /\ \A k \in 1..n : Nth(J, k) \in J
      /\ \A k, l \in 1..n : k < l <=> Nth(J, k) < Nth(J, l)
      /\ \A i \in J : \E k \in 1..n : Nth(J, k) = i
  BY <1>3, NthCounts
<1> HIDE DEF n
<1>5. \A k \in 1..n : s[Nth(J, k)] \in S
  BY <1>1, <1>4 DEF J
<1>6. t \in Seq(S) /\ Len(t) = n
  <2>1. t \in Seq(S)
    BY <1>4, <1>5, IsASeq
  <2>2. DOMAIN t = 1..n
    OBVIOUS
  <2>3. Len(t) = n
    BY <1>4, <2>1, <2>2, LenProperties
  <2>4. QED
    BY <2>1, <2>3
<1>7. Picks(f, s, I, t)
  BY <1>4, <1>6 DEF Picks, J
<1> HIDE DEF t
<1>8. QED
  BY <1>2, <1>6, <1>7

(* A first message that is to stay stays the first one. *)
LEMMA AtFirst ==
  ASSUME NEW S, NEW s \in Seq(S), s # <<>>, NEW I, 1 \in I
  PROVE  At(s, I) # <<>> /\ At(s, I)[1] = s[1]
<1> DEFINE t == At(s, I)
<1>1. t \in Seq(S) /\ \E f : Picks(f, s, I, t)
  BY AtPicks
<1>2. PICK f : Picks(f, s, I, t)
  BY <1>1
<1>3. Len(s) \in Nat \ {0} /\ Len(t) \in Nat
  BY <1>1, EmptySeq, LenProperties
<1> HIDE DEF t
<1>4. PICK k \in 1..Len(t) : f[k] = 1
  BY <1>2, <1>3 DEF Picks
<1>5. f[1] \in 1..Len(s) /\ (1 < k <=> f[1] < f[k]) /\ 1 \in 1..Len(t)
  BY <1>2, <1>3, <1>4 DEF Picks
<1>6. k = 1
  BY <1>3, <1>4, <1>5
<1>7. t[1] = s[1]
  BY <1>2, <1>4, <1>5, <1>6 DEF Picks
<1>8. t # <<>>
  BY <1>5, EmptySeq
<1>9. QED
  BY <1>7, <1>8 DEF t

(* A last message that is to stay stays the last one. *)
LEMMA AtLast ==
  ASSUME NEW S, NEW s \in Seq(S), s # <<>>, NEW I, Len(s) \in I
  PROVE  At(s, I) # <<>> /\ Last(At(s, I)) = Last(s)
<1> DEFINE t == At(s, I)
<1>1. t \in Seq(S) /\ \E f : Picks(f, s, I, t)
  BY AtPicks
<1>2. PICK f : Picks(f, s, I, t)
  BY <1>1
<1>3. Len(s) \in Nat \ {0} /\ Len(t) \in Nat
  BY <1>1, EmptySeq, LenProperties
<1> HIDE DEF t
<1>4. PICK k \in 1..Len(t) : f[k] = Len(s)
  BY <1>2, <1>3 DEF Picks
<1>5. f[Len(t)] \in 1..Len(s) /\ (k < Len(t) <=> f[k] < f[Len(t)]) /\ Len(t) \in 1..Len(t)
  BY <1>2, <1>3, <1>4 DEF Picks
<1>6. k = Len(t)
  BY <1>3, <1>4, <1>5
<1>7. t[Len(t)] = s[Len(s)]
  BY <1>2, <1>4, <1>5, <1>6 DEF Picks
<1>8. t # <<>>
  BY <1>5, EmptySeq
<1>9. QED
  BY <1>7, <1>8 DEF t, Last

(* At brings in nothing from elsewhere. *)
LEMMA AtRange ==
  ASSUME NEW S, NEW s \in Seq(S), NEW I
  PROVE  \A k \in 1..Len(At(s, I)) : \E i \in I \cap (1..Len(s)) : At(s, I)[k] = s[i]
BY AtPicks DEF Picks

-----------------------------------------------------------------------------
(* The history as cleanHistoryMessages leaves it. *)

(* A message that has a row: never a system message, and a tool's answer   *)
(* is younger than the call that it answers.                               *)
Plain(m) == m \in Messages /\ m.role # "system" /\ (m.role = "tool" => m.of < m.id)
(* Rows in the order of their times. *)
Listed(s) ==
  /\ s \in Seq(Messages) /\ \A i \in 1..Len(s) : Plain(s[i])
  /\ \A i, j \in 1..Len(s) : i < j => s[i].id < s[j].id

(* Some of such rows are such rows. *)
LEMMA AtListed ==
  ASSUME NEW s, Listed(s), NEW I
  PROVE  Listed(At(s, I))
<1>1. s \in Seq(Messages)
  BY DEF Listed
<1>2. At(s, I) \in Seq(Messages) /\ \E f : Picks(f, s, I, At(s, I))
  BY <1>1, AtPicks
<1>3. PICK f : Picks(f, s, I, At(s, I))
  BY <1>2
<1>4. \A k \in 1..Len(At(s, I)) : f[k] \in 1..Len(s) /\ At(s, I)[k] = s[f[k]]
  BY <1>3 DEF Picks
<1>5. \A i, j \in 1..Len(At(s, I)) : i < j => f[i] < f[j]
  BY <1>3 DEF Picks
<1>6. QED
  BY <1>2, <1>4, <1>5 DEF Listed

(* From(s, R) begins with one of the roles in R. *)
LEMMA FromStarts ==
  ASSUME NEW s \in Seq(Messages), NEW R, From(s, R) # <<>>
  PROVE  From(s, R)[1].role \in R
<1> DEFINE I == {i \in DOMAIN s : \E j \in 1..i : s[j].role \in R}
           t == At(s, I)
<1>1. t \in Seq(Messages) /\ t # <<>> /\ \E f : Picks(f, s, I, t)
  BY AtPicks DEF From
<1>2. PICK f : Picks(f, s, I, t)
  BY <1>1
<1>3. Len(s) \in Nat /\ DOMAIN s = 1..Len(s) /\ Len(t) \in Nat \ {0}
  BY <1>1, EmptySeq, LenProperties
<1> HIDE DEF t
<1>4. f[1] \in I /\ f[1] \in 1..Len(s) /\ t[1] = s[f[1]]
  BY <1>2, <1>3 DEF Picks
<1>5. PICK j \in 1..f[1] : s[j].role \in R
  BY <1>4
<1>6. j \in I /\ j \in 1..Len(s)
  BY <1>3, <1>4, <1>5
<1> HIDE DEF I
<1>7. PICK k \in 1..Len(t) : f[k] = j
  BY <1>2, <1>6 DEF Picks
<1>8. 1 < k <=> f[1] < f[k]
  BY <1>2, <1>3 DEF Picks
<1>9. j = f[1]
  BY <1>3, <1>4, <1>5, <1>7, <1>8
<1>10. QED
  BY <1>4, <1>5, <1>9 DEF From, t, I

(* From keeps the end of a list that has one of the roles in R. *)
LEMMA FromKeepsLast ==
  ASSUME NEW s \in Seq(Messages), s # <<>>, NEW R,
         NEW j \in 1..Len(s), s[j].role \in R
  PROVE  From(s, R) # <<>> /\ Last(From(s, R)) = Last(s)
<1> DEFINE I == {i \in DOMAIN s : \E k \in 1..i : s[k].role \in R}
<1>1. DOMAIN s = 1..Len(s) /\ Len(s) \in Nat
  BY LenProperties
<1>2. Len(s) \in I
  BY <1>1
<1> HIDE DEF I
<1>3. QED
  BY <1>2, AtLast DEF From, I

(* From keeps a beginning with one of the roles in R. *)
LEMMA FromKeepsFirst ==
  ASSUME NEW s \in Seq(Messages), s # <<>>, NEW R, s[1].role \in R
  PROVE  From(s, R) # <<>> /\ From(s, R)[1] = s[1]
<1> DEFINE I == {i \in DOMAIN s : \E k \in 1..i : s[k].role \in R}
<1>1. DOMAIN s = 1..Len(s) /\ Len(s) \in Nat \ {0}
  BY LenProperties, EmptySeq
<1>2. 1 \in I
  BY <1>1
<1> HIDE DEF I
<1>3. QED
  BY <1>2, AtFirst DEF From, I

(* The places that Merged keeps. *)
Stays(s) == {i \in DOMAIN s : ~(i < Len(s) /\ IsAssistant(s[i]) /\ IsAssistant(s[i + 1]))}

(* After the merge no two messages of the assistant are neighbours:        *)
(* between two that stay there is one that is not the assistant's, and     *)
(* that stays, too.                                                        *)
LEMMA MergedApart ==
  ASSUME NEW s \in Seq(Messages)
  PROVE  /\ Merged(s) \in Seq(Messages)
         /\ \A k \in 1..Len(Merged(s)) - 1 :
              ~(IsAssistant(Merged(s)[k]) /\ IsAssistant(Merged(s)[k + 1]))
<1> DEFINE t == At(s, Stays(s))
<1>1. t \in Seq(Messages) /\ \E f : Picks(f, s, Stays(s), t)
  BY AtPicks
<1>2. PICK f : Picks(f, s, Stays(s), t)
  BY <1>1
<1>3. Len(s) \in Nat /\ DOMAIN s = 1..Len(s) /\ Len(t) \in Nat
  BY <1>1, LenProperties
<1>4. Merged(s) = t
  BY DEF Merged, Stays
<1> HIDE DEF t
<1>5. ASSUME NEW k \in 1..Len(t) - 1, IsAssistant(t[k]), IsAssistant(t[k + 1])
      PROVE  FALSE
  <2>1. k \in 1..Len(t) /\ k + 1 \in 1..Len(t) /\ k < k + 1
    BY <1>3
  <2>2. /\ f[k] \in Stays(s) /\ f[k] \in 1..Len(s) /\ f[k + 1] \in 1..Len(s)
        /\ t[k] = s[f[k]] /\ t[k + 1] = s[f[k + 1]]
    BY <1>2, <2>1 DEF Picks
  <2>3. f[k] < f[k + 1]
    BY <1>2, <2>1 DEF Picks
  <2>4. ~IsAssistant(s[f[k] + 1])
    BY <1>3, <1>5, <2>2, <2>3 DEF Stays
  <2>5. f[k] + 1 \in 1..Len(s) /\ f[k] + 1 < f[k + 1]
    <3>1. f[k] + 1 # f[k + 1]
      BY <1>5, <2>2, <2>4
    <3>2. QED
      BY <1>3, <2>2, <2>3, <3>1
  <2>6. f[k] + 1 \in Stays(s)
    BY <1>3, <2>4, <2>5 DEF Stays
  <2>7. PICK l \in 1..Len(t) : f[l] = f[k] + 1
    BY <1>2, <2>5, <2>6 DEF Picks
  <2>8. (k < l <=> f[k] < f[l]) /\ (l < k + 1 <=> f[l] < f[k + 1])
    BY <1>2, <2>1 DEF Picks
  <2>9. QED
    BY <1>3, <2>1, <2>2, <2>5, <2>7, <2>8
<1>6. QED
  BY <1>1, <1>4, <1>5

(* The merge keeps the last message, and a first one that is the user's. *)
LEMMA MergedEnds ==
  ASSUME NEW s \in Seq(Messages), s # <<>>
  PROVE  /\ Merged(s) # <<>> /\ Last(Merged(s)) = Last(s)
         /\ ~IsAssistant(s[1]) => Merged(s)[1] = s[1]
<1>1. Len(s) \in Nat \ {0} /\ DOMAIN s = 1..Len(s)
  BY LenProperties, EmptySeq
<1>2. Len(s) \in Stays(s)
  BY <1>1 DEF Stays
<1>3. ~IsAssistant(s[1]) => 1 \in Stays(s)
  BY <1>1 DEF Stays
<1>4. Merged(s) = At(s, Stays(s))
  BY DEF Merged, Stays
<1>5. QED
  BY <1>2, <1>3, <1>4, AtFirst, AtLast

(* The messages of a list. *)
Members(s) == {s[i] : i \in 1..Len(s)}
(* The answer at place i stands behind a call, and unless x it is its own. *)
InPlace(s, i, x) ==
  /\ i > 1 /\ s[i - 1].role = "call"
  /\ x \/ s[i].of = s[i - 1].id

(* Where calls cross they do so in every larger set. *)
LEMMA CrossedGrows ==
  ASSUME NEW R, NEW T, R \subseteq T, Crossed(R)
  PROVE  Crossed(T)
BY DEF Crossed

(* If nothing crosses, a kept answer with only calls between it and a kept *)
(* call answers that call. Another answer of the call would stand behind   *)
(* this one, and the two would cross.                                      *)
LEMMA OwnCall ==
  ASSUME NEW s, Listed(s), ~Crossed(Members(s)),
         NEW i \in 1..Len(s), s[i].role = "tool",
         NEW j \in 1..i - 1, Answered(s, j),
         \A k \in j + 1..i - 1 : s[k].role = "call"
  PROVE  s[i].of = s[j].id
<1>1. Len(s) \in Nat /\ s \in Seq(Messages)
  BY LenProperties DEF Listed
<1>2. PICK q \in j + 1..Len(s) : s[q].role = "tool" /\ s[q].of = s[j].id
  BY DEF Answered
<1>3. i \in Int /\ j \in 1..Len(s) /\ q \in 1..Len(s)
  BY <1>1, <1>2
<1>4. ~(q < i)
  <2>1. SUFFICES ASSUME q < i PROVE FALSE
    OBVIOUS
  <2>2. q \in j + 1..i - 1
    BY <1>1, <1>2, <1>3, <2>1
  <2>3. QED
    BY <1>2, <2>2
<1>5. /\ s[i].id \in Int /\ s[j].id \in Int /\ s[q].id \in Int /\ s[i].of \in Int
      /\ s[i].of < s[i].id
  BY <1>3 DEF Listed, Plain, Messages
<1>6. s[j].id < s[i].id /\ (i < q => s[i].id < s[q].id)
  BY <1>1, <1>3 DEF Listed
<1>7. SUFFICES ASSUME s[i].of # s[j].id PROVE FALSE
  OBVIOUS
<1>8. s[i] # s[q] /\ i # q
  BY <1>2, <1>7
<1>9. s[i] \in Members(s) /\ s[q] \in Members(s)
  BY <1>3 DEF Members
<1>10. s[i].id < s[q].of \/ s[q].id < s[i].of
  BY <1>2, <1>8, <1>9 DEF Crossed
<1>11. s[i].id < s[q].id
  BY <1>3, <1>4, <1>6, <1>8
<1>12. QED
  BY <1>2, <1>5, <1>6, <1>10, <1>11

(* What KeepTheAnswered leaves has every answer behind a call that stays:  *)
(* the calls between the two all go.                                       *)
LEMMA KeptBehindCalls ==
  ASSUME NEW s, Listed(s), ~crossed => ~Crossed(Members(s)),
         NEW k \in 1..Len(At(s, KeepTheAnswered(s))),
         At(s, KeepTheAnswered(s))[k].role = "tool"
  PROVE  InPlace(At(s, KeepTheAnswered(s)), k, crossed)
<1> DEFINE K == KeepTheAnswered(s)
           t == At(s, K)
<1>1. s \in Seq(Messages) /\ Len(s) \in Nat /\ DOMAIN s = 1..Len(s)
  BY LenProperties DEF Listed
<1>2. t \in Seq(Messages) /\ \E f : Picks(f, s, K, t)
  BY <1>1, AtPicks
<1>3. PICK f : Picks(f, s, K, t)
  BY <1>2
<1>4. Len(t) \in Nat
  BY <1>2, LenProperties
<1>5. k \in 1..Len(t) /\ t[k].role = "tool"
  OBVIOUS
<1> HIDE DEF t
<1>6. f[k] \in K /\ f[k] \in 1..Len(s) /\ t[k] = s[f[k]]
  BY <1>3, <1>5 DEF Picks
<1>7. PICK j \in 1..f[k] - 1 :
        Answered(s, j) /\ \A h \in j + 1..f[k] - 1 : s[h].role = "call" /\ ~Answered(s, h)
  BY <1>5, <1>6 DEF KeepTheAnswered, BehindCall
<1>8. j \in K /\ j \in 1..Len(s) /\ s[j].role = "call"
  BY <1>1, <1>6, <1>7 DEF KeepTheAnswered, Answered
<1>9. \A h \in j + 1..f[k] - 1 : h \notin K
  BY <1>1, <1>7 DEF KeepTheAnswered
<1> HIDE DEF K
<1>10. PICK l \in 1..Len(t) : f[l] = j
  BY <1>3, <1>8 DEF Picks
<1>11. l < k /\ k - 1 \in 1..Len(t)
  <2>1. l < k <=> f[l] < f[k]
    BY <1>3, <1>5 DEF Picks
  <2>2. QED
    BY <1>4, <1>5, <1>6, <1>7, <1>10, <2>1
<1>12. l = k - 1
  <2>1. /\ f[k - 1] \in K /\ f[k - 1] \in 1..Len(s)
        /\ (l < k - 1 <=> f[l] < f[k - 1]) /\ (k - 1 < k <=> f[k - 1] < f[k])
    BY <1>3, <1>5, <1>11 DEF Picks
  <2>2. f[k - 1] \notin j + 1..f[k] - 1
    BY <1>9, <2>1
  <2>3. f[k] \in Int /\ f[k - 1] \in Int /\ j \in Int /\ k \in Int /\ l \in Int /\ f[k - 1] < f[k]
    BY <1>4, <1>5, <1>6, <1>8, <2>1
  <2>4. ~(j < f[k - 1])
    BY <2>2, <2>3
  <2>5. QED
    BY <1>10, <1>11, <2>1, <2>3, <2>4
<1>13. t[k - 1] = s[j]
  BY <1>3, <1>10, <1>12 DEF Picks
<1>14. ~crossed => s[f[k]].of = s[j].id
  BY <1>1, <1>5, <1>6, <1>7, OwnCall
<1>15. InPlace(t, k, crossed)
  BY <1>4, <1>6, <1>8, <1>11, <1>13, <1>14 DEF InPlace
<1>16. QED
  BY <1>15 DEF t, K

(* The merge takes no call from in front of its answer, for the answer is  *)
(* not the assistant's.                                                    *)
LEMMA MergedKeepsPairs ==
  ASSUME NEW s \in Seq(Messages), \A i \in 1..Len(s) : s[i].role = "tool" => InPlace(s, i, crossed),
         NEW k \in 1..Len(Merged(s)), Merged(s)[k].role = "tool"
  PROVE  InPlace(Merged(s), k, crossed)
<1> DEFINE t == At(s, Stays(s))
<1>1. t \in Seq(Messages) /\ \E f : Picks(f, s, Stays(s), t)
  BY AtPicks
<1>2. PICK f : Picks(f, s, Stays(s), t)
  BY <1>1
<1>3. Len(s) \in Nat /\ DOMAIN s = 1..Len(s) /\ Len(t) \in Nat
  BY <1>1, LenProperties
<1>4. Merged(s) = t
  BY DEF Merged, Stays
<1> HIDE DEF t
<1>5. k \in 1..Len(t) /\ t[k].role = "tool"
  BY <1>4
<1>6. f[k] \in 1..Len(s) /\ t[k] = s[f[k]]
  BY <1>2, <1>5 DEF Picks
<1>7. InPlace(s, f[k], crossed)
  BY <1>5, <1>6
<1>8. f[k] - 1 \in 1..Len(s) /\ f[k] - 1 \in Stays(s)
  <2>1. ~IsAssistant(s[f[k]]) /\ f[k] - 1 + 1 = f[k]
    BY <1>3, <1>5, <1>6 DEF IsAssistant
  <2>2. f[k] - 1 \in 1..Len(s)
    BY <1>3, <1>6, <1>7 DEF InPlace
  <2>3. QED
    BY <1>3, <2>1, <2>2 DEF Stays
<1>9. PICK l \in 1..Len(t) : f[l] = f[k] - 1
  BY <1>2, <1>8 DEF Picks
<1>10. l < k <=> f[l] < f[k]
  BY <1>2, <1>5 DEF Picks
<1>11. l < k /\ k - 1 \in 1..Len(t)
  BY <1>3, <1>5, <1>6, <1>9, <1>10
<1>12. (l < k - 1 <=> f[l] < f[k - 1]) /\ (k - 1 < k <=> f[k - 1] < f[k]) /\ f[k - 1] \in 1..Len(s)
  BY <1>2, <1>5, <1>11 DEF Picks
<1>13. l = k - 1
  BY <1>3, <1>5, <1>6, <1>9, <1>11, <1>12
<1>14. t[k - 1] = s[f[k] - 1]
  BY <1>2, <1>9, <1>13 DEF Picks
<1>15. QED
  BY <1>3, <1>4, <1>6, <1>7, <1>11, <1>14 DEF InPlace

(* What a cleaned history promises (cleanHistoryMessages). *)
CleanProps(c) ==
  /\ c \in Seq(Messages)
  /\ c # <<>> => c[1].role = "user"
  /\ \A i \in 1..Len(c) - 1 : ~(IsAssistant(c[i]) /\ IsAssistant(c[i + 1]))
  /\ \A i \in 1..Len(c) : c[i].role = "tool" => InPlace(c, i, crossed)

(* What is picked of an empty list is empty. *)
LEMMA AtEmpty ==
  ASSUME NEW s \in Seq(Messages), NEW I, At(s, I) # <<>>
  PROVE  s # <<>>
<1>1. At(s, I) \in Seq(Messages) /\ \E f : Picks(f, s, I, At(s, I))
  BY AtPicks
<1>2. Len(At(s, I)) \in Nat \ {0}
  BY <1>1, EmptySeq
<1>3. \E i \in 1..Len(s) : TRUE
  BY <1>1, <1>2 DEF Picks
<1>4. QED
  BY <1>3, EmptySeq

(* And it keeps that promise, for all lists of rows. *)
LEMMA CleanHistoryCleans ==
  ASSUME NEW s, Listed(s), ~crossed => ~Crossed(Members(s))
  PROVE  CleanProps(CleanHistory(s))
<1> DEFINE t == From(s, StartsWell)
           u == At(t, KeepTheAnswered(t))
           c == Merged(u)
<1>1. Listed(t) /\ s \in Seq(Messages)
  BY AtListed DEF From, Listed
<1>2. ~crossed => ~Crossed(Members(t))
  <2>1. Members(t) \subseteq Members(s)
    BY <1>1, AtRange DEF From, Members
  <2>2. QED
    BY <2>1, CrossedGrows
<1>3. t # <<>> => t[1].role = "user"
  <2>1. SUFFICES ASSUME t # <<>> PROVE t[1].role = "user"
    OBVIOUS
  <2>2. t[1].role \in StartsWell
    BY <1>1, <2>1, FromStarts
  <2>3. t \in Seq(Messages)
    BY <1>1 DEF Listed
  <2>4. Len(t) \in Nat \ {0}
    BY <2>1, <2>3, EmptySeq
  <2>5. Plain(t[1])
    BY <1>1, <2>4 DEF Listed
  <2>6. QED
    BY <2>2, <2>5 DEF StartsWell, Plain
<1> HIDE DEF t
<1>4. t \in Seq(Messages) /\ Listed(u) /\ u \in Seq(Messages)
  BY <1>1, AtListed DEF Listed
<1>5. \A k \in 1..Len(u) : u[k].role = "tool" => InPlace(u, k, crossed)
  BY <1>1, <1>2, KeptBehindCalls
<1>6. t # <<>> => 1 \in KeepTheAnswered(t)
  <2>1. SUFFICES ASSUME t # <<>> PROVE 1 \in KeepTheAnswered(t)
    OBVIOUS
  <2>2. 1 \in DOMAIN t
    BY <1>4, <2>1, LenProperties, EmptySeq
  <2>3. QED
    BY <1>3, <2>1, <2>2 DEF KeepTheAnswered
<1>7. u # <<>> => u[1].role = "user"
  BY <1>3, <1>4, <1>6, AtEmpty, AtFirst
<1> HIDE DEF u
<1>8. c \in Seq(Messages)
      /\ \A i \in 1..Len(c) - 1 : ~(IsAssistant(c[i]) /\ IsAssistant(c[i + 1]))
  BY <1>4, MergedApart
<1>9. \A i \in 1..Len(c) : c[i].role = "tool" => InPlace(c, i, crossed)
  BY <1>4, <1>5, MergedKeepsPairs
<1>10. c # <<>> => c[1].role = "user"
  <2>1. SUFFICES ASSUME c # <<>> PROVE c[1].role = "user"
    OBVIOUS
  <2>2. u # <<>>
    BY <1>4, <2>1, AtEmpty DEF Merged
  <2>3. ~IsAssistant(u[1])
    BY <1>7, <2>2 DEF IsAssistant
  <2>4. QED
    BY <1>4, <1>7, <2>2, <2>3, MergedEnds
<1>11. CleanHistory(s) = c
  BY DEF CleanHistory, t, u
<1>12. QED
  BY <1>8, <1>9, <1>10, <1>11 DEF CleanProps

(* A question that is the last row is not cleaned away. *)
LEMMA CleanHistoryEnds ==
  ASSUME NEW s \in Seq(Messages), s # <<>>, Last(s).role = "user"
  PROVE  CleanHistory(s) # <<>> /\ Last(CleanHistory(s)) = Last(s)
<1> DEFINE t == From(s, StartsWell)
           u == At(t, KeepTheAnswered(t))
<1>1. Len(s) \in 1..Len(s) /\ s[Len(s)].role \in StartsWell
  BY LenProperties, EmptySeq DEF Last, StartsWell
<1>2. t # <<>> /\ Last(t) = Last(s)
  BY <1>1, FromKeepsLast
<1>3. t \in Seq(Messages)
  BY AtPicks DEF From
<1> HIDE DEF t
<1>4. Len(t) \in KeepTheAnswered(t)
  <2>1. Len(t) \in DOMAIN t
    BY <1>2, <1>3, LenProperties, EmptySeq
  <2>2. t[Len(t)].role = "user"
    BY <1>2 DEF Last
  <2>3. QED
    BY <2>1, <2>2 DEF KeepTheAnswered
<1>5. u \in Seq(Messages) /\ u # <<>> /\ Last(u) = Last(s)
  BY <1>2, <1>3, <1>4, AtPicks, AtLast
<1> HIDE DEF u
<1>6. QED
  BY <1>5, MergedEnds DEF CleanHistory, t, u

-----------------------------------------------------------------------------
(* Prompts that were cut. *)

(* cleanToolCallPairs keeps the system prompt in front and what stands     *)
(* last, unless that is a call.                                            *)
LEMMA CleanPairsEnds ==
  ASSUME NEW s \in Seq(Messages), s # <<>>, s[1].role = "system"
  PROVE  /\ CleanPairs(s) \in Seq(Messages) /\ CleanPairs(s) # <<>>
         /\ CleanPairs(s)[1] = s[1]
         /\ Last(s).role # "call" => Last(CleanPairs(s)) = Last(s)
<1> DEFINE t == From(s, Roles \ {"tool"})
           I == {i \in DOMAIN t : t[i].role = "call" =>
                   \E j \in i + 1..Len(t) :
                     t[j].role = "tool" /\ \A k \in i + 1..j - 1 : t[k].role = "system"}
<1>1. "system" \in Roles \ {"tool"} /\ 1 \in 1..Len(s)
  BY LenProperties, EmptySeq DEF Roles
<1>2. /\ t \in Seq(Messages) /\ t # <<>> /\ t[1] = s[1] /\ Last(t) = Last(s)
  BY <1>1, AtPicks, FromKeepsFirst, FromKeepsLast DEF From
<1>3. CleanPairs(s) = At(t, I)
  BY DEF CleanPairs
<1> HIDE DEF t
<1>4. 1 \in DOMAIN t /\ Len(t) \in DOMAIN t
  BY <1>2, LenProperties, EmptySeq
<1>5. 1 \in I
  BY <1>2, <1>4
<1>6. Last(s).role # "call" => Len(t) \in I
  BY <1>2, <1>4 DEF Last
<1> HIDE DEF I
<1>7. QED
  BY <1>2, <1>3, <1>5, <1>6, AtPicks, AtFirst, AtLast

(* A list of one message. *)
LEMMA OneMessage ==
  ASSUME NEW m \in Messages
  PROVE  <<m>> \in Seq(Messages) /\ Len(<<m>>) = 1 /\ <<m>>[1] = m
OBVIOUS

(* The messages that have no row are messages. *)
LEMMA OwnMessages ==
  /\ {SystemPrompt, SummaryNote, SearchCall, SearchAnswer} \subseteq Messages
  /\ SystemPrompt.role = "system" /\ SystemPrompt.id = 0
  /\ SearchCall.role = "call" /\ SearchCall.id = -2
  /\ SearchAnswer.role = "tool" /\ SearchAnswer.of = -2 /\ SearchAnswer.id = -3
BY ConversationAssumption
   DEF SystemPrompt, SummaryNote, SearchCall, SearchAnswer, Message, Messages, Roles

(* A compression keeps the system prompt in front and what stands last,    *)
(* whatever it takes for important, however narrow the window              *)
(* (CompressContext).                                                      *)
LEMMA CompressedEnds ==
  ASSUME NEW s \in Seq(Messages), s # <<>>, s[1].role = "system", NEW I, NEW noted \in BOOLEAN
  PROVE  /\ Compressed(s, I, noted) \in Seq(Messages) /\ Compressed(s, I, noted) # <<>>
         /\ Compressed(s, I, noted)[1] = s[1]
         /\ Len(s) > 1 /\ Last(s).role # "call" => Last(Compressed(s, I, noted)) = Last(s)
<1> DEFINE rest == Tail(s)
           out  == Len(rest) - (IF Window < Len(rest) THEN Window ELSE Len(rest))
           note == IF noted THEN <<SummaryNote>> ELSE <<>>
           w    == SubSeq(rest, out + 1, Len(rest))
           y    == <<s[1]>> \o note \o At(rest, I)
           x    == y \o w
<1>1. Len(s) \in Nat \ {0} /\ s[1] \in Messages
  BY LenProperties, EmptySeq, ElementOfSeq
<1>2. /\ rest \in Seq(Messages) /\ Len(rest) = Len(s) - 1
      /\ \A i \in 1..Len(rest) : rest[i] = s[i + 1]
  BY HeadTailProperties
<1> HIDE DEF rest
<1>3. /\ out \in 0..Len(rest) /\ Len(rest) \in Nat
      /\ Len(s) > 1 => out < Len(rest)
  BY <1>1, <1>2, ConversationAssumption
<1> HIDE DEF out
<1>4. /\ w \in Seq(Messages)
      /\ Len(s) > 1 => w # <<>> /\ Last(w) = Last(s)
  <2>1. \A i \in out + 1..Len(rest) : rest[i] \in Messages
    BY <1>2, <1>3, ElementOfSeq
  <2>2. /\ w \in Seq(Messages)
        /\ Len(w) = IF out + 1 <= Len(rest) THEN Len(rest) - (out + 1) + 1 ELSE 0
        /\ \A i \in 1..Len(rest) - (out + 1) + 1 : w[i] = rest[out + 1 + i - 1]
    BY <1>3, <2>1, SubSeqProperties
  <2> HIDE DEF w
  <2>3. ASSUME Len(s) > 1 PROVE w # <<>> /\ Last(w) = Last(s)
    <3>1. Len(w) = Len(rest) - out /\ Len(w) \in Nat \ {0}
      BY <1>3, <2>2, <2>3
    <3>2. w[Len(w)] = rest[Len(rest)]
      <4>1. Len(w) \in 1..Len(rest) - (out + 1) + 1 /\ out + 1 + Len(w) - 1 = Len(rest)
        BY <1>3, <3>1
      <4>2. QED
        BY <2>2, <4>1
    <3>3. rest[Len(rest)] = s[Len(s)]
      BY <1>1, <1>2, <2>3
    <3>4. w # <<>>
      BY <3>1, EmptySeq
    <3>5. QED
      BY <3>2, <3>3, <3>4 DEF Last
  <2>4. QED
    BY <2>2, <2>3
<1> HIDE DEF w
<1>5. y \in Seq(Messages) /\ Len(y) \in Nat \ {0} /\ y[1] = s[1]
  <2>1. note \in Seq(Messages) /\ At(rest, I) \in Seq(Messages) /\ <<s[1]>> \in Seq(Messages)
    BY <1>1, <1>2, AtPicks, EmptySeq, OneMessage, OwnMessages
  <2> HIDE DEF note
  <2>2. /\ <<s[1]>> \o note \in Seq(Messages)
        /\ Len(<<s[1]>> \o note) = 1 + Len(note) /\ (<<s[1]>> \o note)[1] = s[1]
    BY <1>1, <2>1, ConcatProperties, OneMessage, LenProperties
  <2>3. Len(note) \in Nat /\ Len(At(rest, I)) \in Nat
    BY <2>1, LenProperties
  <2>4. QED
    BY <2>1, <2>2, <2>3, ConcatProperties
<1> HIDE DEF y
<1>6. /\ x \in Seq(Messages) /\ x # <<>> /\ x[1] = s[1]
      /\ Len(s) > 1 => Last(x) = Last(s)
  <2>1. /\ x \in Seq(Messages) /\ Len(x) = Len(y) + Len(w) /\ Len(w) \in Nat
        /\ \A i \in 1..Len(y) + Len(w) : x[i] = IF i <= Len(y) THEN y[i] ELSE w[i - Len(y)]
    BY <1>4, <1>5, ConcatProperties, LenProperties
  <2>2. x[1] = s[1] /\ x # <<>>
    BY <1>5, <2>1, EmptySeq
  <2>3. ASSUME Len(s) > 1 PROVE x[Len(x)] = w[Len(w)]
    <3>1. Len(w) # 0
      BY <1>4, <2>3, EmptySeq
    <3>2. QED
      BY <1>5, <2>1, <3>1
  <2>4. QED
    BY <1>4, <2>1, <2>2, <2>3 DEF Last
<1> HIDE DEF x
<1>7. /\ CleanPairs(x) \in Seq(Messages) /\ CleanPairs(x) # <<>> /\ CleanPairs(x)[1] = s[1]
      /\ Len(s) > 1 /\ Last(s).role # "call" => Last(CleanPairs(x)) = Last(s)
  BY <1>6, CleanPairsEnds
<1>8. 1 \in 1..Len(CleanPairs(x)) /\ CleanPairs(x)[1].role \in StartsWell
  BY <1>7, LenProperties, EmptySeq DEF StartsWell
<1>9. Compressed(s, I, noted) = From(CleanPairs(x), StartsWell)
  BY DEF Compressed, x, y, w, out, rest
<1> DEFINE p == CleanPairs(x)
<1>10. /\ From(p, StartsWell) # <<>> /\ From(p, StartsWell)[1] = p[1]
       /\ Last(From(p, StartsWell)) = Last(p)
  BY <1>7, <1>8, FromKeepsFirst, FromKeepsLast
<1>11. From(p, StartsWell) \in Seq(Messages)
  BY <1>7, AtPicks DEF From
<1> HIDE DEF p
<1>12. QED
  BY <1>7, <1>9, <1>10, <1>11 DEF p

(* A set of places has a last one. *)
LEMMA LastOfSet ==
  ASSUME NEW n \in Nat, NEW J \in SUBSET (1..n), J # {}
  PROVE  \E i \in J : \A j \in J : j <= i
<1>1. IsFiniteSet(J)
  <2>1. IsFiniteSet(1..n)
    BY FS_Interval
  <2>2. QED
    BY <2>1, FS_Subset
<1>2. Ranked(J)
  BY <1>1 DEF Ranked
<1>3. Cardinality(J) \in Nat \ {0}
  BY <1>1, FS_CardinalityType, FS_EmptySet
<1>4. Nth(J, Cardinality(J)) \in J
  BY <1>2, <1>3, NthCounts
<1>5. ASSUME NEW j \in J PROVE j <= Nth(J, Cardinality(J))
  <2>1. PICK k \in 1..Cardinality(J) : Nth(J, k) = j
    BY <1>2, NthCounts
  <2>2. k < Cardinality(J) => Nth(J, k) < Nth(J, Cardinality(J))
    BY <1>2, <1>3, NthCounts
  <2>3. k \in Int /\ Cardinality(J) \in Int /\ j \in Int /\ Nth(J, Cardinality(J)) \in Int
    <3>1. \A i \in J : i \in Int
      BY <1>2 DEF Ranked
    <3>2. k \in Int /\ Cardinality(J) \in Int
      BY <1>3
    <3>3. Nth(J, Cardinality(J)) \in Int
      BY <1>4, <3>1
    <3>4. j \in Int
      BY <3>1
    <3>5. QED
      BY <3>2, <3>3, <3>4
  <2>4. QED
    BY <2>1, <2>2, <2>3
<1>6. QED
  BY <1>4, <1>5

(* So does the cut after the server's refusal (TrimMessagesToFit). *)
LEMMA TrimmedEnds ==
  ASSUME NEW s \in Seq(Messages), s # <<>>, NEW I
  PROVE  /\ Trimmed(s, I) \in Seq(Messages) /\ Trimmed(s, I) # <<>>
         /\ Trimmed(s, I)[1] = s[1] /\ Last(Trimmed(s, I)) = Last(s)
<1> DEFINE kept   == From(CleanPairs(At(s, I)), StartsWell)
           Askers == {i \in DOMAIN s : s[i].role = "user"}
           Asker  == IF Askers = {} \/ \E m \in Range(kept) \union {Last(s)} : m.role = "user"
                     THEN <<>>
                     ELSE <<s[CHOOSE i \in Askers : \A j \in Askers : j <= i]>>
           x == <<s[1]>> \o kept \o Asker
           y == x \o <<Last(s)>>
<1>1. Len(s) \in Nat \ {0} /\ s[1] \in Messages /\ Last(s) \in Messages
      /\ DOMAIN s = 1..Len(s)
  BY LenProperties, EmptySeq, ElementOfSeq DEF Last
<1>2. CASE Len(s) <= 2
  BY <1>2 DEF Trimmed
<1>3. CASE ~(Len(s) <= 2)
  <2>1. kept \in Seq(Messages)
    <3>1. At(s, I) \in Seq(Messages)
      BY AtPicks
    <3>2. From(At(s, I), Roles \ {"tool"}) \in Seq(Messages)
      BY <3>1, AtPicks DEF From
    <3>3. CleanPairs(At(s, I)) \in Seq(Messages)
      BY <3>2, AtPicks DEF CleanPairs
    <3>4. QED
      BY <3>3, AtPicks DEF From
  <2> HIDE DEF kept
  <2>2. Asker \in Seq(Messages)
    <3>1. CASE Askers = {} \/ \E m \in Range(kept) \union {Last(s)} : m.role = "user"
      BY <3>1, EmptySeq
    <3>2. CASE ~(Askers = {} \/ \E m \in Range(kept) \union {Last(s)} : m.role = "user")
      <4> DEFINE last == CHOOSE i \in Askers : \A j \in Askers : j <= i
      <4>1. \E i \in Askers : \A j \in Askers : j <= i
        BY <1>1, <3>2, LastOfSet
      <4>2. last \in Askers
        BY <4>1
      <4>3. s[last] \in Messages
        BY <1>1, <4>2, ElementOfSeq
      <4> HIDE DEF last
      <4>4. <<s[last]>> \in Seq(Messages)
        BY <4>3, OneMessage
      <4>5. Asker = <<s[last]>>
        BY <3>2 DEF last
      <4>6. QED
        BY <4>4, <4>5
    <3>3. QED
      BY <3>1, <3>2
  <2> HIDE DEF Asker
  <2>3. x \in Seq(Messages) /\ Len(x) \in Nat \ {0} /\ x[1] = s[1]
    <3>1. /\ <<s[1]>> \o kept \in Seq(Messages)
          /\ Len(<<s[1]>> \o kept) = 1 + Len(kept) /\ (<<s[1]>> \o kept)[1] = s[1]
      BY <1>1, <2>1, ConcatProperties, OneMessage, LenProperties
    <3>2. Len(kept) \in Nat /\ Len(Asker) \in Nat
      BY <2>1, <2>2, LenProperties
    <3>3. QED
      BY <2>2, <3>1, <3>2, ConcatProperties
  <2> HIDE DEF x
  <2>4. /\ y \in Seq(Messages) /\ Len(y) = Len(x) + 1
        /\ \A i \in 1..Len(x) + 1 : y[i] = IF i <= Len(x) THEN x[i] ELSE <<Last(s)>>[i - Len(x)]
    BY <1>1, <2>3, ConcatProperties, OneMessage
  <2>5. y[1] = s[1] /\ y[Len(y)] = Last(s) /\ y # <<>>
    BY <1>1, <2>3, <2>4, EmptySeq, OneMessage
  <2>6. Trimmed(s, I) = y
    BY <1>3 DEF Trimmed, x, kept, Asker
  <2>7. QED
    BY <2>4, <2>5, <2>6 DEF Last
<1>4. QED
  BY <1>2, <1>3

-----------------------------------------------------------------------------
(* Prompts as they are built. *)

(* The shape of a prompt that TurnsAlternate asks for, *)
Alternating(p) ==
  /\ Len(p) > 1 => p[2].role = "user"
  /\ \A i \in 2..Len(p) - 1 : ~(IsAssistant(p[i]) /\ IsAssistant(p[i + 1]))
(* and the one that AnswersFollowCalls asks for. *)
AnswersPlaced(p, x) == \A i \in 1..Len(p) : p[i].role = "tool" => InPlace(p, i, x)

(* The system prompt in front of a list. *)
LEMMA SystemFirst ==
  ASSUME NEW c \in Seq(Messages)
  PROVE  LET p == <<SystemPrompt>> \o c
         IN /\ p \in Seq(Messages) /\ p # <<>> /\ p[1] = SystemPrompt
            /\ Len(p) = Len(c) + 1 /\ Len(c) \in Nat
            /\ \A i \in 1..Len(c) : p[i + 1] = c[i]
            /\ c # <<>> => Last(p) = Last(c) /\ Len(p) > 1
<1> DEFINE p == <<SystemPrompt>> \o c
<1>1. SystemPrompt \in Messages
  BY OwnMessages
<1>2. /\ p \in Seq(Messages) /\ Len(p) = 1 + Len(c) /\ Len(c) \in Nat
      /\ \A i \in 1..1 + Len(c) : p[i] = IF i <= 1 THEN <<SystemPrompt>>[i] ELSE c[i - 1]
  BY <1>1, ConcatProperties, OneMessage, LenProperties
<1> HIDE DEF p
<1>3. p[1] = SystemPrompt /\ p # <<>>
  BY <1>1, <1>2, EmptySeq, OneMessage
<1>4. ASSUME NEW i \in 1..Len(c) PROVE p[i + 1] = c[i]
  <2>1. i + 1 \in 1..1 + Len(c) /\ ~(i + 1 <= 1) /\ i + 1 - 1 = i
    BY <1>2
  <2>2. QED
    BY <1>2, <2>1
<1>5. c # <<>> => Last(p) = Last(c) /\ Len(p) > 1
  <2>1. SUFFICES ASSUME c # <<>> PROVE Last(p) = Last(c) /\ Len(p) > 1
    OBVIOUS
  <2>2. Len(c) \in 1..Len(c) /\ Len(p) = Len(c) + 1
    BY <1>2, <2>1, EmptySeq
  <2>3. p[Len(p)] = c[Len(c)]
    BY <1>4, <2>2
  <2>4. QED
    BY <1>2, <2>2, <2>3 DEF Last
<1>6. QED
  BY <1>2, <1>3, <1>4, <1>5 DEF p

(* A cleaned history behind the system prompt has both shapes. *)
LEMMA PromptOfClean ==
  ASSUME NEW c, CleanProps(c)
  PROVE  Alternating(<<SystemPrompt>> \o c) /\ AnswersPlaced(<<SystemPrompt>> \o c, crossed)
<1> DEFINE p == <<SystemPrompt>> \o c
<1>1. c \in Seq(Messages)
  BY DEF CleanProps
<1>2. /\ p \in Seq(Messages) /\ p # <<>> /\ p[1] = SystemPrompt
      /\ Len(p) = Len(c) + 1 /\ Len(c) \in Nat
      /\ \A i \in 1..Len(c) : p[i + 1] = c[i]
  BY <1>1, SystemFirst
<1> HIDE DEF p
<1>3. ASSUME NEW i \in 2..Len(p) PROVE p[i] = c[i - 1] /\ i - 1 \in 1..Len(c)
  <2>1. i - 1 \in 1..Len(c) /\ i - 1 + 1 = i
    BY <1>2
  <2>2. QED
    BY <1>2, <2>1
<1>4. Alternating(p)
  <2>1. ASSUME Len(p) > 1 PROVE p[2].role = "user"
    <3>1. 2 \in 2..Len(p) /\ Len(c) # 0
      BY <1>2, <2>1
    <3>2. p[2] = c[1]
      BY <1>3, <3>1
    <3>3. QED
      BY <3>1, <3>2, EmptySeq DEF CleanProps
  <2>2. ASSUME NEW i \in 2..Len(p) - 1, IsAssistant(p[i]), IsAssistant(p[i + 1]) PROVE FALSE
    <3>1. i \in 2..Len(p) /\ i + 1 \in 2..Len(p) /\ i + 1 - 1 = i - 1 + 1 /\ i - 1 \in 1..Len(c) - 1
      BY <1>2
    <3>2. p[i] = c[i - 1] /\ p[i + 1] = c[i - 1 + 1]
      BY <1>3, <3>1
    <3>3. QED
      BY <2>2, <3>1, <3>2 DEF CleanProps
  <2>3. QED
    BY <2>1, <2>2 DEF Alternating
<1>5. AnswersPlaced(p, crossed)
  <2>1. SUFFICES ASSUME NEW i \in 1..Len(p), p[i].role = "tool" PROVE InPlace(p, i, crossed)
    BY DEF AnswersPlaced
  <2>2. i # 1
    BY <1>2, <2>1, OwnMessages
  <2>3. i \in 2..Len(p)
    BY <1>2, <2>2
  <2>4. p[i] = c[i - 1] /\ i - 1 \in 1..Len(c)
    BY <1>3, <2>3
  <2>5. InPlace(c, i - 1, crossed)
    BY <2>1, <2>4 DEF CleanProps
  <2>6. i - 1 \in 2..Len(p)
    BY <1>2, <2>3, <2>4, <2>5 DEF InPlace
  <2>7. p[i - 1] = c[i - 1 - 1]
    BY <1>3, <2>6
  <2>8. QED
    BY <1>2, <2>3, <2>4, <2>5, <2>7 DEF InPlace
<1>6. QED
  BY <1>4, <1>5 DEF p

(* A cleaned list is a list of messages, whatever it was cleaned from. *)
LEMMA CleanHistoryType ==
  ASSUME NEW s \in Seq(Messages)
  PROVE  CleanHistory(s) \in Seq(Messages)
<1> DEFINE t == From(s, StartsWell)
           u == At(t, KeepTheAnswered(t))
<1>1. t \in Seq(Messages)
  BY AtPicks DEF From
<1> HIDE DEF t
<1>2. u \in Seq(Messages)
  BY <1>1, AtPicks
<1> HIDE DEF u
<1>3. Merged(u) \in Seq(Messages)
  BY <1>2, AtPicks DEF Merged
<1>4. QED
  BY <1>3 DEF CleanHistory, t, u

(* What a prompt built from the rows s promises. *)
BuiltWell(b, s) ==
  /\ b = Built(b.prompt, b.kind, b.left)
  /\ b.prompt \in Seq(Messages) /\ b.prompt # <<>> /\ b.prompt[1] = SystemPrompt
  /\ b.kind \in {"history", "squeezed"}
  /\ s # <<>> /\ Last(s).role = "user" => Last(b.prompt) = Last(s)
  /\ b.kind = "history" => Alternating(b.prompt) /\ AnswersPlaced(b.prompt, crossed)

(* The three ways to build a prompt keep that promise: from all rows, *)
LEMMA WholeHistoryIsWell ==
  ASSUME NEW s, Listed(s), ~crossed => ~Crossed(Members(s)), NEW b \in WholeHistory(s)
  PROVE  BuiltWell(b, s)
<1> DEFINE c == CleanHistory(s)
           p == <<SystemPrompt>> \o c
<1>1. s \in Seq(Messages) /\ CleanProps(c)
  BY CleanHistoryCleans DEF Listed
<1>2. c \in Seq(Messages)
  BY <1>1 DEF CleanProps
<1>3. s # <<>> /\ Last(s).role = "user" => c # <<>> /\ Last(c) = Last(s)
  BY <1>1, CleanHistoryEnds
<1>4. b.prompt = p /\ b.kind = "history" /\ b = Built(b.prompt, b.kind, b.left)
  BY DEF WholeHistory, Built
<1> HIDE DEF c
<1>5. p \in Seq(Messages) /\ p # <<>> /\ p[1] = SystemPrompt /\ (c # <<>> => Last(p) = Last(c))
  BY <1>2, SystemFirst
<1>6. Alternating(p) /\ AnswersPlaced(p, crossed)
  BY <1>1, PromptOfClean
<1> HIDE DEF p
<1>7. QED
  BY <1>3, <1>4, <1>5, <1>6 DEF BuiltWell

(* with or without a compression of what did not fit, *)
LEMMA SqueezedIsWell ==
  ASSUME NEW s \in Seq(Messages), NEW c \in Seq(Messages),
         s # <<>> /\ Last(s).role = "user" => c # <<>> /\ Last(c) = Last(s),
         NEW I, NEW b, b = Built(b.prompt, "squeezed", b.left),
         \/ b.prompt = <<SystemPrompt>> \o c
         \/ b.prompt = Compressed(<<SystemPrompt>> \o c, I, Noted)
  PROVE  BuiltWell(b, s)
<1> DEFINE h == <<SystemPrompt>> \o c
<1>1. /\ h \in Seq(Messages) /\ h # <<>> /\ h[1] = SystemPrompt
      /\ c # <<>> => Last(h) = Last(c) /\ Len(h) > 1
  BY SystemFirst
<1>2. SystemPrompt.role = "system" /\ Noted \in BOOLEAN
  BY OwnMessages DEF Noted
<1> HIDE DEF h
<1>3. /\ Compressed(h, I, Noted) \in Seq(Messages) /\ Compressed(h, I, Noted) # <<>>
      /\ Compressed(h, I, Noted)[1] = h[1]
      /\ Len(h) > 1 /\ Last(h).role # "call" => Last(Compressed(h, I, Noted)) = Last(h)
  BY <1>1, <1>2, CompressedEnds
<1>4. b.kind = "squeezed" /\ b = Built(b.prompt, b.kind, b.left)
  BY DEF Built
<1>5. QED
  BY <1>1, <1>3, <1>4 DEF BuiltWell, h

(* from the rows behind those that do not fit, *)
LEMMA LaterHistoryIsWell ==
  ASSUME NEW s, Listed(s), NEW b \in LaterHistory(s)
  PROVE  BuiltWell(b, s)
<1>1. s \in Seq(Messages) /\ Len(s) \in Nat
  BY LenProperties DEF Listed
<1>2. PICK k \in 1..Len(s) - 1 :
        LET h == <<SystemPrompt>> \o CleanHistory(SubSeq(s, k + 1, Len(s)))
        IN \E I \in Important(Outside(h)) : b = Built(Compressed(h, I, Noted), "squeezed", k)
  BY DEF LaterHistory
<1> DEFINE q == SubSeq(s, k + 1, Len(s))
<1>3. /\ q \in Seq(Messages) /\ Len(q) = Len(s) - k
      /\ \A i \in 1..Len(s) - k : q[i] = s[k + i]
  <2>1. \A i \in k + 1..Len(s) : s[i] \in Messages
    BY <1>1, ElementOfSeq
  <2>2. /\ q \in Seq(Messages)
        /\ Len(q) = IF k + 1 <= Len(s) THEN Len(s) - (k + 1) + 1 ELSE 0
        /\ \A i \in 1..Len(s) - (k + 1) + 1 : q[i] = s[k + 1 + i - 1]
    BY <1>1, <2>1, SubSeqProperties
  <2> HIDE DEF q
  <2>3. Len(s) - (k + 1) + 1 = Len(s) - k /\ k + 1 <= Len(s)
    BY <1>1
  <2>4. ASSUME NEW i \in 1..Len(s) - k PROVE q[i] = s[k + i]
    <3>1. k + 1 + i - 1 = k + i /\ i \in 1..Len(s) - (k + 1) + 1
      BY <1>1
    <3>2. q[i] = s[k + 1 + i - 1]
      BY <2>2, <3>1
    <3>3. QED
      BY <3>1, <3>2
  <2>5. Len(q) = Len(s) - k
    BY <2>2, <2>3
  <2>6. QED
    BY <2>2, <2>4, <2>5
<1> HIDE DEF q
<1>4. q # <<>> /\ Last(q) = Last(s)
  <2>1. Len(q) \in 1..Len(s) - k /\ k + Len(q) = Len(s)
    BY <1>1, <1>3
  <2>2. QED
    BY <1>3, <2>1, EmptySeq DEF Last
<1>5. /\ CleanHistory(q) \in Seq(Messages)
      /\ Last(s).role = "user" => CleanHistory(q) # <<>> /\ Last(CleanHistory(q)) = Last(s)
  BY <1>3, <1>4, CleanHistoryType, CleanHistoryEnds
<1>6. PICK I : b = Built(Compressed(<<SystemPrompt>> \o CleanHistory(q), I, Noted), "squeezed", k)
  BY <1>2 DEF q
<1>7. b = Built(b.prompt, "squeezed", b.left) /\ b.prompt = Compressed(<<SystemPrompt>> \o CleanHistory(q), I, Noted)
  BY <1>6 DEF Built
<1>8. QED
  BY <1>1, <1>5, <1>7, SqueezedIsWell

(* and from the last row alone. *)
LEMMA LastRowOnlyIsWell ==
  ASSUME NEW s, Listed(s), NEW b \in LastRowOnly(s)
  PROVE  BuiltWell(b, s)
<1> DEFINE c == IF s = <<>> THEN <<>> ELSE <<Last(s)>>
<1>1. s \in Seq(Messages)
  BY DEF Listed
<1>2. c \in Seq(Messages) /\ (s # <<>> => c # <<>> /\ Last(c) = Last(s))
  <2>1. CASE s = <<>>
    BY <2>1, EmptySeq
  <2>2. CASE s # <<>>
    <3>1. Last(s) \in Messages
      BY <1>1, <2>2, LenProperties, EmptySeq, ElementOfSeq DEF Last
    <3>2. <<Last(s)>> \in Seq(Messages) /\ Len(<<Last(s)>>) = 1 /\ <<Last(s)>>[1] = Last(s)
      BY <3>1, OneMessage
    <3>3. <<Last(s)>> # <<>>
      BY <3>2, EmptySeq
    <3>4. Last(<<Last(s)>>) = Last(s)
      BY <3>2 DEF Last
    <3>5. QED
      BY <2>2, <3>2, <3>3, <3>4
  <2>3. QED
    BY <2>1, <2>2
<1>3. /\ b = Built(b.prompt, "squeezed", b.left)
      /\ \/ b.prompt = <<SystemPrompt>> \o c
         \/ b.prompt = Compressed(<<SystemPrompt>> \o c, {}, Noted)
  BY DEF LastRowOnly, Built
<1> HIDE DEF c
<1>4. QED
  BY <1>1, <1>2, <1>3, SqueezedIsWell

(* The rows as they are read are in the order of their times. *)
LEMMA InOrderListed ==
  ASSUME NEW R, NEW n \in Nat, \A m \in R : Plain(m) /\ m.id \in 1..n
  PROVE  Listed(InOrder(R)) /\ Members(InOrder(R)) \subseteq R
<1> DEFINE ids == {m.id : m \in R}
           c == Cardinality(ids)
           t == [k \in 1..c |-> CHOOSE m \in R : m.id = Nth(ids, k)]
<1>1. Ranked(ids)
  <2>1. IsFiniteSet(1..n) /\ ids \in SUBSET (1..n)
    BY FS_Interval
  <2>2. IsFiniteSet(ids)
    BY <2>1, FS_Subset
  <2>3. QED
    BY <2>1, <2>2 DEF Ranked
<1>2. \A i \in ids : \E m \in R : m.id = i
  OBVIOUS
<1> HIDE DEF ids
<1>3. /\ c \in Nat
      /\ \A k \in 1..c : Nth(ids, k) \in ids
      /\ \A k, l \in 1..c : k < l <=> Nth(ids, k) < Nth(ids, l)
  BY <1>1, NthCounts
<1> HIDE DEF c
<1>4. \A k \in 1..c : t[k] \in R /\ t[k].id = Nth(ids, k)
  BY <1>2, <1>3
<1>5. \A k \in 1..c : (CHOOSE m \in R : m.id = Nth(ids, k)) \in Messages
  BY <1>4 DEF Plain
<1>6. t \in Seq(Messages)
  BY <1>3, <1>5, IsASeq
<1>7. Len(t) = c
  <2>1. DOMAIN t = 1..c
    OBVIOUS
  <2>2. QED
    BY <1>3, <1>6, <2>1, LenProperties
<1>8. InOrder(R) = t
  BY DEF InOrder, ids, c
<1> HIDE DEF t
<1>9. Listed(t)
  BY <1>3, <1>4, <1>6, <1>7 DEF Listed
<1>10. Members(t) \subseteq R
  BY <1>4, <1>7 DEF Members
<1>11. QED
  BY <1>8, <1>9, <1>10

(* A call and its answer behind a prompt (appendToolCallMessages,          *)
(* appendAuxiliaryContext).                                                *)
LEMMA PairAppended ==
  ASSUME NEW p \in Seq(Messages), p # <<>>, NEW c \in Messages, NEW t \in Messages,
         c.role = "call", t.role = "tool", t.of = c.id
  PROVE  LET q == p \o <<c, t>>
         IN /\ q \in Seq(Messages) /\ q # <<>> /\ q[1] = p[1] /\ Last(q) = t /\ Len(q) > 1
            /\ AnswersPlaced(p, crossed) => AnswersPlaced(q, crossed)
<1> DEFINE q == p \o <<c, t>>
<1>1. <<c, t>> \in Seq(Messages) /\ Len(<<c, t>>) = 2
      /\ <<c, t>>[1] = c /\ <<c, t>>[2] = t
  OBVIOUS
<1>2. Len(p) \in Nat \ {0}
  BY LenProperties, EmptySeq
<1>3. /\ q \in Seq(Messages) /\ Len(q) = Len(p) + 2
      /\ \A i \in 1..Len(p) + 2 : q[i] = IF i <= Len(p) THEN p[i] ELSE <<c, t>>[i - Len(p)]
  BY <1>1, ConcatProperties
<1> HIDE DEF q
<1>4. \A i \in 1..Len(p) : q[i] = p[i]
  BY <1>2, <1>3
<1>5. q[Len(p) + 1] = c
  <2>1. Len(p) + 1 \in 1..Len(p) + 2 /\ ~(Len(p) + 1 <= Len(p)) /\ Len(p) + 1 - Len(p) = 1
    BY <1>2
  <2>2. QED
    BY <1>1, <1>3, <2>1
<1>6. q[Len(p) + 2] = t
  <2>1. Len(p) + 2 \in 1..Len(p) + 2 /\ ~(Len(p) + 2 <= Len(p)) /\ Len(p) + 2 - Len(p) = 2
    BY <1>2
  <2>2. QED
    BY <1>1, <1>3, <2>1
<1>7. q # <<>> /\ q[1] = p[1] /\ Last(q) = t /\ Len(q) > 1
  BY <1>2, <1>3, <1>4, <1>6, EmptySeq DEF Last
<1>8. ASSUME AnswersPlaced(p, crossed) PROVE AnswersPlaced(q, crossed)
  <2>1. SUFFICES ASSUME NEW i \in 1..Len(q), q[i].role = "tool" PROVE InPlace(q, i, crossed)
    BY DEF AnswersPlaced
  <2>2. CASE i \in 1..Len(p)
    <3>1. InPlace(p, i, crossed)
      BY <1>4, <1>8, <2>1, <2>2 DEF AnswersPlaced
    <3>2. i - 1 \in 1..Len(p)
      BY <1>2, <2>2, <3>1 DEF InPlace
    <3>3. QED
      BY <1>4, <2>2, <3>1, <3>2 DEF InPlace
  <2>3. CASE i = Len(p) + 1
    BY <1>5, <2>1, <2>3
  <2>4. CASE i = Len(p) + 2
    <3>1. i - 1 = Len(p) + 1 /\ i > 1
      BY <1>2, <2>4
    <3>2. QED
      BY <1>5, <1>6, <2>4, <3>1 DEF InPlace
  <2>5. QED
    BY <1>2, <1>3, <2>1, <2>2, <2>3, <2>4
<1>9. QED
  BY <1>3, <1>7, <1>8 DEF q

-----------------------------------------------------------------------------
(* The invariant of the prompts. *)

(* The places at which a generation has a prompt. *)
Answering == {"streaming", "calling", "reply"}

(* The rows are messages of the past, and unless calls have crossed they   *)
(* do not.                                                                 *)
Shared ==
  /\ pc = [g \in Gens |-> pc[g]] /\ held = [g \in Gens |-> held[g]]
  /\ seen = [g \in Gens |-> seen[g]] /\ prompt = [g \in Gens |-> prompt[g]]
  /\ kind = [g \in Gens |-> kind[g]] /\ newest = [g \in Gens |-> newest[g]]
  /\ clock \in Nat \ {0} /\ crossed \in BOOLEAN
  /\ \A m \in rows : Plain(m) /\ m.id \in 1..clock - 1
  /\ ~crossed => ~Crossed(rows)

(* What a generation is about to insert has a time and is nobody's answer; *)
(* a tool round begins with its call.                                      *)
Writes(g) ==
  /\ held[g] \in Seq(Messages)
  /\ \A i \in 1..Len(held[g]) :
       Plain(held[g][i]) /\ held[g][i].id \in 1..clock - 1 /\ held[g][i].role # "tool"
  /\ pc[g] \notin {"question", "calling", "reply"} => held[g] = <<>>
  /\ pc[g] = "calling" => held[g] # <<>> /\ held[g][1].role = "call"

(* What a generation has read is rows as they once were: `crossed'         *)
(* remembers whether these crossed, though some may be gone by now.        *)
Reads(g) == Listed(seen[g]) /\ (~crossed => ~Crossed(Members(seen[g])))

(* What a generation sends, as long as it has something to send. *)
Sends(g) ==
  /\ prompt[g] \in Seq(Messages)
  /\ prompt[g] # <<>> <=> pc[g] \in Answering
  /\ prompt[g] # <<>> => prompt[g][1] = SystemPrompt
  /\ prompt[g] # <<>> /\ newest[g] # None => Last(prompt[g]).id = newest[g]
  /\ kind[g] = "history" => Alternating(prompt[g])
  /\ kind[g] \in {"history", "extended"} => AnswersPlaced(prompt[g], crossed)

(* The inductive invariant. *)
Inv == Shared /\ \A g \in Gens : Writes(g) /\ Reads(g) /\ Sends(g)

(* A step of g leaves the other generations alone. *)
Alone(g) ==
  /\ \A h \in Gens \ {g} :
       /\ pc'[h] = pc[h] /\ held'[h] = held[h] /\ seen'[h] = seen[h]
       /\ prompt'[h] = prompt[h] /\ kind'[h] = kind[h] /\ newest'[h] = newest[h]
  /\ clock' >= clock /\ (crossed => crossed')

(* It then suffices to look at what the rows and g itself have become. *)
LEMMA OthersKept ==
  ASSUME Inv, NEW g \in Gens, Alone(g), Shared', Writes(g)', Reads(g)', Sends(g)'
  PROVE  Inv'
<1>1. ASSUME NEW h \in Gens \ {g} PROVE Writes(h)' /\ Reads(h)' /\ Sends(h)'
  <2>1. Writes(h) /\ Reads(h) /\ Sends(h)
    BY DEF Inv
  <2>2. /\ pc'[h] = pc[h] /\ held'[h] = held[h] /\ seen'[h] = seen[h]
        /\ prompt'[h] = prompt[h] /\ kind'[h] = kind[h] /\ newest'[h] = newest[h]
        /\ clock' >= clock /\ (crossed => crossed') /\ clock \in Int /\ clock' \in Int
    BY DEF Alone, Inv, Shared
  <2>3. Writes(h)'
    BY <2>1, <2>2 DEF Writes
  <2>4. Reads(h)'
    BY <2>1, <2>2 DEF Reads
  <2>5. Sends(h)'
    <3>1. kind[h] \in {"history", "extended"} => AnswersPlaced(prompt[h], crossed')
      BY <2>1, <2>2 DEF Sends, AnswersPlaced, InPlace
    <3>2. QED
      BY <2>1, <2>2, <3>1 DEF Sends, AnswersPlaced, InPlace
  <2>6. QED
    BY <2>3, <2>4, <2>5
<1>2. QED
  BY <1>1 DEF Inv

-----------------------------------------------------------------------------
(* Its preservation. *)

(* A message that gets its time is younger than everything stored or held. *)
LEMMA Stamped ==
  ASSUME Inv, NEW g \in Gens, NEW role \in {"user", "assistant", "call"},
         Stamp(g, role, None), held[g] = <<>>
  PROVE  /\ clock' = clock + 1 /\ held' = [h \in Gens |-> held'[h]]
         /\ \A h \in Gens \ {g} : held'[h] = held[h]
         /\ held'[g] \in Seq(Messages) /\ held'[g] # <<>> /\ held'[g][1].role = role
         /\ \A i \in 1..Len(held'[g]) :
              Plain(held'[g][i]) /\ held'[g][i].id \in 1..clock /\ held'[g][i].role # "tool"
<1> DEFINE m == Message(clock, role, None)
<1>1. clock \in 1..MaxRows /\ clock' = clock + 1 /\ MaxRows \in Nat /\ clock \in Nat \ {0}
  BY ConversationAssumption DEF Stamp, Inv, Shared
<1>2. m \in Messages /\ m.role = role /\ m.id = clock /\ Plain(m) /\ role # "tool"
  BY <1>1 DEF Message, Messages, Roles, None, Plain
<1>3. held' = [held EXCEPT ![g] = Append(@, m)]
  BY DEF Stamp
<1> HIDE DEF m
<1>4. held'[g] = Append(<<>>, m) /\ held' = [h \in Gens |-> held'[h]]
      /\ \A h \in Gens \ {g} : held'[h] = held[h]
  BY <1>3 DEF Inv, Shared
<1>5. /\ Append(<<>>, m) \in Seq(Messages) /\ Append(<<>>, m) # <<>>
      /\ Len(Append(<<>>, m)) = 1 /\ Append(<<>>, m)[1] = m
  BY <1>2
<1>6. QED
  BY <1>1, <1>2, <1>4, <1>5

(* The steps of a generation, one by one. *)
LEMMA SendMessageKeeps ==
  ASSUME Inv, NEW g \in Gens, SendMessage(g)
  PROVE  Inv'
<1>1. /\ pc[g] = "idle" /\ pc' = [pc EXCEPT ![g] = "question"] /\ Stamp(g, "user", None)
      /\ UNCHANGED <<rows, crossed, seen, prompt, kind, newest>>
  BY DEF SendMessage, MayBegin
<1>2. Writes(g) /\ Reads(g) /\ Sends(g) /\ Shared
  BY DEF Inv
<1>3. held[g] = <<>>
  BY <1>1, <1>2 DEF Writes
<1>4. /\ clock' = clock + 1 /\ held' = [h \in Gens |-> held'[h]]
      /\ \A h \in Gens \ {g} : held'[h] = held[h]
      /\ held'[g] \in Seq(Messages)
      /\ \A i \in 1..Len(held'[g]) :
           Plain(held'[g][i]) /\ held'[g][i].id \in 1..clock /\ held'[g][i].role # "tool"
  BY <1>1, <1>3, Stamped
<1>5. pc'[g] = "question" /\ pc' = [h \in Gens |-> pc'[h]] /\ \A h \in Gens \ {g} : pc'[h] = pc[h]
  BY <1>1, <1>2 DEF Shared
<1>6. Shared' /\ Alone(g)
  BY <1>1, <1>2, <1>4, <1>5 DEF Shared, Alone
<1>7. Writes(g)'
  <2>1. clock' - 1 = clock
    BY <1>2, <1>4 DEF Shared
  <2>2. QED
    BY <1>4, <1>5, <2>1 DEF Writes
<1>8. Reads(g)' /\ Sends(g)'
  BY <1>1, <1>2, <1>5 DEF Reads, Sends, Answering, Alternating, AnswersPlaced, InPlace
<1>9. QED
  BY <1>6, <1>7, <1>8, OthersKept

LEMMA StampKeeps ==
  ASSUME Inv, NEW g \in Gens, StampCall(g) \/ StampReply(g)
  PROVE  Inv'
<1>1. PICK role \in {"assistant", "call"}, next \in {"calling", "reply"} :
        /\ pc[g] = "streaming" /\ pc' = [pc EXCEPT ![g] = next] /\ Stamp(g, role, None)
        /\ next = "calling" => role = "call"
        /\ UNCHANGED <<rows, crossed, seen, prompt, kind, newest>>
  BY DEF StampCall, StampReply
<1>2. Writes(g) /\ Reads(g) /\ Sends(g) /\ Shared
  BY DEF Inv
<1>3. held[g] = <<>>
  BY <1>1, <1>2 DEF Writes
<1>4. /\ clock' = clock + 1 /\ held' = [h \in Gens |-> held'[h]]
      /\ \A h \in Gens \ {g} : held'[h] = held[h]
      /\ held'[g] \in Seq(Messages) /\ held'[g] # <<>> /\ held'[g][1].role = role
      /\ \A i \in 1..Len(held'[g]) :
           Plain(held'[g][i]) /\ held'[g][i].id \in 1..clock /\ held'[g][i].role # "tool"
  BY <1>1, <1>3, Stamped
<1>5. pc'[g] = next /\ pc' = [h \in Gens |-> pc'[h]] /\ \A h \in Gens \ {g} : pc'[h] = pc[h]
  BY <1>1, <1>2 DEF Shared
<1>6. Shared' /\ Alone(g)
  BY <1>1, <1>2, <1>4, <1>5 DEF Shared, Alone
<1>7. Writes(g)'
  <2>1. clock' - 1 = clock
    BY <1>2, <1>4 DEF Shared
  <2>2. QED
    BY <1>1, <1>4, <1>5, <2>1 DEF Writes
<1>8. Reads(g)' /\ Sends(g)'
  BY <1>1, <1>2, <1>5 DEF Reads, Sends, Answering, Alternating, AnswersPlaced, InPlace
<1>9. QED
  BY <1>6, <1>7, <1>8, OthersKept

(* Only answers can cross. *)
LEMMA PlainRowsCrossNothing ==
  ASSUME NEW R, NEW T, \A m \in T : m.role # "tool", Crossed(R \union T)
  PROVE  Crossed(R)
BY DEF Crossed

(* A question or a reply may be stored at any time. *)
LEMMA HeldStored ==
  ASSUME Inv, NEW g \in Gens
  PROVE  /\ \A m \in rows \union Range(held[g]) : Plain(m) /\ m.id \in 1..clock - 1
         /\ ~crossed => ~Crossed(rows \union Range(held[g]))
<1>1. Writes(g) /\ Shared
  BY DEF Inv
<1>2. DOMAIN held[g] = 1..Len(held[g])
  BY <1>1, LenProperties DEF Writes
<1>3. \A m \in Range(held[g]) : Plain(m) /\ m.id \in 1..clock - 1 /\ m.role # "tool"
  BY <1>1, <1>2 DEF Writes, Range
<1>4. QED
  BY <1>1, <1>3, PlainRowsCrossNothing DEF Shared

LEMMA StoreQuestionKeeps ==
  ASSUME Inv, NEW g \in Gens, StoreQuestion(g)
  PROVE  Inv'
<1>1. /\ pc[g] = "question" /\ pc' = [pc EXCEPT ![g] = "read"]
      /\ rows' = rows \union Range(held[g]) /\ held' = [held EXCEPT ![g] = <<>>]
      /\ seen' = [seen EXCEPT ![g] = InOrder(rows')]
      /\ UNCHANGED <<crossed, clock, prompt, kind, newest>>
  BY DEF StoreQuestion, Stores
<1>2. Writes(g) /\ Reads(g) /\ Sends(g) /\ Shared
  BY DEF Inv
<1>3. /\ \A m \in rows' : Plain(m) /\ m.id \in 1..clock - 1
      /\ ~crossed => ~Crossed(rows')
  BY <1>1, HeldStored
<1>4. clock - 1 \in Nat
  BY <1>2 DEF Shared
<1>5. Listed(InOrder(rows')) /\ Members(InOrder(rows')) \subseteq rows'
  BY <1>3, <1>4, InOrderListed
<1>6. /\ pc'[g] = "read" /\ held'[g] = <<>> /\ seen'[g] = InOrder(rows')
      /\ pc' = [h \in Gens |-> pc'[h]] /\ held' = [h \in Gens |-> held'[h]]
      /\ seen' = [h \in Gens |-> seen'[h]]
      /\ \A h \in Gens \ {g} : pc'[h] = pc[h] /\ held'[h] = held[h] /\ seen'[h] = seen[h]
  BY <1>1, <1>2 DEF Shared
<1>7. Shared' /\ Alone(g)
  BY <1>1, <1>2, <1>3, <1>6 DEF Shared, Alone
<1>8. Writes(g)'
  BY <1>6, EmptySeq DEF Writes
<1>9. Reads(g)'
  BY <1>1, <1>3, <1>5, <1>6, CrossedGrows DEF Reads
<1>10. Sends(g)'
  BY <1>1, <1>2, <1>6 DEF Sends, Answering, Alternating, AnswersPlaced, InPlace
<1>11. QED
  BY <1>7, <1>8, <1>9, <1>10, OthersKept

LEMMA RegenerateKeeps ==
  ASSUME Inv, NEW g \in Gens, NEW u \in rows, Regenerate(g, u)
  PROVE  Inv'
<1>1. /\ pc[g] = "idle" /\ pc' = [pc EXCEPT ![g] = "picked"]
      /\ seen' = [seen EXCEPT ![g] = InOrder(rows)]
      /\ newest' = [newest EXCEPT ![g] = u.id]
      /\ UNCHANGED <<rows, crossed, clock, held, prompt, kind>>
  BY DEF Regenerate, MayBegin
<1>2. Writes(g) /\ Reads(g) /\ Sends(g) /\ Shared
  BY DEF Inv
<1>3. clock - 1 \in Nat
  BY <1>2 DEF Shared
<1>4. Listed(InOrder(rows)) /\ Members(InOrder(rows)) \subseteq rows
  BY <1>2, <1>3, InOrderListed DEF Shared
<1>5. /\ pc'[g] = "picked" /\ seen'[g] = InOrder(rows)
      /\ pc' = [h \in Gens |-> pc'[h]] /\ newest' = [h \in Gens |-> newest'[h]]
      /\ seen' = [h \in Gens |-> seen'[h]]
      /\ \A h \in Gens \ {g} : pc'[h] = pc[h] /\ newest'[h] = newest[h] /\ seen'[h] = seen[h]
  BY <1>1, <1>2 DEF Shared
<1>6. Shared' /\ Alone(g)
  BY <1>1, <1>2, <1>5 DEF Shared, Alone
<1>7. Writes(g)'
  BY <1>1, <1>2, <1>5 DEF Writes
<1>8. Reads(g)'
  BY <1>1, <1>2, <1>4, <1>5, CrossedGrows DEF Reads, Shared
<1>9. Sends(g)'
  BY <1>1, <1>2, <1>5 DEF Sends, Answering, Alternating, AnswersPlaced, InPlace
<1>10. QED
  BY <1>6, <1>7, <1>8, <1>9, OthersKept

LEMMA DeleteRepliesKeeps ==
  ASSUME Inv, NEW g \in Gens, DeleteReplies(g)
  PROVE  Inv'
<1>1. PICK I : /\ pc[g] = "picked" /\ pc' = [pc EXCEPT ![g] = "read"] /\ rows' \subseteq rows
               /\ seen' = [seen EXCEPT ![g] = At(seen[g], I)]
               /\ UNCHANGED <<crossed, clock, held, prompt, kind, newest>>
  BY DEF DeleteReplies
<1>2. Writes(g) /\ Reads(g) /\ Sends(g) /\ Shared
  BY DEF Inv
<1>3. Listed(At(seen[g], I)) /\ Members(At(seen[g], I)) \subseteq Members(seen[g])
  <2>1. Listed(seen[g]) /\ seen[g] \in Seq(Messages)
    BY <1>2 DEF Reads, Listed
  <2>2. Listed(At(seen[g], I))
    BY <2>1, AtListed
  <2>3. \A k \in 1..Len(At(seen[g], I)) :
          \E i \in 1..Len(seen[g]) : At(seen[g], I)[k] = seen[g][i]
    BY <2>1, AtRange
  <2>4. QED
    BY <2>2, <2>3 DEF Members
<1>4. /\ pc'[g] = "read" /\ seen'[g] = At(seen[g], I)
      /\ pc' = [h \in Gens |-> pc'[h]] /\ seen' = [h \in Gens |-> seen'[h]]
      /\ \A h \in Gens \ {g} : pc'[h] = pc[h] /\ seen'[h] = seen[h]
  BY <1>1, <1>2 DEF Shared
<1>5. ~crossed => ~Crossed(rows')
  BY <1>1, <1>2, CrossedGrows DEF Shared
<1>6. Shared' /\ Alone(g)
  BY <1>1, <1>2, <1>4, <1>5 DEF Shared, Alone
<1>7. Writes(g)'
  BY <1>1, <1>2, <1>4 DEF Writes
<1>8. Reads(g)'
  BY <1>1, <1>2, <1>3, <1>4, CrossedGrows DEF Reads
<1>9. Sends(g)'
  BY <1>1, <1>2, <1>4 DEF Sends, Answering, Alternating, AnswersPlaced, InPlace
<1>10. QED
  BY <1>6, <1>7, <1>8, <1>9, OthersKept

(* A prompt that keeps the promise may be sent. *)
LEMMA SendsNext ==
  ASSUME NEW g \in Gens, pc'[g] = "streaming",
         prompt'[g] \in Seq(Messages), prompt'[g] # <<>>, prompt'[g][1] = SystemPrompt,
         newest'[g] # None => Last(prompt'[g]).id = newest'[g],
         kind'[g] = "history" => Alternating(prompt'[g]),
         kind'[g] \in {"history", "extended"} => AnswersPlaced(prompt'[g], crossed')
  PROVE  Sends(g)'
BY DEF Sends, Answering, AnswersPlaced, InPlace, Alternating

LEMMA BuildPromptKeeps ==
  ASSUME Inv, NEW g \in Gens, BuildPrompt(g)
  PROVE  Inv'
<1> DEFINE s == seen[g]
<1>1. PICK b \in WholeHistory(s) \union LaterHistory(s) \union LastRowOnly(s),
            searched \in {FALSE, newest[g] = None} :
        LET c == IF searched THEN WithSearch(b) ELSE b
        IN /\ prompt' = [prompt EXCEPT ![g] = c.prompt]
           /\ kind' = [kind EXCEPT ![g] = c.kind]
           /\ newest' = [newest EXCEPT ![g] = IF searched THEN SearchAnswer.id ELSE About(s)]
  BY DEF BuildPrompt
<1>2. /\ pc[g] = "read" /\ pc' = [pc EXCEPT ![g] = "streaming"]
      /\ seen' = [seen EXCEPT ![g] = <<>>] /\ UNCHANGED <<rows, crossed, clock, held>>
  BY DEF BuildPrompt
<1>3. Writes(g) /\ Reads(g) /\ Sends(g) /\ Shared
  BY DEF Inv
<1>4. BuiltWell(b, s)
  BY <1>1, <1>3, WholeHistoryIsWell, LaterHistoryIsWell, LastRowOnlyIsWell DEF Reads
<1>5. searched \in BOOLEAN
  BY <1>1
<1> DEFINE c == IF searched THEN WithSearch(b) ELSE b
           n == IF searched THEN SearchAnswer.id ELSE About(s)
<1>6. /\ pc'[g] = "streaming" /\ seen'[g] = <<>>
      /\ prompt'[g] = c.prompt /\ kind'[g] = c.kind /\ newest'[g] = n
      /\ pc' = [h \in Gens |-> pc'[h]] /\ seen' = [h \in Gens |-> seen'[h]]
      /\ prompt' = [h \in Gens |-> prompt'[h]] /\ kind' = [h \in Gens |-> kind'[h]]
      /\ newest' = [h \in Gens |-> newest'[h]]
      /\ \A h \in Gens \ {g} :
           /\ pc'[h] = pc[h] /\ seen'[h] = seen[h] /\ prompt'[h] = prompt[h]
           /\ kind'[h] = kind[h] /\ newest'[h] = newest[h]
  <2> HIDE DEF c, n
  <2>1. /\ prompt' = [prompt EXCEPT ![g] = c.prompt] /\ kind' = [kind EXCEPT ![g] = c.kind]
        /\ newest' = [newest EXCEPT ![g] = n]
    BY <1>1 DEF c, n
  <2>2. QED
    BY <1>2, <1>3, <2>1 DEF Shared
<1> HIDE DEF n
<1>7. Shared' /\ Alone(g)
  <2> HIDE DEF c
  <2>1. Shared'
    BY <1>2, <1>3, <1>6 DEF Shared
  <2>2. Alone(g)
    BY <1>2, <1>3, <1>6 DEF Shared, Alone
  <2>3. QED
    BY <2>1, <2>2
<1>8. Writes(g)'
  BY <1>2, <1>3, <1>6 DEF Writes
<1>9. Reads(g)'
  <2>1. Listed(<<>>) /\ Members(<<>>) = {}
    BY EmptySeq DEF Listed, Members
  <2>2. ~Crossed({})
    BY DEF Crossed
  <2>3. QED
    BY <1>6, <2>1, <2>2 DEF Reads
<1>10. Sends(g)'
  <2>1. CASE ~searched
    <3>1. c = b /\ n = About(s)
      BY <2>1 DEF n
    <3>2. n # None => Last(b.prompt).id = n
      BY <1>4, <3>1 DEF BuiltWell, About
    <3>3. b.kind = "history" => Alternating(b.prompt) /\ AnswersPlaced(b.prompt, crossed)
      BY <1>4 DEF BuiltWell
    <3>4. b.prompt \in Seq(Messages) /\ b.prompt # <<>> /\ b.prompt[1] = SystemPrompt
          /\ b.kind \in {"history", "squeezed"}
      BY <1>4 DEF BuiltWell
    <3>5. prompt'[g] = b.prompt /\ kind'[g] = b.kind /\ newest'[g] = n
      BY <1>6, <3>1
    <3>6. kind'[g] = "history" => Alternating(prompt'[g])
      BY <3>3, <3>5
    <3>7. kind'[g] \in {"history", "extended"} => AnswersPlaced(prompt'[g], crossed')
      BY <1>2, <3>3, <3>4, <3>5 DEF AnswersPlaced, InPlace
    <3>8. /\ prompt'[g] \in Seq(Messages) /\ prompt'[g] # <<>> /\ prompt'[g][1] = SystemPrompt
          /\ newest'[g] # None => Last(prompt'[g]).id = newest'[g]
      BY <3>2, <3>4, <3>5
    <3>9. QED
      BY <1>6, <3>6, <3>7, <3>8, SendsNext
  <2>2. CASE searched
    <3> DEFINE q == b.prompt \o <<SearchCall, SearchAnswer>>
    <3>1. b.prompt \in Seq(Messages) /\ b.prompt # <<>> /\ b.prompt[1] = SystemPrompt
          /\ b.kind \in {"history", "squeezed"} /\ b = Built(b.prompt, b.kind, b.left)
          /\ (b.kind = "history" => AnswersPlaced(b.prompt, crossed))
      BY <1>4 DEF BuiltWell
    <3>2. /\ q \in Seq(Messages) /\ q # <<>> /\ q[1] = b.prompt[1] /\ Last(q) = SearchAnswer
          /\ AnswersPlaced(b.prompt, crossed) => AnswersPlaced(q, crossed)
      BY <3>1, OwnMessages, PairAppended
    <3> HIDE DEF q
    <3>3. c.prompt = q /\ c.kind = IF b.kind = "history" THEN "extended" ELSE b.kind
      BY <2>2, <3>1 DEF WithSearch, Built, q
    <3>4. /\ prompt'[g] = q /\ newest'[g] = Last(q).id
          /\ kind'[g] \in {"extended", "squeezed"}
          /\ kind'[g] = "extended" => AnswersPlaced(q, crossed)
      BY <1>6, <2>2, <3>1, <3>2, <3>3 DEF n
    <3>5. QED
      BY <1>2, <1>6, <3>1, <3>2, <3>4 DEF Sends, Answering, AnswersPlaced, InPlace
  <2>3. QED
    BY <1>5, <2>1, <2>2
<1>11. QED
  BY <1>7, <1>8, <1>9, <1>10, OthersKept

LEMMA RetryKeeps ==
  ASSUME Inv, NEW g \in Gens, Retry(g)
  PROVE  Inv'
<1>1. PICK I : prompt' = [prompt EXCEPT ![g] = Trimmed(@, I)]
  BY DEF Retry
<1>2. /\ pc[g] = "streaming" /\ kind' = [kind EXCEPT ![g] = "trimmed"]
      /\ UNCHANGED <<rows, crossed, clock, pc, held, seen, newest>>
  BY DEF Retry
<1>3. Writes(g) /\ Reads(g) /\ Sends(g) /\ Shared
  BY DEF Inv
<1>4. prompt[g] \in Seq(Messages) /\ prompt[g] # <<>>
  BY <1>2, <1>3 DEF Sends, Answering
<1> DEFINE q == Trimmed(prompt[g], I)
<1>5. /\ q \in Seq(Messages) /\ q # <<>> /\ q[1] = prompt[g][1] /\ Last(q) = Last(prompt[g])
  BY <1>4, TrimmedEnds
<1>6. /\ prompt'[g] = q /\ kind'[g] = "trimmed"
      /\ prompt' = [h \in Gens |-> prompt'[h]] /\ kind' = [h \in Gens |-> kind'[h]]
      /\ \A h \in Gens \ {g} : prompt'[h] = prompt[h] /\ kind'[h] = kind[h]
  BY <1>1, <1>2, <1>3 DEF Shared
<1> HIDE DEF q
<1>7. Shared' /\ Alone(g)
  BY <1>2, <1>3, <1>6 DEF Shared, Alone
<1>8. Writes(g)' /\ Reads(g)'
  BY <1>2, <1>3 DEF Writes, Reads
<1>9. Sends(g)'
  BY <1>2, <1>3, <1>4, <1>5, <1>6 DEF Sends
<1>10. QED
  BY <1>7, <1>8, <1>9, OthersKept

LEMMA StoreRoundKeeps ==
  ASSUME Inv, NEW g \in Gens, StoreRound(g)
  PROVE  Inv'
<1> DEFINE call   == held[g][1]
           answer == Message(clock, "tool", call.id)
           s      == prompt[g] \o <<call, answer>>
<1>1. /\ pc[g] = "calling" /\ clock <= MaxRows /\ clock' = clock + 1
      /\ rows' = rows \union {call, answer}
      /\ newest' = [newest EXCEPT ![g] = answer.id]
      /\ crossed' = (crossed \/ Crossed(rows'))
      /\ held' = [held EXCEPT ![g] = <<>>] /\ pc' = [pc EXCEPT ![g] = "streaming"]
      /\ UNCHANGED seen
  BY DEF StoreRound
<1>2. \/ /\ prompt' = [prompt EXCEPT ![g] = s]
         /\ kind' = [kind EXCEPT ![g] = IF @ = "history" THEN "extended" ELSE @]
      \/ \E I : /\ prompt' = [prompt EXCEPT ![g] = Compressed(s, I, Noted)]
                /\ kind' = [kind EXCEPT ![g] = "squeezed"]
  BY DEF StoreRound
<1>3. Writes(g) /\ Reads(g) /\ Sends(g) /\ Shared
  BY DEF Inv
<1>4. Len(held[g]) \in Nat \ {0}
  BY <1>1, <1>3, EmptySeq DEF Writes
<1>5. /\ call.role = "call" /\ Plain(call) /\ call \in Messages /\ call.id \in 1..clock - 1
  BY <1>1, <1>3, <1>4 DEF Writes, Plain
<1>6. /\ answer \in Messages /\ answer.role = "tool" /\ answer.of = call.id
      /\ answer.id = clock /\ Plain(answer) /\ clock \in Nat \ {0} /\ MaxRows \in Nat
  <2>1. clock \in 1..MaxRows /\ MaxRows \in Nat /\ clock \in Nat \ {0}
    BY <1>1, <1>3, ConversationAssumption DEF Shared
  <2>2. call.id \in 1..MaxRows /\ call.id < clock
    BY <1>5, <2>1
  <2> HIDE DEF call
  <2>3. QED
    BY <2>1, <2>2 DEF Message, Messages, Roles, Plain
<1> HIDE DEF call, answer
<1>7. prompt[g] \in Seq(Messages) /\ prompt[g] # <<>> /\ prompt[g][1] = SystemPrompt
  BY <1>1, <1>3 DEF Sends, Answering
<1>8. /\ s \in Seq(Messages) /\ s # <<>> /\ s[1] = SystemPrompt /\ Last(s) = answer /\ Len(s) > 1
      /\ AnswersPlaced(prompt[g], crossed) => AnswersPlaced(s, crossed)
  BY <1>5, <1>6, <1>7, PairAppended
<1> HIDE DEF s
<1>9. /\ pc'[g] = "streaming" /\ held'[g] = <<>> /\ newest'[g] = answer.id
      /\ pc' = [h \in Gens |-> pc'[h]] /\ held' = [h \in Gens |-> held'[h]]
      /\ newest' = [h \in Gens |-> newest'[h]]
      /\ \A h \in Gens \ {g} : pc'[h] = pc[h] /\ held'[h] = held[h] /\ newest'[h] = newest[h]
  BY <1>1, <1>3 DEF Shared
<1>10. /\ prompt' = [h \in Gens |-> prompt'[h]] /\ kind' = [h \in Gens |-> kind'[h]]
       /\ \A h \in Gens \ {g} : prompt'[h] = prompt[h] /\ kind'[h] = kind[h]
  BY <1>2, <1>3 DEF Shared
<1>11. /\ prompt'[g] \in Seq(Messages) /\ prompt'[g] # <<>> /\ prompt'[g][1] = SystemPrompt
       /\ Last(prompt'[g]) = answer /\ kind'[g] # "history"
       /\ kind'[g] = "extended" => AnswersPlaced(prompt'[g], crossed)
  <2>1. CASE /\ prompt' = [prompt EXCEPT ![g] = s]
             /\ kind' = [kind EXCEPT ![g] = IF @ = "history" THEN "extended" ELSE @]
    <3>1. prompt'[g] = s /\ kind'[g] = IF kind[g] = "history" THEN "extended" ELSE kind[g]
      BY <1>3, <2>1 DEF Shared
    <3>2. kind'[g] # "history" /\ (kind'[g] = "extended" => kind[g] \in {"history", "extended"})
      BY <3>1
    <3>3. kind'[g] = "extended" => AnswersPlaced(s, crossed)
      BY <1>3, <1>8, <3>2 DEF Sends
    <3>4. QED
      BY <1>8, <3>1, <3>2, <3>3
  <2>2. ASSUME NEW I, prompt' = [prompt EXCEPT ![g] = Compressed(s, I, Noted)],
               kind' = [kind EXCEPT ![g] = "squeezed"]
        PROVE  /\ prompt'[g] \in Seq(Messages) /\ prompt'[g] # <<>> /\ prompt'[g][1] = SystemPrompt
               /\ Last(prompt'[g]) = answer /\ kind'[g] = "squeezed"
    <3>1. prompt'[g] = Compressed(s, I, Noted) /\ kind'[g] = "squeezed"
      BY <1>3, <2>2 DEF Shared
    <3>2. s[1].role = "system" /\ Noted \in BOOLEAN /\ Last(s).role # "call"
      BY <1>6, <1>8, OwnMessages DEF Noted
    <3>3. /\ Compressed(s, I, Noted) \in Seq(Messages) /\ Compressed(s, I, Noted) # <<>>
          /\ Compressed(s, I, Noted)[1] = s[1] /\ Last(Compressed(s, I, Noted)) = Last(s)
      BY <1>8, <3>2, CompressedEnds
    <3>4. QED
      BY <1>8, <3>1, <3>3
  <2>3. QED
    BY <1>2, <2>1, <2>2
<1>12. Shared' /\ Alone(g)
  <2>1. clock' - 1 = clock /\ clock' \in Nat \ {0} /\ crossed' \in BOOLEAN
    BY <1>1, <1>3 DEF Shared
  <2>2. \A m \in rows' : Plain(m) /\ m.id \in 1..clock' - 1
    BY <1>1, <1>3, <1>5, <1>6, <2>1 DEF Shared
  <2>3. Shared'
    BY <1>1, <1>3, <1>9, <1>10, <2>1, <2>2 DEF Shared
  <2>4. clock' >= clock /\ (crossed => crossed')
    <3>1. clock' >= clock
      BY <1>1, <1>6
    <3>2. crossed => crossed'
      BY <1>1
    <3>3. QED
      BY <3>1, <3>2
  <2>5. Alone(g)
    BY <1>1, <1>9, <1>10, <2>4 DEF Alone
  <2>6. QED
    BY <2>3, <2>5
<1>13. Writes(g)'
  BY <1>9, EmptySeq DEF Writes
<1>14. Reads(g)'
  BY <1>1, <1>3 DEF Reads
<1>15. Sends(g)'
  <2>1. kind'[g] = "extended" => AnswersPlaced(prompt'[g], crossed')
    BY <1>1, <1>11 DEF AnswersPlaced, InPlace
  <2>2. newest'[g] = Last(prompt'[g]).id
    BY <1>9, <1>11
  <2>3. QED
    BY <1>9, <1>11, <2>1, <2>2, SendsNext
<1>16. QED
  BY <1>12, <1>13, <1>14, <1>15, OthersKept

LEMMA OverKeeps ==
  ASSUME Inv, NEW g \in Gens, StoreReply(g) \/ Fails(g)
  PROVE  Inv'
<1>1. Over(g) /\ UNCHANGED <<crossed, clock>> /\ (UNCHANGED rows \/ rows' = rows \union Range(held[g]))
  BY DEF StoreReply, Fails
<1>2. Writes(g) /\ Reads(g) /\ Sends(g) /\ Shared
  BY DEF Inv
<1>3. /\ pc'[g] = "over" /\ held'[g] = <<>> /\ seen'[g] = <<>> /\ prompt'[g] = <<>>
      /\ kind'[g] = "none"
      /\ pc' = [h \in Gens |-> pc'[h]] /\ held' = [h \in Gens |-> held'[h]]
      /\ seen' = [h \in Gens |-> seen'[h]] /\ prompt' = [h \in Gens |-> prompt'[h]]
      /\ kind' = [h \in Gens |-> kind'[h]] /\ newest' = [h \in Gens |-> newest'[h]]
      /\ \A h \in Gens \ {g} :
           /\ pc'[h] = pc[h] /\ held'[h] = held[h] /\ seen'[h] = seen[h]
           /\ prompt'[h] = prompt[h] /\ kind'[h] = kind[h] /\ newest'[h] = newest[h]
  BY <1>1, <1>2 DEF Over, Shared
<1>4. /\ \A m \in rows' : Plain(m) /\ m.id \in 1..clock - 1
      /\ ~crossed => ~Crossed(rows')
  BY <1>1, <1>2, HeldStored DEF Shared
<1>5. Shared' /\ Alone(g)
  BY <1>1, <1>2, <1>3, <1>4 DEF Shared, Alone
<1>6. Writes(g)'
  BY <1>3, EmptySeq DEF Writes
<1>7. Reads(g)'
  <2>1. Listed(<<>>) /\ Members(<<>>) = {}
    BY EmptySeq DEF Listed, Members
  <2>2. QED
    BY <1>3, <2>1 DEF Reads, Crossed
<1>8. Sends(g)'
  BY <1>3, EmptySeq DEF Sends, Answering
<1>9. QED
  BY <1>5, <1>6, <1>7, <1>8, OthersKept

(* Deletions take rows away and touch no generation. *)
LEMMA RowsOnlyGo ==
  ASSUME Inv, rows' \subseteq rows, UNCHANGED <<crossed, clock, pc, held, seen, prompt, kind, newest>>
  PROVE  Inv'
<1>1. ~crossed => ~Crossed(rows')
  BY CrossedGrows DEF Inv, Shared
<1>2. Shared'
  BY <1>1 DEF Inv, Shared
<1>3. ASSUME NEW g \in Gens PROVE Writes(g)' /\ Reads(g)' /\ Sends(g)'
  BY DEF Inv, Writes, Reads, Sends, Alternating, AnswersPlaced, InPlace
<1>4. QED
  BY <1>2, <1>3 DEF Inv

(* The invariant holds of every conversation from before. *)
LEMMA InitInv == Init => Inv
<1> SUFFICES ASSUME Init PROVE Inv
  OBVIOUS
<1>1. PICK s \in Earlier : /\ rows = {Message(i, s[i].role, s[i].of) : i \in DOMAIN s}
                           /\ clock = Len(s) + 1
  BY DEF Init
<1>2. PICK n \in 0..MaxRows : /\ s \in [1..n -> EarlierRows]
        /\ \A i \in 1..n : IF s[i].role = "tool" THEN s[i].of \in 1..i - 1 ELSE s[i].of = None
  BY ConversationAssumption
<1>3. MaxRows \in Nat /\ n \in Nat
  BY ConversationAssumption
<1>4. Len(s) = n
  BY <1>2, <1>3
<1>5. ASSUME NEW m \in rows PROVE Plain(m) /\ m.id \in 1..n
  <2>1. PICK i \in 1..n : m = Message(i, s[i].role, s[i].of)
    BY <1>1, <1>2
  <2>2. s[i].role \in Roles \ {"system"} /\ s[i].of \in 0..MaxRows
    BY <1>2 DEF EarlierRows
  <2>3. s[i].role = "tool" => s[i].of < i
    BY <1>2, <1>3
  <2>4. i \in -3..MaxRows /\ s[i].of \in -3..MaxRows /\ s[i].role \in Roles
    BY <1>3, <2>2
  <2>5. QED
    BY <2>1, <2>2, <2>3, <2>4 DEF Plain, Message, Messages
<1>6. clock \in Nat \ {0} /\ clock - 1 = n
  BY <1>1, <1>3, <1>4
<1>7. Shared
  BY <1>5, <1>6 DEF Init, Shared, Crossed
<1>8. Listed(<<>>) /\ Members(<<>>) = {} /\ ~Crossed({})
  BY EmptySeq DEF Listed, Members, Crossed
<1>9. ASSUME NEW g \in Gens PROVE Writes(g) /\ Reads(g) /\ Sends(g)
  <2>1. /\ pc[g] = "idle" /\ held[g] = <<>> /\ seen[g] = <<>> /\ prompt[g] = <<>>
        /\ kind[g] = "none"
    BY DEF Init
  <2>2. Writes(g)
    BY <2>1, EmptySeq DEF Writes
  <2>3. Reads(g)
    BY <1>8, <2>1 DEF Reads
  <2>4. Sends(g)
    BY <2>1, EmptySeq DEF Sends, Answering
  <2>5. QED
    BY <2>2, <2>3, <2>4
<1>10. QED
  BY <1>7, <1>9 DEF Inv

-----------------------------------------------------------------------------
(* What follows of it. *)

(* The invariant holds, for any number of generations and rows, every      *)
(* window, and whatever is found important.                                *)
THEOREM PromptsAreWellFormed == Spec => []Inv
<1>1. Init => Inv
  BY InitInv
<1>2. Inv /\ [Next]_vars => Inv'
  <2> SUFFICES ASSUME Inv, [Next]_vars PROVE Inv'
    OBVIOUS
  <2>1. ASSUME NEW g \in Gens, SendMessage(g) \/ StoreQuestion(g) \/ DeleteReplies(g)
        PROVE  Inv'
    BY <2>1, SendMessageKeeps, StoreQuestionKeeps, DeleteRepliesKeeps
  <2>2. ASSUME NEW g \in Gens, NEW u \in rows, Regenerate(g, u) PROVE Inv'
    BY <2>2, RegenerateKeeps
  <2>3. ASSUME NEW g \in Gens, BuildPrompt(g) \/ Retry(g) \/ StoreRound(g) PROVE Inv'
    BY <2>3, BuildPromptKeeps, RetryKeeps, StoreRoundKeeps
  <2>4. ASSUME NEW g \in Gens, StampCall(g) \/ StampReply(g) PROVE Inv'
    BY <2>4, StampKeeps
  <2>5. ASSUME NEW g \in Gens, StoreReply(g) \/ Fails(g) PROVE Inv'
    BY <2>5, OverKeeps
  <2>6. ASSUME NEW g \in Gens, Stop(g) PROVE Inv'
    BY <2>6, RowsOnlyGo DEF Stop
  <2>7. ASSUME NEW w \in Writers, SummaryWritten(w) \/ SummaryFails(w) PROVE Inv'
    BY <2>7, RowsOnlyGo DEF SummaryWritten, SummaryFails, genVars
  <2>8. CASE Compress \/ (\E u \in rows : ChooseDeleted(u))
    BY <2>8, RowsOnlyGo DEF Compress, ChooseDeleted, genVars
  <2>9. CASE DeleteMessage \/ DeleteConversation
    BY <2>9, RowsOnlyGo DEF DeleteMessage, DeleteConversation, genVars
  <2>10. CASE UNCHANGED vars
    BY <2>10, RowsOnlyGo DEF vars, genVars
  <2>11. QED
    BY <2>1, <2>2, <2>3, <2>4, <2>5, <2>6, <2>7, <2>8, <2>9, <2>10 DEF Next, Generate
<1>3. QED
  BY <1>1, <1>2, PTL DEF Spec

(* The assistant never speaks twice in a row in a prompt built of the      *)
(* whole history, which begins with the user (cleanHistoryMessages).       *)
THEOREM AlternatingTurns == Spec => []TurnsAlternate
<1>1. Inv => TurnsAlternate
  BY DEF Inv, Sends, Alternating, TurnsAlternate
<1>2. QED
  BY <1>1, PromptsAreWellFormed, PTL

(* However often and however hard a prompt is cut, it ends with what is to *)
(* be answered (CompressContext, TrimMessagesToFit).                       *)
THEOREM NewestSent == Spec => []NewestIsSent
<1>1. Inv => NewestIsSent
  BY DEF Inv, Sends, NewestIsSent, Sent
<1>2. QED
  BY <1>1, PromptsAreWellFormed, PTL

(* In a prompt that was not cut a tool's answer stands behind a call, and  *)
(* behind its own unless two generations' calls have crossed               *)
(* (cleanHistoryMessages, appendToolCallMessages).                         *)
THEOREM AnswersBehindCalls == Spec => []AnswersFollowCalls
<1>1. Inv => AnswersFollowCalls
  <2> SUFFICES ASSUME Inv, NEW g \in Gens, kind[g] \in {"history", "extended"},
                      NEW i \in DOMAIN prompt[g], prompt[g][i].role = "tool"
               PROVE  InPlace(prompt[g], i, crossed)
    BY DEF AnswersFollowCalls, InPlace
  <2>1. prompt[g] \in Seq(Messages) /\ AnswersPlaced(prompt[g], crossed)
    BY DEF Inv, Sends
  <2>2. i \in 1..Len(prompt[g])
    BY <2>1, LenProperties
  <2>3. QED
    BY <2>1, <2>2 DEF AnswersPlaced
<1>2. QED
  BY <1>1, PromptsAreWellFormed, PTL

-----------------------------------------------------------------------------
(* Deletions and summaries. *)

(* The actions of a generation, one by one, but for those that ask for a   *)
(* summary or are not its own steps.                                       *)
Turn(g) ==
  \/ SendMessage(g) \/ StoreQuestion(g) \/ (\E u \in rows : Regenerate(g, u))
  \/ DeleteReplies(g) \/ Retry(g) \/ StampCall(g) \/ StoreRound(g)
  \/ StampReply(g) \/ StoreReply(g) \/ Fails(g) \/ Stop(g)

-----------------------------------------------------------------------------
(* A deleted conversation.                                                 *)

(* A generation inserts rows only while the conversation is there.         *)
LEMMA TurnInsertsIntoExisting ==
  ASSUME NEW g \in Gens, Turn(g)
  PROVE  UNCHANGED exists /\ (rows' \subseteq rows \/ exists)
<1>1. CASE SendMessage(g) \/ Retry(g) \/ StampCall(g) \/ StampReply(g)
           \/ Fails(g) \/ Stop(g)
  BY <1>1 DEF SendMessage, Retry, StampCall, StampReply, Fails, Stop
<1>2. CASE \E u \in rows : Regenerate(g, u)
  BY <1>2 DEF Regenerate
<1>3. CASE DeleteReplies(g)
  BY <1>3 DEF DeleteReplies
<1>4. CASE StoreQuestion(g) \/ StoreRound(g) \/ StoreReply(g)
  BY <1>4 DEF StoreQuestion, StoreRound, StoreReply, Stores
<1>5. QED
  BY <1>1, <1>2, <1>3, <1>4 DEF Turn

(* A generation, a deletion or a summary under way when the conversation   *)
(* is deleted leaves nothing of it behind (DeleteConversation, the foreign *)
(* key of the messages).                                                   *)
THEOREM DeletedIsEmpty == Spec => []DeletedStaysEmpty
<1>1. Init => DeletedStaysEmpty
  BY DEF Init, DeletedStaysEmpty
<1>2. DeletedStaysEmpty /\ [Next]_vars => DeletedStaysEmpty'
  <2> SUFFICES ASSUME DeletedStaysEmpty, [Next]_vars PROVE DeletedStaysEmpty'
    OBVIOUS
  <2>1. ASSUME NEW g \in Gens, Turn(g) PROVE DeletedStaysEmpty'
    BY <2>1, TurnInsertsIntoExisting DEF DeletedStaysEmpty
  <2>2. ASSUME NEW g \in Gens, BuildPrompt(g) PROVE DeletedStaysEmpty'
    BY <2>2 DEF BuildPrompt, DeletedStaysEmpty
  <2>3. ASSUME NEW w \in Writers, SummaryWritten(w) \/ SummaryFails(w)
        PROVE  DeletedStaysEmpty'
    BY <2>3 DEF SummaryWritten, SummaryFails, DeletedStaysEmpty
  <2>4. CASE Compress \/ \E u \in rows : ChooseDeleted(u)
    BY <2>4 DEF Compress, ChooseDeleted, DeletedStaysEmpty
  <2>5. CASE DeleteMessage \/ DeleteConversation
    BY <2>5 DEF DeleteMessage, DeleteConversation, DeletedStaysEmpty
  <2>6. CASE UNCHANGED vars
    BY <2>6 DEF vars, DeletedStaysEmpty
  <2>7. QED
    BY <2>1, <2>2, <2>3, <2>4, <2>5, <2>6 DEF Next, Generate, Turn
<1>3. QED
  BY <1>1, <1>2, PTL DEF Spec

-----------------------------------------------------------------------------
(* The counter of the summaries.                                           *)

Saved(j) == {w \in Writers : j[w].on = "saved"}

(* A generation has asked for no summary before its prompt is built; were  *)
(* it to ask twice, the second job would take the place of the first, and  *)
(* the counter would be ahead of the jobs.                                 *)
Early == {"idle", "question", "picked", "read"}

CountInvariant ==
  /\ pc = [g \in Gens |-> pc[g]] /\ jobs = [w \in Writers |-> jobs[w]]
  /\ \A g \in Gens : pc[g] \in Early => jobs[g].on = "no"
  /\ CompressionsAreCounted

LEMMA WritersAreFinite == IsFiniteSet(Writers) /\ Gens \subseteq Writers
<1>1. MaxGens \in Int
  BY ConversationAssumption
<1>2. IsFiniteSet(Gens)
  BY <1>1, FS_Interval DEF Gens
<1>3. IsFiniteSet({ByHand})
  BY FS_Singleton
<1>4. QED
  BY <1>2, <1>3, FS_Union DEF Writers

(* What leaves the jobs and the summary alone, and no generation goes back.*)
LEMMA OthersCountNothing ==
  ASSUME CountInvariant, UNCHANGED <<jobs, summary>>, pc' = [g \in Gens |-> pc'[g]],
         \A g \in Gens : pc'[g] \in Early => pc[g] \in Early
  PROVE  CountInvariant'
  BY DEF CountInvariant, CompressionsAreCounted

(* A job that nothing was saved for changes its state without saving.      *)
LEMMA UnsavedCountsNothing ==
  ASSUME CountInvariant, UNCHANGED summary, pc' = [g \in Gens |-> pc'[g]],
         NEW w \in Writers, NEW x, jobs[w].on # "saved", x.on # "saved",
         jobs' = [jobs EXCEPT ![w] = x],
         \A g \in Gens : pc'[g] \in Early => pc[g] \in Early /\ (g = w => x.on = "no")
  PROVE  CountInvariant'
<1>1. Saved(jobs') = Saved(jobs)
  BY DEF Saved, CountInvariant
<1>2. CompressionsAreCounted'
  BY <1>1 DEF Saved, CountInvariant, CompressionsAreCounted
<1>3. QED
  BY <1>2, WritersAreFinite DEF CountInvariant

LEMMA TurnForward ==
  ASSUME CountInvariant, NEW g \in Gens, Turn(g)
  PROVE  /\ UNCHANGED <<jobs, summary>> /\ pc' = [h \in Gens |-> pc'[h]]
         /\ \A h \in Gens : pc'[h] \in Early => pc[h] \in Early
<1> USE DEF CountInvariant, Early
<1>1. CASE SendMessage(g) \/ StoreQuestion(g)
  BY <1>1 DEF SendMessage, StoreQuestion, MayBegin, Stores
<1>2. CASE \E u \in rows : Regenerate(g, u)
  BY <1>2 DEF Regenerate, MayBegin
<1>3. CASE DeleteReplies(g) \/ Retry(g) \/ Stop(g)
  BY <1>3 DEF DeleteReplies, Retry, Stop
<1>4. CASE StampCall(g) \/ StampReply(g)
  BY <1>4 DEF StampCall, StampReply
<1>5. CASE StoreRound(g)
  BY <1>5 DEF StoreRound, Stores
<1>6. CASE StoreReply(g) \/ Fails(g)
  BY <1>6 DEF StoreReply, Fails, Over
<1>7. QED
  BY <1>1, <1>2, <1>3, <1>4, <1>5, <1>6 DEF Turn

LEMMA BuildPromptCounts ==
  ASSUME CountInvariant, NEW g \in Gens, BuildPrompt(g)
  PROVE  CountInvariant'
<1>1. /\ pc[g] = "read" /\ pc' = [pc EXCEPT ![g] = "streaming"]
      /\ UNCHANGED summary /\ jobs[g].on = "no"
  BY DEF BuildPrompt, CountInvariant, Early
<1>2. PICK left : Summarise(g, left)
  BY DEF BuildPrompt
<1>3. CASE UNCHANGED jobs
  BY <1>1, <1>3, OthersCountNothing DEF Early, CountInvariant
<1>4. CASE ~UNCHANGED jobs
  <2> DEFINE x == [on |-> "writing", short |-> summary.short, long |-> summary.long,
                   count |-> summary.count]
  <2>1. jobs' = [jobs EXCEPT ![g] = x] /\ x.on = "writing"
    BY <1>2, <1>4 DEF Summarise
  <2>2. pc' = [h \in Gens |-> pc'[h]]
        /\ \A h \in Gens : pc'[h] \in Early => pc[h] \in Early /\ h # g
    BY <1>1 DEF CountInvariant, Early
  <2> HIDE DEF x
  <2>3. QED
    BY <1>1, <2>1, <2>2, WritersAreFinite, UnsavedCountsNothing
<1>5. QED
  BY <1>3, <1>4

LEMMA SummaryWrittenCounts ==
  ASSUME CountInvariant, NEW w \in Writers, SummaryWritten(w)
  PROVE  CountInvariant'
<1>1. jobs[w].on = "writing" /\ UNCHANGED pc
  BY DEF SummaryWritten, genVars
<1>2. \A g \in Gens : pc[g] \in Early => g # w
  BY <1>1 DEF CountInvariant
<1>3. CASE exists
  <2>1. jobs' = [jobs EXCEPT ![w] = SavedJob]
        /\ summary'.count = summary.count + 1
    BY <1>3 DEF SummaryWritten, SaveSummary
  <2>2. jobs' = [v \in Writers |-> jobs'[v]] /\ jobs'[w].on = "saved"
        /\ \A v \in Writers \ {w} : jobs'[v] = jobs[v]
    BY <2>1 DEF CountInvariant, SavedJob
  <2>3. Saved(jobs') = Saved(jobs) \union {w} /\ w \notin Saved(jobs)
    BY <1>1, <2>2 DEF Saved
  <2>4. IsFiniteSet(Saved(jobs))
    BY WritersAreFinite, FS_Subset DEF Saved
  <2>5. Cardinality(Saved(jobs')) = Cardinality(Saved(jobs)) + 1
    BY <2>3, <2>4, FS_AddElement
  <2>6. CompressionsAreCounted'
    BY <2>1, <2>5 DEF Saved, CountInvariant, CompressionsAreCounted
  <2>7. QED
    BY <1>1, <1>2, <2>2, <2>6, WritersAreFinite DEF CountInvariant
<1>4. CASE ~exists
  <2>1. jobs' = [jobs EXCEPT ![w] = NoJob] /\ UNCHANGED summary /\ NoJob.on = "no"
    BY <1>4 DEF SummaryWritten, NoJob
  <2>2. pc' = [g \in Gens |-> pc'[g]]
    BY <1>1 DEF CountInvariant
  <2>3. QED
    BY <1>1, <2>1, <2>2, UnsavedCountsNothing
<1>5. QED
  BY <1>3, <1>4

LEMMA SummaryFailsCounts ==
  ASSUME CountInvariant, NEW w \in Writers, SummaryFails(w)
  PROVE  CountInvariant'
<1>1. /\ jobs[w].on = "writing" /\ jobs' = [jobs EXCEPT ![w] = NoJob]
      /\ UNCHANGED <<pc, summary>>
  BY DEF SummaryFails, genVars
<1>2. NoJob.on = "no"
  BY DEF NoJob
<1>3. pc' = [g \in Gens |-> pc'[g]]
  BY <1>1 DEF CountInvariant
<1>4. QED
  BY <1>1, <1>2, <1>3, UnsavedCountsNothing

LEMMA CompressCounts ==
  ASSUME CountInvariant, Compress
  PROVE  CountInvariant'
<1>1. /\ jobs[ByHand].on = "no" /\ UNCHANGED <<pc, summary>>
      /\ Summarise(ByHand, Cardinality(rows) - Window)
  BY DEF Compress, genVars
<1>2. ByHand \in Writers /\ ByHand \notin Gens
  BY ConversationAssumption DEF Writers, ByHand, Gens
<1>3. CASE UNCHANGED jobs
  BY <1>1, <1>3, OthersCountNothing DEF CountInvariant
<1>4. CASE ~UNCHANGED jobs
  <2> DEFINE x == [on |-> "writing", short |-> summary.short, long |-> summary.long,
                   count |-> summary.count]
  <2>1. jobs' = [jobs EXCEPT ![ByHand] = x] /\ x.on = "writing"
    BY <1>1, <1>4 DEF Summarise
  <2>2. pc' = [g \in Gens |-> pc'[g]]
    BY <1>1 DEF CountInvariant
  <2> HIDE DEF x
  <2>3. QED
    BY <1>1, <1>2, <2>1, <2>2, UnsavedCountsNothing
<1>5. QED
  BY <1>3, <1>4

(* Two summaries may be written at once, from the same count: the counter  *)
(* still ends at the number of those saved                                 *)
(* (UpdateConversationLayeredSummary).                                     *)
THEOREM CompressionsCounted == Spec => []CompressionsAreCounted
<1>1. Init => CountInvariant
  <2> SUFFICES ASSUME Init PROVE CountInvariant
    OBVIOUS
  <2>1. Saved(jobs) = {} /\ summary.count = 0
    BY DEF Init, Saved, NoJob
  <2>2. CompressionsAreCounted
    BY <2>1, FS_EmptySet DEF Saved, CompressionsAreCounted
  <2>3. QED
    BY <2>2, WritersAreFinite DEF Init, CountInvariant, NoJob
<1>2. CountInvariant /\ [Next]_vars => CountInvariant'
  <2> SUFFICES ASSUME CountInvariant, [Next]_vars PROVE CountInvariant'
    OBVIOUS
  <2>1. ASSUME NEW g \in Gens, Turn(g) PROVE CountInvariant'
    BY <2>1, TurnForward, OthersCountNothing
  <2>2. ASSUME NEW g \in Gens, BuildPrompt(g) PROVE CountInvariant'
    BY <2>2, BuildPromptCounts
  <2>3. ASSUME NEW w \in Writers, SummaryWritten(w) \/ SummaryFails(w)
        PROVE  CountInvariant'
    BY <2>3, SummaryWrittenCounts, SummaryFailsCounts
  <2>4. CASE Compress
    BY <2>4, CompressCounts
  <2>5. CASE (\E u \in rows : ChooseDeleted(u)) \/ DeleteMessage \/ DeleteConversation
    <3>1. UNCHANGED <<pc, jobs, summary>>
      BY <2>5 DEF ChooseDeleted, DeleteMessage, DeleteConversation, genVars
    <3>2. QED
      BY <3>1, OthersCountNothing DEF CountInvariant
  <2>6. CASE UNCHANGED vars
    <3>1. UNCHANGED <<pc, jobs, summary>>
      BY <2>6 DEF vars, genVars
    <3>2. QED
      BY <3>1, OthersCountNothing DEF CountInvariant
  <2>7. QED
    BY <2>1, <2>2, <2>3, <2>4, <2>5, <2>6 DEF Next, Generate, Turn
<1>3. CountInvariant => CompressionsAreCounted
  BY DEF CountInvariant
<1>4. QED
  BY <1>1, <1>2, <1>3, PTL DEF Spec
=============================================================================
