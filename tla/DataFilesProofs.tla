--------------------------- MODULE DataFilesProofs ---------------------------
(***************************************************************************)
(* Proofs about the data directory, for every number of messages, size of  *)
(* the batches, number of starts and number of faults: type correctness,   *)
(* and that nothing of the user's is lost, that the mark of the encryption *)
(* tells the truth, that the search engines' keys survive the migration,   *)
(* and that a start puts in force what the one before it did.              *)
(*                                                                         *)
(* Each action has a lemma that says what it does to each of the files     *)
(* (its name ends in Effect); the invariants are proved from these.        *)
(***************************************************************************)
EXTENDS DataFiles, FiniteSetTheorems, TLAPS

-----------------------------------------------------------------------------
(* The batches of the encryption. *)

(* A finite set of numbers has a least element.                                *)
LEMMA LeastElement ==
  ASSUME NEW S \in SUBSET Nat, IsFiniteSet(S), S # {}
  PROVE  \E x \in S : \A y \in S : x <= y
<1> DEFINE Below(x) == {y \in S : y < x}
           T == {Below(x) : x \in S}
<1>1. IsWellFoundedOn(StrictSubsetOrdering(S), FiniteSubsetsOf(S))
  BY FS_StrictSubsetOrderingWellFounded
<1>2. T # {}
  OBVIOUS
<1>3. T \subseteq FiniteSubsetsOf(S)
  <2>1. \A x \in S : Below(x) \in FiniteSubsetsOf(S)
    BY FS_Subset DEF FiniteSubsetsOf
  <2>2. QED
    BY <2>1
<1>4. PICK B \in T : \A C \in T : <<C, B>> \notin StrictSubsetOrdering(S)
  <2> HIDE DEF T
  <2>1. QED
    BY <1>1, <1>2, <1>3, WFMin
<1>5. PICK x \in S : B = Below(x)
  BY <1>4
<1>6. ASSUME NEW y \in S, y < x PROVE FALSE
  <2>1. x \in Nat /\ y \in Nat
    OBVIOUS
  <2>2. \A z \in S : z \in Nat /\ (z < y => z < x)
    BY <1>6, <2>1
  <2>3. Below(y) \subseteq Below(x)
    BY <2>2
  <2>4. y \in Below(x) /\ y \notin Below(y)
    BY <1>6, <2>1
  <2>5. <<Below(y), Below(x)>> \in StrictSubsetOrdering(S)
    BY <2>3, <2>4 DEF StrictSubsetOrdering
  <2>6. QED
    BY <1>4, <1>5, <2>5
<1>7. QED
  BY <1>6

(* And a greatest one.                                                         *)
LEMMA GreatestElement ==
  ASSUME NEW S \in SUBSET Nat, IsFiniteSet(S), S # {}
  PROVE  \E x \in S : \A y \in S : y <= x
<1> DEFINE Above(x) == {y \in S : x < y}
           T == {Above(x) : x \in S}
<1>1. IsWellFoundedOn(StrictSubsetOrdering(S), FiniteSubsetsOf(S))
  BY FS_StrictSubsetOrderingWellFounded
<1>2. T # {}
  OBVIOUS
<1>3. T \subseteq FiniteSubsetsOf(S)
  <2>1. \A x \in S : Above(x) \in FiniteSubsetsOf(S)
    BY FS_Subset DEF FiniteSubsetsOf
  <2>2. QED
    BY <2>1
<1>4. PICK B \in T : \A C \in T : <<C, B>> \notin StrictSubsetOrdering(S)
  <2> HIDE DEF T
  <2>1. QED
    BY <1>1, <1>2, <1>3, WFMin
<1>5. PICK x \in S : B = Above(x)
  BY <1>4
<1>6. ASSUME NEW y \in S, x < y PROVE FALSE
  <2>1. x \in Nat /\ y \in Nat
    OBVIOUS
  <2>2. \A z \in S : z \in Nat /\ (y < z => x < z)
    BY <1>6, <2>1
  <2>3. Above(y) \subseteq Above(x)
    BY <2>2
  <2>4. y \in Above(x) /\ y \notin Above(y)
    BY <1>6, <2>1
  <2>5. <<Above(y), Above(x)>> \in StrictSubsetOrdering(S)
    BY <2>3, <2>4 DEF StrictSubsetOrdering
  <2>6. QED
    BY <1>4, <1>5, <2>5
<1>7. QED
  BY <1>6

(* LastOf gives the last identifier of a batch, or the cursor as it was.       *)
LEMMA LastOfBatch ==
  ASSUME NEW S \in SUBSET Nat, IsFiniteSet(S), NEW n \in Nat
  PROVE  /\ LastOf(S, n) \in Nat
         /\ S = {} => LastOf(S, n) = n
         /\ S # {} => LastOf(S, n) \in S /\ \A x \in S : x <= LastOf(S, n)
<1>1. CASE S = {}
  BY <1>1 DEF LastOf
<1>2. CASE S # {}
  <2>1. LastOf(S, n) = CHOOSE x \in S : \A y \in S : y <= x
    BY <1>2 DEF LastOf
  <2>2. LastOf(S, n) \in S /\ \A x \in S : x <= LastOf(S, n)
    BY <1>2, <2>1, GreatestElement
  <2>3. QED
    BY <1>2, <2>2
<1>3. QED
  BY <1>1, <1>2

(* A batch has no gaps: what comes before one of its messages is in it too,     *)
(* unless an earlier batch had it; and one that is not full is the last.       *)
LEMMA BatchIsPrefix ==
  ASSUME NEW rows, DOMAIN rows \subseteq Nat, IsFiniteSet(DOMAIN rows),
         NEW db, db.rows = rows, NEW after \in Nat
  PROVE  /\ Batch(db, after) \subseteq DOMAIN rows /\ IsFiniteSet(Batch(db, after))
         /\ \A m \in Batch(db, after) : m > after
         /\ \A m \in Batch(db, after) : \A r \in DOMAIN rows :
               after < r /\ r <= m => r \in Batch(db, after)
         /\ Cardinality(Batch(db, after)) < BatchSize =>
              \A r \in DOMAIN rows : after < r => r \in Batch(db, after)
<1>0. BatchSize \in Nat
  BY DataFilesAssumption
<1> DEFINE left == {r \in DOMAIN rows : r > after}
           Before(r) == {q \in left : q < r}
<1>1. /\ left \in SUBSET Nat /\ IsFiniteSet(left)
      /\ \A r \in left : IsFiniteSet(Before(r)) /\ Cardinality(Before(r)) \in Nat
  <2>1. left \in SUBSET (DOMAIN rows) /\ left \in SUBSET Nat
    OBVIOUS
  <2>2. IsFiniteSet(left)
    BY <2>1, FS_Subset
  <2>3. \A r \in left : Before(r) \in SUBSET left
    OBVIOUS
  <2> HIDE DEF left, Before
  <2>4. \A r \in left : IsFiniteSet(Before(r))
    BY <2>2, <2>3, FS_Subset
  <2>5. QED
    BY <2>1, <2>2, <2>4, FS_CardinalityType
<1>2. Batch(db, after) = {r \in left : Cardinality(Before(r)) < BatchSize}
  BY DEF Batch
<1> DEFINE b == {r \in left : Cardinality(Before(r)) < BatchSize}
<1>3. IsFiniteSet(b)
  <2>1. b \in SUBSET left
    OBVIOUS
  <2> HIDE DEF b, left
  <2>2. QED
    BY <1>1, <2>1, FS_Subset
<1>4. ASSUME NEW m \in left, NEW r \in left, r <= m,
             Cardinality(Before(m)) < BatchSize
      PROVE  Cardinality(Before(r)) < BatchSize
  <2>1. r \in Nat /\ m \in Nat /\ \A q \in left : q \in Nat
    BY <1>1
  <2>2. Before(r) \in SUBSET Before(m)
    BY <1>4, <2>1
  <2> HIDE DEF left, Before
  <2>3. Cardinality(Before(r)) <= Cardinality(Before(m))
    BY <1>1, <2>2, FS_Subset
  <2>4. QED
    BY <1>0, <1>1, <1>4, <2>3
<1>5. ASSUME Cardinality(b) < BatchSize, NEW r \in left, r \notin b
      PROVE  FALSE
  <2>1. (left \ b) \in SUBSET Nat /\ IsFiniteSet(left \ b) /\ left \ b # {}
    <3>1. (left \ b) \in SUBSET left
      OBVIOUS
    <3> HIDE DEF left, b
    <3>2. QED
      BY <1>1, <1>5, <3>1, FS_Subset
  <2>2. PICK x \in left \ b : \A y \in left \ b : x <= y
    <3> HIDE DEF left, b
    <3>1. QED
      BY <2>1, LeastElement
  <2>3. Before(x) \in SUBSET b
    <3>1. \A q \in left : q < x => q \in b
      BY <1>1, <2>2
    <3>2. QED
      BY <3>1
  <2>4. ~(Cardinality(Before(x)) < BatchSize) /\ x \in left
    BY <2>2
  <2>5. Cardinality(Before(x)) <= Cardinality(b) /\ Cardinality(b) \in Nat
    <3> HIDE DEF left, b, Before
    <3>1. QED
      BY <1>3, <2>3, FS_Subset, FS_CardinalityType
  <2>6. Cardinality(Before(x)) \in Nat
    BY <1>1, <2>4
  <2> HIDE DEF left, b, Before
  <2>7. QED
    BY <1>0, <1>5, <2>4, <2>5, <2>6
<1>6. ASSUME NEW m \in b, NEW r \in DOMAIN rows, after < r, r <= m PROVE r \in b
  <2>1. r \in left /\ m \in left /\ Cardinality(Before(m)) < BatchSize
    BY <1>1, <1>6
  <2>2. QED
    BY <1>4, <1>6, <2>1
<1>7. \A r \in left : r \in DOMAIN rows /\ r > after
  OBVIOUS
<1>8. \A r \in DOMAIN rows : r \in left <=> after < r
  OBVIOUS
<1> HIDE DEF left, Before
<1>9. QED
  BY <1>2, <1>3, <1>5, <1>6, <1>7, <1>8

-----------------------------------------------------------------------------
(* Configurations and texts. *)

(* A configuration as the running application has it. *)
Normal(c) ==
  c.ver = CurrentConfigVersion /\ c.kv # "absent" /\ c.full /\ ~c.bad /\ ~c.engines /\ ~c.quoted

(* Configurations that agree in every field are the same.                      *)
LEMMA SameConfig ==
  ASSUME NEW c \in Configs, NEW d \in Configs,
         c.ver = d.ver, c.kv = d.kv, c.full = d.full,
         c.bad = d.bad, c.engines = d.engines, c.quoted = d.quoted
  PROVE  c = d
BY DEF Configs

(* What Load puts in force is a normal configuration, with kv_unified as the    *)
(* file has it unless it is absent or from a version before the fourth.        *)
LEMMA InForceFields ==
  ASSUME NEW c \in Configs
  PROVE  /\ InForce(c) \in Configs /\ Normal(InForce(c))
         /\ InForce(c).kv =
              IF c.quoted /\ c.bad THEN "on"
              ELSE IF c.kv = "absent" \/ (c.kv = "off" /\ c.ver < CurrentConfigVersion)
                   THEN "on" ELSE c.kv
<1> DEFINE k == IF c.kv = "absent" \/ (c.kv = "off" /\ c.ver < CurrentConfigVersion)
                THEN "on" ELSE c.kv
           r == [ver |-> CurrentConfigVersion, kv |-> k, full |-> TRUE,
                 bad |-> FALSE, engines |-> FALSE, quoted |-> FALSE]
<1>1. DefaultConfig \in Configs /\ Normal(DefaultConfig) /\ DefaultConfig.kv = "on"
  BY DEF DefaultConfig, Configs, Normal, CurrentConfigVersion
<1>2. k \in {"off", "on"}
  BY DEF Configs
<1>3. r \in Configs /\ Normal(r) /\ r.kv = k
  BY <1>2 DEF Configs, Normal, CurrentConfigVersion
<1>4. Repaired(Migrated(c)) = r
  <2> DEFINE m == Migrated(c)
  <2>1. /\ m \in Configs /\ m.ver = r.ver /\ m.kv = k /\ m.full = TRUE /\ m.bad = c.bad
        /\ m.engines = FALSE /\ m.quoted = FALSE
    <3>1. /\ m.ver = r.ver /\ m.kv = k /\ m.full = TRUE /\ m.bad = c.bad
          /\ m.engines = FALSE /\ m.quoted = FALSE
      BY DEF Migrated, Configs
    <3>2. CurrentConfigVersion \in {NoVer} \union 0..CurrentConfigVersion
      BY DEF CurrentConfigVersion
    <3>3. m = [c EXCEPT !.ver = CurrentConfigVersion, !.full = TRUE, !.engines = FALSE,
                        !.quoted = FALSE, !.kv = k]
      BY DEF Migrated
    <3> HIDE DEF m, k
    <3>4. m \in Configs
      BY <1>2, <3>2, <3>3 DEF Configs
    <3>5. QED
      BY <3>1, <3>4
  <2> HIDE DEF m
  <2>2. /\ Repaired(m) \in Configs /\ Repaired(m).ver = r.ver /\ Repaired(m).kv = k
        /\ Repaired(m).full = TRUE /\ Repaired(m).bad = FALSE
        /\ Repaired(m).engines = FALSE /\ Repaired(m).quoted = FALSE
    BY <2>1 DEF Repaired, Configs
  <2>3. Repaired(m) = r
    BY <1>3, <2>2, SameConfig
  <2>4. QED
    BY <2>3 DEF m
<1>5. QED
  BY <1>1, <1>3, <1>4 DEF InForce

(* A start that finds what an earlier one had in force keeps it.               *)
LEMMA InForceOfNormal ==
  ASSUME NEW c \in Configs, Normal(c)
  PROVE  InForce(c) = c
<1>1. InForce(c) \in Configs /\ Normal(InForce(c)) /\ InForce(c).kv = c.kv
  BY InForceFields DEF Normal, CurrentConfigVersion
<1>2. \A d \in Configs : Normal(d) =>
        d.ver = 4 /\ d.full = TRUE /\ d.bad = FALSE /\ d.engines = FALSE /\ d.quoted = FALSE
  BY DEF Normal, Configs, CurrentConfigVersion
<1>3. QED
  BY <1>1, <1>2, SameConfig

(* Completing a file that has a version changes nothing of what it puts in force. *)
LEMMA InForceOfCompleted ==
  ASSUME NEW c \in Configs, ~c.quoted, NEW m \in Configs, m = InForce(c)
  PROVE  /\ Completed(c, m) \in Configs /\ Completed(c, m).engines = c.engines
         /\ c.ver # NoVer => InForce(Completed(c, m)) = m
<1> DEFINE d == Completed(c, m)
<1>1. Normal(m) /\ m.ver = CurrentConfigVersion /\ m.kv \in {"on", "off"}
  BY InForceFields DEF Normal, Configs
<1>2. /\ d.ver = IF c.ver = NoVer THEN m.ver ELSE c.ver
      /\ d.kv = IF c.kv = "absent" THEN m.kv ELSE c.kv
      /\ d.full = TRUE /\ d.bad = c.bad /\ d.engines = c.engines /\ d.quoted = c.quoted
  BY DEF Completed, Configs
<1>3. d \in Configs
  BY <1>1 DEF Completed, Configs, CurrentConfigVersion
<1>4. ASSUME c.ver # NoVer PROVE InForce(d) = m
  <2> HIDE DEF d
  <2>1. InForce(d) \in Configs /\ Normal(InForce(d)) /\ InForce(d).kv = m.kv
    BY <1>1, <1>2, <1>3, <1>4, InForceFields
  <2>2. \A e \in Configs : Normal(e) =>
          e.ver = 4 /\ e.full = TRUE /\ e.bad = FALSE /\ e.engines = FALSE /\ e.quoted = FALSE
    BY DEF Normal, Configs, CurrentConfigVersion
  <2>3. QED
    BY <1>1, <2>1, <2>2, SameConfig
<1>5. QED
  BY <1>2, <1>3, <1>4

(* A text is encrypted once.                                                   *)
LEMMA SealedText ==
  ASSUME NEW t \in Texts, NEW k \in Keys
  PROVE  /\ Sealed(t, k) \in Texts /\ Sealed(t, k).layers > 0
         /\ t.layers > 0 => Sealed(t, k) = t
         /\ t.layers = 0 => Sealed(t, k) = [layers |-> 1, key |-> k]
BY DEF Sealed, Texts

(* The constants have the types that the variables need.                       *)
LEMMA Constants ==
  /\ Plain \in Texts /\ Plain.layers = 0
  /\ EmptyDb \in Dbs /\ ~EmptyDb.done /\ DOMAIN EmptyDb.rows = {}
  /\ OldDb \in Dbs /\ ~OldDb.done /\ OldDb.rows = [r \in OldRows |-> Plain]
  /\ DefaultConfig \in Configs /\ Normal(DefaultConfig)
  /\ OldConfigs \subseteq Configs
  /\ 0 \in Keys /\ DOMAIN Files = 1..3 /\ Len(Files) = 3
  /\ Files[1] = "config" /\ Files[2] = "key" /\ Files[3] = "db"
<1>1. Plain \in Texts /\ Plain.layers = 0
  BY DEF Plain, Texts, NoKey
<1>2. EmptyDb.rows \in [{} -> Texts] /\ [r \in OldRows |-> Plain] \in [OldRows -> Texts]
  BY <1>1 DEF EmptyDb
<1>3. OldRows \in SUBSET Rows
  BY DataFilesAssumption
<1>4. EmptyDb \in Dbs /\ ~EmptyDb.done /\ DOMAIN EmptyDb.rows = {}
  BY <1>1, <1>2 DEF EmptyDb, Dbs
<1>5. /\ OldDb \in Dbs /\ ~OldDb.done /\ OldDb.rows = [r \in OldRows |-> Plain]
  BY <1>2, <1>3, <1>4 DEF OldDb, Dbs
<1>6. DefaultConfig \in Configs /\ Normal(DefaultConfig)
  BY DEF DefaultConfig, Configs, Normal, CurrentConfigVersion
<1>7. OldConfigs \subseteq Configs
  <2> SUFFICES ASSUME NEW c \in OldConfigs PROVE c \in Configs
    OBVIOUS
  <2>1. {NoVer, 3} \subseteq {NoVer} \union 0..CurrentConfigVersion
    BY DEF CurrentConfigVersion
  <2>2. QED
    BY <2>1 DEF OldConfigs, Configs
<1>8. 0 \in Keys
  BY DataFilesAssumption DEF Keys
<1>9. /\ DOMAIN Files = 1..3 /\ Len(Files) = 3
       /\ Files[1] = "config" /\ Files[2] = "key" /\ Files[3] = "db"
  BY DEF Files
<1>10. QED
  BY <1>1, <1>4, <1>5, <1>6, <1>7, <1>8, <1>9

-----------------------------------------------------------------------------
(* Types. *)

Disks == [config: Configs \union {NoFile, Torn}, key: Keys \union {NoFile, Torn},
          db: Dbs \union {NoFile, Torn}]

(* Writing one file of the disk leaves the others as they were.                *)
LEMMA WithConfig ==
  ASSUME NEW d \in Disks, NEW x \in Configs \union {NoFile, Torn}
  PROVE  /\ [d EXCEPT !.config = x] \in Disks
         /\ [d EXCEPT !.config = x].config = x
         /\ [d EXCEPT !.config = x].key = d.key
         /\ [d EXCEPT !.config = x].db = d.db
BY DEF Disks

(* The same for the key file.                                                  *)
LEMMA WithKey ==
  ASSUME NEW d \in Disks, NEW x \in Keys \union {NoFile, Torn}
  PROVE  /\ [d EXCEPT !.key = x] \in Disks
         /\ [d EXCEPT !.key = x].config = d.config
         /\ [d EXCEPT !.key = x].key = x
         /\ [d EXCEPT !.key = x].db = d.db
BY DEF Disks

(* The same for the database.                                                  *)
LEMMA WithDb ==
  ASSUME NEW d \in Disks, NEW x \in Dbs \union {NoFile, Torn}
  PROVE  /\ [d EXCEPT !.db = x] \in Disks
         /\ [d EXCEPT !.db = x].config = d.config
         /\ [d EXCEPT !.db = x].key = d.key
         /\ [d EXCEPT !.db = x].db = x
BY DEF Disks

(* The messages of a database are finitely many of the ones there can be.      *)
LEMMA RowsOfDb ==
  ASSUME NEW db \in Dbs
  PROVE  /\ DOMAIN db.rows \in SUBSET Rows /\ DOMAIN db.rows \subseteq Nat \ {0}
         /\ IsFiniteSet(DOMAIN db.rows)
         /\ \A r \in DOMAIN db.rows : db.rows[r] \in Texts
         /\ db.title \in Texts
<1>1. db.rows \in UNION {[R -> Texts] : R \in SUBSET Rows} /\ db.title \in Texts
  BY DEF Dbs
<1>2. PICK R \in SUBSET Rows : db.rows \in [R -> Texts]
  BY <1>1
<1>3. QED
  BY <1>1, <1>2, FS_Subset, DataFilesAssumption

(* One field of the database changes.                                          *)
LEMMA DbWith ==
  ASSUME NEW db \in Dbs
  PROVE  /\ \A t \in Texts : LET e == [db EXCEPT !.title = t] IN
              e \in Dbs /\ e.title = t /\ e.rows = db.rows /\ e.done = db.done /\ e.engine = db.engine
         /\ LET e == [db EXCEPT !.done = TRUE] IN
              e \in Dbs /\ e.title = db.title /\ e.rows = db.rows /\ e.done /\ e.engine = db.engine
         /\ LET e == [db EXCEPT !.engine = TRUE] IN
              e \in Dbs /\ e.title = db.title /\ e.rows = db.rows /\ e.done = db.done /\ e.engine
<1>1. \A t \in Texts : LET e == [db EXCEPT !.title = t] IN
        e \in Dbs /\ e.title = t /\ e.rows = db.rows /\ e.done = db.done /\ e.engine = db.engine
  BY DEF Dbs
<1>2. LET e == [db EXCEPT !.done = TRUE] IN
        e \in Dbs /\ e.title = db.title /\ e.rows = db.rows /\ e.done /\ e.engine = db.engine
  BY DEF Dbs
<1>3. LET e == [db EXCEPT !.engine = TRUE] IN
        e \in Dbs /\ e.title = db.title /\ e.rows = db.rows /\ e.done = db.done /\ e.engine
  BY DEF Dbs
<1>4. QED
  BY <1>1, <1>2, <1>3

(* Other messages, or other texts for them.                                    *)
LEMMA RowsWith ==
  ASSUME NEW db \in Dbs, NEW R \in SUBSET Rows, NEW f \in [R -> Texts]
  PROVE  LET e == [db EXCEPT !.rows = f] IN
           e \in Dbs /\ e.title = db.title /\ e.rows = f /\ e.done = db.done /\ e.engine = db.engine
<1>1. f \in UNION {[Q -> Texts] : Q \in SUBSET Rows}
  OBVIOUS
<1>2. QED
  BY <1>1 DEF Dbs

(* Completing a configuration leaves the search engines' keys in it.           *)
LEMMA CompletedType ==
  ASSUME NEW c \in Configs, NEW m \in Configs
  PROVE  Completed(c, m) \in Configs /\ Completed(c, m).engines = c.engines
BY DEF Completed, Configs

(* The older version left a configuration where it left a database.            *)
LegacyWhole == legacy.config = NoFile <=> legacy.db = NoFile

(* What a start has behind it in its later phases. *)
Opened     == {"title", "batch", "done", "engines", "engineSave", "run"}
Keyed      == Opened \union {"db"}
Configured == Keyed \union {"key", "newKey"}
Copying    == {"open", "fill", "mark"}

PhaseInvariant ==
  /\ pc = "fill" => legacy[Files[file]] # NoFile
  /\ pc \in Configured \union {"complete"} => disk.config \in Configs
  /\ pc \in Keyed => encKey = disk.key /\ encKey \in Keys
  /\ pc = "newKey" => disk.key = Torn
  /\ pc \in Opened => disk.db \in Dbs

TypeInvariant == TypeOK /\ LegacyWhole /\ PhaseInvariant

(* An old file has the type of the file it is copied to.                       *)
LEMMA OldFiles ==
  ASSUME TypeOK
  PROVE  /\ legacy.config \in OldConfigs \union {NoFile}
         /\ legacy.config \in Configs \union {NoFile}
         /\ legacy.key \in {NoFile, 0} /\ legacy.key \in Keys \union {NoFile}
         /\ legacy.db \in {NoFile, OldDb} /\ legacy.db \in Dbs \union {NoFile}
BY Constants DEF TypeOK

(* The three files, each by its name. *)
LEMMA FilesByName ==
  ASSUME TypeOK
  PROVE  /\ disk \in Disks /\ file \in 1..3 /\ file \in Nat
         /\ file = 1 => Files[file] = "config"
         /\ file = 2 => Files[file] = "key"
         /\ file = 3 => Files[file] = "db"
         /\ file = 1 \/ file = 2 \/ file = 3
         /\ NextFile <=> IF file < 3 THEN file' = file + 1 /\ pc' = "open"
                                     ELSE file' = file /\ pc' = "mark"
BY Constants DEF TypeOK, Disks, NextFile, Goto

(* The copy of a file that the older version does not have, or that fails,     *)
(* leaves the disk alone; the others are cut short first, then filled.         *)
LEMMA CopyOpenEffect ==
  ASSUME TypeInvariant, CopyOpen
  PROVE  /\ pc = "open" /\ disk' \in Disks
         /\ UNCHANGED <<legacy, marker, inMem, original, encKey, cursor, why, starts, cut,
                        unlisted, kept, skipped, rewritten>>
         /\ \/ /\ disk' = disk /\ NextFile /\ legacy[Files[file]] = NoFile
               /\ faults' = faults /\ clean' = clean
            \/ disk' = disk /\ NextFile /\ Fault /\ ~clean'
            \/ /\ legacy[Files[file]] # NoFile /\ pc' = "fill"
               /\ file' = file /\ faults' = faults /\ clean' = clean
               /\ disk'[Files[file]] = Torn
               /\ \A f \in {"config", "key", "db"} \ {Files[file]} : disk'[f] = disk[f]
<1>1. disk \in Disks /\ file \in 1..3
  BY FilesByName DEF TypeInvariant
<1> DEFINE e == [disk EXCEPT ![Files[file]] = Torn]
<1>2. /\ e \in Disks /\ e[Files[file]] = Torn
      /\ \A f \in {"config", "key", "db"} \ {Files[file]} : e[f] = disk[f]
  <2>1. CASE file = 1
    <3>1. Files[file] = "config" /\ e = [disk EXCEPT !.config = Torn]
      BY <2>1, FilesByName DEF TypeInvariant
    <3>2. e \in Disks /\ e.config = Torn /\ e.key = disk.key /\ e.db = disk.db
      <4> HIDE DEF e
      <4>1. QED
        BY <1>1, <3>1, WithConfig
    <3>3. QED
      BY <3>1, <3>2
  <2>2. CASE file = 2
    <3>1. Files[file] = "key" /\ e = [disk EXCEPT !.key = Torn]
      BY <2>2, FilesByName DEF TypeInvariant
    <3>2. e \in Disks /\ e.key = Torn /\ e.config = disk.config /\ e.db = disk.db
      <4> HIDE DEF e
      <4>1. QED
        BY <1>1, <3>1, WithKey
    <3>3. QED
      BY <3>1, <3>2
  <2>3. CASE file = 3
    <3>1. Files[file] = "db" /\ e = [disk EXCEPT !.db = Torn]
      BY <2>3, FilesByName DEF TypeInvariant
    <3>2. e \in Disks /\ e.db = Torn /\ e.config = disk.config /\ e.key = disk.key
      <4> HIDE DEF e
      <4>1. QED
        BY <1>1, <3>1, WithDb
    <3>3. QED
      BY <3>1, <3>2
  <2>4. QED
    BY <1>1, <2>1, <2>2, <2>3
<1>3. QED
  BY <1>1, <1>2 DEF CopyOpen, NextFile, Goto, NoFault, confVars

(* A copy ends with the old file in place, or with what was there before.      *)
LEMMA CopyFillEffect ==
  ASSUME TypeInvariant, CopyFill
  PROVE  /\ pc = "fill" /\ disk' \in Disks /\ NextFile
         /\ UNCHANGED <<legacy, marker, inMem, original, encKey, cursor, why, starts, cut,
                        unlisted, kept, skipped, rewritten>>
         /\ \/ disk' = disk /\ Fault /\ ~clean'
            \/ /\ faults' = faults /\ clean' = clean
               /\ disk'[Files[file]] = legacy[Files[file]]
               /\ \A f \in {"config", "key", "db"} \ {Files[file]} : disk'[f] = disk[f]
<1>1. disk \in Disks /\ file \in 1..3
  BY FilesByName DEF TypeInvariant
<1> DEFINE e == [disk EXCEPT ![Files[file]] = legacy[Files[file]]]
<1>2. /\ e \in Disks /\ e[Files[file]] = legacy[Files[file]]
      /\ \A f \in {"config", "key", "db"} \ {Files[file]} : e[f] = disk[f]
  <2>1. CASE file = 1
    <3>1. Files[file] = "config" /\ e = [disk EXCEPT !.config = legacy.config]
      BY <2>1, FilesByName DEF TypeInvariant
    <3>2. legacy.config \in Configs \union {NoFile, Torn}
      BY OldFiles DEF TypeInvariant
    <3>3. e \in Disks /\ e.config = legacy.config /\ e.key = disk.key /\ e.db = disk.db
      <4> HIDE DEF e
      <4>1. QED
        BY <1>1, <3>1, <3>2, WithConfig
    <3>4. QED
      BY <3>1, <3>3
  <2>2. CASE file = 2
    <3>1. Files[file] = "key" /\ e = [disk EXCEPT !.key = legacy.key]
      BY <2>2, FilesByName DEF TypeInvariant
    <3>2. legacy.key \in Keys \union {NoFile, Torn}
      BY OldFiles DEF TypeInvariant
    <3>3. e \in Disks /\ e.key = legacy.key /\ e.config = disk.config /\ e.db = disk.db
      <4> HIDE DEF e
      <4>1. QED
        BY <1>1, <3>1, <3>2, WithKey
    <3>4. QED
      BY <3>1, <3>3
  <2>3. CASE file = 3
    <3>1. Files[file] = "db" /\ e = [disk EXCEPT !.db = legacy.db]
      BY <2>3, FilesByName DEF TypeInvariant
    <3>2. legacy.db \in Dbs \union {NoFile, Torn}
      BY OldFiles DEF TypeInvariant
    <3>3. e \in Disks /\ e.db = legacy.db /\ e.config = disk.config /\ e.key = disk.key
      <4> HIDE DEF e
      <4>1. QED
        BY <1>1, <3>1, <3>2, WithDb
    <3>4. QED
      BY <3>1, <3>3
  <2>4. QED
    BY <1>1, <2>1, <2>2, <2>3
<1>3. QED
  BY <1>1, <1>2 DEF CopyFill, NoFault, confVars

(* Neither step of a copy leaves the migration.                                *)
LEMMA CopyOpenTypes ==
  ASSUME TypeInvariant, CopyOpen
  PROVE  /\ faults' \in 0..MaxFaults /\ file' \in 1..3 /\ clean' \in BOOLEAN
         /\ pc' \in Copying
         /\ pc' = "fill" => legacy[Files[file']] # NoFile
<1>1. file \in 1..3 /\ faults \in 0..MaxFaults /\ clean \in BOOLEAN
  BY Constants DEF TypeInvariant, TypeOK
<1>2. CopyOpen
  OBVIOUS
<1>3. /\ (faults' = faults \/ (faults < MaxFaults /\ faults' = faults + 1))
      /\ (clean' = clean \/ clean' = FALSE)
  BY <1>2 DEF CopyOpen, NoFault, Fault
<1>4. NextFile => file' \in 1..3 /\ pc' \in {"open", "mark"}
  BY <1>1, FilesByName DEF TypeInvariant
<1>5. faults' \in 0..MaxFaults /\ clean' \in BOOLEAN
  <2>1. faults' \in 0..MaxFaults
    BY <1>1, <1>3, DataFilesAssumption
  <2>2. clean' \in BOOLEAN
    BY <1>1, <1>3, Zenon
  <2>3. QED
    BY <2>1, <2>2
<1>6. NextFile \/ (file' = file /\ pc' = "fill" /\ legacy[Files[file]] # NoFile)
  BY <1>2, CopyOpenEffect
<1>7. QED
  BY <1>1, <1>4, <1>5, <1>6 DEF Copying

(* The same for the second step.                                               *)
LEMMA CopyFillTypes ==
  ASSUME TypeInvariant, CopyFill
  PROVE  /\ faults' \in 0..MaxFaults /\ file' \in 1..3 /\ clean' \in BOOLEAN
         /\ pc' \in Copying
         /\ pc' = "fill" => legacy[Files[file']] # NoFile
<1>1. file \in 1..3 /\ faults \in 0..MaxFaults /\ clean \in BOOLEAN
  BY Constants DEF TypeInvariant, TypeOK
<1>2. CopyFill
  OBVIOUS
<1>3. /\ (faults' = faults \/ (faults < MaxFaults /\ faults' = faults + 1))
      /\ (clean' = clean \/ clean' = FALSE)
  BY <1>2 DEF CopyFill, NoFault, Fault
<1>4. NextFile => file' \in 1..3 /\ pc' \in {"open", "mark"}
  BY <1>1, FilesByName DEF TypeInvariant
<1>5. faults' \in 0..MaxFaults /\ clean' \in BOOLEAN
  <2>1. faults' \in 0..MaxFaults
    BY <1>1, <1>3, DataFilesAssumption
  <2>2. clean' \in BOOLEAN
    BY <1>1, <1>3, Zenon
  <2>3. QED
    BY <2>1, <2>2
<1>6. NextFile \/ (file' = file /\ pc' = "fill" /\ legacy[Files[file]] # NoFile)
  BY <1>2, CopyFillEffect
<1>7. QED
  BY <1>1, <1>4, <1>5, <1>6 DEF Copying

(* What config.Load does with each kind of file it can find.                   *)
LEMMA ReadConfigEffect ==
  ASSUME TypeInvariant, ReadConfig
  PROVE  /\ pc = "load" /\ disk' \in Disks /\ disk'.key = disk.key /\ disk'.db = disk.db
         /\ inMem' \in Configs /\ original' \in Configs
         /\ faults' \in 0..MaxFaults /\ rewritten' \in BOOLEAN
         /\ UNCHANGED <<legacy, marker, file, encKey, cursor, starts, cut, unlisted, clean,
                        kept, skipped>>
         /\ \/ /\ disk.config \in {NoFile, Torn} /\ pc' = "key" /\ why' = why
               /\ inMem' = DefaultConfig /\ disk'.config = DefaultConfig
               /\ original' = original /\ rewritten' = rewritten
            \/ /\ pc' = "fatal" /\ why' = "config" /\ disk' = disk
               /\ inMem' \in {inMem, DefaultConfig}
               /\ original' = original /\ rewritten' = rewritten
            \/ /\ disk.config \in Configs /\ pc' = "key" /\ why' = why
               /\ inMem' = InForce(disk.config) /\ disk'.config = inMem'
               /\ original' = original /\ rewritten'
            \/ /\ disk.config \in Configs /\ ~disk.config.quoted
               /\ pc' = "complete" /\ why' = why
               /\ inMem' = InForce(disk.config) /\ original' = disk.config
               /\ disk'.config = (IF disk.config.bad THEN inMem' ELSE disk.config)
               /\ disk.config.bad => rewritten'
               /\ ~disk.config.bad => rewritten' = rewritten
<1>1. disk \in Disks /\ inMem \in Configs /\ original \in Configs /\ rewritten \in BOOLEAN
      /\ faults \in 0..MaxFaults
  BY DEF TypeInvariant, TypeOK, Disks
<1>2. DefaultConfig \in Configs
  BY Constants
<1>3. faults' \in 0..MaxFaults
  BY <1>1, DataFilesAssumption DEF ReadConfig, Fault, NoFault
<1>4. /\ [disk EXCEPT !.config = DefaultConfig] \in Disks
      /\ [disk EXCEPT !.config = DefaultConfig].config = DefaultConfig
      /\ [disk EXCEPT !.config = DefaultConfig].key = disk.key
      /\ [disk EXCEPT !.config = DefaultConfig].db = disk.db
  BY <1>1, <1>2, WithConfig
<1>5. CASE disk.config \in Configs
  <2> DEFINE m == InForce(disk.config)
  <2>1. m \in Configs
    BY <1>5, InForceFields
  <2>2. /\ [disk EXCEPT !.config = m] \in Disks /\ [disk EXCEPT !.config = m].config = m
        /\ [disk EXCEPT !.config = m].key = disk.key /\ [disk EXCEPT !.config = m].db = disk.db
    <3> HIDE DEF m
    <3>1. QED
      BY <1>1, <2>1, WithConfig
  <2>3. disk.config # NoFile /\ disk.config # Torn
    BY <1>5, DataFilesAssumption
  <2> HIDE DEF m
  <2>4. QED
    BY <1>1, <1>3, <1>5, <2>1, <2>2, <2>3 DEF ReadConfig, SavedAs, GiveUp, Goto, confVars, m
<1>6. CASE disk.config \notin Configs
  <2>1. disk.config \in {NoFile, Torn}
    BY <1>1, <1>6 DEF Disks
  <2>2. QED
    BY <1>1, <1>2, <1>3, <1>4, <1>6, <2>1 DEF ReadConfig, SavedAs, GiveUp, Goto, confVars
<1>7. QED
  BY <1>5, <1>6

(* The file is completed from the bytes that Load read, or stays as it is.     *)
LEMMA EnsureConfigFieldsEffect ==
  ASSUME TypeInvariant, EnsureConfigFields
  PROVE  /\ pc = "complete" /\ pc' = "key" /\ disk' \in Disks
         /\ disk'.key = disk.key /\ disk'.db = disk.db
         /\ disk'.config \in {disk.config, Completed(original, inMem)}
         /\ disk'.config \in Configs /\ faults' \in 0..MaxFaults
         /\ UNCHANGED <<legacy, marker, file, inMem, original, encKey, cursor, why, starts, cut,
                        unlisted, clean, kept, skipped, rewritten>>
<1>1. disk \in Disks /\ inMem \in Configs /\ original \in Configs /\ faults \in 0..MaxFaults
      /\ pc = "complete" /\ disk.config \in Configs
  BY DEF TypeInvariant, TypeOK, PhaseInvariant, Disks, EnsureConfigFields
<1> DEFINE c == Completed(original, inMem)
<1>2. c \in Configs
  BY <1>1, CompletedType
<1>3. /\ [disk EXCEPT !.config = c] \in Disks /\ [disk EXCEPT !.config = c].config = c
      /\ [disk EXCEPT !.config = c].key = disk.key /\ [disk EXCEPT !.config = c].db = disk.db
  <2> HIDE DEF c
  <2>1. QED
    BY <1>1, <1>2, WithConfig
<1>4. faults' \in 0..MaxFaults
  BY <1>1, DataFilesAssumption DEF EnsureConfigFields, Fault, NoFault
<1> HIDE DEF c
<1>5. QED
  BY <1>1, <1>2, <1>3, <1>4 DEF EnsureConfigFields, SavedAs, Goto, confVars, histVars, c

(* The key of an earlier start is taken; a file cut short stops this one.      *)
LEMMA LoadKeyEffect ==
  ASSUME TypeInvariant, LoadKey
  PROVE  /\ pc = "key" /\ disk' \in Disks /\ disk'.config = disk.config /\ disk'.db = disk.db
         /\ UNCHANGED <<legacy, marker, file, inMem, original, cursor, starts, faults, cut,
                        unlisted, clean, kept, skipped, rewritten>>
         /\ \/ pc' = "db" /\ disk' = disk /\ encKey' = disk.key /\ disk.key \in Keys /\ why' = why
            \/ pc' = "fatal" /\ disk' = disk /\ encKey' = encKey /\ why' = "key"
            \/ /\ pc' = "newKey" /\ disk.key = NoFile /\ disk'.key = Torn
               /\ encKey' = encKey /\ why' = why
<1>1. disk \in Disks
  BY DEF TypeInvariant, TypeOK, Disks
<1>2. /\ [disk EXCEPT !.key = Torn] \in Disks /\ [disk EXCEPT !.key = Torn].key = Torn
      /\ [disk EXCEPT !.key = Torn].config = disk.config /\ [disk EXCEPT !.key = Torn].db = disk.db
  BY <1>1, WithKey
<1>3. QED
  BY <1>1, <1>2 DEF LoadKey, GiveUp, Goto, confVars, histVars

(* A new key is in memory only if it is on disk.                               *)
LEMMA CreateKeyEffect ==
  ASSUME TypeInvariant, CreateKey
  PROVE  /\ pc = "newKey" /\ disk' \in Disks /\ disk'.config = disk.config /\ disk'.db = disk.db
         /\ disk.key = Torn /\ faults' \in 0..MaxFaults
         /\ UNCHANGED <<legacy, marker, file, inMem, original, cursor, starts, cut,
                        unlisted, clean, kept, skipped, rewritten>>
         /\ \/ pc' = "db" /\ disk'.key = encKey' /\ encKey' \in Keys /\ why' = why
            \/ pc' = "fatal" /\ disk' = disk /\ encKey' = encKey /\ why' = "key"
<1>1. disk \in Disks /\ pc = "newKey" /\ disk.key = Torn /\ starts \in Keys
      /\ faults \in 0..MaxFaults
  BY DEF TypeInvariant, TypeOK, PhaseInvariant, Disks, CreateKey, Keys
<1>2. /\ [disk EXCEPT !.key = starts] \in Disks /\ [disk EXCEPT !.key = starts].key = starts
      /\ [disk EXCEPT !.key = starts].config = disk.config
      /\ [disk EXCEPT !.key = starts].db = disk.db
  BY <1>1, WithKey
<1>3. faults' \in 0..MaxFaults
  BY <1>1, DataFilesAssumption DEF CreateKey, Fault, NoFault
<1>4. QED
  BY <1>1, <1>2, <1>3 DEF CreateKey, GiveUp, Goto, confVars, histVars

(* A database that carries the mark skips the encryption.                      *)
LEMMA InitDatabaseEffect ==
  ASSUME TypeInvariant, InitDatabase
  PROVE  /\ pc = "db" /\ disk' \in Disks /\ disk'.config = disk.config /\ disk'.key = disk.key
         /\ UNCHANGED <<legacy, marker, file, inMem, original, encKey, cursor, starts, faults, cut,
                        unlisted, clean, kept, skipped, rewritten>>
         /\ \/ pc' = "fatal" /\ disk' = disk /\ why' = "db" /\ disk.db = Torn
            \/ pc' = "title" /\ disk.db = NoFile /\ disk'.db = EmptyDb /\ why' = why
            \/ /\ disk.db \in Dbs /\ disk' = disk /\ why' = why
               /\ pc' = IF disk.db.done THEN "engines" ELSE "title"
<1>1. disk \in Disks
  BY DEF TypeInvariant, TypeOK, Disks
<1>2. /\ [disk EXCEPT !.db = EmptyDb] \in Disks /\ [disk EXCEPT !.db = EmptyDb].db = EmptyDb
      /\ [disk EXCEPT !.db = EmptyDb].config = disk.config
      /\ [disk EXCEPT !.db = EmptyDb].key = disk.key
  BY <1>1, Constants, WithDb
<1>3. disk.db \in Dbs \union {NoFile, Torn}
  BY <1>1 DEF Disks
<1>4. QED
  BY <1>1, <1>2, <1>3 DEF InitDatabase, GiveUp, Goto, confVars, histVars

(* One text is sealed, or its update fails and is passed over.                 *)
LEMMA EncryptTitleEffect ==
  ASSUME TypeInvariant, EncryptTitle
  PROVE  /\ pc = "title" /\ pc' = "batch" /\ cursor' = 0 /\ disk' \in Disks
         /\ disk'.config = disk.config /\ disk'.key = disk.key
         /\ disk.db \in Dbs /\ disk'.db \in Dbs /\ faults' \in 0..MaxFaults
         /\ UNCHANGED <<legacy, marker, file, inMem, original, encKey, why, starts, cut,
                        unlisted, clean, kept, rewritten>>
         /\ \/ /\ disk'.db.title.layers > 0 /\ skipped' = skipped
               /\ disk'.db.rows = disk.db.rows /\ disk'.db.done = disk.db.done
               /\ disk'.db.engine = disk.db.engine
            \/ disk' = disk /\ skipped' = skipped \union {Title}
<1>1. disk \in Disks /\ pc = "title" /\ disk.db \in Dbs /\ encKey \in Keys
      /\ faults \in 0..MaxFaults
  BY DEF TypeInvariant, TypeOK, PhaseInvariant, Disks, EncryptTitle, Opened, Keyed
<1> DEFINE t == Sealed(disk.db.title, encKey)
           d == [disk.db EXCEPT !.title = t]
<1>2. t \in Texts /\ t.layers > 0
  BY <1>1, RowsOfDb, SealedText
<1>3. d \in Dbs /\ d.title = t /\ d.rows = disk.db.rows /\ d.done = disk.db.done
      /\ d.engine = disk.db.engine
  <2> HIDE DEF t
  <2>1. QED
    BY <1>1, <1>2, DbWith
<1>4. /\ [disk EXCEPT !.db = d] \in Disks /\ [disk EXCEPT !.db = d].db = d
      /\ [disk EXCEPT !.db = d].config = disk.config /\ [disk EXCEPT !.db = d].key = disk.key
  <2> HIDE DEF d
  <2>1. QED
    BY <1>1, <1>3, WithDb
<1>5. \/ disk' = [disk EXCEPT !.db = d] /\ skipped' = skipped
      \/ disk' = disk /\ skipped' = skipped \union {Title}
  BY DEF EncryptTitle
<1>6. faults' \in 0..MaxFaults
  BY <1>1, DataFilesAssumption DEF EncryptTitle, Fault, NoFault
<1>7. /\ pc' = "batch" /\ cursor' = 0
      /\ UNCHANGED <<legacy, marker, file, inMem, original, encKey, why, starts, cut,
                     unlisted, clean, kept, rewritten>>
  BY DEF EncryptTitle, Goto, confVars
<1> HIDE DEF d, t
<1>8. QED
  BY <1>1, <1>2, <1>3, <1>4, <1>5, <1>6, <1>7

(* A batch is sealed as a whole, or not at all.                                *)
LEMMA EncryptBatchEffect ==
  ASSUME TypeInvariant, EncryptBatch
  PROVE  /\ pc = "batch" /\ disk' \in Disks /\ cursor \in Nat /\ cursor' \in Nat
         /\ disk'.config = disk.config /\ disk'.key = disk.key /\ encKey \in Keys
         /\ disk.db \in Dbs /\ disk'.db \in Dbs /\ faults' \in 0..MaxFaults
         /\ UNCHANGED <<legacy, marker, file, inMem, original, encKey, why, starts, cut,
                        unlisted, clean, kept, rewritten>>
         /\ LET b == Batch(disk.db, cursor) IN
              /\ b \subseteq DOMAIN disk.db.rows
              /\ cursor' = LastOf(b, cursor)
              /\ pc' = IF Cardinality(b) < BatchSize THEN "done" ELSE "batch"
              /\ \/ /\ skipped' = skipped /\ disk'.db.title = disk.db.title
                    /\ disk'.db.done = disk.db.done /\ disk'.db.engine = disk.db.engine
                    /\ DOMAIN disk'.db.rows = DOMAIN disk.db.rows
                    /\ \A r \in DOMAIN disk.db.rows : disk'.db.rows[r] =
                         IF r \in b THEN Sealed(disk.db.rows[r], encKey) ELSE disk.db.rows[r]
                 \/ disk' = disk /\ skipped' = skipped \union b
<1>1. disk \in Disks /\ pc = "batch" /\ disk.db \in Dbs /\ encKey \in Keys
      /\ faults \in 0..MaxFaults /\ cursor \in Nat
  BY DEF TypeInvariant, TypeOK, PhaseInvariant, Disks, EncryptBatch, Opened, Keyed
<1> DEFINE b == Batch(disk.db, cursor)
           R == DOMAIN disk.db.rows
           f == [r \in R |-> IF r \in b THEN Sealed(disk.db.rows[r], encKey) ELSE disk.db.rows[r]]
           d == [disk.db EXCEPT !.rows = f]
<1>2. R \in SUBSET Rows /\ R \subseteq Nat /\ IsFiniteSet(R)
      /\ \A r \in R : disk.db.rows[r] \in Texts
  BY <1>1, RowsOfDb
<1>3. b \in SUBSET R /\ IsFiniteSet(b)
  <2> HIDE DEF b
  <2>1. QED
    BY <1>1, <1>2, BatchIsPrefix DEF b
<1>4. f \in [R -> Texts]
  <2> HIDE DEF R, b
  <2>1. \A r \in R : Sealed(disk.db.rows[r], encKey) \in Texts
    BY <1>1, <1>2, SealedText
  <2>2. QED
    BY <1>2, <2>1
<1>5. d \in Dbs /\ d.rows = f /\ d.title = disk.db.title /\ d.done = disk.db.done
      /\ d.engine = disk.db.engine
  <2> HIDE DEF f, R
  <2>1. QED
    BY <1>1, <1>2, <1>4, RowsWith
<1>6. /\ [disk EXCEPT !.db = d] \in Disks /\ [disk EXCEPT !.db = d].db = d
      /\ [disk EXCEPT !.db = d].config = disk.config /\ [disk EXCEPT !.db = d].key = disk.key
  <2> HIDE DEF d
  <2>1. QED
    BY <1>1, <1>5, WithDb
<1>7. cursor' = LastOf(b, cursor) /\ cursor' \in Nat
  <2>1. cursor' = LastOf(b, cursor)
    BY DEF EncryptBatch
  <2>2. b \in SUBSET Nat
    BY <1>2, <1>3
  <2> HIDE DEF b
  <2>3. QED
    BY <1>1, <1>3, <2>1, <2>2, LastOfBatch
<1>8. \/ disk' = [disk EXCEPT !.db = d] /\ skipped' = skipped
      \/ disk' = disk /\ skipped' = skipped \union b
  BY DEF EncryptBatch
<1>9. faults' \in 0..MaxFaults
  BY <1>1, DataFilesAssumption DEF EncryptBatch, Fault, NoFault
<1>10. /\ pc' = IF Cardinality(b) < BatchSize THEN "done" ELSE "batch"
       /\ UNCHANGED <<legacy, marker, file, inMem, original, encKey, why, starts, cut,
                      unlisted, clean, kept, rewritten>>
  BY DEF EncryptBatch, Goto, confVars
<1>11. DOMAIN f = R /\ \A r \in R :
         f[r] = IF r \in b THEN Sealed(disk.db.rows[r], encKey) ELSE disk.db.rows[r]
  OBVIOUS
<1>12. \/ /\ skipped' = skipped /\ disk'.db.title = disk.db.title
          /\ disk'.db.done = disk.db.done /\ disk'.db.engine = disk.db.engine
          /\ DOMAIN disk'.db.rows = R
          /\ \A r \in R : disk'.db.rows[r] =
               IF r \in b THEN Sealed(disk.db.rows[r], encKey) ELSE disk.db.rows[r]
       \/ disk' = disk /\ skipped' = skipped \union b
  <2> HIDE DEF b, R, f, d
  <2>1. QED
    BY <1>5, <1>6, <1>8, <1>11
<1>13. disk' \in Disks /\ disk'.config = disk.config /\ disk'.key = disk.key /\ disk'.db \in Dbs
  <2> HIDE DEF b, R, f, d
  <2>1. QED
    BY <1>1, <1>5, <1>6, <1>8
<1> HIDE DEF f, d
<1>14. QED
  BY <1>1, <1>3, <1>7, <1>9, <1>10, <1>12, <1>13

(* The mark leaves the texts alone.                                            *)
LEMMA MarkMigrationDoneEffect ==
  ASSUME TypeInvariant, MarkMigrationDone
  PROVE  /\ pc = "done" /\ pc' = "engines" /\ disk' \in Disks
         /\ disk'.config = disk.config /\ disk'.key = disk.key
         /\ disk.db \in Dbs /\ disk'.db \in Dbs /\ faults' \in 0..MaxFaults
         /\ disk'.db.title = disk.db.title /\ disk'.db.rows = disk.db.rows
         /\ disk'.db.engine = disk.db.engine
         /\ UNCHANGED <<legacy, marker, file, inMem, original, encKey, cursor, why, starts, cut,
                        unlisted, clean, kept, skipped, rewritten>>
<1>1. disk \in Disks /\ pc = "done" /\ disk.db \in Dbs /\ faults \in 0..MaxFaults
  BY DEF TypeInvariant, TypeOK, PhaseInvariant, Disks, MarkMigrationDone, Opened
<1> DEFINE d == [disk.db EXCEPT !.done = TRUE]
<1>2. d \in Dbs /\ d.title = disk.db.title /\ d.rows = disk.db.rows /\ d.engine = disk.db.engine
  BY <1>1, DbWith
<1>3. /\ [disk EXCEPT !.db = d] \in Disks /\ [disk EXCEPT !.db = d].db = d
      /\ [disk EXCEPT !.db = d].config = disk.config /\ [disk EXCEPT !.db = d].key = disk.key
  <2> HIDE DEF d
  <2>1. QED
    BY <1>1, <1>2, WithDb
<1>4. disk' \in {disk, [disk EXCEPT !.db = d]}
  BY DEF MarkMigrationDone
<1>5. faults' \in 0..MaxFaults
  BY <1>1, DataFilesAssumption DEF MarkMigrationDone, Fault, NoFault
<1>6. /\ pc' = "engines"
      /\ UNCHANGED <<legacy, marker, file, inMem, original, encKey, cursor, why, starts, cut,
                     unlisted, clean, kept, skipped, rewritten>>
  BY DEF MarkMigrationDone, Goto, confVars, histVars
<1> HIDE DEF d
<1>7. QED
  BY <1>1, <1>2, <1>3, <1>4, <1>5, <1>6

(* The configuration is saved only after the database has the keys.            *)
LEMMA MoveEngineKeysEffect ==
  ASSUME TypeInvariant, MoveEngineKeys
  PROVE  /\ pc = "engines" /\ disk' \in Disks
         /\ disk'.config = disk.config /\ disk'.key = disk.key
         /\ disk.db \in Dbs /\ disk'.db \in Dbs /\ faults' \in 0..MaxFaults
         /\ disk'.db.title = disk.db.title /\ disk'.db.rows = disk.db.rows
         /\ disk'.db.done = disk.db.done
         /\ UNCHANGED <<legacy, marker, file, inMem, original, encKey, cursor, why, starts, cut,
                        unlisted, clean, kept, skipped, rewritten>>
         /\ \/ pc' = "run" /\ disk' = disk
            \/ pc' = "engineSave" /\ disk'.db.engine
<1>1. disk \in Disks /\ pc = "engines" /\ disk.db \in Dbs /\ faults \in 0..MaxFaults
  BY DEF TypeInvariant, TypeOK, PhaseInvariant, Disks, MoveEngineKeys, Opened
<1> DEFINE d == [disk.db EXCEPT !.engine = TRUE]
<1>2. d \in Dbs /\ d.title = disk.db.title /\ d.rows = disk.db.rows /\ d.done = disk.db.done
      /\ d.engine
  BY <1>1, DbWith
<1>3. /\ [disk EXCEPT !.db = d] \in Disks /\ [disk EXCEPT !.db = d].db = d
      /\ [disk EXCEPT !.db = d].config = disk.config /\ [disk EXCEPT !.db = d].key = disk.key
  <2> HIDE DEF d
  <2>1. QED
    BY <1>1, <1>2, WithDb
<1>4. \/ disk' = disk /\ pc' = "run"
      \/ disk' = [disk EXCEPT !.db = d] /\ pc' = "engineSave"
  BY DEF MoveEngineKeys, Goto
<1>5. faults' \in 0..MaxFaults
  BY <1>1, DataFilesAssumption DEF MoveEngineKeys, Fault, NoFault
<1>6. UNCHANGED <<legacy, marker, file, inMem, original, encKey, cursor, why, starts, cut,
                  unlisted, clean, kept, skipped, rewritten>>
  BY DEF MoveEngineKeys, confVars, histVars
<1> HIDE DEF d
<1>7. QED
  BY <1>1, <1>2, <1>3, <1>4, <1>5, <1>6

(* Defaults are written only where there is no file.                           *)
LEMMA CreateDefaultConfigEffect ==
  ASSUME TypeInvariant, CreateDefaultConfig
  PROVE  /\ pc = "default" /\ pc' = "load" /\ disk' \in Disks
         /\ disk'.key = disk.key /\ disk'.db = disk.db /\ faults' \in 0..MaxFaults
         /\ UNCHANGED <<legacy, marker, file, inMem, original, encKey, cursor, why, starts, cut,
                        unlisted, clean, kept, skipped, rewritten>>
         /\ \/ disk' = disk
            \/ disk.config = NoFile /\ disk'.config = DefaultConfig
<1>1. disk \in Disks /\ faults \in 0..MaxFaults
  BY DEF TypeInvariant, TypeOK, Disks
<1>2. /\ [disk EXCEPT !.config = DefaultConfig] \in Disks
      /\ [disk EXCEPT !.config = DefaultConfig].config = DefaultConfig
      /\ [disk EXCEPT !.config = DefaultConfig].key = disk.key
      /\ [disk EXCEPT !.config = DefaultConfig].db = disk.db
  BY <1>1, Constants, WithConfig
<1>3. faults' \in 0..MaxFaults
  BY <1>1, DataFilesAssumption DEF CreateDefaultConfig, Fault, NoFault
<1>4. QED
  BY <1>1, <1>2, <1>3 DEF CreateDefaultConfig, Goto, confVars, histVars

(* The struct replaces the file, or the write fails.                           *)
LEMMA SaveWithoutEngineKeysEffect ==
  ASSUME TypeInvariant, SaveWithoutEngineKeys
  PROVE  /\ pc = "engineSave" /\ pc' = "run" /\ disk' \in Disks
         /\ disk'.key = disk.key /\ disk'.db = disk.db
         /\ disk'.config \in {disk.config, inMem}
         /\ disk'.config \in Configs /\ faults' \in 0..MaxFaults
         /\ UNCHANGED <<legacy, marker, file, inMem, original, encKey, cursor, why, starts, cut,
                        unlisted, clean, kept, skipped, rewritten>>
<1>1. disk \in Disks /\ inMem \in Configs /\ faults \in 0..MaxFaults
      /\ pc = "engineSave" /\ disk.config \in Configs
  BY DEF TypeInvariant, TypeOK, PhaseInvariant, Disks, SaveWithoutEngineKeys, Configured, Keyed,
         Opened
<1>2. /\ [disk EXCEPT !.config = inMem] \in Disks /\ [disk EXCEPT !.config = inMem].config = inMem
      /\ [disk EXCEPT !.config = inMem].key = disk.key
      /\ [disk EXCEPT !.config = inMem].db = disk.db
  BY <1>1, WithConfig
<1>3. faults' \in 0..MaxFaults
  BY <1>1, DataFilesAssumption DEF SaveWithoutEngineKeys, Fault, NoFault
<1>4. QED
  BY <1>1, <1>2, <1>3 DEF SaveWithoutEngineKeys, SavedAs, Goto, confVars, histVars

(* A new message is sealed with the key on disk.                               *)
LEMMA CreateMessageEffect ==
  ASSUME TypeInvariant, NEW r \in Rows, CreateMessage(r)
  PROVE  /\ pc = "run" /\ disk' \in Disks /\ disk'.config = disk.config /\ disk'.key = disk.key
         /\ disk.db \in Dbs /\ disk'.db \in Dbs
         /\ disk'.db.title = disk.db.title /\ disk'.db.done = disk.db.done
         /\ disk'.db.engine = disk.db.engine
         /\ r \notin OldRows /\ r \notin DOMAIN disk.db.rows
         /\ DOMAIN disk'.db.rows = DOMAIN disk.db.rows \union {r}
         /\ \A q \in DOMAIN disk.db.rows : disk'.db.rows[q] = disk.db.rows[q]
         /\ disk'.db.rows[r] = [layers |-> 1, key |-> encKey]
         /\ encKey \in Keys /\ encKey = disk.key
         /\ kept' = kept \union {r}
         /\ UNCHANGED <<legacy, marker, pc, file, inMem, original, encKey, cursor, why, starts,
                        faults, cut, unlisted, clean, skipped, rewritten>>
<1>1. disk \in Disks /\ pc = "run" /\ disk.db \in Dbs /\ encKey \in Keys /\ encKey = disk.key
  BY DEF TypeInvariant, TypeOK, PhaseInvariant, Disks, CreateMessage, Opened, Keyed
<1> DEFINE R == DOMAIN disk.db.rows
           f == [q \in R \union {r} |-> IF q = r THEN Sealed(Plain, encKey) ELSE disk.db.rows[q]]
           d == [disk.db EXCEPT !.rows = f]
<1>2. R \in SUBSET Rows /\ \A q \in R : disk.db.rows[q] \in Texts
  BY <1>1, RowsOfDb
<1>3. Sealed(Plain, encKey) = [layers |-> 1, key |-> encKey] /\ Sealed(Plain, encKey) \in Texts
  BY <1>1, Constants, SealedText
<1>4. f \in [R \union {r} -> Texts] /\ (R \union {r}) \in SUBSET Rows
  <2> HIDE DEF R
  <2>1. QED
    BY <1>2, <1>3
<1>5. d \in Dbs /\ d.rows = f /\ d.title = disk.db.title /\ d.done = disk.db.done
      /\ d.engine = disk.db.engine
  <2> HIDE DEF f, R
  <2>1. QED
    BY <1>1, <1>4, RowsWith
<1>6. /\ [disk EXCEPT !.db = d] \in Disks /\ [disk EXCEPT !.db = d].db = d
      /\ [disk EXCEPT !.db = d].config = disk.config /\ [disk EXCEPT !.db = d].key = disk.key
  <2> HIDE DEF d
  <2>1. QED
    BY <1>1, <1>5, WithDb
<1>7. /\ disk' = [disk EXCEPT !.db = d] /\ r \notin OldRows /\ r \notin R
      /\ kept' = kept \union {r}
      /\ UNCHANGED <<legacy, marker, pc, file, inMem, original, encKey, cursor, why, starts,
                     faults, cut, unlisted, clean, skipped, rewritten>>
  BY DEF CreateMessage, confVars
<1>8. /\ DOMAIN f = R \union {r} /\ f[r] = Sealed(Plain, encKey)
      /\ r \notin R => \A q \in R : f[q] = disk.db.rows[q]
  OBVIOUS
<1> HIDE DEF d, f
<1>9. QED
  BY <1>1, <1>3, <1>5, <1>6, <1>7, <1>8

(* A setting changes in memory and on disk alike.                              *)
LEMMA UpdateConfigEffect ==
  ASSUME TypeInvariant, NEW kv \in {"on", "off"}, UpdateConfig(kv)
  PROVE  /\ pc = "run" /\ disk' \in Disks /\ disk'.key = disk.key /\ disk'.db = disk.db
         /\ inMem' \in Configs /\ disk'.config = inMem'
         /\ inMem'.kv = kv /\ inMem'.ver = inMem.ver /\ inMem'.full = inMem.full
         /\ inMem'.bad = inMem.bad /\ inMem'.engines = inMem.engines
         /\ inMem'.quoted = inMem.quoted
         /\ rewritten' = (rewritten \/ (disk.config \in Configs /\ disk.config.engines
                                        /\ ~disk.db.engine))
         /\ UNCHANGED <<legacy, marker, pc, file, original, encKey, cursor, why, starts, faults,
                        cut, unlisted, clean, kept, skipped>>
<1>1. disk \in Disks /\ pc = "run" /\ inMem \in Configs
  BY DEF TypeInvariant, TypeOK, Disks, UpdateConfig
<1> DEFINE c == [inMem EXCEPT !.kv = kv]
<1>2. /\ c \in Configs /\ c.kv = kv /\ c.ver = inMem.ver /\ c.full = inMem.full
      /\ c.bad = inMem.bad /\ c.engines = inMem.engines /\ c.quoted = inMem.quoted
  BY <1>1 DEF Configs
<1>3. /\ [disk EXCEPT !.config = c] \in Disks /\ [disk EXCEPT !.config = c].config = c
      /\ [disk EXCEPT !.config = c].key = disk.key /\ [disk EXCEPT !.config = c].db = disk.db
  <2> HIDE DEF c
  <2>1. QED
    BY <1>1, <1>2, WithConfig
<1>4. inMem' = c /\ disk' = [disk EXCEPT !.config = inMem']
  BY DEF UpdateConfig, SavedAs
<1>5. /\ rewritten' = (rewritten \/ (disk.config \in Configs /\ disk.config.engines
                                     /\ ~disk.db.engine))
      /\ UNCHANGED <<legacy, marker, pc, file, original, encKey, cursor, why, starts, faults,
                     cut, unlisted, clean, kept, skipped>>
  BY DEF UpdateConfig
<1> HIDE DEF c
<1>6. QED
  BY <1>1, <1>2, <1>3, <1>4, <1>5

(* The user deletes one file at most.                                          *)
LEMMA FollowAdviceEffect ==
  ASSUME TypeInvariant, FollowAdvice
  PROVE  /\ pc = "fatal" /\ pc' = "off" /\ disk' \in Disks /\ encKey' = NoKey
         /\ UNCHANGED <<legacy, marker, file, inMem, original, cursor, why, starts, faults, cut,
                        clean, rewritten>>
         /\ \/ disk' = disk /\ UNCHANGED <<unlisted, kept, skipped>>
            \/ /\ disk'.config = NoFile /\ disk'.key = disk.key /\ disk'.db = disk.db
               /\ unlisted' = TRUE /\ UNCHANGED <<kept, skipped>>
            \/ /\ disk'.db = NoFile /\ disk'.key = disk.key /\ disk'.config = disk.config
               /\ kept' = {} /\ skipped' = {} /\ unlisted' = unlisted
<1>1. disk \in Disks
  BY DEF TypeInvariant, TypeOK, Disks
<1>2. /\ [disk EXCEPT !.config = NoFile] \in Disks
      /\ [disk EXCEPT !.config = NoFile].config = NoFile
      /\ [disk EXCEPT !.config = NoFile].key = disk.key
      /\ [disk EXCEPT !.config = NoFile].db = disk.db
  BY <1>1, WithConfig
<1>3. /\ [disk EXCEPT !.db = NoFile] \in Disks /\ [disk EXCEPT !.db = NoFile].db = NoFile
      /\ [disk EXCEPT !.db = NoFile].key = disk.key
      /\ [disk EXCEPT !.db = NoFile].config = disk.config
  BY <1>1, WithDb
<1>4. QED
  BY <1>1, <1>2, <1>3 DEF FollowAdvice, Stopped, Goto, confVars

(* A step within the migration keeps the types.                                *)
LEMMA CopyingType ==
  ASSUME TypeInvariant, disk' \in Disks, file' \in 1..3, clean' \in BOOLEAN,
         faults' \in 0..MaxFaults, pc' \in Copying,
         pc' = "fill" => legacy[Files[file']] # NoFile,
         UNCHANGED <<legacy, marker, inMem, original, encKey, cursor, why, starts, cut,
                     unlisted, kept, skipped, rewritten>>
  PROVE  TypeInvariant'
<1>1. TypeOK'
  BY Constants DEF TypeInvariant, TypeOK, Disks, Copying, Phases
<1>2. LegacyWhole' /\ PhaseInvariant'
  BY DEF TypeInvariant, LegacyWhole, PhaseInvariant, Configured, Keyed, Opened, Copying
<1>3. QED
  BY <1>1, <1>2 DEF TypeInvariant

(* Without its marker a migration counts as cut short.                         *)
LEMMA WriteMarkerEffect ==
  ASSUME TypeInvariant, WriteMarker
  PROVE  /\ pc = "mark" /\ pc' = "default" /\ kept' \subseteq Rows
         /\ marker' \in BOOLEAN /\ cut' \in BOOLEAN /\ faults' \in 0..MaxFaults
         /\ kept' = IF clean /\ legacy.db # NoFile THEN OldRows ELSE kept
         /\ \/ marker' = TRUE /\ cut' = cut
            \/ marker' = marker /\ cut' = TRUE
         /\ UNCHANGED <<legacy, disk, file, inMem, original, encKey, cursor, why, starts, unlisted,
                        clean, skipped, rewritten>>
<1>1. /\ marker \in BOOLEAN /\ cut \in BOOLEAN /\ faults \in 0..MaxFaults /\ kept \subseteq Rows
  BY DEF TypeInvariant, TypeOK
<1>2. \/ marker' = TRUE /\ faults' = faults /\ cut' = cut
      \/ faults < MaxFaults /\ faults' = faults + 1 /\ cut' = TRUE /\ marker' = marker
  BY DEF WriteMarker, Fault, NoFault
<1>3. faults' \in 0..MaxFaults
  BY <1>1, <1>2, DataFilesAssumption
<1>4. /\ pc = "mark" /\ pc' = "default"
      /\ kept' = IF clean /\ legacy.db # NoFile THEN OldRows ELSE kept
      /\ UNCHANGED <<legacy, disk, file, inMem, original, encKey, cursor, why, starts, unlisted,
                     clean, skipped, rewritten>>
  BY DEF WriteMarker, Goto, confVars
<1>5. kept' \subseteq Rows
  BY <1>1, <1>4, DataFilesAssumption
<1>6. marker' \in BOOLEAN /\ cut' \in BOOLEAN
  BY <1>1, <1>2
<1>7. QED
  BY <1>2, <1>3, <1>4, <1>5, <1>6

(* Every action keeps the types, and leads to a phase that has its files.       *)
LEMMA TypeStep == TypeInvariant /\ [Next]_vars => TypeInvariant'
<1> SUFFICES ASSUME TypeInvariant, [Next]_vars PROVE TypeInvariant'
  OBVIOUS
<1>0. /\ TypeOK /\ LegacyWhole /\ PhaseInvariant /\ faults \in 0..MaxFaults
      /\ starts \in 0..MaxStarts
  BY DEF TypeInvariant, TypeOK
<1> USE DataFilesAssumption, <1>0
    DEF TypeInvariant, TypeOK, LegacyWhole, PhaseInvariant, Phases, Disks, Opened, Keyed,
        Configured
<1>1. CASE Launch
  <2>1. /\ pc' = "migrate" /\ file' = 1 /\ clean' = TRUE /\ starts' = starts + 1
        /\ starts < MaxStarts
        /\ UNCHANGED <<legacy, disk, marker, inMem, original, encKey, cursor, why, faults, cut,
                       unlisted, kept, skipped, rewritten>>
    BY <1>1 DEF Launch, Goto, diskVars, confVars
  <2>2. starts' \in 0..MaxStarts /\ file' \in DOMAIN Files
    BY <2>1, Constants
  <2>3. QED
    BY <2>1, <2>2
<1>2. CASE SkipMigration
  BY <1>2 DEF SkipMigration, Goto, AlreadyMigrated, diskVars, confVars,
     histVars
<1>3. CASE BeginMigration
  BY <1>3 DEF BeginMigration, Goto, AlreadyMigrated, diskVars, confVars,
     histVars
<1>4. CASE CopyOpen
  <2>1. /\ faults' \in 0..MaxFaults /\ file' \in 1..3 /\ clean' \in BOOLEAN
        /\ pc' \in Copying
        /\ pc' = "fill" => legacy[Files[file']] # NoFile
    BY <1>4, CopyOpenTypes
  <2>2. /\ disk' \in Disks
        /\ UNCHANGED <<legacy, marker, inMem, original, encKey, cursor, why, starts, cut,
                       unlisted, kept, skipped, rewritten>>
    BY <1>4, CopyOpenEffect
  <2>3. QED
    <3> HIDE DEF TypeInvariant, Disks, TypeOK, LegacyWhole, PhaseInvariant, Configured,
                 Keyed, Opened
    <3>1. QED
      BY <2>1, <2>2, CopyingType
<1>5. CASE CopyFill
  <2>1. /\ faults' \in 0..MaxFaults /\ file' \in 1..3 /\ clean' \in BOOLEAN
        /\ pc' \in Copying
        /\ pc' = "fill" => legacy[Files[file']] # NoFile
    BY <1>5, CopyFillTypes
  <2>2. /\ disk' \in Disks
        /\ UNCHANGED <<legacy, marker, inMem, original, encKey, cursor, why, starts, cut,
                       unlisted, kept, skipped, rewritten>>
    BY <1>5, CopyFillEffect
  <2>3. QED
    <3> HIDE DEF TypeInvariant, Disks, TypeOK, LegacyWhole, PhaseInvariant, Configured,
                 Keyed, Opened
    <3>1. QED
      BY <2>1, <2>2, CopyingType
<1>6. CASE WriteMarker
  <2>1. TypeOK'
    BY <1>6, WriteMarkerEffect
  <2>2. LegacyWhole' /\ PhaseInvariant'
    BY <1>6, WriteMarkerEffect
  <2>3. QED
    BY <2>1, <2>2
<1>7. CASE CreateDefaultConfig
  <2>1. TypeOK'
    BY <1>7, CreateDefaultConfigEffect, Constants
  <2>2. PhaseInvariant'
    BY <1>7, CreateDefaultConfigEffect, Constants
  <2>3. LegacyWhole'
    BY <1>7, CreateDefaultConfigEffect
  <2>4. QED
    BY <2>1, <2>2, <2>3
<1>8. CASE ReadConfig
  <2>1. TypeOK'
    BY <1>8, ReadConfigEffect, Constants
  <2>2. PhaseInvariant'
    BY <1>8, ReadConfigEffect, Constants
  <2>3. LegacyWhole'
    BY <1>8, ReadConfigEffect
  <2>4. QED
    BY <2>1, <2>2, <2>3
<1>9. CASE EnsureConfigFields
  <2>1. TypeOK'
    BY <1>9, EnsureConfigFieldsEffect, Constants
  <2>2. PhaseInvariant'
    BY <1>9, EnsureConfigFieldsEffect, Constants
  <2>3. LegacyWhole'
    BY <1>9, EnsureConfigFieldsEffect
  <2>4. QED
    BY <2>1, <2>2, <2>3
<1>10. CASE LoadKey
  <2>1. TypeOK'
    BY <1>10, LoadKeyEffect, Constants
  <2>2. PhaseInvariant'
    BY <1>10, LoadKeyEffect, Constants
  <2>3. LegacyWhole'
    BY <1>10, LoadKeyEffect
  <2>4. QED
    BY <2>1, <2>2, <2>3
<1>11. CASE CreateKey
  <2>1. TypeOK'
    BY <1>11, CreateKeyEffect, Constants
  <2>2. PhaseInvariant'
    BY <1>11, CreateKeyEffect, Constants
  <2>3. LegacyWhole'
    BY <1>11, CreateKeyEffect
  <2>4. QED
    BY <2>1, <2>2, <2>3
<1>12. CASE InitDatabase
  <2>1. TypeOK'
    BY <1>12, InitDatabaseEffect, Constants
  <2>2. PhaseInvariant'
    BY <1>12, InitDatabaseEffect, Constants
  <2>3. LegacyWhole'
    BY <1>12, InitDatabaseEffect
  <2>4. QED
    BY <2>1, <2>2, <2>3
<1>13. CASE EncryptTitle
  <2>1. TypeOK'
    BY <1>13, EncryptTitleEffect, Constants DEF Title
  <2>2. PhaseInvariant'
    BY <1>13, EncryptTitleEffect, Constants DEF Title
  <2>3. LegacyWhole'
    BY <1>13, EncryptTitleEffect
  <2>4. QED
    BY <2>1, <2>2, <2>3
<1>14. CASE EncryptBatch
  <2>1. TypeOK'
    BY <1>14, EncryptBatchEffect, Constants, RowsOfDb
  <2>2. PhaseInvariant'
    BY <1>14, EncryptBatchEffect, Constants, RowsOfDb
  <2>3. LegacyWhole'
    BY <1>14, EncryptBatchEffect
  <2>4. QED
    BY <2>1, <2>2, <2>3
<1>15. CASE MarkMigrationDone
  <2>1. TypeOK'
    BY <1>15, MarkMigrationDoneEffect, Constants
  <2>2. PhaseInvariant'
    BY <1>15, MarkMigrationDoneEffect, Constants
  <2>3. LegacyWhole'
    BY <1>15, MarkMigrationDoneEffect
  <2>4. QED
    BY <2>1, <2>2, <2>3
<1>16. CASE MoveEngineKeys
  <2>1. TypeOK'
    BY <1>16, MoveEngineKeysEffect, Constants
  <2>2. PhaseInvariant'
    BY <1>16, MoveEngineKeysEffect, Constants
  <2>3. LegacyWhole'
    BY <1>16, MoveEngineKeysEffect
  <2>4. QED
    BY <2>1, <2>2, <2>3
<1>17. CASE SaveWithoutEngineKeys
  <2>1. TypeOK'
    BY <1>17, SaveWithoutEngineKeysEffect, Constants
  <2>2. PhaseInvariant'
    BY <1>17, SaveWithoutEngineKeysEffect, Constants
  <2>3. LegacyWhole'
    BY <1>17, SaveWithoutEngineKeysEffect
  <2>4. QED
    BY <2>1, <2>2, <2>3
<1>18. ASSUME NEW r \in Rows, CreateMessage(r) PROVE TypeInvariant'
  <2>1. TypeOK'
    BY <1>18, CreateMessageEffect, Constants
  <2>2. PhaseInvariant'
    BY <1>18, CreateMessageEffect, Constants
  <2>3. LegacyWhole'
    BY <1>18, CreateMessageEffect
  <2>4. QED
    BY <2>1, <2>2, <2>3
<1>19. ASSUME NEW kv \in {"on", "off"}, UpdateConfig(kv) PROVE TypeInvariant'
  <2>1. TypeOK'
    BY <1>19, UpdateConfigEffect, Constants
  <2>2. PhaseInvariant'
    BY <1>19, UpdateConfigEffect, Constants
  <2>3. LegacyWhole'
    BY <1>19, UpdateConfigEffect
  <2>4. QED
    BY <2>1, <2>2, <2>3
<1>20. CASE Quit
  BY <1>20 DEF Quit, Goto, Stopped, diskVars, confVars, histVars
<1>21. CASE Crash
  BY <1>21 DEF Crash, Goto, Stopped, Fault, diskVars, confVars, histVars
<1>22. CASE FollowAdvice
  <2>1. TypeOK'
    BY <1>22, FollowAdviceEffect, Constants
  <2>2. PhaseInvariant'
    BY <1>22, FollowAdviceEffect, Constants
  <2>3. LegacyWhole'
    BY <1>22, FollowAdviceEffect
  <2>4. QED
    BY <2>1, <2>2, <2>3
<1>23. CASE UNCHANGED vars
  BY <1>23 DEF vars, diskVars, confVars, histVars
<1>24. QED
  BY <1>1, <1>2, <1>3, <1>4, <1>5, <1>6, <1>7, <1>8, <1>9, <1>10, <1>11, <1>12,
     <1>13, <1>14, <1>15, <1>16, <1>17, <1>18, <1>19, <1>20, <1>21, <1>22,
     <1>23 DEF Next

-----------------------------------------------------------------------------
(* The configuration in force. *)

(* While ensureConfigFields is about to run, the file still is what Load read   *)
(* or what Load has made of it; from then on the file puts in force what is in *)
(* force, once it had a version.                                               *)
ConfigInvariant ==
  /\ Normal(inMem)
  /\ pc = "complete" => /\ ~original.quoted /\ inMem = InForce(original)
                        /\ disk.config = IF original.bad THEN InForce(original) ELSE original
  /\ pc \in Configured /\ original.ver # NoVer => InForce(disk.config) = inMem

(* Whatever writes the file keeps it in step with what is in force.            *)
LEMMA ConfigStep == TypeInvariant /\ ConfigInvariant /\ [Next]_vars => ConfigInvariant'
<1> SUFFICES ASSUME TypeInvariant, ConfigInvariant, [Next]_vars PROVE ConfigInvariant'
  OBVIOUS
<1> USE DEF ConfigInvariant, Configured, Keyed, Opened
<1>1. CASE Launch
  BY <1>1 DEF Launch, Goto, diskVars, confVars, histVars, Normal
<1>2. CASE SkipMigration
  BY <1>2 DEF SkipMigration, Goto, AlreadyMigrated, diskVars, confVars,
     histVars, Normal
<1>3. CASE BeginMigration
  BY <1>3 DEF BeginMigration, Goto, AlreadyMigrated, diskVars, confVars,
     histVars, Normal
<1>4. CASE CopyOpen
  <2>1. pc' \in Copying /\ inMem' = inMem /\ original' = original
    BY <1>4, CopyOpenEffect, CopyOpenTypes
  <2>2. QED
    BY <2>1 DEF Copying, Normal
<1>5. CASE CopyFill
  <2>1. pc' \in Copying /\ inMem' = inMem /\ original' = original
    BY <1>5, CopyFillEffect, CopyFillTypes
  <2>2. QED
    BY <2>1 DEF Copying, Normal
<1>6. CASE WriteMarker
  BY <1>6, WriteMarkerEffect DEF Normal
<1>7. CASE CreateDefaultConfig
  BY <1>7, CreateDefaultConfigEffect DEF Normal
<1>8. CASE ReadConfig
  <2>1. Normal(inMem')
    BY <1>8, ReadConfigEffect, InForceFields, Constants
  <2>2. CASE pc' = "key" /\ original' = original
    <3>1. disk'.config = inMem' /\ inMem' \in Configs
      BY <1>8, <2>2, ReadConfigEffect
    <3>2. InForce(disk'.config) = inMem'
      BY <2>1, <3>1, InForceOfNormal
    <3>3. QED
      BY <2>1, <2>2, <3>2
  <2>3. CASE pc' = "complete"
    BY <1>8, <2>1, <2>3, ReadConfigEffect
  <2>4. CASE pc' = "fatal"
    BY <2>1, <2>4
  <2>5. QED
    BY <1>8, <2>2, <2>3, <2>4, ReadConfigEffect
<1>9. CASE EnsureConfigFields
  <2>1. /\ original \in Configs /\ inMem \in Configs /\ ~original.quoted
        /\ inMem = InForce(original) /\ inMem' = inMem /\ original' = original
        /\ disk'.config \in {disk.config, Completed(original, inMem)} /\ pc' = "key"
        /\ disk.config = IF original.bad THEN InForce(original) ELSE original
    BY <1>9, EnsureConfigFieldsEffect DEF TypeInvariant, TypeOK
  <2>2. InForce(disk.config) = inMem
    BY <2>1, InForceFields, InForceOfNormal
  <2>3. original.ver # NoVer => InForce(Completed(original, inMem)) = inMem
    BY <2>1, InForceOfCompleted
  <2>4. QED
    BY <2>1, <2>2, <2>3 DEF Normal
<1>10. CASE LoadKey
  BY <1>10, LoadKeyEffect DEF Normal
<1>11. CASE CreateKey
  BY <1>11, CreateKeyEffect DEF Normal
<1>12. CASE InitDatabase
  BY <1>12, InitDatabaseEffect DEF Normal
<1>13. CASE EncryptTitle
  BY <1>13, EncryptTitleEffect DEF Normal
<1>14. CASE EncryptBatch
  BY <1>14, EncryptBatchEffect DEF Normal
<1>15. CASE MarkMigrationDone
  BY <1>15, MarkMigrationDoneEffect DEF Normal
<1>16. CASE MoveEngineKeys
  BY <1>16, MoveEngineKeysEffect DEF Normal
<1>17. CASE SaveWithoutEngineKeys
  <2>1. InForce(inMem) = inMem
    BY InForceOfNormal DEF TypeInvariant, TypeOK
  <2>2. QED
    BY <1>17, <2>1, SaveWithoutEngineKeysEffect DEF Normal
<1>18. ASSUME NEW r \in Rows, CreateMessage(r) PROVE ConfigInvariant'
  BY <1>18, CreateMessageEffect DEF Normal
<1>19. ASSUME NEW kv \in {"on", "off"}, UpdateConfig(kv) PROVE ConfigInvariant'
  <2>1. Normal(inMem') /\ inMem' \in Configs /\ disk'.config = inMem'
        /\ pc' = pc /\ pc = "run"
    BY <1>19, UpdateConfigEffect DEF Normal
  <2>2. InForce(inMem') = inMem'
    BY <2>1, InForceOfNormal
  <2>3. QED
    BY <2>1, <2>2
<1>20. CASE Quit
  BY <1>20 DEF Quit, Goto, Stopped, diskVars, confVars, histVars, Normal
<1>21. CASE Crash
  BY <1>21 DEF Crash, Goto, Stopped, Fault, diskVars, confVars, histVars,
     Normal
<1>22. CASE FollowAdvice
  BY <1>22, FollowAdviceEffect DEF Normal
<1>23. CASE UNCHANGED vars
  BY <1>23 DEF vars, diskVars, confVars, histVars
<1>24. QED
  BY <1>1, <1>2, <1>3, <1>4, <1>5, <1>6, <1>7, <1>8, <1>9, <1>10, <1>11, <1>12,
     <1>13, <1>14, <1>15, <1>16, <1>17, <1>18, <1>19, <1>20, <1>21, <1>22,
     <1>23 DEF Next

-----------------------------------------------------------------------------
(* The encryption of the old data. *)

(* A text is covered when it is encrypted, or when its own write has failed.   *)
Covered(t, x) == t.layers > 0 \/ x \in skipped

RowsCovered == \A r \in DOMAIN disk.db.rows : Covered(disk.db.rows[r], r)

(* The cursor leaves nothing behind it; the mark is set when nothing is left.  *)
EncryptInvariant ==
  /\ pc = "title" => ~disk.db.done
  /\ pc \in {"batch", "done"} => Covered(disk.db.title, Title)
  /\ pc = "batch" => \A r \in DOMAIN disk.db.rows : r <= cursor => Covered(disk.db.rows[r], r)
  /\ pc = "done" => RowsCovered
  /\ disk.db \in Dbs /\ disk.db.done => Covered(disk.db.title, Title) /\ RowsCovered

(* Whatever leaves the database and the record of failed writes alone keeps    *)
(* what the invariant says of a database that carries the mark.                *)
LEMMA EncryptUntouched ==
  ASSUME EncryptInvariant, pc' \notin {"title", "batch", "done"}, skipped' = skipped,
         disk'.db \in Dbs => disk'.db = disk.db
  PROVE  EncryptInvariant'
<1>1. CASE disk'.db \in Dbs
  BY <1>1 DEF EncryptInvariant, Covered, RowsCovered
<1>2. CASE disk'.db \notin Dbs
  BY <1>2 DEF EncryptInvariant
<1>3. QED
  BY <1>1, <1>2

(* No action leaves a text plain behind the cursor or under the mark.          *)
LEMMA EncryptStep == TypeInvariant /\ EncryptInvariant /\ [Next]_vars => EncryptInvariant'
<1> SUFFICES ASSUME TypeInvariant, EncryptInvariant, [Next]_vars PROVE EncryptInvariant'
  OBVIOUS
<1>1. CASE Launch
  <2>1. pc' \notin {"title", "batch", "done"} /\ UNCHANGED <<disk, skipped>>
    BY <1>1 DEF Launch, Goto, diskVars, histVars
  <2>2. QED
    BY <2>1, EncryptUntouched
<1>2. CASE SkipMigration
  <2>1. pc' \notin {"title", "batch", "done"} /\ UNCHANGED <<disk, skipped>>
    BY <1>2 DEF SkipMigration, Goto, AlreadyMigrated, diskVars, histVars
  <2>2. QED
    BY <2>1, EncryptUntouched
<1>3. CASE BeginMigration
  <2>1. pc' \notin {"title", "batch", "done"} /\ UNCHANGED <<disk, skipped>>
    BY <1>3 DEF BeginMigration, Goto, AlreadyMigrated, diskVars, histVars
  <2>2. QED
    BY <2>1, EncryptUntouched
<1>4. CASE CopyOpen
  <2>1. pc' \notin {"title", "batch", "done"} /\ skipped' = skipped
    BY <1>4, CopyOpenEffect, CopyOpenTypes DEF Copying
  <2>2. disk'.db = disk.db \/ disk'.db = Torn
    BY <1>4, CopyOpenEffect, FilesByName DEF TypeInvariant
  <2>3. Torn \notin Dbs
    BY DataFilesAssumption
  <2>4. QED
    BY <2>1, <2>2, <2>3, EncryptUntouched
<1>5. CASE CopyFill
  <2>1. pc' \notin {"title", "batch", "done"} /\ skipped' = skipped
    BY <1>5, CopyFillEffect, CopyFillTypes DEF Copying
  <2>2. disk'.db = disk.db \/ disk'.db = legacy.db
    BY <1>5, CopyFillEffect, FilesByName DEF TypeInvariant
  <2>3. disk'.db \in Dbs /\ disk'.db # disk.db => disk'.db = OldDb /\ ~disk'.db.done
    BY <2>2, OldFiles, Constants, DataFilesAssumption DEF TypeInvariant
  <2>4. CASE disk'.db \in Dbs /\ disk'.db # disk.db
    BY <2>1, <2>3, <2>4 DEF EncryptInvariant
  <2>5. CASE ~(disk'.db \in Dbs /\ disk'.db # disk.db)
    BY <2>1, <2>5, EncryptUntouched
  <2>6. QED
    BY <2>4, <2>5
<1>6. CASE WriteMarker
  <2>1. pc' \notin {"title", "batch", "done"} /\ disk'.db = disk.db /\ skipped' = skipped
    BY <1>6, WriteMarkerEffect
  <2>2. QED
    BY <2>1, EncryptUntouched
<1>7. CASE CreateDefaultConfig
  <2>1. pc' \notin {"title", "batch", "done"} /\ disk'.db = disk.db /\ skipped' = skipped
    BY <1>7, CreateDefaultConfigEffect
  <2>2. QED
    BY <2>1, EncryptUntouched
<1>8. CASE ReadConfig
  <2>1. pc' \notin {"title", "batch", "done"} /\ disk'.db = disk.db /\ skipped' = skipped
    BY <1>8, ReadConfigEffect
  <2>2. QED
    BY <2>1, EncryptUntouched
<1>9. CASE EnsureConfigFields
  <2>1. pc' \notin {"title", "batch", "done"} /\ disk'.db = disk.db /\ skipped' = skipped
    BY <1>9, EnsureConfigFieldsEffect
  <2>2. QED
    BY <2>1, EncryptUntouched
<1>10. CASE LoadKey
  <2>1. pc' \notin {"title", "batch", "done"} /\ disk'.db = disk.db /\ skipped' = skipped
    BY <1>10, LoadKeyEffect
  <2>2. QED
    BY <2>1, EncryptUntouched
<1>11. CASE CreateKey
  <2>1. pc' \notin {"title", "batch", "done"} /\ disk'.db = disk.db /\ skipped' = skipped
    BY <1>11, CreateKeyEffect
  <2>2. QED
    BY <2>1, EncryptUntouched
<1>12. CASE InitDatabase
  <2>1. UNCHANGED skipped /\ pc' \notin {"batch", "done"}
    BY <1>12, InitDatabaseEffect
  <2>2. CASE disk'.db = EmptyDb /\ pc' = "title"
    BY <2>1, <2>2, Constants DEF EncryptInvariant
  <2>3. CASE disk' = disk
    <3>1. pc' = "title" => ~disk.db.done
      BY <1>12, <2>3, InitDatabaseEffect, Constants
    <3>2. QED
      BY <2>1, <2>3, <3>1 DEF EncryptInvariant, Covered, RowsCovered
  <2>4. QED
    BY <1>12, <2>2, <2>3, InitDatabaseEffect
<1>13. CASE EncryptTitle
  <2>1. /\ pc' = "batch" /\ cursor' = 0 /\ ~disk.db.done /\ disk.db \in Dbs
        /\ Covered(disk.db.title, Title)'
    BY <1>13, EncryptTitleEffect DEF EncryptInvariant, Covered
  <2>2. ~disk'.db.done /\ DOMAIN disk'.db.rows = DOMAIN disk.db.rows
    BY <1>13, <2>1, EncryptTitleEffect
  <2>3. \A r \in DOMAIN disk'.db.rows : ~(r <= cursor')
    BY <2>1, <2>2, RowsOfDb
  <2>4. QED
    BY <2>1, <2>2, <2>3 DEF EncryptInvariant
<1>14. CASE EncryptBatch
  <2> DEFINE b == Batch(disk.db, cursor)
             R == DOMAIN disk.db.rows
  <2>1. /\ disk.db \in Dbs /\ encKey \in Keys /\ cursor \in Nat /\ cursor' = LastOf(b, cursor)
        /\ pc = "batch" /\ pc' = IF Cardinality(b) < BatchSize THEN "done" ELSE "batch"
        /\ DOMAIN disk'.db.rows = R /\ disk'.db.done = disk.db.done
        /\ disk'.db.title = disk.db.title /\ skipped \subseteq skipped'
    BY <1>14, EncryptBatchEffect
  <2>2. /\ R \subseteq Nat /\ IsFiniteSet(R) /\ \A r \in R : disk.db.rows[r] \in Texts
    BY <2>1, RowsOfDb
  <2>3. /\ b \subseteq R /\ IsFiniteSet(b) /\ b \in SUBSET Nat
        /\ \A m \in b : \A r \in R : cursor < r /\ r <= m => r \in b
        /\ Cardinality(b) < BatchSize => \A r \in R : cursor < r => r \in b
    <3> HIDE DEF b, R
    <3>1. QED
      BY <2>1, <2>2, BatchIsPrefix DEF b, R
  <2>4. \A r \in b : Covered(disk.db.rows[r], r)'
    <3> SUFFICES ASSUME NEW r \in b PROVE Covered(disk.db.rows[r], r)'
      OBVIOUS
    <3>1. Sealed(disk.db.rows[r], encKey).layers > 0
      BY <2>1, <2>2, <2>3, SealedText
    <3>2. QED
      BY <1>14, <2>3, <3>1, EncryptBatchEffect DEF Covered
  <2>5. \A r \in R : Covered(disk.db.rows[r], r) => Covered(disk.db.rows[r], r)'
    <3> SUFFICES ASSUME NEW r \in R, Covered(disk.db.rows[r], r), r \notin b
                 PROVE  Covered(disk.db.rows[r], r)'
      BY <2>4
    <3>1. disk'.db.rows[r] = disk.db.rows[r]
      BY <1>14, EncryptBatchEffect
    <3>2. QED
      BY <2>1, <3>1 DEF Covered
  <2>6. \A r \in R : r <= cursor => Covered(disk.db.rows[r], r)'
    BY <2>1, <2>5 DEF EncryptInvariant
  <2>7. \A r \in R : r <= cursor' => r <= cursor \/ r \in b
    <3>1. /\ cursor' \in Nat
          /\ b = {} => cursor' = cursor
          /\ b # {} => cursor' \in b
      <4> HIDE DEF b
      <4>1. QED
        BY <2>1, <2>3, LastOfBatch
    <3>2. QED
      BY <2>1, <2>2, <2>3, <3>1
  <2>8. pc' = "done" => \A r \in R : r <= cursor \/ r \in b
    <3> HIDE DEF b, R
    <3>1. pc' = "done" => Cardinality(b) < BatchSize
      BY <2>1
    <3>2. \A r \in R : r <= cursor \/ cursor < r
      BY <2>1, <2>2
    <3>3. QED
      BY <2>3, <3>1, <3>2
  <2>9. Covered(disk.db.title, Title)'
    BY <2>1 DEF EncryptInvariant, Covered
  <2>10. pc' = "done" => RowsCovered'
    BY <2>1, <2>4, <2>6, <2>8 DEF RowsCovered
  <2>11. disk.db.done => RowsCovered'
    BY <2>1, <2>5 DEF EncryptInvariant, RowsCovered
  <2>12. pc' = "batch" =>
           \A r \in DOMAIN disk'.db.rows : r <= cursor' => Covered(disk.db.rows[r], r)'
    BY <2>1, <2>4, <2>6, <2>7
  <2> HIDE DEF b, R
  <2>13. QED
    BY <2>1, <2>9, <2>10, <2>11, <2>12 DEF EncryptInvariant
<1>15. CASE MarkMigrationDone
  <2>1. /\ pc = "done" /\ pc' = "engines" /\ skipped' = skipped
        /\ disk'.db.title = disk.db.title /\ disk'.db.rows = disk.db.rows
    BY <1>15, MarkMigrationDoneEffect
  <2>2. Covered(disk.db.title, Title)' /\ RowsCovered'
    BY <2>1 DEF EncryptInvariant, Covered, RowsCovered
  <2>3. QED
    BY <2>1, <2>2 DEF EncryptInvariant
<1>16. CASE MoveEngineKeys
  <2>1. /\ pc' \notin {"title", "batch", "done"} /\ skipped' = skipped /\ disk.db \in Dbs
        /\ disk'.db.title = disk.db.title /\ disk'.db.rows = disk.db.rows
        /\ disk'.db.done = disk.db.done
    BY <1>16, MoveEngineKeysEffect
  <2>2. QED
    BY <2>1 DEF EncryptInvariant, Covered, RowsCovered
<1>17. CASE SaveWithoutEngineKeys
  <2>1. pc' \notin {"title", "batch", "done"} /\ disk'.db = disk.db /\ skipped' = skipped
    BY <1>17, SaveWithoutEngineKeysEffect
  <2>2. QED
    BY <2>1, EncryptUntouched
<1>18. ASSUME NEW r \in Rows, CreateMessage(r) PROVE EncryptInvariant'
  <2>1. /\ pc' = "run" /\ skipped' = skipped /\ disk.db \in Dbs
        /\ disk'.db.title = disk.db.title /\ disk'.db.done = disk.db.done
        /\ DOMAIN disk'.db.rows = DOMAIN disk.db.rows \union {r}
        /\ \A q \in DOMAIN disk.db.rows : disk'.db.rows[q] = disk.db.rows[q]
        /\ disk'.db.rows[r].layers > 0
    BY <1>18, CreateMessageEffect
  <2>2. disk.db.done => Covered(disk.db.title, Title)' /\ RowsCovered'
    BY <2>1 DEF EncryptInvariant, Covered, RowsCovered
  <2>3. QED
    BY <2>1, <2>2 DEF EncryptInvariant
<1>19. ASSUME NEW kv \in {"on", "off"}, UpdateConfig(kv) PROVE EncryptInvariant'
  <2>1. pc' \notin {"title", "batch", "done"} /\ disk'.db = disk.db /\ skipped' = skipped
    BY <1>19, UpdateConfigEffect
  <2>2. QED
    BY <2>1, EncryptUntouched
<1>20. CASE Quit
  <2>1. pc' \notin {"title", "batch", "done"} /\ UNCHANGED <<disk, skipped>>
    BY <1>20 DEF Quit, Goto, Stopped, diskVars, histVars
  <2>2. QED
    BY <2>1, EncryptUntouched
<1>21. CASE Crash
  <2>1. pc' \notin {"title", "batch", "done"} /\ UNCHANGED <<disk, skipped>>
    BY <1>21 DEF Crash, Goto, Stopped, Fault, diskVars, histVars
  <2>2. QED
    BY <2>1, EncryptUntouched
<1>22. CASE FollowAdvice
  <2>1. pc' = "off"
    BY <1>22, FollowAdviceEffect
  <2>2. CASE disk'.db = disk.db /\ skipped' = skipped
    BY <2>1, <2>2, EncryptUntouched
  <2>3. CASE disk'.db = NoFile
    BY <2>1, <2>3, DataFilesAssumption DEF EncryptInvariant
  <2>4. QED
    BY <1>22, <2>2, <2>3, FollowAdviceEffect
<1>23. CASE UNCHANGED vars
  BY <1>23 DEF EncryptInvariant, Covered, RowsCovered, vars, diskVars, confVars, histVars
<1>24. QED
  BY <1>1, <1>2, <1>3, <1>4, <1>5, <1>6, <1>7, <1>8, <1>9, <1>10, <1>11, <1>12,
     <1>13, <1>14, <1>15, <1>16, <1>17, <1>18, <1>19, <1>20, <1>21, <1>22,
     <1>23 DEF Next

-----------------------------------------------------------------------------
(* The copy of the older version's files. *)

Copied(f) == legacy[f] # NoFile => disk[f] = legacy[f]

(* As long as no copy has failed, the files before the current one are as the   *)
(* older version left them.                                                    *)
CopyInvariant ==
  /\ pc = "migrate" => file = 1
  /\ pc \in {"open", "fill"} /\ clean => /\ file > 1 => Copied("config")
                                         /\ file > 2 => Copied("key")
  /\ pc = "mark" /\ clean => Copied("config") /\ Copied("key") /\ Copied("db")

(* No action takes back what a copy has done before the migration is over.     *)
LEMMA CopyStep == TypeInvariant /\ CopyInvariant /\ [Next]_vars => CopyInvariant'
<1> SUFFICES ASSUME TypeInvariant, CopyInvariant, [Next]_vars PROVE CopyInvariant'
  OBVIOUS
<1>1. CASE Launch
  <2>1. pc' = "migrate" /\ file' = 1
    BY <1>1 DEF Launch, Goto
  <2>2. QED
    BY <2>1 DEF CopyInvariant
<1>2. CASE SkipMigration
  <2>1. pc' \notin {"migrate", "open", "fill", "mark"}
    BY <1>2 DEF SkipMigration, Goto, AlreadyMigrated
  <2>2. QED
    BY <2>1 DEF CopyInvariant
<1>3. CASE BeginMigration
  <2>1. /\ pc = "migrate" /\ file' = file /\ UNCHANGED <<legacy, disk>>
        /\ pc' = IF \A f \in DOMAIN legacy : legacy[f] = NoFile THEN "mark" ELSE "open"
    BY <1>3 DEF BeginMigration, Goto, diskVars
  <2>2. file' = 1
    BY <2>1 DEF CopyInvariant
  <2>3. DOMAIN legacy = {"config", "key", "db"}
    BY DEF TypeInvariant, TypeOK
  <2>4. pc' = "mark" => \A f \in {"config", "key", "db"} : legacy'[f] = NoFile
    BY <2>1, <2>3
  <2>5. pc' # "migrate"
    BY <2>1
  <2>6. QED
    BY <2>2, <2>4, <2>5 DEF CopyInvariant, Copied
<1>4. CASE CopyOpen
  <2>1. /\ pc = "open" /\ legacy' = legacy /\ pc' \in Copying
        /\ \/ disk' = disk /\ NextFile /\ legacy[Files[file]] = NoFile /\ clean' = clean
           \/ ~clean'
           \/ /\ pc' = "fill" /\ file' = file /\ clean' = clean
              /\ \A f \in {"config", "key", "db"} \ {Files[file]} : disk'[f] = disk[f]
    BY <1>4, CopyOpenEffect, CopyOpenTypes
  <2>2. CASE disk' = disk /\ NextFile /\ legacy[Files[file]] = NoFile /\ clean' = clean
    BY <2>1, <2>2, FilesByName DEF TypeInvariant, CopyInvariant, Copied
  <2>3. CASE ~clean'
    BY <2>1, <2>3 DEF CopyInvariant, Copying
  <2>4. CASE /\ pc' = "fill" /\ file' = file /\ clean' = clean
             /\ \A f \in {"config", "key", "db"} \ {Files[file]} : disk'[f] = disk[f]
    BY <2>1, <2>4, FilesByName DEF TypeInvariant, CopyInvariant, Copied
  <2>5. QED
    BY <2>1, <2>2, <2>3, <2>4
<1>5. CASE CopyFill
  <2>1. /\ pc = "fill" /\ legacy' = legacy /\ NextFile /\ pc' \in Copying
        /\ \/ ~clean'
           \/ /\ clean' = clean /\ disk'[Files[file]] = legacy[Files[file]]
              /\ \A f \in {"config", "key", "db"} \ {Files[file]} : disk'[f] = disk[f]
    BY <1>5, CopyFillEffect, CopyFillTypes
  <2>2. CASE ~clean'
    BY <2>1, <2>2 DEF CopyInvariant, Copying
  <2>3. CASE /\ clean' = clean /\ disk'[Files[file]] = legacy[Files[file]]
             /\ \A f \in {"config", "key", "db"} \ {Files[file]} : disk'[f] = disk[f]
    BY <2>1, <2>3, FilesByName DEF TypeInvariant, CopyInvariant, Copied
  <2>4. QED
    BY <2>1, <2>2, <2>3
<1>6. CASE WriteMarker
  <2>1. pc' \notin {"migrate", "open", "fill", "mark"}
    BY <1>6, WriteMarkerEffect
  <2>2. QED
    BY <2>1 DEF CopyInvariant
<1>7. CASE CreateDefaultConfig
  <2>1. pc' \notin {"migrate", "open", "fill", "mark"}
    BY <1>7, CreateDefaultConfigEffect
  <2>2. QED
    BY <2>1 DEF CopyInvariant
<1>8. CASE ReadConfig
  <2>1. pc' \notin {"migrate", "open", "fill", "mark"}
    BY <1>8, ReadConfigEffect
  <2>2. QED
    BY <2>1 DEF CopyInvariant
<1>9. CASE EnsureConfigFields
  <2>1. pc' \notin {"migrate", "open", "fill", "mark"}
    BY <1>9, EnsureConfigFieldsEffect
  <2>2. QED
    BY <2>1 DEF CopyInvariant
<1>10. CASE LoadKey
  <2>1. pc' \notin {"migrate", "open", "fill", "mark"}
    BY <1>10, LoadKeyEffect
  <2>2. QED
    BY <2>1 DEF CopyInvariant
<1>11. CASE CreateKey
  <2>1. pc' \notin {"migrate", "open", "fill", "mark"}
    BY <1>11, CreateKeyEffect
  <2>2. QED
    BY <2>1 DEF CopyInvariant
<1>12. CASE InitDatabase
  <2>1. pc' \notin {"migrate", "open", "fill", "mark"}
    BY <1>12, InitDatabaseEffect
  <2>2. QED
    BY <2>1 DEF CopyInvariant
<1>13. CASE EncryptTitle
  <2>1. pc' \notin {"migrate", "open", "fill", "mark"}
    BY <1>13, EncryptTitleEffect
  <2>2. QED
    BY <2>1 DEF CopyInvariant
<1>14. CASE EncryptBatch
  <2>1. pc' \notin {"migrate", "open", "fill", "mark"}
    BY <1>14, EncryptBatchEffect
  <2>2. QED
    BY <2>1 DEF CopyInvariant
<1>15. CASE MarkMigrationDone
  <2>1. pc' \notin {"migrate", "open", "fill", "mark"}
    BY <1>15, MarkMigrationDoneEffect
  <2>2. QED
    BY <2>1 DEF CopyInvariant
<1>16. CASE MoveEngineKeys
  <2>1. pc' \notin {"migrate", "open", "fill", "mark"}
    BY <1>16, MoveEngineKeysEffect
  <2>2. QED
    BY <2>1 DEF CopyInvariant
<1>17. CASE SaveWithoutEngineKeys
  <2>1. pc' \notin {"migrate", "open", "fill", "mark"}
    BY <1>17, SaveWithoutEngineKeysEffect
  <2>2. QED
    BY <2>1 DEF CopyInvariant
<1>18. ASSUME NEW r \in Rows, CreateMessage(r) PROVE CopyInvariant'
  <2>1. pc' \notin {"migrate", "open", "fill", "mark"}
    BY <1>18, CreateMessageEffect
  <2>2. QED
    BY <2>1 DEF CopyInvariant
<1>19. ASSUME NEW kv \in {"on", "off"}, UpdateConfig(kv) PROVE CopyInvariant'
  <2>1. pc' \notin {"migrate", "open", "fill", "mark"}
    BY <1>19, UpdateConfigEffect
  <2>2. QED
    BY <2>1 DEF CopyInvariant
<1>20. CASE Quit
  <2>1. pc' \notin {"migrate", "open", "fill", "mark"}
    BY <1>20 DEF Quit, Goto, Stopped
  <2>2. QED
    BY <2>1 DEF CopyInvariant
<1>21. CASE Crash
  <2>1. pc' \notin {"migrate", "open", "fill", "mark"}
    BY <1>21 DEF Crash, Goto, Stopped, Fault
  <2>2. QED
    BY <2>1 DEF CopyInvariant
<1>22. CASE FollowAdvice
  <2>1. pc' \notin {"migrate", "open", "fill", "mark"}
    BY <1>22, FollowAdviceEffect
  <2>2. QED
    BY <2>1 DEF CopyInvariant
<1>23. CASE UNCHANGED vars
  BY <1>23 DEF CopyInvariant, Copied, vars, diskVars, confVars, histVars
<1>24. QED
  BY <1>1, <1>2, <1>3, <1>4, <1>5, <1>6, <1>7, <1>8, <1>9, <1>10, <1>11, <1>12,
     <1>13, <1>14, <1>15, <1>16, <1>17, <1>18, <1>19, <1>20, <1>21, <1>22,
     <1>23 DEF Next

-----------------------------------------------------------------------------
(* The keys of the search engines. *)

(* The migration is over, and nothing but the move may take the keys away.     *)
Owed == /\ legacy.config # NoFile /\ legacy.config.engines
        /\ OldRows \subseteq kept /\ ~rewritten /\ ~unlisted

EngineInvariant ==
  /\ pc = "engineSave" => disk.db.engine
  /\ pc = "complete" /\ ~rewritten => disk.config = original
  /\ Owed => /\ disk.config \in Configs /\ pc \notin Copying
             /\ disk.config.engines \/ (disk.db \in Dbs /\ disk.db.engine)

(* A step that leaves the configuration file and the database's keys alone.    *)
LEMMA EngineUntouched ==
  ASSUME EngineInvariant, pc' \notin {"engineSave", "complete"} \union Copying,
         UNCHANGED <<legacy, unlisted>>,
         disk'.config = disk.config, rewritten' = rewritten,
         OldRows \subseteq kept' => OldRows \subseteq kept,
         disk.db \in Dbs => disk'.db \in Dbs /\ disk'.db.engine = disk.db.engine
  PROVE  EngineInvariant'
BY DEF EngineInvariant, Owed

(* The keys leave config.json only when the database has them.                 *)
LEMMA EngineStep ==
  ASSUME OldRows # {}, TypeInvariant, CopyInvariant, EngineInvariant, [Next]_vars
  PROVE  EngineInvariant' 
<1>1. CASE Launch
  <2>1. /\ pc' \notin {"engineSave", "complete"} \union Copying
        /\ UNCHANGED <<legacy, disk, rewritten, unlisted, kept>>
    BY <1>1 DEF Launch, Goto, diskVars, histVars, Copying
  <2>2. QED
    BY <2>1, EngineUntouched
<1>2. CASE SkipMigration
  <2>1. /\ pc' \notin {"engineSave", "complete"} \union Copying
        /\ UNCHANGED <<legacy, disk, rewritten, unlisted, kept>>
    BY <1>2 DEF SkipMigration, Goto, AlreadyMigrated, diskVars, histVars, Copying
  <2>2. QED
    BY <2>1, EngineUntouched
<1>3. CASE BeginMigration
  <2>1. /\ pc' \in {"open", "mark"} /\ disk.config = NoFile
        /\ UNCHANGED <<legacy, disk, rewritten, unlisted, kept>>
    BY <1>3 DEF BeginMigration, AlreadyMigrated, Goto, diskVars, histVars
  <2>2. ~Owed
    BY <2>1, DataFilesAssumption DEF EngineInvariant
  <2>3. ~Owed'
    BY <2>1, <2>2 DEF Owed
  <2>4. QED
    BY <2>1, <2>3 DEF EngineInvariant
<1>4. CASE CopyOpen
  <2>1. /\ pc \in Copying /\ pc' \in Copying
        /\ UNCHANGED <<legacy, rewritten, unlisted, kept>>
    BY <1>4, CopyOpenEffect, CopyOpenTypes DEF Copying
  <2>2. ~Owed'
    BY <2>1 DEF EngineInvariant, Owed
  <2>3. QED
    BY <2>1, <2>2 DEF EngineInvariant, Copying
<1>5. CASE CopyFill
  <2>1. /\ pc \in Copying /\ pc' \in Copying
        /\ UNCHANGED <<legacy, rewritten, unlisted, kept>>
    BY <1>5, CopyFillEffect, CopyFillTypes DEF Copying
  <2>2. ~Owed'
    BY <2>1 DEF EngineInvariant, Owed
  <2>3. QED
    BY <2>1, <2>2 DEF EngineInvariant, Copying
<1>6. CASE WriteMarker
  <2>1. /\ pc = "mark" /\ pc' = "default" /\ UNCHANGED <<legacy, disk, rewritten, unlisted>>
        /\ kept' = IF clean /\ legacy.db # NoFile THEN OldRows ELSE kept
    BY <1>6, WriteMarkerEffect
  <2>2. ~Owed
    BY <2>1 DEF EngineInvariant, Copying
  <2>3. ASSUME Owed'
        PROVE  disk'.config \in Configs /\ disk'.config.engines
    <3>1. clean /\ legacy.config # NoFile /\ legacy.config.engines
      BY <2>1, <2>2, <2>3 DEF Owed
    <3>2. disk.config = legacy.config
      BY <2>1, <3>1 DEF CopyInvariant, Copied
    <3>3. legacy.config \in Configs
      BY <3>1, OldFiles DEF TypeInvariant
    <3>4. QED
      BY <2>1, <3>1, <3>2, <3>3
  <2>4. QED
    BY <2>1, <2>3 DEF EngineInvariant, Copying
<1>7. CASE CreateDefaultConfig
  <2>1. pc' = "load" /\ UNCHANGED <<legacy, rewritten, unlisted, kept>> /\ disk'.db = disk.db
    BY <1>7, CreateDefaultConfigEffect
  <2>2. CASE disk' = disk
    BY <2>1, <2>2, EngineUntouched DEF Copying
  <2>3. CASE disk.config = NoFile
    <3>1. ~Owed'
      BY <2>1, <2>3, DataFilesAssumption DEF EngineInvariant, Owed
    <3>2. QED
      BY <2>1, <3>1 DEF EngineInvariant
  <2>4. QED
    BY <1>7, <2>2, <2>3, CreateDefaultConfigEffect
<1>8. CASE ReadConfig
  <2>1. UNCHANGED <<legacy, unlisted, kept>> /\ disk'.db = disk.db /\ pc = "load"
    BY <1>8, ReadConfigEffect
  <2>2. CASE disk.config \in {NoFile, Torn} /\ pc' = "key" /\ rewritten' = rewritten
    <3>1. ~Owed'
      BY <2>1, <2>2, DataFilesAssumption DEF EngineInvariant, Owed
    <3>2. QED
      BY <2>2, <3>1 DEF EngineInvariant
  <2>3. CASE pc' = "fatal" /\ disk' = disk /\ rewritten' = rewritten
    BY <2>1, <2>3, EngineUntouched DEF Copying
  <2>4. CASE pc' = "key" /\ rewritten'
    BY <2>4 DEF EngineInvariant, Owed
  <2>5. CASE /\ pc' = "complete" /\ disk.config \in Configs /\ original' = disk.config
             /\ disk'.config = (IF disk.config.bad THEN inMem' ELSE disk.config)
             /\ disk.config.bad => rewritten'
             /\ ~disk.config.bad => rewritten' = rewritten
    <3>1. ~rewritten' => disk'.config = disk.config /\ ~rewritten
      BY <2>5, Zenon
    <3>2. QED
      BY <2>1, <2>5, <3>1 DEF EngineInvariant, Owed, Copying
  <2>6. QED
    BY <1>8, <2>2, <2>3, <2>4, <2>5, ReadConfigEffect
<1>9. CASE EnsureConfigFields
  <2>1. /\ pc = "complete" /\ pc' = "key" /\ disk'.db = disk.db
        /\ UNCHANGED <<legacy, unlisted, kept, rewritten>>
        /\ disk'.config \in {disk.config, Completed(original, inMem)} /\ disk'.config \in Configs
    BY <1>9, EnsureConfigFieldsEffect
  <2>2. Completed(original, inMem).engines = original.engines
    BY CompletedType DEF TypeInvariant, TypeOK
  <2>3. QED
    BY <2>1, <2>2 DEF EngineInvariant, Owed, Copying
<1>10. CASE LoadKey
  <2>1. /\ pc' \notin {"engineSave", "complete"} \union Copying
        /\ UNCHANGED <<legacy, rewritten, unlisted, kept>> /\ disk'.config = disk.config
        /\ disk.db \in Dbs => disk'.db \in Dbs /\ disk'.db.engine = disk.db.engine
    BY <1>10, LoadKeyEffect DEF Copying
  <2>2. QED
    BY <2>1, EngineUntouched
<1>11. CASE CreateKey
  <2>1. /\ pc' \notin {"engineSave", "complete"} \union Copying
        /\ UNCHANGED <<legacy, rewritten, unlisted, kept>> /\ disk'.config = disk.config
        /\ disk.db \in Dbs => disk'.db \in Dbs /\ disk'.db.engine = disk.db.engine
    BY <1>11, CreateKeyEffect DEF Copying
  <2>2. QED
    BY <2>1, EngineUntouched
<1>12. CASE InitDatabase
  <2>1. /\ pc' \notin {"engineSave", "complete"} \union Copying
        /\ UNCHANGED <<legacy, rewritten, unlisted, kept>> /\ disk'.config = disk.config
    BY <1>12, InitDatabaseEffect DEF Copying
  <2>2. disk.db \in Dbs => disk'.db = disk.db
    BY <1>12, InitDatabaseEffect, DataFilesAssumption
  <2>3. QED
    BY <2>1, <2>2, EngineUntouched
<1>13. CASE EncryptTitle
  <2>1. /\ pc' \notin {"engineSave", "complete"} \union Copying
        /\ UNCHANGED <<legacy, rewritten, unlisted, kept>> /\ disk'.config = disk.config
        /\ disk.db \in Dbs => disk'.db \in Dbs /\ disk'.db.engine = disk.db.engine
    BY <1>13, EncryptTitleEffect DEF Copying
  <2>2. QED
    BY <2>1, EngineUntouched
<1>14. CASE EncryptBatch
  <2>1. /\ pc' \notin {"engineSave", "complete"} \union Copying
        /\ UNCHANGED <<legacy, rewritten, unlisted, kept>> /\ disk'.config = disk.config
        /\ disk.db \in Dbs => disk'.db \in Dbs /\ disk'.db.engine = disk.db.engine
    BY <1>14, EncryptBatchEffect DEF Copying
  <2>2. QED
    BY <2>1, EngineUntouched
<1>15. CASE MarkMigrationDone
  <2>1. /\ pc' \notin {"engineSave", "complete"} \union Copying
        /\ UNCHANGED <<legacy, rewritten, unlisted, kept>> /\ disk'.config = disk.config
        /\ disk.db \in Dbs => disk'.db \in Dbs /\ disk'.db.engine = disk.db.engine
    BY <1>15, MarkMigrationDoneEffect DEF Copying
  <2>2. QED
    BY <2>1, EngineUntouched
<1>16. CASE MoveEngineKeys
  <2>1. /\ UNCHANGED <<legacy, rewritten, unlisted, kept>> /\ disk'.config = disk.config
        /\ disk'.db \in Dbs
    BY <1>16, MoveEngineKeysEffect
  <2>2. CASE pc' = "run" /\ disk' = disk
    BY <2>1, <2>2, EngineUntouched DEF Copying
  <2>3. CASE pc' = "engineSave" /\ disk'.db.engine
    BY <2>1, <2>3 DEF EngineInvariant, Owed, Copying
  <2>4. QED
    BY <1>16, <2>2, <2>3, MoveEngineKeysEffect
<1>17. CASE SaveWithoutEngineKeys
  <2>1. /\ pc = "engineSave" /\ pc' = "run" /\ disk'.db = disk.db /\ disk'.config \in Configs
    BY <1>17, SaveWithoutEngineKeysEffect
  <2>2. disk.db \in Dbs /\ disk.db.engine
    BY <2>1 DEF TypeInvariant, PhaseInvariant, Opened, EngineInvariant
  <2>3. QED
    BY <2>1, <2>2 DEF EngineInvariant, Copying
<1>18. ASSUME NEW r \in Rows, CreateMessage(r) PROVE EngineInvariant'
  <2>1. /\ pc' = "run" /\ UNCHANGED <<legacy, rewritten, unlisted>> /\ disk'.config = disk.config
        /\ kept' = kept \union {r} /\ r \notin OldRows
        /\ disk'.db \in Dbs /\ disk'.db.engine = disk.db.engine
    BY <1>18, CreateMessageEffect
  <2>2. OldRows \subseteq kept' => OldRows \subseteq kept
    BY <2>1
  <2>3. QED
    BY <2>1, <2>2, EngineUntouched DEF Copying
<1>19. ASSUME NEW kv \in {"on", "off"}, UpdateConfig(kv) PROVE EngineInvariant'
  <2>1. /\ pc' = "run" /\ pc = "run" /\ disk'.config \in Configs /\ disk'.db = disk.db
        /\ UNCHANGED <<legacy, unlisted, kept>>
        /\ ~rewritten' => ~rewritten /\ ~(disk.config \in Configs /\ disk.config.engines
                                          /\ ~disk.db.engine)
    BY <1>19, UpdateConfigEffect
  <2>2. Owed' => Owed
    BY <2>1 DEF Owed
  <2>3. disk.db \in Dbs
    BY <2>1 DEF TypeInvariant, PhaseInvariant, Opened
  <2>4. Owed' => disk'.db \in Dbs /\ disk'.db.engine
    BY <2>1, <2>2, <2>3 DEF EngineInvariant, Owed
  <2>5. QED
    BY <2>1, <2>4 DEF EngineInvariant, Copying
<1>20. CASE Quit
  <2>1. /\ pc' \notin {"engineSave", "complete"} \union Copying
        /\ UNCHANGED <<legacy, disk, rewritten, unlisted, kept>>
    BY <1>20 DEF Quit, Goto, Stopped, diskVars, histVars, Copying
  <2>2. QED
    BY <2>1, EngineUntouched
<1>21. CASE Crash
  <2>1. /\ pc' \notin {"engineSave", "complete"} \union Copying
        /\ UNCHANGED <<legacy, disk, rewritten, unlisted, kept>>
    BY <1>21 DEF Crash, Goto, Stopped, Fault, diskVars, histVars, Copying
  <2>2. QED
    BY <2>1, EngineUntouched
<1>22. CASE FollowAdvice
  <2>1. pc' = "off" /\ UNCHANGED <<legacy, rewritten>>
    BY <1>22, FollowAdviceEffect
  <2>2. CASE disk' = disk /\ UNCHANGED <<unlisted, kept>>
    BY <2>1, <2>2, EngineUntouched DEF Copying
  <2>3. CASE unlisted' = TRUE
    BY <2>1, <2>3 DEF EngineInvariant, Owed
  <2>4. CASE kept' = {}
    BY <2>1, <2>4 DEF EngineInvariant, Owed
  <2>5. QED
    BY <1>22, <2>2, <2>3, <2>4, FollowAdviceEffect
<1>23. CASE UNCHANGED vars
  BY <1>23 DEF EngineInvariant, Owed, vars, diskVars, confVars, histVars
<1>24. QED
  BY <1>1, <1>2, <1>3, <1>4, <1>5, <1>6, <1>7, <1>8, <1>9, <1>10, <1>11, <1>12,
     <1>13, <1>14, <1>15, <1>16, <1>17, <1>18, <1>19, <1>20, <1>21, <1>22,
     <1>23 DEF Next

-----------------------------------------------------------------------------
(* The messages of the user. *)

(* The old files will not be copied over the new ones.                         *)
Guarded == cut => ~unlisted

(* A text that the key on disk opens, or that is plain.                        *)
Legible(t) == t.layers = 0 \/ (t.layers = 1 /\ t.key = disk.key /\ t.key \in Keys)

KeptInDb == \A r \in kept : /\ disk.db \in Dbs /\ r \in DOMAIN disk.db.rows
                            /\ Legible(disk.db.rows[r])

(* Where there are messages to keep, a marker or a configuration stops the next *)
(* migration; and a migration runs only where there is nothing to keep.        *)
KeepInvariant ==
  /\ ~cut /\ kept # {} => marker
  /\ ~cut /\ pc \notin {"off", "migrate"} \union Copying => marker
  /\ ~cut /\ ~marker /\ pc \in {"off", "migrate"} => disk.config = NoFile
  /\ ~unlisted /\ kept # {} => disk.config # NoFile
  /\ Guarded => (pc \in Copying => kept = {}) /\ KeptInDb

(* A step that neither takes files away nor changes a kept message, and that    *)
(* is no part of a migration.                                                  *)
LEMMA KeepUntouched ==
  ASSUME TypeInvariant, KeepInvariant,
         UNCHANGED <<cut, unlisted, kept, marker>>,
         pc \notin {"off", "migrate"} \union Copying,
         pc' \notin {"migrate"} \union Copying,
         disk.config # NoFile => disk'.config # NoFile,
         Guarded => KeptInDb'
  PROVE  KeepInvariant'
BY DEF KeepInvariant, Guarded

(* What is kept stays so as long as its texts and the key that opens them do.   *)
LEMMA StillKept ==
  ASSUME KeptInDb, kept' = kept,
         disk.db \in Dbs => disk'.db \in Dbs /\ disk'.db.rows = disk.db.rows,
         disk.key \in Keys => disk'.key = disk.key
  PROVE  KeptInDb'
BY DEF KeptInDb, Legible

(* No action loses a message of the user.                                      *)
LEMMA KeepStep ==
  TypeInvariant /\ CopyInvariant /\ KeepInvariant /\ [Next]_vars => KeepInvariant'
<1> SUFFICES ASSUME TypeInvariant, CopyInvariant, KeepInvariant, [Next]_vars
             PROVE  KeepInvariant'
  OBVIOUS
<1>1. CASE Launch
  <2>1. /\ pc = "off" /\ pc' = "migrate"
        /\ UNCHANGED <<disk, marker, cut, unlisted, kept>>
    BY <1>1 DEF Launch, Goto, diskVars
  <2>2. QED
    BY <2>1 DEF KeepInvariant, Guarded, KeptInDb, Legible, Copying
<1>2. CASE SkipMigration
  <2>1. /\ pc = "migrate" /\ pc' = "default" /\ (disk.config # NoFile \/ marker)
        /\ UNCHANGED <<disk, marker, cut, unlisted, kept>>
    BY <1>2 DEF SkipMigration, AlreadyMigrated, Goto, diskVars, histVars
  <2>2. QED
    BY <2>1 DEF KeepInvariant, Guarded, KeptInDb, Legible, Copying
<1>3. CASE BeginMigration
  <2>1. /\ pc = "migrate" /\ pc' \in Copying /\ disk.config = NoFile /\ ~marker
        /\ UNCHANGED <<disk, marker, cut, unlisted, kept>>
    BY <1>3 DEF BeginMigration, AlreadyMigrated, Goto, diskVars, histVars, Copying
  <2>2. Guarded => kept = {}
    BY <2>1 DEF KeepInvariant, Guarded
  <2>3. QED
    BY <2>1, <2>2 DEF KeepInvariant, Guarded, KeptInDb, Copying
<1>4. CASE CopyOpen
  <2>1. /\ pc \in Copying /\ pc' \in Copying /\ pc' \notin {"off", "migrate"}
        /\ UNCHANGED <<marker, cut, unlisted, kept>>
    BY <1>4, CopyOpenEffect, CopyOpenTypes DEF Copying
  <2>2. disk.config # NoFile => disk'.config # NoFile
    <3>1. disk'.config \in {disk.config, Torn}
      BY <1>4, CopyOpenEffect, FilesByName DEF TypeInvariant
    <3>2. QED
      BY <3>1, DataFilesAssumption
  <2>3. Guarded => kept = {}
    BY <2>1 DEF KeepInvariant
  <2>4. QED
    BY <2>1, <2>2, <2>3 DEF KeepInvariant, Guarded, KeptInDb
<1>5. CASE CopyFill
  <2>1. /\ pc \in Copying /\ pc' \in Copying /\ pc' \notin {"off", "migrate"}
        /\ UNCHANGED <<marker, cut, unlisted, kept>>
    BY <1>5, CopyFillEffect, CopyFillTypes DEF Copying
  <2>2. disk.config # NoFile => disk'.config # NoFile
    <3>1. /\ pc = "fill"
          /\ disk'.config = disk.config \/ (file = 1 /\ disk'.config = legacy.config)
      BY <1>5, CopyFillEffect, FilesByName DEF TypeInvariant
    <3>2. file = 1 => legacy.config # NoFile
      BY <3>1, FilesByName DEF TypeInvariant, PhaseInvariant
    <3>3. QED
      BY <3>1, <3>2
  <2>3. Guarded => kept = {}
    BY <2>1 DEF KeepInvariant
  <2>4. QED
    BY <2>1, <2>2, <2>3 DEF KeepInvariant, Guarded, KeptInDb
<1>6. CASE WriteMarker
  <2>1. /\ pc = "mark" /\ pc' = "default" /\ disk' = disk /\ unlisted' = unlisted
        /\ kept' = IF clean /\ legacy.db # NoFile THEN OldRows ELSE kept
        /\ \/ marker' = TRUE /\ cut' = cut
           \/ marker' = marker /\ cut' = TRUE
    BY <1>6, WriteMarkerEffect
  <2>2. (cut \/ cut') => cut'
    BY <2>1
  <2>3. ~cut' => marker'
    BY <2>1
  <2>4. CASE clean /\ legacy.db # NoFile
    <3>1. /\ legacy.config # NoFile /\ legacy.db = OldDb
          /\ disk.config = legacy.config /\ disk.db = legacy.db
      BY <2>1, <2>4, OldFiles DEF TypeInvariant, LegacyWhole, CopyInvariant, Copied
    <3>2. /\ disk.db \in Dbs /\ disk.db.rows = [r \in OldRows |-> Plain]
          /\ Plain.layers = 0
      BY <3>1, Constants
    <3>3. KeptInDb'
      BY <2>1, <2>4, <3>2 DEF KeptInDb, Legible
    <3>4. QED
      BY <2>1, <2>3, <3>1, <3>3 DEF KeepInvariant, Copying
  <2>5. CASE ~(clean /\ legacy.db # NoFile)
    <3>1. kept' = kept
      BY <2>1, <2>5
    <3>2. Guarded' => Guarded
      BY <2>1, <2>2 DEF Guarded
    <3>3. Guarded => kept = {}
      BY <2>1 DEF KeepInvariant, Copying
    <3>4. QED
      BY <2>1, <2>3, <3>1, <3>2, <3>3 DEF KeepInvariant, KeptInDb, Copying
  <2>6. QED
    BY <2>4, <2>5
<1>7. CASE CreateDefaultConfig
  <2>1. /\ UNCHANGED <<cut, unlisted, kept, marker>>
        /\ pc \notin {"off", "migrate"} \union Copying
        /\ pc' \notin {"migrate"} \union Copying
    BY <1>7, CreateDefaultConfigEffect DEF Copying
  <2>2. disk.config # NoFile => disk'.config # NoFile
    BY <1>7, CreateDefaultConfigEffect, DataFilesAssumption, Constants
  <2>3. /\ disk.db \in Dbs => disk'.db \in Dbs /\ disk'.db.rows = disk.db.rows
        /\ disk.key \in Keys => disk'.key = disk.key
    BY <1>7, CreateDefaultConfigEffect, DataFilesAssumption
  <2>4. Guarded => KeptInDb'
    BY <2>1, <2>3, StillKept DEF KeepInvariant
  <2>5. QED
    BY <2>1, <2>2, <2>4, KeepUntouched
<1>8. CASE ReadConfig
  <2>1. /\ UNCHANGED <<cut, unlisted, kept, marker>>
        /\ pc \notin {"off", "migrate"} \union Copying
        /\ pc' \notin {"migrate"} \union Copying
    BY <1>8, ReadConfigEffect DEF Copying
  <2>2. disk.config # NoFile => disk'.config # NoFile
    BY <1>8, ReadConfigEffect, DataFilesAssumption, InForceFields, Constants
  <2>3. /\ disk.db \in Dbs => disk'.db \in Dbs /\ disk'.db.rows = disk.db.rows
        /\ disk.key \in Keys => disk'.key = disk.key
    BY <1>8, ReadConfigEffect, DataFilesAssumption
  <2>4. Guarded => KeptInDb'
    BY <2>1, <2>3, StillKept DEF KeepInvariant
  <2>5. QED
    BY <2>1, <2>2, <2>4, KeepUntouched
<1>9. CASE EnsureConfigFields
  <2>1. /\ UNCHANGED <<cut, unlisted, kept, marker>>
        /\ pc \notin {"off", "migrate"} \union Copying
        /\ pc' \notin {"migrate"} \union Copying
    BY <1>9, EnsureConfigFieldsEffect DEF Copying
  <2>2. disk.config # NoFile => disk'.config # NoFile
    BY <1>9, EnsureConfigFieldsEffect, DataFilesAssumption
  <2>3. /\ disk.db \in Dbs => disk'.db \in Dbs /\ disk'.db.rows = disk.db.rows
        /\ disk.key \in Keys => disk'.key = disk.key
    BY <1>9, EnsureConfigFieldsEffect, DataFilesAssumption
  <2>4. Guarded => KeptInDb'
    BY <2>1, <2>3, StillKept DEF KeepInvariant
  <2>5. QED
    BY <2>1, <2>2, <2>4, KeepUntouched
<1>10. CASE LoadKey
  <2>1. /\ UNCHANGED <<cut, unlisted, kept, marker>>
        /\ pc \notin {"off", "migrate"} \union Copying
        /\ pc' \notin {"migrate"} \union Copying
    BY <1>10, LoadKeyEffect DEF Copying
  <2>2. disk.config # NoFile => disk'.config # NoFile
    BY <1>10, LoadKeyEffect, DataFilesAssumption
  <2>3. /\ disk.db \in Dbs => disk'.db \in Dbs /\ disk'.db.rows = disk.db.rows
        /\ disk.key \in Keys => disk'.key = disk.key
    BY <1>10, LoadKeyEffect, DataFilesAssumption
  <2>4. Guarded => KeptInDb'
    BY <2>1, <2>3, StillKept DEF KeepInvariant
  <2>5. QED
    BY <2>1, <2>2, <2>4, KeepUntouched
<1>11. CASE CreateKey
  <2>1. /\ UNCHANGED <<cut, unlisted, kept, marker>>
        /\ pc \notin {"off", "migrate"} \union Copying
        /\ pc' \notin {"migrate"} \union Copying
    BY <1>11, CreateKeyEffect DEF Copying
  <2>2. disk.config # NoFile => disk'.config # NoFile
    BY <1>11, CreateKeyEffect, DataFilesAssumption
  <2>3. /\ disk.db \in Dbs => disk'.db \in Dbs /\ disk'.db.rows = disk.db.rows
        /\ disk.key \in Keys => disk'.key = disk.key
    BY <1>11, CreateKeyEffect, DataFilesAssumption
  <2>4. Guarded => KeptInDb'
    BY <2>1, <2>3, StillKept DEF KeepInvariant
  <2>5. QED
    BY <2>1, <2>2, <2>4, KeepUntouched
<1>12. CASE InitDatabase
  <2>1. /\ UNCHANGED <<cut, unlisted, kept, marker>>
        /\ pc \notin {"off", "migrate"} \union Copying
        /\ pc' \notin {"migrate"} \union Copying
    BY <1>12, InitDatabaseEffect DEF Copying
  <2>2. disk.config # NoFile => disk'.config # NoFile
    BY <1>12, InitDatabaseEffect, DataFilesAssumption
  <2>3. /\ disk.db \in Dbs => disk'.db \in Dbs /\ disk'.db.rows = disk.db.rows
        /\ disk.key \in Keys => disk'.key = disk.key
    BY <1>12, InitDatabaseEffect, DataFilesAssumption
  <2>4. Guarded => KeptInDb'
    BY <2>1, <2>3, StillKept DEF KeepInvariant
  <2>5. QED
    BY <2>1, <2>2, <2>4, KeepUntouched
<1>13. CASE EncryptTitle
  <2>1. /\ UNCHANGED <<cut, unlisted, kept, marker>> /\ disk'.config = disk.config
        /\ disk'.key = disk.key /\ disk'.db \in Dbs /\ disk'.db.rows = disk.db.rows
        /\ pc \notin {"off", "migrate"} \union Copying
        /\ pc' \notin {"migrate"} \union Copying
    BY <1>13, EncryptTitleEffect DEF Copying
  <2>2. Guarded => KeptInDb'
    BY <2>1, StillKept DEF KeepInvariant
  <2>3. QED
    BY <2>1, <2>2, KeepUntouched
<1>14. CASE EncryptBatch
  <2>1. /\ UNCHANGED <<cut, unlisted, kept, marker>> /\ disk'.config = disk.config
        /\ disk'.key = disk.key /\ disk.db \in Dbs /\ disk'.db \in Dbs
        /\ pc = "batch" /\ encKey \in Keys
        /\ pc \notin {"off", "migrate"} \union Copying
        /\ pc' \notin {"migrate"} \union Copying
    BY <1>14, EncryptBatchEffect DEF Copying
  <2>2. /\ DOMAIN disk'.db.rows = DOMAIN disk.db.rows
        /\ \A r \in DOMAIN disk.db.rows :
             disk'.db.rows[r] \in {disk.db.rows[r], Sealed(disk.db.rows[r], encKey)}
    BY <1>14, EncryptBatchEffect
  <2>3. encKey = disk.key
    BY <2>1 DEF TypeInvariant, PhaseInvariant, Keyed, Opened
  <2>4. \A r \in DOMAIN disk.db.rows : Legible(disk.db.rows[r]) => Legible(disk.db.rows[r])'
    <3> SUFFICES ASSUME NEW r \in DOMAIN disk.db.rows, Legible(disk.db.rows[r])
                 PROVE  Legible(disk.db.rows[r])'
      OBVIOUS
    <3> DEFINE t == disk.db.rows[r]
    <3>1. t \in Texts
      BY <2>1, RowsOfDb
    <3>2. t.layers > 0 => Sealed(t, encKey) = t
      BY <2>1, <3>1, SealedText
    <3>3. t.layers = 0 => Sealed(t, encKey).layers = 1 /\ Sealed(t, encKey).key = encKey
      <4>1. t.layers = 0 => Sealed(t, encKey) = [layers |-> 1, key |-> encKey]
        BY <2>1, <3>1, SealedText
      <4>2. QED
        BY <4>1
    <3>4. t.layers = 0 \/ t.layers > 0
      BY <3>1 DEF Texts
    <3>5. disk'.db.rows[r] = t \/ disk'.db.rows[r] = Sealed(t, encKey)
      BY <2>2
    <3> HIDE DEF t
    <3>6. QED
      BY <2>1, <2>3, <3>2, <3>3, <3>4, <3>5 DEF Legible, t
  <2>5. Guarded => KeptInDb'
    BY <2>1, <2>2, <2>4 DEF KeepInvariant, KeptInDb
  <2>6. QED
    BY <2>1, <2>5, KeepUntouched
<1>15. CASE MarkMigrationDone
  <2>1. /\ UNCHANGED <<cut, unlisted, kept, marker>>
        /\ pc \notin {"off", "migrate"} \union Copying
        /\ pc' \notin {"migrate"} \union Copying
    BY <1>15, MarkMigrationDoneEffect DEF Copying
  <2>2. disk.config # NoFile => disk'.config # NoFile
    BY <1>15, MarkMigrationDoneEffect, DataFilesAssumption
  <2>3. /\ disk.db \in Dbs => disk'.db \in Dbs /\ disk'.db.rows = disk.db.rows
        /\ disk.key \in Keys => disk'.key = disk.key
    BY <1>15, MarkMigrationDoneEffect, DataFilesAssumption
  <2>4. Guarded => KeptInDb'
    BY <2>1, <2>3, StillKept DEF KeepInvariant
  <2>5. QED
    BY <2>1, <2>2, <2>4, KeepUntouched
<1>16. CASE MoveEngineKeys
  <2>1. /\ UNCHANGED <<cut, unlisted, kept, marker>>
        /\ pc \notin {"off", "migrate"} \union Copying
        /\ pc' \notin {"migrate"} \union Copying
    BY <1>16, MoveEngineKeysEffect DEF Copying
  <2>2. disk.config # NoFile => disk'.config # NoFile
    BY <1>16, MoveEngineKeysEffect, DataFilesAssumption
  <2>3. /\ disk.db \in Dbs => disk'.db \in Dbs /\ disk'.db.rows = disk.db.rows
        /\ disk.key \in Keys => disk'.key = disk.key
    BY <1>16, MoveEngineKeysEffect, DataFilesAssumption
  <2>4. Guarded => KeptInDb'
    BY <2>1, <2>3, StillKept DEF KeepInvariant
  <2>5. QED
    BY <2>1, <2>2, <2>4, KeepUntouched
<1>17. CASE SaveWithoutEngineKeys
  <2>1. /\ UNCHANGED <<cut, unlisted, kept, marker>>
        /\ pc \notin {"off", "migrate"} \union Copying
        /\ pc' \notin {"migrate"} \union Copying
    BY <1>17, SaveWithoutEngineKeysEffect DEF Copying
  <2>2. disk.config # NoFile => disk'.config # NoFile
    BY <1>17, SaveWithoutEngineKeysEffect, DataFilesAssumption
  <2>3. /\ disk.db \in Dbs => disk'.db \in Dbs /\ disk'.db.rows = disk.db.rows
        /\ disk.key \in Keys => disk'.key = disk.key
    BY <1>17, SaveWithoutEngineKeysEffect, DataFilesAssumption
  <2>4. Guarded => KeptInDb'
    BY <2>1, <2>3, StillKept DEF KeepInvariant
  <2>5. QED
    BY <2>1, <2>2, <2>4, KeepUntouched
<1>18. ASSUME NEW r \in Rows, CreateMessage(r) PROVE KeepInvariant'
  <2>1. /\ UNCHANGED <<cut, unlisted, marker>> /\ pc = "run" /\ pc' = "run"
        /\ disk'.config = disk.config /\ disk'.key = disk.key
        /\ disk'.db \in Dbs
        /\ DOMAIN disk'.db.rows = DOMAIN disk.db.rows \union {r}
        /\ \A q \in DOMAIN disk.db.rows : disk'.db.rows[q] = disk.db.rows[q]
        /\ disk'.db.rows[r] = [layers |-> 1, key |-> encKey]
        /\ encKey \in Keys /\ encKey = disk.key
        /\ kept' = kept \union {r}
    BY <1>18, CreateMessageEffect
  <2>2. disk.config \in Configs /\ disk.config # NoFile
    BY <2>1, DataFilesAssumption DEF TypeInvariant, PhaseInvariant, Configured, Keyed, Opened
  <2>3. Guarded => KeptInDb'
    BY <2>1 DEF KeepInvariant, KeptInDb, Legible
  <2>4. QED
    BY <2>1, <2>2, <2>3 DEF KeepInvariant, Guarded, Copying
<1>19. ASSUME NEW kv \in {"on", "off"}, UpdateConfig(kv) PROVE KeepInvariant'
  <2>1. /\ UNCHANGED <<cut, unlisted, kept, marker>> /\ pc = "run" /\ pc' = "run"
        /\ disk'.key = disk.key /\ disk'.db = disk.db /\ disk'.config \in Configs
    BY <1>19, UpdateConfigEffect
  <2>2. Guarded => KeptInDb'
    BY <2>1, StillKept DEF KeepInvariant
  <2>3. QED
    BY <2>1, <2>2, KeepUntouched, DataFilesAssumption DEF Copying
<1>20. CASE Quit
  <2>1. /\ pc = "run" /\ pc' = "off" /\ UNCHANGED <<disk, marker, cut, unlisted, kept>>
    BY <1>20 DEF Quit, Stopped, Goto, diskVars, histVars
  <2>2. Guarded => KeptInDb'
    BY <2>1, StillKept DEF KeepInvariant
  <2>3. QED
    BY <2>1, <2>2, KeepUntouched DEF Copying
<1>21. CASE Crash
  <2>1. /\ pc' = "off" /\ UNCHANGED <<disk, marker, unlisted, kept>>
        /\ cut' = (cut \/ pc \in Copying)
    BY <1>21 DEF Crash, Stopped, Goto, diskVars, Copying
  <2>2. Guarded' => Guarded
    BY <2>1 DEF Guarded
  <2>3. Guarded => KeptInDb'
    BY <2>1, StillKept DEF KeepInvariant
  <2>4. ~cut' => ~cut /\ pc \notin Copying
    BY <2>1
  <2>5. QED
    BY <2>1, <2>2, <2>3, <2>4 DEF KeepInvariant, Copying
<1>22. CASE FollowAdvice
  <2>1. pc = "fatal" /\ pc' = "off" /\ UNCHANGED <<cut, marker>>
    BY <1>22, FollowAdviceEffect
  <2>2. CASE disk' = disk /\ UNCHANGED <<unlisted, kept>>
    <3>1. Guarded => KeptInDb'
      BY <2>2, StillKept DEF KeepInvariant
    <3>2. QED
      BY <2>1, <2>2, <3>1, KeepUntouched DEF Copying
  <2>3. CASE unlisted' = TRUE /\ kept' = kept /\ disk'.key = disk.key /\ disk'.db = disk.db
    <3>1. Guarded' => Guarded
      BY <2>1, <2>3 DEF Guarded
    <3>2. Guarded => KeptInDb'
      BY <2>3, StillKept DEF KeepInvariant
    <3>3. QED
      BY <2>1, <2>3, <3>1, <3>2 DEF KeepInvariant, Copying
  <2>4. CASE kept' = {}
    BY <2>1, <2>4 DEF KeepInvariant, KeptInDb, Copying
  <2>5. QED
    BY <1>22, <2>2, <2>3, <2>4, FollowAdviceEffect
<1>23. CASE UNCHANGED vars
  BY <1>23 DEF KeepInvariant, Guarded, KeptInDb, Legible, vars, diskVars, confVars, histVars
<1>24. QED
  BY <1>1, <1>2, <1>3, <1>4, <1>5, <1>6, <1>7, <1>8, <1>9, <1>10, <1>11, <1>12,
     <1>13, <1>14, <1>15, <1>16, <1>17, <1>18, <1>19, <1>20, <1>21, <1>22,
     <1>23 DEF Next

-----------------------------------------------------------------------------
(* The theorems. *)

(* A first start begins with nothing to lose.                                  *)
LEMMA InitialData ==
  Init => TypeInvariant /\ ConfigInvariant /\ EncryptInvariant /\ CopyInvariant /\ KeepInvariant
<1> SUFFICES ASSUME Init
             PROVE  TypeInvariant /\ ConfigInvariant /\ EncryptInvariant /\ CopyInvariant
                    /\ KeepInvariant
  OBVIOUS
<1>1. /\ pc = "off" /\ kept = {} /\ disk.config = NoFile /\ disk.db = NoFile
      /\ inMem = DefaultConfig
  BY DEF Init
<1>2. LegacyWhole
  <2>1. \A c \in OldConfigs : c # NoFile
    BY Constants, DataFilesAssumption
  <2>2. OldDb # NoFile
    BY Constants, DataFilesAssumption
  <2>3. QED
    BY <2>1, <2>2 DEF Init, LegacyWhole
<1>3. legacy \in [config: OldConfigs \union {NoFile}, key: {NoFile, 0}, db: {NoFile, OldDb}]
  <2>1. legacy \in {[config |-> NoFile, key |-> NoFile, db |-> NoFile]} \union
                   [config: OldConfigs, key: {NoFile, 0}, db: {OldDb}]
    BY DEF Init
  <2>2. QED
    BY <2>1
<1>4. TypeOK
  <2>1. /\ disk = [config |-> NoFile, key |-> NoFile, db |-> NoFile]
        /\ pc = "off" /\ file = 1 /\ inMem = DefaultConfig /\ original = DefaultConfig
        /\ encKey = NoKey /\ cursor = 0 /\ why = "none" /\ starts = 0 /\ faults = 0
        /\ kept = {} /\ skipped = {}
    BY DEF Init
  <2>2. /\ marker = FALSE /\ cut = FALSE /\ unlisted = FALSE /\ clean = TRUE
        /\ rewritten = FALSE
    BY DEF Init
  <2>3. disk \in [config: Configs \union {NoFile, Torn}, key: Keys \union {NoFile, Torn},
                 db: Dbs \union {NoFile, Torn}]
    BY <2>1
  <2>4. starts \in 0..MaxStarts /\ faults \in 0..MaxFaults
    BY <2>1, DataFilesAssumption
  <2>5. /\ pc \in Phases /\ file \in DOMAIN Files /\ inMem \in Configs /\ original \in Configs
        /\ encKey \in Keys \union {NoKey} /\ cursor \in Nat
        /\ why \in {"none", "config", "key", "db"}
        /\ kept \subseteq Rows /\ skipped \subseteq Rows \union {Title}
    BY <2>1, Constants DEF Phases
  <2>6. QED
    BY <1>3, <2>2, <2>3, <2>4, <2>5 DEF TypeOK
<1>5. PhaseInvariant
  BY <1>1 DEF PhaseInvariant, Configured, Keyed, Opened
<1>6. ConfigInvariant
  BY <1>1, Constants DEF ConfigInvariant, Configured, Keyed, Opened
<1>7. EncryptInvariant
  BY <1>1, DataFilesAssumption DEF EncryptInvariant
<1>8. CopyInvariant
  BY <1>1 DEF CopyInvariant
<1>9. KeepInvariant
  BY <1>1 DEF KeepInvariant, KeptInDb, Guarded, Copying
<1>10. QED
  BY <1>2, <1>4, <1>5, <1>6, <1>7, <1>8, <1>9 DEF TypeInvariant

(* Every variable keeps to its type; a start that has reached a phase has the   *)
(* configuration, the key and the database that the phase works on.            *)
THEOREM TypeInvariantHolds == Spec => []TypeInvariant
<1>1. Init => TypeInvariant
  BY InitialData
<1>2. QED
  BY <1>1, TypeStep, PTL DEF Spec

(* Every variable keeps to its type.                                           *)
THEOREM TypeCorrect == Spec => []TypeOK
<1>1. TypeInvariant => TypeOK
  BY DEF TypeInvariant
<1>2. QED
  BY <1>1, TypeInvariantHolds, PTL

(* The next start puts in force what this one did (config.Load and              *)
(* ensureConfigFields, whatever the user has saved meanwhile).                 *)
THEOREM NextStartIsTheSame == Spec => []NextStartAgrees
<1>1. Init => ConfigInvariant
  BY InitialData
<1>2. TypeInvariant /\ ConfigInvariant /\ [Next]_vars => ConfigInvariant'
  BY ConfigStep
<1>3. ConfigInvariant => NextStartAgrees
  BY DEF ConfigInvariant, NextStartAgrees, Configured, Keyed, Opened
<1>4. QED
  BY <1>1, <1>2, <1>3, TypeInvariantHolds, PTL DEF Spec

(* The mark that ends the encryption is not set over a plain text, whatever the *)
(* size of the batches and the number of messages (secrets.MigrateEncryption).  *)
THEOREM DoneIsEncrypted == Spec => []DoneMeansEncrypted
<1>1. Init => EncryptInvariant
  BY InitialData
<1>2. TypeInvariant /\ EncryptInvariant => DoneMeansEncrypted
  <2> SUFFICES ASSUME TypeInvariant, EncryptInvariant, disk.db \notin {NoFile, Torn}, disk.db.done
               PROVE  /\ \A r \in DOMAIN disk.db.rows :
                           disk.db.rows[r].layers = 0 => r \in skipped
                      /\ (OldRows \subseteq DOMAIN disk.db.rows /\ disk.db.title.layers = 0)
                           => Title \in skipped
    BY DEF DoneMeansEncrypted
  <2>1. disk.db \in Dbs
    BY DEF TypeInvariant, TypeOK
  <2>2. QED
    BY <2>1 DEF EncryptInvariant, RowsCovered, Covered
<1>3. QED
  BY <1>1, <1>2, EncryptStep, TypeInvariantHolds, PTL DEF Spec

(* A migration without a failure brings every file of the older version over.  *)
THEOREM CopyInvariantHolds == Spec => []CopyInvariant
<1>1. Init => CopyInvariant
  BY InitialData
<1>2. QED
  BY <1>1, CopyStep, TypeInvariantHolds, PTL DEF Spec

(* The search engines' keys are in config.json or in the database from the      *)
(* migration on.  (The property knows a finished migration by the old messages  *)
(* it has brought, so there has to be one.)                                    *)
THEOREM EngineKeysSafe ==
  ASSUME OldRows # {}
  PROVE  Spec => []EngineKeysKept
<1>1. Init => EngineInvariant
  BY DEF Init, EngineInvariant, Owed
<1>2. TypeInvariant /\ CopyInvariant /\ EngineInvariant /\ [Next]_vars => EngineInvariant'
  BY EngineStep
<1>3. EngineInvariant => EngineKeysKept
  BY DEF EngineInvariant, Owed, EngineKeysKept
<1>4. QED
  BY <1>1, <1>2, <1>3, TypeInvariantHolds, CopyInvariantHolds, PTL DEF Spec

(* The messages of the user are in the database and open with the key on disk,  *)
(* after any sequence of starts, crashes and failed writes.                    *)
THEOREM NothingIsLost == Spec => []NothingLost
<1>1. Init => KeepInvariant
  BY InitialData
<1>2. TypeInvariant /\ KeepInvariant => NothingLost
  <2> SUFFICES ASSUME TypeInvariant, KeepInvariant, Guarded, NEW r \in kept
               PROVE  /\ disk.db \notin {NoFile, Torn} /\ r \in DOMAIN disk.db.rows
                      /\ Readable(disk.db.rows[r], disk.key)
    BY DEF NothingLost, Guarded
  <2>1. /\ disk.db \in Dbs /\ r \in DOMAIN disk.db.rows /\ Legible(disk.db.rows[r])
    BY DEF KeepInvariant, KeptInDb
  <2>2. disk.db.rows[r] \in Texts
    BY <2>1, RowsOfDb
  <2>3. Readable(disk.db.rows[r], disk.key)
    BY <2>1, <2>2 DEF Readable, Legible, Texts
  <2>4. QED
    BY <2>1, <2>3, DataFilesAssumption
<1>3. QED
  BY <1>1, <1>2, KeepStep, TypeInvariantHolds, CopyInvariantHolds, PTL DEF Spec
==============================================================================
