------------------------------ MODULE DataFiles ------------------------------
(***************************************************************************)
(* The files the application keeps in its data directory, and what one     *)
(* start after another makes of them: the copy of an older version's data, *)
(* config.json, the key file and the database.  A start runs the steps of  *)
(* resolveAppDir and App.startup in their order; the process may die       *)
(* between any two of them, a file may be cut short while it is written,   *)
(* and a copy or a transaction may fail.                                   *)
(***************************************************************************)
EXTENDS Integers, FiniteSets, Sequences

CONSTANTS
  Rows,        \* messages, numbered: the old database holds the first ones
  OldRows,     \* the messages of the older version's database, in plain text
  BatchSize,   \* messages encrypted in one transaction (100 in the code)
  MaxStarts,   \* bound: starts of the application
  MaxFaults,   \* bound: crashes and failed writes
  NoFile, Torn \* a file that does not exist, and one cut short

(* A key is named by the start that made it; 0 is the older version's key. *)
Keys    == 0..MaxStarts
NoKey   == -1
NoVer   == -1
CurrentConfigVersion == 4

Files == <<"config", "key", "db">>   \* the order in which they are copied

Configs == [ver: {NoVer} \union 0..CurrentConfigVersion, kv: {"absent", "off", "on"},
            full: BOOLEAN, bad: BOOLEAN, engines: BOOLEAN, quoted: BOOLEAN]

DefaultConfig == [ver |-> CurrentConfigVersion, kv |-> "on", full |-> TRUE,
                  bad |-> FALSE, engines |-> FALSE, quoted |-> FALSE]

(* A text under so many layers of encryption, with the key of the last.    *)
Texts  == [layers: 0..2, key: Keys \union {NoKey}]
Title  == 0    \* the conversation's title, among the texts to be encrypted
Plain  == [layers |-> 0, key |-> NoKey]
Dbs    == [rows: UNION {[R -> Texts] : R \in SUBSET Rows}, title: Texts,
           done: BOOLEAN, engine: BOOLEAN]
EmptyDb == [rows |-> [r \in {} |-> Plain], title |-> Plain, done |-> FALSE, engine |-> FALSE]

ASSUME DataFilesAssumption ==
  /\ Rows \subseteq Nat \ {0} /\ IsFiniteSet(Rows) /\ OldRows \subseteq Rows
  /\ BatchSize \in Nat \ {0} /\ MaxStarts \in Nat /\ MaxFaults \in Nat
  /\ NoFile # Torn
  /\ \A f \in {NoFile, Torn} : f \notin Configs /\ f \notin Keys /\ f \notin Dbs

VARIABLES
  legacy,   \* the older version's files, next to the program
  disk,     \* the files of the data directory
  marker,   \* .legacy_migrated exists
  pc,       \* the next step of the start, or "off", "run", "fatal"
  file,     \* the file being copied, by its place in Files
  inMem,    \* the configuration in force
  original, \* the bytes of config.json that Load read
  encKey,   \* App.encKey
  cursor,   \* the last message of the previous batch
  why,      \* what made the last start give up
  starts, faults,
  \* history
  cut,      \* a migration was cut short before its marker was written
  unlisted, \* the user deleted config.json
  clean,    \* every copy of this migration has succeeded so far
  kept,     \* messages that must be there
  skipped,  \* texts whose encryption failed for good
  rewritten \* config.json was written from the struct before its keys moved

diskVars == <<legacy, disk, marker>>
confVars == <<inMem, original>>
histVars == <<cut, unlisted, clean, kept, skipped, rewritten>>
vars == <<diskVars, pc, file, confVars, encKey, cursor, why, starts, faults, histVars>>

-----------------------------------------------------------------------------
(* Pure functions of the configuration. *)

Absent(c) == c.ver = NoVer \/ c.kv = "absent" \/ ~c.full

(* Mutant: migrate() forgets to ask for the version.                       *)
MigratedAlways(c) ==
  [c EXCEPT !.ver = CurrentConfigVersion, !.full = TRUE, !.engines = FALSE, !.quoted = FALSE,
            !.kv = "on"]

(* Load's struct: defaults for what is absent, then migrate(): a version   *)
(* before 4 turns a stored kv_unified=false into true.                     *)
Migrated(c) ==
  [c EXCEPT !.ver = CurrentConfigVersion, !.full = TRUE, !.engines = FALSE, !.quoted = FALSE,
            !.kv = IF c.kv = "absent" \/ (c.kv = "off" /\ c.ver < CurrentConfigVersion)
                   THEN "on" ELSE c.kv]

(* repairInvalidFields: only the invalid fields go back to their defaults. *)
Repaired(c) == [c EXCEPT !.bad = FALSE]

(* Mutant: the completed file is written from the struct.                  *)
CompletedFromStruct(c, m) == m

(* ensureConfigFields writes the bytes read by Load, completed with the    *)
(* fields they lack, whatever has been saved in between.                   *)
Completed(c, m) ==
  [c EXCEPT !.ver = IF c.ver = NoVer THEN m.ver ELSE c.ver,
            !.kv = IF c.kv = "absent" THEN m.kv ELSE c.kv, !.full = TRUE]

(* The configuration that a Load of these bytes puts in force.             *)
InForce(c) ==
  IF c.quoted /\ c.bad THEN DefaultConfig ELSE Repaired(Migrated(c))

(* Mutant: the prefix is not looked at.                                    *)
SealedAgain(t, k) == [layers |-> IF t.layers = 2 THEN 2 ELSE t.layers + 1, key |-> k]

(* encryptWithPrefix behind the test for the "enc:" prefix.                *)
Sealed(t, k) == IF t.layers > 0 THEN t ELSE [layers |-> 1, key |-> k]

(* Mutant: the cursor skips one identifier.                                *)
BatchSkipping(db, after) ==
  LET left == {r \in DOMAIN db.rows : r > after + 1}
  IN {r \in left : Cardinality({q \in left : q < r}) < BatchSize}

Batch(db, after) ==
  LET left == {r \in DOMAIN db.rows : r > after}
  IN {r \in left : Cardinality({q \in left : q < r}) < BatchSize}

LastOf(S, default) == IF S = {} THEN default ELSE CHOOSE x \in S : \A y \in S : y <= x

-----------------------------------------------------------------------------
OldConfigs == [ver: {NoVer, 3}, kv: {"absent", "off"}, full: {TRUE},
               bad: BOOLEAN, engines: BOOLEAN, quoted: BOOLEAN]

OldDb == [EmptyDb EXCEPT !.rows = [r \in OldRows |-> Plain]]

Init ==
  /\ legacy \in {[config |-> NoFile, key |-> NoFile, db |-> NoFile]} \union
                [config: OldConfigs, key: {NoFile, 0}, db: {OldDb}]
  /\ disk = [config |-> NoFile, key |-> NoFile, db |-> NoFile]
  /\ marker = FALSE
  /\ pc = "off" /\ file = 1
  /\ inMem = DefaultConfig /\ original = DefaultConfig
  /\ encKey = NoKey /\ cursor = 0 /\ why = "none"
  /\ starts = 0 /\ faults = 0
  /\ cut = FALSE /\ unlisted = FALSE /\ clean = TRUE
  /\ kept = {} /\ skipped = {} /\ rewritten = FALSE

Goto(p) == pc' = p
Fault   == faults < MaxFaults /\ faults' = faults + 1
NoFault == faults' = faults
GiveUp(reason) == Goto("fatal") /\ why' = reason

Launch ==
  /\ pc = "off" /\ starts < MaxStarts
  /\ starts' = starts + 1 /\ Goto("migrate") /\ clean' = TRUE /\ file' = 1
  /\ UNCHANGED <<diskVars, confVars, encKey, cursor, why, faults, cut, unlisted,
                 kept, skipped, rewritten>>

-----------------------------------------------------------------------------
(* appdata.MigrateLegacyData *)

AlreadyMigrated == disk.config # NoFile \/ marker

SkipMigration ==
  /\ pc = "migrate" /\ AlreadyMigrated
  /\ Goto("default")
  /\ UNCHANGED <<diskVars, file, confVars, encKey, cursor, why, starts, faults, histVars>>

BeginMigration ==
  /\ pc = "migrate" /\ ~AlreadyMigrated
  /\ Goto(IF \A f \in DOMAIN legacy : legacy[f] = NoFile THEN "mark" ELSE "open")
  /\ UNCHANGED <<diskVars, file, confVars, encKey, cursor, why, starts, faults, histVars>>


(* copyFile: the destination is truncated, then filled.  A failure on the  *)
(* way is counted and logged, and the next file follows.                   *)
NextFile ==
  IF file < Len(Files) THEN file' = file + 1 /\ Goto("open") ELSE file' = file /\ Goto("mark")

CopyOpen ==
  /\ pc = "open"
  /\ \/ /\ legacy[Files[file]] # NoFile
        /\ disk' = [disk EXCEPT ![Files[file]] = Torn]
        /\ Goto("fill") /\ NoFault /\ UNCHANGED <<file, clean>>
     \/ /\ legacy[Files[file]] = NoFile
        /\ NextFile /\ NoFault /\ UNCHANGED <<disk, clean>>
     \/ /\ legacy[Files[file]] # NoFile
        /\ NextFile /\ Fault /\ clean' = FALSE /\ UNCHANGED disk
  /\ UNCHANGED <<legacy, marker, confVars, encKey, cursor, why, starts, cut, unlisted,
                 kept, skipped, rewritten>>

CopyFill ==
  /\ pc = "fill"
  /\ NextFile
  /\ \/ /\ disk' = [disk EXCEPT ![Files[file]] = legacy[Files[file]]]
        /\ NoFault /\ UNCHANGED clean
     \/ Fault /\ clean' = FALSE /\ UNCHANGED disk
  /\ UNCHANGED <<legacy, marker, confVars, encKey, cursor, why, starts, cut, unlisted,
                 kept, skipped, rewritten>>

WriteMarker ==
  /\ pc = "mark"
  /\ \/ marker' = TRUE /\ NoFault /\ UNCHANGED cut
     \/ Fault /\ cut' = TRUE /\ UNCHANGED marker
  /\ kept' = IF clean /\ legacy.db # NoFile THEN OldRows ELSE kept
  /\ Goto("default")
  /\ UNCHANGED <<legacy, disk, file, confVars, encKey, cursor, why, starts, unlisted, clean,
                 skipped, rewritten>>

(* resolveAppDir writes the defaults if there is still no configuration.   *)
CreateDefaultConfig ==
  /\ pc = "default"
  /\ \/ /\ disk.config # NoFile /\ NoFault /\ UNCHANGED disk
     \/ /\ disk.config = NoFile
        /\ disk' = [disk EXCEPT !.config = DefaultConfig] /\ NoFault
     \/ disk.config = NoFile /\ Fault /\ UNCHANGED disk
  /\ Goto("load")
  /\ UNCHANGED <<legacy, marker, file, confVars, encKey, cursor, why, starts, histVars>>

-----------------------------------------------------------------------------
(* config.Load.  Every write of config.json is a temporary file renamed.   *)

SavedAs(c) == disk' = [disk EXCEPT !.config = c]

ReadConfig ==
  /\ pc = "load"
  /\ \/ /\ disk.config = NoFile
        /\ \/ SavedAs(DefaultConfig) /\ NoFault /\ Goto("key") /\ UNCHANGED why
           \/ Fault /\ GiveUp("config") /\ UNCHANGED disk
        /\ inMem' = DefaultConfig /\ UNCHANGED <<original, rewritten>>
     \/ /\ disk.config = Torn       \* set aside, and replaced by the defaults
        /\ SavedAs(DefaultConfig) /\ NoFault /\ Goto("key")
        /\ inMem' = DefaultConfig /\ UNCHANGED <<original, why, rewritten>>
     \/ /\ disk.config \in Configs /\ disk.config.quoted
        /\ inMem' = InForce(disk.config)
        /\ SavedAs(InForce(disk.config)) /\ rewritten' = TRUE
        /\ NoFault /\ Goto("key") /\ UNCHANGED <<original, why>>
     \/ /\ disk.config \in Configs /\ ~disk.config.quoted
        /\ inMem' = InForce(disk.config) /\ original' = disk.config
        /\ IF disk.config.bad
             THEN SavedAs(InForce(disk.config)) /\ rewritten' = TRUE
             ELSE UNCHANGED <<disk, rewritten>>
        /\ NoFault /\ Goto("complete") /\ UNCHANGED why
     \/ Fault /\ disk.config # NoFile /\ GiveUp("config")  \* it cannot be read
        /\ UNCHANGED <<disk, confVars, rewritten>>
  /\ UNCHANGED <<legacy, marker, file, encKey, cursor, starts, cut, unlisted, clean,
                 kept, skipped>>

EnsureConfigFields ==
  /\ pc = "complete"
  /\ IF Absent(original)
       THEN \/ SavedAs(Completed(original, inMem)) /\ NoFault
            \/ Fault /\ UNCHANGED disk
       ELSE NoFault /\ UNCHANGED disk
  /\ Goto("key")
  /\ UNCHANGED <<legacy, marker, file, confVars, encKey, cursor, why, starts, histVars>>

-----------------------------------------------------------------------------
(* secrets.LoadOrCreateKey: os.WriteFile truncates, then writes.           *)

LoadKey ==
  /\ pc = "key"
  /\ \/ /\ disk.key \in Keys /\ encKey' = disk.key /\ Goto("db") /\ UNCHANGED <<disk, why>>
     \/ /\ disk.key = Torn /\ GiveUp("key") /\ UNCHANGED <<disk, encKey>>
     \/ /\ disk.key = NoFile
        /\ disk' = [disk EXCEPT !.key = Torn] /\ Goto("newKey") /\ UNCHANGED <<encKey, why>>
  /\ UNCHANGED <<legacy, marker, file, confVars, cursor, starts, faults, histVars>>

CreateKey ==
  /\ pc = "newKey"
  /\ \/ /\ disk' = [disk EXCEPT !.key = starts] /\ encKey' = starts
        /\ Goto("db") /\ NoFault /\ UNCHANGED why
     \/ Fault /\ GiveUp("key") /\ UNCHANGED <<disk, encKey>>
  /\ UNCHANGED <<legacy, marker, file, confVars, cursor, starts, histVars>>

-----------------------------------------------------------------------------
(* store.Init and Migrate *)

InitDatabase ==
  /\ pc = "db"
  /\ \/ disk.db = Torn /\ GiveUp("db") /\ UNCHANGED <<disk, cursor>>
     \/ /\ disk.db = NoFile
        /\ disk' = [disk EXCEPT !.db = EmptyDb] /\ Goto("title") /\ UNCHANGED <<cursor, why>>
     \/ /\ disk.db \notin {NoFile, Torn}
        /\ Goto(IF disk.db.done THEN "engines" ELSE "title") /\ UNCHANGED <<disk, cursor, why>>
  /\ UNCHANGED <<legacy, marker, file, confVars, encKey, starts, faults, histVars>>

(* migrateConversations: an update that fails is logged and passed over.   *)
EncryptTitle ==
  /\ pc = "title"
  /\ \/ /\ disk' = [disk EXCEPT !.db.title = Sealed(@, encKey)] /\ NoFault /\ UNCHANGED skipped
     \/ /\ disk.db.title = Plain /\ Fault /\ skipped' = skipped \union {Title} /\ UNCHANGED disk
  /\ Goto("batch") /\ cursor' = 0
  /\ UNCHANGED <<legacy, marker, file, confVars, encKey, why, starts, cut, unlisted, clean,
                 kept, rewritten>>

(* migrateMessages: one transaction for each batch, in the order of the    *)
(* identifiers; a batch that fails is rolled back and passed over.         *)
EncryptBatch ==
  /\ pc = "batch"
  /\ LET b == Batch(disk.db, cursor) IN
       /\ \/ /\ disk' = [disk EXCEPT !.db.rows =
                           [r \in DOMAIN @ |-> IF r \in b THEN Sealed(@[r], encKey) ELSE @[r]]]
             /\ NoFault /\ UNCHANGED skipped
          \/ /\ \E r \in b : disk.db.rows[r].layers = 0
             /\ Fault /\ skipped' = skipped \union b /\ UNCHANGED disk
       /\ cursor' = LastOf(b, cursor)
       /\ Goto(IF Cardinality(b) < BatchSize THEN "done" ELSE "batch")
  /\ UNCHANGED <<legacy, marker, file, confVars, encKey, why, starts, cut, unlisted, clean,
                 kept, rewritten>>

MarkMigrationDone ==
  /\ pc = "done"
  /\ \/ disk' = [disk EXCEPT !.db.done = TRUE] /\ NoFault
     \/ Fault /\ UNCHANGED disk
  /\ Goto("engines")
  /\ UNCHANGED <<legacy, marker, file, confVars, encKey, cursor, why, starts, histVars>>

(* App.migrateSearchEngines: the keys go from config.json to the database, *)
(* and the configuration in force, which has no room for them, is saved.   *)
MoveEngineKeys ==
  /\ pc = "engines"
  /\ IF disk.config \in Configs /\ disk.config.engines /\ ~disk.db.engine
       THEN \/ disk' = [disk EXCEPT !.db.engine = TRUE] /\ NoFault /\ Goto("engineSave")
            \/ Fault /\ Goto("run") /\ UNCHANGED disk
       ELSE NoFault /\ Goto("run") /\ UNCHANGED disk
  /\ UNCHANGED <<legacy, marker, file, confVars, encKey, cursor, why, starts, histVars>>

SaveWithoutEngineKeys ==
  /\ pc = "engineSave"
  /\ \/ SavedAs(inMem) /\ NoFault
     \/ Fault /\ UNCHANGED disk
  /\ Goto("run")
  /\ UNCHANGED <<legacy, marker, file, confVars, encKey, cursor, why, starts, histVars>>

-----------------------------------------------------------------------------
(* The running application, its end, and what the user does in between.    *)

CreateMessage(r) ==
  /\ pc = "run" /\ r \in Rows \ (OldRows \union DOMAIN disk.db.rows)
  /\ disk' = [disk EXCEPT !.db.rows =
                [q \in DOMAIN @ \union {r} |-> IF q = r THEN Sealed(Plain, encKey) ELSE @[q]]]
  /\ kept' = kept \union {r}
  /\ UNCHANGED <<legacy, marker, pc, file, confVars, encKey, cursor, why, starts, faults, cut,
                 unlisted, clean, skipped, rewritten>>

UpdateConfig(kv) ==
  /\ pc = "run" /\ kv # inMem.kv
  /\ inMem' = [inMem EXCEPT !.kv = kv]
  /\ SavedAs(inMem')
  /\ rewritten' = (rewritten \/ (disk.config \in Configs /\ disk.config.engines /\ ~disk.db.engine))
  /\ UNCHANGED <<legacy, marker, pc, file, original, encKey, cursor, why, starts, faults, cut,
                 unlisted, clean, kept, skipped>>

Stopped == Goto("off") /\ encKey' = NoKey

Quit ==
  /\ pc = "run" /\ Stopped
  /\ UNCHANGED <<diskVars, file, confVars, cursor, why, starts, faults, histVars>>

Crash ==
  /\ pc \notin {"off", "fatal"} /\ Fault /\ Stopped
  /\ cut' = (cut \/ pc \in {"open", "fill", "mark"})
  /\ UNCHANGED <<diskVars, file, confVars, cursor, why, starts, unlisted, clean, kept, skipped,
                 rewritten>>

(* The error card names the file to delete, except for the key.            *)
FollowAdvice ==
  /\ pc = "fatal" /\ Stopped
  /\ \/ UNCHANGED <<disk, unlisted, kept, skipped>>
     \/ /\ why = "config" /\ disk' = [disk EXCEPT !.config = NoFile] /\ unlisted' = TRUE
        /\ UNCHANGED <<kept, skipped>>
     \/ /\ why = "db" /\ disk' = [disk EXCEPT !.db = NoFile] /\ kept' = {} /\ skipped' = {}
        /\ UNCHANGED unlisted
  /\ UNCHANGED <<legacy, marker, file, confVars, cursor, why, starts, faults, cut, clean, rewritten>>

Next ==
  \/ Launch \/ SkipMigration \/ BeginMigration \/ CopyOpen \/ CopyFill \/ WriteMarker
  \/ CreateDefaultConfig \/ ReadConfig \/ EnsureConfigFields \/ LoadKey \/ CreateKey
  \/ InitDatabase \/ EncryptTitle \/ EncryptBatch \/ MarkMigrationDone
  \/ MoveEngineKeys \/ SaveWithoutEngineKeys
  \/ (\E r \in Rows : CreateMessage(r)) \/ (\E kv \in {"on", "off"} : UpdateConfig(kv))
  \/ Quit \/ Crash \/ FollowAdvice

Spec == Init /\ [][Next]_vars

-----------------------------------------------------------------------------
Phases == {"off", "migrate", "open", "fill", "mark", "default", "load", "complete", "key",
           "newKey", "db", "title", "batch", "done", "engines", "engineSave", "run", "fatal"}

TypeOK ==
  /\ legacy \in [config: OldConfigs \union {NoFile}, key: {NoFile, 0}, db: {NoFile, OldDb}]
  /\ disk \in [config: Configs \union {NoFile, Torn}, key: Keys \union {NoFile, Torn},
               db: Dbs \union {NoFile, Torn}]
  /\ marker \in BOOLEAN /\ pc \in Phases /\ file \in DOMAIN Files
  /\ inMem \in Configs /\ original \in Configs
  /\ encKey \in Keys \union {NoKey} /\ cursor \in Nat
  /\ why \in {"none", "config", "key", "db"}
  /\ starts \in 0..MaxStarts /\ faults \in 0..MaxFaults
  /\ cut \in BOOLEAN /\ unlisted \in BOOLEAN /\ clean \in BOOLEAN /\ rewritten \in BOOLEAN
  /\ kept \subseteq Rows /\ skipped \subseteq Rows \union {Title}

Readable(t, k) == t.layers = 0 \/ t = [layers |-> 1, key |-> k]

(* Whatever crashes and failed writes the starts have met, the messages of *)
(* the user are in the database and open with the key on disk; so are the  *)
(* older version's, once their copy is complete.  (A migration cut short   *)
(* before its marker, followed by a deletion of config.json, is the one    *)
(* way to lose them: the old files are then copied over the new ones.)     *)
NothingLost ==
  (cut => ~unlisted) =>
    \A r \in kept :
      /\ disk.db \notin {NoFile, Torn} /\ r \in DOMAIN disk.db.rows
      /\ Readable(disk.db.rows[r], disk.key)

(* The mark that ends the encryption of the old data is never set while a  *)
(* text is plain, unless the write of that very text had failed.           *)
DoneMeansEncrypted ==
  disk.db \notin {NoFile, Torn} => (disk.db.done =>
    /\ \A r \in DOMAIN disk.db.rows : disk.db.rows[r].layers = 0 => r \in skipped
    /\ (OldRows \subseteq DOMAIN disk.db.rows /\ disk.db.title.layers = 0) => Title \in skipped)

(* The search engines' keys of an older configuration are in config.json   *)
(* or in the database at every moment of every start, unless the file was  *)
(* written from the struct, which has no field for them, before the move   *)
(* (a repair or a save did that), or the user deleted it.                  *)
EngineKeysKept ==
  ( /\ legacy.config # NoFile /\ legacy.config.engines
    /\ OldRows \subseteq kept /\ ~rewritten /\ ~unlisted )
  => disk.config.engines \/ disk.db.engine

(* The next start puts in force what this one did: nothing that migrate()  *)
(* decided is forgotten, and nothing it kept is changed, once the file on  *)
(* disk carried a version.                                                 *)
NextStartAgrees ==
  (pc = "run" /\ original.ver # NoVer) => InForce(disk.config) = inMem
=============================================================================
