------------------------- MODULE AppLifeCycleProofs -------------------------
(***************************************************************************)
(* Two properties of the application's life, for every set of backends and *)
(* any number of launches and messages: a single switch can be undone, and *)
(* the tear-down closes nothing under what it waited for.                  *)
(***************************************************************************)
EXTENDS AppLifeCycle, TLAPS

-----------------------------------------------------------------------------
(* The backup.                                                             *)

IsSetting(c) == c = [type |-> c.type, last |-> c.last]

(* A configuration from which the setting s is, or can be, in force again: *)
(* s is the backup, or s is in force and there is no backup to replace it. *)
Keeps(c, s) == c.last = s \/ (c.type = s /\ c.last = Nothing)

(* FailedSwitchIsUndone speaks of the file only; a save writes what the    *)
(* process holds, so that both must keep the proven setting.               *)
BackupInv ==
  /\ IsSetting(disk) /\ IsSetting(conf) /\ IsSetting(copy)
  /\ undo # Nothing => Keeps(disk, undo) /\ Keeps(conf, undo)

(* A rollback of a configuration that keeps s leaves one that keeps s.     *)
LEMMA RollbackKeeps ==
  ASSUME NEW c, IsSetting(c)
  PROVE  /\ IsSetting(RolledBack(c))
         /\ \A s : s # Nothing /\ Keeps(c, s) => Keeps(RolledBack(c), s)
<1>1. CASE c.last \in {Nothing, c.type}
  <2>1. RolledBack(c) = [type |-> c.type, last |-> Nothing]
    BY <1>1 DEF RolledBack, IsSetting
  <2>2. QED
    BY <1>1, <2>1 DEF IsSetting, Keeps
<1>2. CASE c.last \notin {Nothing, c.type}
  BY <1>2 DEF RolledBack, IsSetting, Keeps
<1>3. QED
  BY <1>1, <1>2

(* A save leaves a configuration of its own in memory, and on the disk     *)
(* that one or the one before.                                             *)
LEMMA SaveKeeps ==
  ASSUME BackupInv, NEW c, IsSetting(c), Save(c), UNCHANGED copy,
         undo' \in {undo, Nothing}, undo' # Nothing => Keeps(c, undo)
  PROVE  BackupInv'
  BY DEF BackupInv, Save, IsSetting, Keeps

(* One more attempt, or the rollback after the last one.                   *)
LEMMA TryNextKeeps ==
  ASSUME BackupInv, TryNext, UNCHANGED <<copy, undo>>
  PROVE  BackupInv'
<1>1. IsSetting(RolledBack(conf)) /\ (undo # Nothing => Keeps(RolledBack(conf), undo))
  BY RollbackKeeps DEF BackupInv
<1>2. CASE UNCHANGED <<conf, disk>>
  BY <1>2 DEF BackupInv, Keeps, IsSetting
<1>3. CASE conf' = RolledBack(conf) /\ UNCHANGED disk
  BY <1>1, <1>3 DEF BackupInv, Keeps, IsSetting
<1>4. CASE Save(RolledBack(conf))
  BY <1>1, <1>4, SaveKeeps
<1>5. QED
  BY <1>2, <1>3, <1>4 DEF TryNext

(* The invariant holds initially.                                          *)
LEMMA BackupInit == Init => BackupInv
  BY DEF Init, BackupInv, IsSetting, Keeps

(* What a step leaves alone, it keeps.                                     *)
LEMMA BackupUnchanged ==
  ASSUME BackupInv, UNCHANGED <<disk, conf, copy, undo>>
  PROVE  BackupInv'
  BY DEF BackupInv, IsSetting, Keeps

(* The steps of the start-up.                                              *)
LEMMA BackupStart ==
  ASSUME BackupInv, StartStep
  PROVE  BackupInv'
<1>1. CASE Startup
  BY <1>1, BackupUnchanged DEF Startup, config
<1>2. CASE TryBackend
  BY <1>2, BackupUnchanged, TryNextKeeps DEF TryBackend
<1>3. CASE StartEngine
  BY <1>3, BackupUnchanged, TryNextKeeps DEF StartEngine
<1>4. CASE EngineReady
  <2>1. IsSetting(Proven(conf))
    BY DEF Proven, Persisted, BackupInv, IsSetting
  <2>2. CASE UNCHANGED <<conf, disk>>
    BY <1>4, <2>2 DEF EngineReady, BackupInv, IsSetting
  <2>3. CASE Save(Proven(conf))
    BY <1>4, <2>1, <2>3, SaveKeeps DEF EngineReady
  <2>4. QED
    BY <1>4, <2>2, <2>3 DEF EngineReady
<1>5. CASE EngineFails
  BY <1>5, BackupUnchanged, TryNextKeeps DEF EngineFails
<1>6. CASE Load
  BY <1>6, BackupUnchanged DEF Load, config
<1>7. CASE CardTimesOut
  BY <1>7, BackupUnchanged DEF CardTimesOut, config
<1>8. QED
  BY <1>1, <1>2, <1>3, <1>4, <1>5, <1>6, <1>7 DEF StartStep

(* A switch of backends: the promise is made, kept or withdrawn.           *)
LEMMA BackupSwitch ==
  ASSUME BackupInv, NEW bt, SwitchBackend(bt)
  PROVE  BackupInv'
<1> DEFINE c == Switched(conf, bt)
<1>1. IsSetting(c)
  BY DEF Switched, IsSetting
<1>2. CASE bt = conf.type
  <2>1. c = conf
    BY <1>2 DEF Switched, BackupInv, IsSetting
  <2>2. QED
    BY <1>1, <1>2, <2>1, SaveKeeps DEF SwitchBackend, BackupInv
<1>3. CASE bt # conf.type /\ conf = disk /\ conf = [type |-> proven, last |-> Nothing]
  <2>1. c = [type |-> bt, last |-> proven] /\ disk = [type |-> proven, last |-> Nothing]
    BY <1>3 DEF Switched
  <2>2. conf' = c /\ disk' \in {c, disk} /\ undo' \in {proven, Nothing} /\ copy' = copy
    BY <1>3 DEF SwitchBackend, Save
  <2>3. QED
    BY <2>1, <2>2 DEF BackupInv, IsSetting, Keeps
<1>4. CASE bt # conf.type /\ ~(conf = disk /\ conf = [type |-> proven, last |-> Nothing])
  <2>1. undo' = Nothing
    BY <1>4 DEF SwitchBackend
  <2>2. QED
    BY <1>1, <2>1, SaveKeeps DEF SwitchBackend
<1>5. QED
  BY <1>2, <1>3, <1>4

(* What the user does.                                                     *)
LEMMA BackupUser ==
  ASSUME BackupInv, User
  PROVE  BackupInv'
<1>1. CASE Launch
  <2>1. CASE up
    BY <1>1, <2>1, BackupUnchanged DEF Launch, config
  <2>2. CASE ~up
    BY <1>1, <2>2 DEF Launch, StartsUp, BackupInv, IsSetting, Keeps
  <2>3. QED
    BY <2>1, <2>2
<1>2. CASE Confirm
  BY <1>2, BackupUnchanged DEF Confirm, Ends, config
<1>3. CASE SendMessage
  BY <1>3, BackupUnchanged DEF SendMessage, config
<1>4. CASE GetConfig
  BY <1>4 DEF GetConfig, BackupInv, IsSetting, Keeps
<1>5. CASE UpdateConfig
  <2>1. undo' # Nothing => copy = conf /\ undo' = undo
    BY <1>5 DEF UpdateConfig
  <2>2. undo' # Nothing => Keeps(copy, undo)
    BY <2>1 DEF BackupInv
  <2>3. QED
    BY <1>5, <2>1, <2>2, SaveKeeps DEF UpdateConfig, BackupInv
<1>6. CASE RestartApp
  BY <1>6, BackupUnchanged DEF RestartApp, config
<1>7. CASE GracefulExit
  BY <1>7, BackupUnchanged DEF GracefulExit, config
<1>8. CASE \E bt \in Choices : SwitchBackend(bt)
  BY <1>8, BackupSwitch
<1>9. QED
  BY <1>1, <1>2, <1>3, <1>4, <1>5, <1>6, <1>7, <1>8 DEF User

(* Every step keeps the backup.                                            *)
LEMMA BackupNext ==
  ASSUME BackupInv, [Next]_vars
  PROVE  BackupInv'
<1>1. CASE StartStep
  BY <1>1, BackupStart
<1>2. CASE TearStep
  BY <1>2, BackupUnchanged
     DEF TearStep, CancelAll, WaitGroupDone, StopServer, CloseStores, Quit, Ends, config
<1>3. CASE MainStep
  BY <1>3, BackupUnchanged
     DEF MainStep, PollWins, PollGivesUp, StartsUp, config, BackupInv, IsSetting, Keeps
<1>4. CASE User
  BY <1>4, BackupUser
<1>5. CASE ReplyEnds \/ WatchEnds \/ ForceQuit \/ Crash
  BY <1>5, BackupUnchanged DEF ReplyEnds, WatchEnds, ForceQuit, Crash, Ends, config
<1>6. CASE UNCHANGED vars
  BY <1>6, BackupUnchanged DEF vars, config
<1>7. QED
  BY <1>1, <1>2, <1>3, <1>4, <1>5, <1>6 DEF Next

(* A single switch away from a proven setting can be undone, for every     *)
(* number of launches, failed saves and crashes.                           *)
THEOREM SwitchIsUndone == Spec => []FailedSwitchIsUndone
<1>1. BackupInv => FailedSwitchIsUndone
  BY DEF BackupInv, FailedSwitchIsUndone, Keeps
<1>2. BackupInv /\ [Next]_vars => BackupInv'
  BY BackupNext
<1>3. QED
  BY BackupInit, <1>1, <1>2, PTL DEF Spec

-----------------------------------------------------------------------------
(* The tear-down.                                                          *)

(* Beyond QuietBeforeClose: only the engine of the current server runs, it *)
(* was started by the attempt under way, the tear-down is under way when   *)
(* exiting says so, and the monitors are the start-up's last act.          *)
QuietInv ==
  /\ engines \subseteq {server}
  /\ start \notin {"wait", "load", "over"} => engines = {}
  /\ start \in {"launch", "wait"} => server = at
  /\ exiting <=> tear # "no"
  /\ watched => start = "over"
  /\ early \in Nat
  /\ QuietBeforeClose

USE DEF QuietInv, QuietBeforeClose

(* The invariant holds initially, and in a process that begins anew.       *)
LEMMA QuietInit == Init => QuietInv
  BY DEF Init

LEMMA QuietFresh == ASSUME Fresh PROVE QuietInv'
  BY DEF Fresh

(* A step that leaves the start-up, the engines and the tear-down alone.   *)
LEMMA QuietUnchanged ==
  ASSUME QuietInv, UNCHANGED <<start, at, server, engines, watched, exiting, tear>>,
         early' = 0 \/ early' = early
  PROVE  QuietInv'
  OBVIOUS

(* The steps of the start-up: none starts an engine once exiting is set,   *)
(* and each failed attempt takes its engine with it.                       *)
LEMMA QuietStart ==
  ASSUME QuietInv, StartStep
  PROVE  QuietInv'
<1>1. CASE Startup
  BY <1>1 DEF Startup, Goto, leave, talk
<1>2. CASE TryBackend
  BY <1>2 DEF TryBackend, TryNext, leave, talk
<1>3. CASE StartEngine
  BY <1>3 DEF StartEngine, TryNext, leave, talk
<1>4. CASE EngineReady
  BY <1>4 DEF EngineReady, leave, talk
<1>5. CASE EngineFails
  BY <1>5 DEF EngineFails, TryNext, leave, talk
<1>6. CASE Load
  BY <1>6 DEF Load, leave, talk
<1>7. CASE CardTimesOut
  BY <1>7 DEF CardTimesOut, leave, talk
<1>8. QED
  BY <1>1, <1>2, <1>3, <1>4, <1>5, <1>6, <1>7 DEF StartStep

(* The steps of the tear-down.                                             *)
LEMMA QuietTear ==
  ASSUME QuietInv, TearStep
  PROVE  QuietInv'
<1>1. CASE CancelAll
  BY <1>1 DEF CancelAll, Proceed, boot, talk
<1>2. CASE WaitGroupDone
  BY <1>2 DEF WaitGroupDone, Tracked, Proceed, boot, talk
<1>3. CASE StopServer
  BY <1>3 DEF StopServer, Proceed, talk
<1>4. CASE CloseStores
  BY <1>4 DEF CloseStores, Proceed, boot, talk
<1>5. CASE Quit
  BY <1>5, QuietFresh DEF Quit, Ends
<1>6. QED
  BY <1>1, <1>2, <1>3, <1>4, <1>5 DEF TearStep

(* A new process, and what the user does.                                  *)
LEMMA QuietUser ==
  ASSUME QuietInv, User \/ MainStep, start = "off" <=> ~up
  PROVE  QuietInv'
<1>1. CASE Launch
  BY <1>1 DEF Launch, StartsUp, boot, leave, talk
<1>2. CASE Confirm
  BY <1>2, QuietFresh DEF Confirm, Ends
<1>3. CASE SendMessage
  BY <1>3 DEF SendMessage, boot, leave
<1>4. CASE GetConfig \/ UpdateConfig \/ \E bt \in Choices : SwitchBackend(bt)
  BY <1>4, QuietUnchanged DEF GetConfig, UpdateConfig, SwitchBackend, boot, leave, talk
<1>5. CASE RestartApp
  BY <1>5, QuietFresh, QuietUnchanged DEF RestartApp, boot, talk
<1>6. CASE GracefulExit
  BY <1>6 DEF GracefulExit, boot, talk
<1>7. CASE MainStep
  BY <1>7 DEF MainStep, PollWins, PollGivesUp, StartsUp, boot, leave, talk
<1>8. QED
  BY <1>1, <1>2, <1>3, <1>4, <1>5, <1>6, <1>7 DEF User

(* A process that does not hold the mutex runs no start-up.                *)
UpInv == start = "off" <=> ~up

LEMMA UpNext ==
  ASSUME UpInv, [Next]_vars
  PROVE  UpInv'
<1>1. CASE StartStep
  BY <1>1 DEF UpInv, StartStep, Startup, Goto, TryBackend, StartEngine, EngineReady, EngineFails,
     Load, CardTimesOut, TryNext, mutex
<1>2. CASE TearStep
  BY <1>2 DEF UpInv, TearStep, CancelAll, WaitGroupDone, StopServer, CloseStores, Quit, Proceed,
     Ends, Fresh, boot, mutex
<1>3. CASE MainStep
  BY <1>3 DEF UpInv, MainStep, PollWins, PollGivesUp, StartsUp, boot
<1>4. CASE User
  BY <1>4 DEF UpInv, User, Launch, StartsUp, Confirm, SendMessage, GetConfig, UpdateConfig,
     SwitchBackend, RestartApp, GracefulExit, Ends, Fresh, boot, mutex
<1>5. CASE ReplyEnds \/ WatchEnds \/ ForceQuit \/ Crash \/ UNCHANGED vars
  BY <1>5 DEF UpInv, ReplyEnds, WatchEnds, ForceQuit, Crash, Ends, Fresh, boot, mutex, vars
<1>6. QED
  BY <1>1, <1>2, <1>3, <1>4, <1>5 DEF Next

(* Every step keeps both.                                                  *)
LEMMA QuietNext ==
  ASSUME QuietInv, UpInv, [Next]_vars
  PROVE  QuietInv'
<1>1. CASE StartStep
  BY <1>1, QuietStart
<1>2. CASE TearStep
  BY <1>2, QuietTear
<1>3. CASE MainStep \/ User
  BY <1>3, QuietUser DEF UpInv
<1>4. CASE ReplyEnds
  BY <1>4 DEF ReplyEnds, boot, leave
<1>5. CASE WatchEnds
  BY <1>5 DEF WatchEnds, leave, talk
<1>6. CASE ForceQuit \/ Crash
  BY <1>6, QuietFresh DEF ForceQuit, Crash, Ends
<1>7. CASE UNCHANGED vars
  BY <1>7 DEF vars, boot, leave, talk
<1>8. QED
  BY <1>1, <1>2, <1>3, <1>4, <1>5, <1>6, <1>7 DEF Next

(* Nothing that the tear-down waited for, and no llama-server, is left     *)
(* when the stores are closed, whatever the chain of backends and however  *)
(* many messages are admitted.                                             *)
THEOREM TearDownIsQuiet == Spec => []QuietBeforeClose
<1>1. Init => QuietInv /\ UpInv
  BY QuietInit DEF Init, UpInv
<1>2. QuietInv /\ UpInv /\ [Next]_vars => QuietInv' /\ UpInv'
  BY QuietNext, UpNext
<1>3. QuietInv => QuietBeforeClose
  OBVIOUS
<1>4. QED
  BY <1>1, <1>2, <1>3, PTL DEF Spec

=============================================================================
