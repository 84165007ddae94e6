---------------------------- MODULE ModelRuntime ----------------------------
(***************************************************************************)
(* Which model is loaded, and who says so (src/app_server*.go,              *)
(* src/internal/modelruntime/session.go).                                   *)
(*                                                                         *)
(* One llama-server process (a router with room for one model) is driven by  *)
(* several goroutines of the application at once:                           *)
(*   - the start-up loads the default model, and may leave a background     *)
(*     goroutine waiting for it;                                            *)
(*   - SwitchModel, called by the user and after a download, loads another  *)
(*     one and rolls back to the previous one when that fails;               *)
(*   - the health monitor reloads a model that crashed;                      *)
(*   - the process watcher restarts a dead process and reloads the model.    *)
(* Only SwitchModel reserves the session.  The others look at the session's  *)
(* flags, wait for the router for seconds or minutes, and then set            *)
(* serverReady, the failure mark and what the front end shows.               *)
(*                                                                         *)
(* In-memory assignments that follow each other without a call that waits    *)
(* are one step.  The router and its process are external: they load, drop    *)
(* a model and die as they please.                                           *)
(***************************************************************************)
EXTENDS Naturals

CONSTANTS
  Models,       \* the presets
  Defaults,     \* what the start-up may select; NoModel: there are no presets
  Switchers,    \* threads that call SwitchModel, as often as they like
  Projected,    \* the models that come with a multimodal projector (mmproj)
  MaxCrashes,   \* maxConsecutiveCrashes
  MaxExits,     \* bound: exits of the llama-server process
  NoModel       \* the empty model name

ASSUME RuntimeAssumption ==
  /\ NoModel \notin Models
  /\ Defaults \subseteq Models \cup {NoModel}
  /\ Projected \subseteq Models
  /\ MaxCrashes \in Nat /\ MaxExits \in Nat

VARIABLES
  currentModel,  \* Session.currentModel
  switching,     \* Session.switching
  switchingTo,   \* Session.switchingTo
  clientModel,   \* the model the HTTP client names in its requests
  serverReady,   \* messages are accepted (requireServer)
  loadFailed,    \* serverLoadFailed, with the last error
  shown,         \* kind of the last server-status event the front end got
  mmproj,        \* the models whose preset still has its projector
  sw,            \* [Switchers -> phase of SwitchModel]
  target,        \* [Switchers -> its model]
  previous,      \* [Switchers -> the model to roll back to]
  boot,          \* phase of startServerAndWatch
  bg,            \* phase of the background wait
  bootModel,     \* the model those two load
  mon,           \* phase of the health monitor
  monModel,      \* the model it looks at
  crashes,       \* consecutiveCrashes
  wat,           \* phase of the process watcher
  watModel,      \* the model its restart callback reloads
  running,       \* external: the llama-server process is alive
  resident,      \* external: the model the router has in memory
  loaded,        \* external: it is loaded, not still loading
  exits          \* how often the process has died (bound)

session == <<currentModel, switching, switchingTo>>
flags == <<serverReady, loadFailed, shown>>
switchers == <<sw, target, previous>>
starter == <<boot, bg, bootModel>>
monitor == <<mon, monModel, crashes>>
watcher == <<wat, watModel>>
process == <<running, exits>>
router == <<resident, loaded>>
vars == <<session, clientModel, flags, mmproj, switchers, starter, monitor,
          watcher, process, router>>

MaybeModel == Models \cup {NoModel}
Kinds == {"none", "busy", "ready", "unready", "error", "down"}

FlagsOK ==
  /\ switching \in BOOLEAN /\ serverReady \in BOOLEAN /\ loadFailed \in BOOLEAN
  /\ running \in BOOLEAN /\ loaded \in BOOLEAN

PhasesOK ==
  /\ currentModel \in MaybeModel /\ switchingTo \in MaybeModel
  /\ clientModel \in MaybeModel
  /\ shown \in Kinds
  /\ mmproj \in SUBSET Models
  /\ sw \in [Switchers -> {"idle", "prepare", "load", "wait", "finalize", "announce",
                           "rollback", "rollwait"}]
  /\ target \in [Switchers -> MaybeModel]
  /\ previous \in [Switchers -> MaybeModel]
  /\ boot \in {"start", "select", "load", "wait", "reload", "rewait", "detect", "watch",
               "done"}
  /\ bg \in {"off", "waiting", "detect"}
  /\ bootModel \in MaybeModel
  /\ mon \in {"off", "tick", "query", "reload", "rewait"}
  /\ monModel \in MaybeModel
  /\ crashes \in 0..MaxCrashes + 1
  /\ wat \in {"off", "watching", "restart", "reload", "rewait", "detect", "status"}
  /\ watModel \in MaybeModel
  /\ resident \in MaybeModel
  /\ exits \in 0..MaxExits

TypeOK == FlagsOK /\ PhasesOK

Init ==
  /\ currentModel = NoModel /\ switching = FALSE /\ switchingTo = NoModel
  /\ clientModel = NoModel
  /\ serverReady = FALSE /\ loadFailed = FALSE
  /\ shown = "none"
  /\ mmproj = Projected
  /\ sw = [s \in Switchers |-> "idle"]
  /\ target = [s \in Switchers |-> NoModel]
  /\ previous = [s \in Switchers |-> NoModel]
  /\ boot = "start" /\ bg = "off" /\ bootModel = NoModel
  /\ mon = "off" /\ monModel = NoModel /\ crashes = 0
  /\ wat = "off" /\ watModel = NoModel
  /\ running = FALSE /\ resident = NoModel /\ loaded = FALSE /\ exits = 0

-----------------------------------------------------------------------------
(* Helpers shared by the goroutines. *)

Show(kind) == shown' = kind

(* emitErrorStatus *)
EmitError ==
  /\ loadFailed' = TRUE
  /\ Show("error")

(* emitSwitchSuccess says "ready" whatever serverReady is. *)
EmitSuccess == Show("ready")

(* POST /models/load: accepted, or refused because the model is there already *)
(* (which callers take for accepted), or failed.  Loading evicts the other.  *)
LoadAccepted(m) ==
  /\ running
  /\ resident' = m
  /\ loaded' = (loaded /\ resident = m)

LoadRefused == UNCHANGED router

(* WaitForModelLoaded: it may fail at any moment, if only by its deadline. *)
WaitOk(m) == running /\ resident = m /\ loaded

(* makeStatusCallback, called by the watcher with the process's status. *)
StatusCallback(up) ==
  IF loadFailed \/ switching THEN UNCHANGED flags
  ELSE IF up THEN /\ Show(IF serverReady THEN "ready" ELSE "unready")
                  /\ UNCHANGED <<serverReady, loadFailed>>
  ELSE /\ serverReady' = FALSE
       /\ Show("down")
       /\ UNCHANGED loadFailed

-----------------------------------------------------------------------------
(* SwitchModel. *)

SwitchGoto(s, phase) == sw' = [sw EXCEPT ![s] = phase]

(* endModelSwitch; the call returns and its locals are gone. *)
SwitchEnd(s) ==
  /\ switching' = FALSE /\ switchingTo' = NoModel
  /\ SwitchGoto(s, "idle")
  /\ target' = [target EXCEPT ![s] = NoModel]
  /\ previous' = [previous EXCEPT ![s] = NoModel]

(* switchPreCheck: BeginSwitch succeeds only if nobody holds the session. *)
SwitchBegin(s, m) ==
  /\ sw[s] = "idle"
  /\ ~switching
  /\ switching' = TRUE /\ switchingTo' = m
  /\ target' = [target EXCEPT ![s] = m]
  /\ SwitchGoto(s, "prepare")
  /\ UNCHANGED <<currentModel, clientModel, flags, mmproj, previous, starter,
                 monitor, watcher, process, router>>

(* switchPrepare, once StopGeneration has returned. *)
SwitchPrepare(s) ==
  /\ sw[s] = "prepare"
  /\ previous' = [previous EXCEPT ![s] = currentModel]
  /\ serverReady' = FALSE
  /\ Show("busy")
  /\ SwitchGoto(s, "load")
  /\ UNCHANGED <<session, clientModel, loadFailed, mmproj, target, starter, monitor,
                 watcher, process, router>>

(* switchLoadModel: the router accepts the model. *)
SwitchLoad(s) ==
  /\ sw[s] = "load"
  /\ LoadAccepted(target[s])
  /\ SwitchGoto(s, "wait")
  /\ UNCHANGED <<session, clientModel, flags, mmproj, target, previous, starter,
                 monitor, watcher, process>>

(* switchLoadModel: the model is loaded.  switchWaitReady never fails. *)
SwitchLoaded(s) ==
  /\ sw[s] = "wait"
  /\ WaitOk(target[s])
  /\ SwitchGoto(s, "finalize")
  /\ UNCHANGED <<session, clientModel, flags, mmproj, target, previous, starter,
                 monitor, watcher, process, router>>

(* Mutant: the reservation is given up before the rollback. *)
SwitchFailsReleasing(s) ==
  /\ sw[s] \in {"load", "wait"}
  /\ mmproj' = mmproj \ {target[s]}
  /\ \/ target[s] \in mmproj /\ SwitchGoto(s, "load") /\ UNCHANGED <<switching, switchingTo>>
     \/ SwitchGoto(s, "rollback") /\ switching' = FALSE /\ switchingTo' = NoModel
  /\ UNCHANGED <<currentModel, clientModel, flags, target, previous, starter, monitor,
                 watcher, process, router>>

(* The load or the wait fails.  A model that still has its projector is tried *)
(* once more without it (unless the presets cannot be reloaded); otherwise    *)
(* handleSwitchFailure hides the target and keeps the reservation.           *)
SwitchFails(s) ==
  /\ sw[s] \in {"load", "wait"}
  /\ mmproj' = mmproj \ {target[s]}
  /\ \/ target[s] \in mmproj /\ SwitchGoto(s, "load") /\ UNCHANGED switchingTo
     \/ SwitchGoto(s, "rollback") /\ switchingTo' = NoModel
  /\ UNCHANGED <<currentModel, switching, clientModel, flags, target, previous,
                 starter, monitor, watcher, process, router>>

(* Mutant: the session is not told of the new model. *)
SwitchFinalizeClientOnly(s) ==
  /\ sw[s] = "finalize"
  /\ clientModel' = target[s]
  /\ SwitchGoto(s, "announce")
  /\ UNCHANGED <<session, flags, mmproj, target, previous, starter, monitor, watcher,
                 process, router>>

(* switchFinalize: the model is current.  Then the KV slots are cleared, the  *)
(* configuration is saved and the architecture detected, which takes a while. *)
SwitchFinalize(s) ==
  /\ sw[s] = "finalize"
  /\ currentModel' = target[s]
  /\ clientModel' = target[s]
  /\ SwitchGoto(s, "announce")
  /\ UNCHANGED <<switching, switchingTo, flags, mmproj, target, previous, starter,
                 monitor, watcher, process, router>>

(* The end of switchFinalize. *)
SwitchAnnounce(s) ==
  /\ sw[s] = "announce"
  /\ loadFailed' = FALSE
  /\ EmitSuccess
  /\ serverReady' = TRUE
  /\ SwitchEnd(s)
  /\ UNCHANGED <<currentModel, clientModel, mmproj, starter, monitor, watcher, process,
                 router>>

(* handleSwitchFailure: the previous model is asked for again. *)
RollbackLoad(s) ==
  /\ sw[s] = "rollback"
  /\ previous[s] \notin {NoModel, target[s]}
  /\ LoadAccepted(previous[s])
  /\ SwitchGoto(s, "rollwait")
  /\ UNCHANGED <<session, clientModel, flags, mmproj, target, previous, starter,
                 monitor, watcher, process>>

(* There is nothing to roll back to, or it cannot be loaded. *)
RollbackFails(s) ==
  /\ sw[s] = "rollback"
  /\ EmitError
  /\ SwitchEnd(s)
  /\ UNCHANGED <<currentModel, serverReady, clientModel, mmproj, starter, monitor,
                 watcher, process, router>>

(* Mutant: the rollback waits for the previous model without a deadline. *)
RollbackDoneWhenLoaded(s) ==
  /\ sw[s] = "rollwait"
  /\ WaitOk(previous[s])
  /\ currentModel' = previous[s]
  /\ EmitSuccess
  /\ serverReady' = TRUE
  /\ SwitchEnd(s)
  /\ UNCHANGED <<clientModel, loadFailed, mmproj, starter, monitor, watcher, process,
                 router>>

(* The wait's result is only logged: the rollback counts as a success. *)
RollbackDone(s) ==
  /\ sw[s] = "rollwait"
  /\ currentModel' = previous[s]
  /\ EmitSuccess
  /\ serverReady' = TRUE
  /\ SwitchEnd(s)
  /\ UNCHANGED <<clientModel, loadFailed, mmproj, starter, monitor, watcher, process,
                 router>>

(* What a running SwitchModel does by itself. *)
SwitchProceed(s) ==
  \/ SwitchPrepare(s) \/ SwitchLoad(s) \/ SwitchLoaded(s) \/ SwitchFails(s)
  \/ SwitchFinalize(s) \/ SwitchAnnounce(s)
  \/ RollbackLoad(s) \/ RollbackFails(s) \/ RollbackDone(s)

(* UpdateConfig and the change of the API key put a new client in place. *)
ReplaceClient ==
  /\ clientModel' = NoModel
  /\ UNCHANGED <<session, flags, mmproj, switchers, starter, monitor, watcher,
                 process, router>>

-----------------------------------------------------------------------------
(* Start-up: startServerAndWatch and the goroutine it may leave behind. *)

(* startServerWithAutoFallback: no backend starts, and the application asks   *)
(* the user to quit; or one is ready, and selectAndDetectDefaultModel at once   *)
(* makes a preset current (no model can be loaded between the two).           *)
BootServer(m) ==
  /\ boot = "start"
  /\ \/ /\ EmitError
        /\ boot' = "done"
        /\ UNCHANGED <<running, currentModel, clientModel, bootModel>>
     \/ /\ running' = TRUE
        /\ currentModel' = IF m = NoModel THEN currentModel ELSE m
        /\ clientModel' = IF m = NoModel THEN clientModel ELSE m
        /\ bootModel' = currentModel'
        /\ boot' = "select"
        /\ UNCHANGED <<loadFailed, shown>>
  /\ UNCHANGED <<switching, switchingTo, serverReady, mmproj, switchers, bg, monitor,
                 watcher, exits, router>>

(* autoLoadDefaultModel, after the architecture is detected: the load is       *)
(* announced, if there is a model.                                          *)
BootAnnounce ==
  /\ boot = "select"
  /\ \/ bootModel = NoModel /\ boot' = "watch" /\ UNCHANGED shown
     \/ bootModel # NoModel /\ boot' = "load" /\ Show("busy")
  /\ UNCHANGED <<session, clientModel, serverReady, loadFailed, mmproj, switchers, bg,
                 bootModel, monitor, watcher, process, router>>

(* autoLoadDefaultModel: LoadModel. *)
BootLoad ==
  /\ boot = "load"
  /\ \/ LoadAccepted(bootModel) /\ boot' = "wait" /\ UNCHANGED <<loadFailed, shown>>
     \/ LoadRefused /\ EmitError /\ boot' = "watch"
  /\ UNCHANGED <<session, clientModel, serverReady, mmproj, switchers, bg, bootModel,
                 monitor, watcher, process>>

(* autoLoadDefaultModel: the wait.  When it fails, a model with a projector   *)
(* is tried again without it.                                               *)
BootWait ==
  /\ boot = "wait"
  /\ \/ /\ WaitOk(bootModel)
        /\ boot' = "detect"
        /\ serverReady' = TRUE /\ loadFailed' = FALSE
        /\ UNCHANGED <<shown, mmproj, bg>>
     \/ /\ bootModel \in mmproj
        /\ mmproj' = mmproj \ {bootModel}
        /\ boot' = "reload"
        /\ UNCHANGED <<flags, bg>>
     \/ /\ mmproj' = mmproj \ {bootModel}
        /\ boot' = "watch"
        /\ \/ bg' = "waiting" /\ UNCHANGED flags
           \/ EmitError /\ UNCHANGED <<serverReady, bg>>
  /\ UNCHANGED <<session, clientModel, switchers, bootModel, monitor, watcher,
                 process, router>>

(* tryReloadWithoutMmproj.  Its success does not clear the failure mark.      *)
BootReload ==
  /\ \/ /\ boot = "reload"
        /\ LoadAccepted(bootModel)
        /\ boot' = "rewait"
        /\ UNCHANGED <<flags, bg>>
     \/ /\ boot = "rewait"
        /\ WaitOk(bootModel)
        /\ serverReady' = TRUE
        /\ EmitSuccess
        /\ boot' = "watch"
        /\ UNCHANGED <<loadFailed, bg, router>>
     \/ /\ boot \in {"reload", "rewait"}
        /\ LoadRefused
        /\ boot' = "watch"
        /\ \/ bg' = "waiting" /\ UNCHANGED flags
           \/ EmitError /\ UNCHANGED <<serverReady, bg>>
  /\ UNCHANGED <<session, clientModel, mmproj, switchers, bootModel, monitor,
                 watcher, process>>

(* The end of handleModelLoadSuccess, after the architecture is detected. *)
BootSuccess ==
  /\ boot = "detect"
  /\ EmitSuccess
  /\ boot' = "watch"
  /\ UNCHANGED <<session, clientModel, serverReady, loadFailed, mmproj, switchers, bg,
                 bootModel, monitor, watcher, process, router>>

(* startServerWatcher *)
BootWatch ==
  /\ boot = "watch"
  /\ boot' = "done" /\ mon' = "tick" /\ wat' = "watching"
  /\ bootModel' = IF bg = "off" THEN NoModel ELSE bootModel
  /\ UNCHANGED <<session, clientModel, flags, mmproj, switchers, bg,
                 monModel, crashes, watModel, process, router>>

(* handleModelLoadFailure's goroutine.  Its success is announced whatever has *)
(* happened meanwhile.                                                      *)
BackgroundLoaded ==
  /\ bg = "waiting"
  /\ WaitOk(bootModel)
  /\ serverReady' = TRUE /\ loadFailed' = FALSE
  /\ bg' = "detect"
  /\ UNCHANGED <<session, clientModel, shown, mmproj, switchers, boot, bootModel,
                 monitor, watcher, process, router>>

(* Mutant: the front end is not told. *)
BackgroundSuccessUntold ==
  /\ bg = "detect"
  /\ bg' = "off" /\ bootModel' = NoModel
  /\ UNCHANGED <<session, clientModel, flags, mmproj, switchers, boot, monitor, watcher,
                 process, router>>

BackgroundSuccess ==
  /\ bg = "detect"
  /\ EmitSuccess
  /\ bg' = "off" /\ bootModel' = NoModel
  /\ UNCHANGED <<session, clientModel, serverReady, loadFailed, mmproj, switchers,
                 boot, monitor, watcher, process, router>>

(* Its failure is reported only while the model still is the current one and  *)
(* no switch is under way (isBackgroundModelStillRelevant).                  *)
BackgroundFails ==
  /\ bg = "waiting"
  /\ bg' = "off" /\ bootModel' = NoModel
  /\ IF currentModel = bootModel /\ ~switching THEN EmitError ELSE UNCHANGED <<loadFailed, shown>>
  /\ UNCHANGED <<session, clientModel, serverReady, mmproj, switchers, boot,
                 monitor, watcher, process, router>>

StarterProceed ==
  \/ (\E m \in Defaults : BootServer(m)) \/ BootAnnounce \/ BootLoad \/ BootWait
  \/ BootReload \/ BootSuccess \/ BootWatch
  \/ BackgroundLoaded \/ BackgroundSuccess \/ BackgroundFails

-----------------------------------------------------------------------------
(* The health monitor (watchServerHealth), every five seconds.  A tick during *)
(* a generation, a switch or while not ready does nothing.                  *)

(* The tick is over. *)
MonitorRests == mon' = "tick" /\ monModel' = NoModel

(* The guards of a tick; the status query that follows takes its time. *)
MonitorTick ==
  /\ mon = "tick"
  /\ \/ loadFailed /\ mon' = "off" /\ UNCHANGED monModel
     \/ /\ ~loadFailed /\ ~switching /\ serverReady /\ currentModel # NoModel
        /\ mon' = "query" /\ monModel' = currentModel
  /\ UNCHANGED <<session, clientModel, flags, mmproj, switchers, starter, crashes,
                 watcher, process, router>>

(* The model is loaded, or nothing can be said (it is loading, or the query   *)
(* failed).                                                                 *)
MonitorHealthy ==
  /\ mon = "query"
  /\ \/ WaitOk(monModel) /\ crashes' = 0
     \/ UNCHANGED crashes
  /\ MonitorRests
  /\ UNCHANGED <<session, clientModel, flags, mmproj, switchers, starter, watcher,
                 process, router>>

(* The model is gone: one crash more (the count saturates, it is only compared *)
(* with the maximum), and either a reload or an error.                       *)
MonitorCrashed ==
  /\ mon = "query"
  /\ running /\ resident # monModel
  /\ crashes' = IF crashes > MaxCrashes THEN crashes ELSE crashes + 1
  /\ serverReady' = FALSE
  /\ \/ crashes' > MaxCrashes /\ EmitError /\ MonitorRests
     \/ /\ crashes' <= MaxCrashes
        /\ Show("busy") /\ mon' = "reload"
        /\ UNCHANGED <<loadFailed, monModel>>
  /\ UNCHANGED <<session, clientModel, mmproj, switchers, starter, watcher, process,
                 router>>

MonitorReload ==
  /\ mon = "reload"
  /\ \/ /\ LoadAccepted(monModel)
        /\ mon' = "rewait"
        /\ UNCHANGED <<loadFailed, shown, monModel>>
     \/ LoadRefused /\ EmitError /\ MonitorRests
  /\ UNCHANGED <<session, clientModel, serverReady, mmproj, switchers, starter,
                 crashes, watcher, process>>

(* Mutant: a reload that times out is not reported. *)
MonitorReloadedQuietly ==
  /\ mon = "rewait"
  /\ \/ /\ WaitOk(monModel)
        /\ serverReady' = TRUE /\ loadFailed' = FALSE
        /\ EmitSuccess
     \/ UNCHANGED flags
  /\ MonitorRests
  /\ UNCHANGED <<session, clientModel, mmproj, switchers, starter, crashes, watcher,
                 process, router>>

(* The reload's wait; nothing is looked at again. *)
MonitorReloaded ==
  /\ mon = "rewait"
  /\ \/ /\ WaitOk(monModel)
        /\ serverReady' = TRUE /\ loadFailed' = FALSE
        /\ EmitSuccess
     \/ EmitError /\ UNCHANGED serverReady
  /\ MonitorRests
  /\ UNCHANGED <<session, clientModel, mmproj, switchers, starter, crashes, watcher,
                 process, router>>

MonitorProceed ==
  MonitorTick \/ MonitorHealthy \/ MonitorCrashed \/ MonitorReload \/ MonitorReloaded

-----------------------------------------------------------------------------
(* The process watcher (WatchWithCallback) and its two callbacks. *)

WatcherNotices ==
  /\ wat = "watching"
  /\ ~running
  /\ StatusCallback(FALSE)
  /\ wat' = "restart"
  /\ UNCHANGED <<session, clientModel, mmproj, switchers, starter, monitor, watModel,
                 process, router>>

(* The process is started again and becomes ready; or the attempt fails and    *)
(* the next one follows; or that was the last one and the watcher gives up.    *)
WatcherRestarts ==
  /\ wat = "restart"
  /\ \/ /\ running' = TRUE
        /\ watModel' = currentModel
        /\ wat' = "reload"
        /\ UNCHANGED flags
     \/ /\ StatusCallback(FALSE)
        /\ wat' \in {"restart", "off"}
        /\ UNCHANGED <<running, watModel>>
  /\ UNCHANGED <<session, clientModel, mmproj, switchers, starter, monitor, exits,
                 router>>

(* makeRestartCallback: the model it found current is loaded again. *)
WatcherReload ==
  /\ wat = "reload"
  /\ \/ watModel = NoModel /\ serverReady' = TRUE /\ wat' = "status"
        /\ UNCHANGED <<loadFailed, shown, router>>
     \/ watModel # NoModel /\ LoadAccepted(watModel) /\ wat' = "rewait"
        /\ UNCHANGED flags
     \/ watModel # NoModel /\ LoadRefused /\ EmitError /\ wat' = "status"
        /\ UNCHANGED serverReady
  /\ UNCHANGED <<session, clientModel, mmproj, switchers, starter, monitor, watModel,
                 process>>

(* Its wait.  Success does not clear the failure mark. *)
WatcherReloaded ==
  /\ wat = "rewait"
  /\ \/ WaitOk(watModel) /\ serverReady' = TRUE /\ wat' = "detect"
        /\ UNCHANGED <<loadFailed, shown>>
     \/ EmitError /\ wat' = "status" /\ UNCHANGED serverReady
  /\ UNCHANGED <<session, clientModel, mmproj, switchers, starter, monitor, watModel,
                 process, router>>

(* runningStatus, after the architecture is detected. *)
WatcherAnnounces ==
  /\ wat = "detect"
  /\ Show(IF serverReady THEN "ready" ELSE "unready")
  /\ wat' = "status"
  /\ UNCHANGED <<session, clientModel, serverReady, loadFailed, mmproj, switchers,
                 starter, monitor, watModel, process, router>>

(* The status callback that follows a restart. *)
WatcherReports ==
  /\ wat = "status"
  /\ StatusCallback(TRUE)
  /\ wat' = "watching" /\ watModel' = NoModel
  /\ UNCHANGED <<session, clientModel, mmproj, switchers, starter, monitor,
                 process, router>>

WatcherProceed ==
  \/ WatcherNotices \/ WatcherRestarts \/ WatcherReload \/ WatcherReloaded
  \/ WatcherAnnounces \/ WatcherReports

-----------------------------------------------------------------------------
(* The router and its process. *)

RouterEmpty == resident' = NoModel /\ loaded' = FALSE

RouterLoads ==
  /\ running /\ resident # NoModel /\ ~loaded
  /\ loaded' = TRUE
  /\ UNCHANGED <<resident, session, clientModel, flags, mmproj, switchers, starter,
                 monitor, watcher, process>>

(* The model's own process dies, or somebody deletes the model. *)
RouterDrops ==
  /\ resident # NoModel
  /\ RouterEmpty
  /\ UNCHANGED <<session, clientModel, flags, mmproj, switchers, starter, monitor,
                 watcher, process>>

ProcessExits ==
  /\ running
  /\ exits < MaxExits
  /\ running' = FALSE /\ RouterEmpty /\ exits' = exits + 1
  /\ UNCHANGED <<session, clientModel, flags, mmproj, switchers, starter, monitor,
                 watcher>>

Environment == RouterLoads \/ RouterDrops \/ ProcessExits

-----------------------------------------------------------------------------

Next ==
  \/ \E s \in Switchers : (\E m \in Models : SwitchBegin(s, m)) \/ SwitchProceed(s)
  \/ ReplaceClient
  \/ StarterProceed
  \/ MonitorProceed
  \/ WatcherProceed
  \/ Environment

Spec == Init /\ [][Next]_vars

(* SwitchModel's calls have deadlines, so a running call moves on.  Nothing is  *)
(* assumed of the other goroutines, of the router or of its process.          *)
FairSpec == Spec /\ \A s \in Switchers : WF_vars(SwitchProceed(s))

-----------------------------------------------------------------------------
(* Properties. *)

(* The switch is between BeginSwitch and EndSwitch. *)
Busy(s) == sw[s] # "idle"

(* The session serialises switches, their rollbacks included: at most one     *)
(* thread is between BeginSwitch and EndSwitch, and the session knows it.     *)
OneSwitchAtATime ==
  /\ \A s, t \in Switchers : Busy(s) /\ Busy(t) => s = t
  /\ switching <=> \E s \in Switchers : Busy(s)

(* A switch that succeeds leaves its model current, whatever the monitor, the  *)
(* watcher and the start-up's background wait did while it was saving and     *)
(* detecting.                                                               *)
SuccessNamesCurrentModel ==
  [][\A s \in Switchers :
       sw[s] = "announce" /\ sw'[s] = "idle" => currentModel' = target[s]]_vars

(* A thread that is still going to say something about readiness. *)
Working ==
  \/ \E s \in Switchers : Busy(s)
  \/ boot # "done" \/ bg # "off"
  \/ mon \in {"query", "reload", "rewait"}
  \/ wat \notin {"off", "watching"}

(* No silent limbo: when the server runs, a model was chosen, messages are     *)
(* refused and no goroutine is at work on it, the failure mark is up, so that *)
(* GetServerStatus serves the error; nobody is left waiting for nothing.      *)
NoLimbo ==
  running /\ currentModel # NoModel /\ ~serverReady /\ ~Working => loadFailed

(* An error is served as long as it is shown: once every goroutine is done, an *)
(* error the front end was sent last is also what GetServerStatus answers to   *)
(* its polling.                                                             *)
ErrorIsServed == shown = "error" /\ ~Working => loadFailed

(* The client never names a model that is neither the current one nor being   *)
(* made current.                                                            *)
ClientNamesNoOther == clientModel \in {NoModel, currentModel}

(* What makes the last three safety properties inductive.  Before the server   *)
(* is up nobody has a model; a finalised switch is the current model; a switch *)
(* that has not been finalised would roll back to the current one, because no  *)
(* other goroutine changes it.                                              *)
SwitchInvariant ==
  /\ OneSwitchAtATime
  /\ ClientNamesNoOther
  /\ boot = "start" => /\ ~running /\ wat = "off" /\ currentModel = NoModel
                       /\ \A s \in Switchers :
                            sw[s] \in {"idle", "prepare", "load", "rollback"}
  /\ \A s \in Switchers :
       /\ sw[s] = "announce" => currentModel = target[s]
       /\ sw[s] \in {"load", "wait", "finalize", "rollback", "rollwait"} =>
            previous[s] \in {NoModel, currentModel}
       /\ sw[s] = "rollwait" => previous[s] # NoModel

(* SwitchModel returns, however the router behaves. *)
SwitchesEnd == \A s \in Switchers : Busy(s) ~> ~Busy(s)
=============================================================================
