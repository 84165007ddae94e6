---------------------------- MODULE AppLifeCycle ----------------------------
(***************************************************************************)
(* The life of the application (src/app_lifecycle.go, src/main.go) and the *)
(* choice of its backend (src/app_server_watch.go, src/app_backend.go,     *)
(* src/internal/llm/backend.go): one process at a time holds the mutex,    *)
(* starts up, tries its chain of backends, serves, restarts, exits or      *)
(* crashes; config.json outlives it.  How a process of llama-server is     *)
(* started and watched is ServerProcess, how models are loaded is          *)
(* ModelRuntime, and what an absent backend sets off is BackendInstall.    *)
(***************************************************************************)
EXTENDS Naturals, Sequences

CONSTANTS
  Native,      \* the backend that the maker of the graphics card suggests
  Capable,     \* backends that CheckBackendCapabilityMatch lets pass
  Bundled,     \* backends delivered with the program
  Downloaded,  \* backends in the data directory
  Choices,     \* bound: settings that the user switches to
  Launches,    \* bound: times a process is started
  Replies,     \* bound: messages admitted by one process
  Nothing      \* an empty setting

Backends  == {"cuda", "vulkan", "cpu"}
Installed == Bundled \union Downloaded

ASSUME LifeAssumption ==
  /\ Native \in Backends /\ Capable \subseteq Backends /\ Nothing \notin Backends \union {"auto"}
  /\ Bundled \subseteq Backends /\ Downloaded \subseteq Backends
  /\ Choices \subseteq Backends \union {"auto"}
  /\ Launches \in Nat \ {0} /\ Replies \in Nat

VARIABLES
  disk,       \* backend_type and last_successful_backend in config.json
  conf,       \* the same in the running process
  copy,       \* the same in the front end's copy of the configuration
  up,         \* a process holds the mutex
  polling,    \* processes of RestartApp that wait for the mutex
  launched,   \* processes started so far
  start,      \* startup and startServerAndWatch
  chain,      \* the backends it tries
  at,         \* the one it tries now
  noModels,   \* there is no model: the main window shows from the beginning
  server,     \* a.server: the position in the chain it was built for
  engines,    \* positions whose llama-server runs
  serving,    \* serverReady
  watched,    \* the watchdog and the health monitor run
  sent,       \* messages admitted by this process
  early, late,\* replies under way, admitted before or after the tear-down's wait
  exiting,    \* a.exiting
  tear,       \* how far the tear-down is
  restarting, \* a new process is started, forceQuit comes in 500 ms
  proven,     \* history: the setting that the engine of this process was started with
  undo        \* history: the proven setting that the last switch replaced

config == <<disk, conf, copy, proven, undo>>
boot   == <<start, chain, at, noModels, server, engines, watched>>
mutex  == <<up, polling, launched>>
leave  == <<exiting, tear, restarting>>
talk   == <<sent, early, late>>
vars   == <<config, boot, mutex, leave, serving, talk>>

Settings == [type : Backends \union {"auto"}, last : Backends \union {"auto", Nothing}]

TypeOK ==
  /\ {disk, conf, copy} \subseteq Settings /\ {proven, undo} \subseteq Backends \union {"auto", Nothing}
  /\ {up, noModels, serving, watched, exiting, restarting} \subseteq BOOLEAN
  /\ polling <= launched /\ launched \in 0..Launches
  /\ start \in {"off", "sync", "download", "try", "launch", "wait", "load", "over",
                "notice", "card", "box"}
  /\ chain \in Seq(Backends) /\ at \in 1..4 /\ server \in 1..3 /\ engines \subseteq 1..3
  /\ early + late <= sent /\ sent \in 0..Replies
  /\ tear \in {"no", "generation", "wait", "engine", "stores", "quit"}

-----------------------------------------------------------------------------
(* Which backend: ResolveBackendTypeWithRuntimeDirs, installBackend,       *)
(* backendFallbackChain.                                                   *)

Resolved(type) ==
  LET wanted == IF Native \in Capable THEN {Native} ELSE {}
      usable == {b \in wanted : b \in {"cuda", "cpu"} \/ b \in Installed}
      spare  == {"vulkan"} \intersect Capable \intersect Installed IN
  CHOOSE b \in Backends :
    IF type # "auto" THEN b = type
    ELSE IF usable # {} THEN b \in usable
    ELSE IF spare # {} THEN b \in spare
    ELSE IF "cpu" \in Installed \/ wanted = {} THEN b = "cpu"
    ELSE b \in wanted

(* What is delivered with the program comes first, Vulkan before CPU.      *)
Chosen(type) ==
  IF Resolved(type) \in Bundled \/ Bundled \intersect {"vulkan", "cpu"} = {} THEN Resolved(type)
  ELSE IF "vulkan" \in Bundled THEN "vulkan" ELSE "cpu"

FallbackChain(type) ==
  IF type # "auto" THEN <<Chosen(type)>>
  ELSE <<Chosen(type)>> \o SelectSeq(<<"vulkan", "cpu">>, LAMBDA b : b # Chosen(type))

-----------------------------------------------------------------------------
Fresh ==
  /\ start' = "off" /\ chain' = <<>> /\ at' = 1 /\ noModels' = FALSE
  /\ server' = 1 /\ engines' = {} /\ watched' = FALSE /\ serving' = FALSE
  /\ sent' = 0 /\ early' = 0 /\ late' = 0 /\ exiting' = FALSE /\ tear' = "no" /\ restarting' = FALSE

Init ==
  /\ disk = [type |-> "auto", last |-> Nothing] /\ conf = disk /\ copy = disk
  /\ proven = Nothing /\ undo = Nothing
  /\ up = FALSE /\ polling = 0 /\ launched = 0
  /\ start = "off" /\ chain = <<>> /\ at = 1 /\ noModels = FALSE
  /\ server = 1 /\ engines = {} /\ watched = FALSE /\ serving = FALSE
  /\ sent = 0 /\ early = 0 /\ late = 0 /\ exiting = FALSE /\ tear = "no" /\ restarting = FALSE

(* main: the mutex, or the window of the process that has it.              *)
StartsUp ==
  up' = TRUE /\ start' = "sync" /\ conf' = disk /\ copy' = disk /\ proven' = disk.type

Launch ==
  /\ launched < Launches /\ launched' = launched + 1
  /\ IF up THEN UNCHANGED <<config, boot, up>>
     ELSE StartsUp /\ UNCHANGED <<disk, undo, chain, at, noModels, server, engines, watched>>
  /\ UNCHANGED <<polling, leave, serving, talk>>

PollWins ==
  /\ polling > 0 /\ ~up /\ polling' = polling - 1 /\ StartsUp
  /\ UNCHANGED <<disk, undo, chain, at, noModels, server, engines, watched, launched, leave,
                 serving, talk>>

(* Mutant: a process that finds another one gives up at once.              *)
PollGivesUpAtOnce ==
  /\ polling > 0 /\ up /\ polling' = polling - 1
  /\ UNCHANGED <<config, boot, up, launched, leave, serving, talk>>

(* 20 s have passed: by then the process that started this one has quit.   *)
PollGivesUp ==
  /\ polling > 0 /\ up /\ ~restarting /\ polling' = polling - 1
  /\ UNCHANGED <<config, boot, up, launched, leave, serving, talk>>

(* The process ends, and with it the job object that holds llama-server.   *)
Ends == up' = FALSE /\ Fresh /\ UNCHANGED <<config, polling, launched>>

-----------------------------------------------------------------------------
(* The start-up: startup, startServerAndWatch.                             *)

Goto(where) == up /\ start' = where

(* Configuration, directories, secrets, database: a failure is shown and   *)
(* ends the process.  Without an engine the download takes over.           *)
Startup ==
  /\ up /\ start = "sync"
  /\ \/ Goto("notice") /\ UNCHANGED <<chain, noModels>>
     \/ Goto("download") /\ UNCHANGED <<chain, noModels>>
     \/ /\ Chosen(conf.type) \in Installed /\ Goto("try")
        /\ chain' = FallbackChain(conf.type) /\ noModels' \in BOOLEAN
  /\ UNCHANGED <<config, at, server, engines, watched, mutex, leave, serving, talk>>

(* tryRollbackBackend                                                      *)
RolledBack(c) ==
  IF c.last \in {Nothing, c.type} THEN [c EXCEPT !.last = Nothing]
  ELSE [type |-> c.last, last |-> Nothing]

(* config.Save writes the whole file, or nothing.                          *)
Save(c) == conf' = c /\ disk' \in {c, disk}

(* The next backend of the chain; after the last one the configuration is  *)
(* rolled back, which is saved only if there was a backup, and shown.      *)
TryNext ==
  /\ at' = at + 1
  /\ IF at < Len(chain) THEN start' = "try" /\ UNCHANGED <<conf, disk>>
     ELSE /\ start' = "card"
          /\ IF conf.last \in {Nothing, conf.type}
             THEN conf' = RolledBack(conf) /\ UNCHANGED disk
             ELSE Save(RolledBack(conf))

TryBackend ==
  /\ up /\ start = "try"
  /\ \/ exiting /\ start' = "over" /\ UNCHANGED <<at, server, conf, disk>>
     \/ /\ ~exiting /\ (at = 1 \/ chain[at] \in Downloaded)
        /\ start' = "launch" /\ server' = at /\ UNCHANGED <<at, conf, disk>>
     \/ ~exiting /\ at > 1 /\ TryNext /\ UNCHANGED server
  /\ UNCHANGED <<copy, proven, undo, chain, noModels, engines, watched, mutex, leave, serving, talk>>

StartEngine ==
  /\ up /\ start = "launch"
  /\ \/ exiting /\ start' = "over" /\ UNCHANGED <<at, engines, conf, disk>>
     \/ /\ ~exiting /\ engines' = engines \union {at} /\ start' = "wait"
        /\ UNCHANGED <<at, conf, disk>>
     \/ ~exiting /\ TryNext /\ UNCHANGED engines
  /\ UNCHANGED <<copy, proven, undo, chain, noModels, server, watched, mutex, leave, serving, talk>>

(* persistFallbackBackend                                                  *)
Persisted(c) == IF at = 1 \/ c.type = chain[at] THEN c ELSE [type |-> chain[at], last |-> Nothing]

(* clearBackendRollback: the backup goes, whichever start it was made for. *)
Proven(c) == [Persisted(c) EXCEPT !.last = Nothing]

EngineReady ==
  /\ up /\ start = "wait" /\ start' = "load"
  /\ IF Proven(conf) = conf THEN UNCHANGED <<conf, disk>> ELSE Save(Proven(conf))
  /\ undo' = Nothing /\ proven' = IF at = 1 THEN proven ELSE chain[at]
  /\ UNCHANGED <<copy, chain, at, noModels, server, engines, watched, mutex, leave, serving,
                 talk>>

(* WaitForReadyCtx fails or is cancelled: this engine is stopped.          *)
EngineFails ==
  /\ up /\ start = "wait" /\ engines' = engines \ {at}
  /\ IF exiting THEN start' = "over" /\ UNCHANGED <<at, conf, disk>> ELSE TryNext
  /\ UNCHANGED <<copy, proven, undo, chain, noModels, server, watched, mutex, leave, serving, talk>>

(* The model is loaded, or not; the monitors run in any case.              *)
Load ==
  /\ up /\ start = "load" /\ start' = "over"
  /\ serving' \in BOOLEAN /\ watched' = TRUE
  /\ UNCHANGED <<config, chain, at, noModels, server, engines, mutex, leave, talk>>

(* Mutant: the card waits for the user, however long.                      *)
CardWaits == up /\ start = "box" /\ UNCHANGED vars

(* emitFatalError: the user confirms, or 30 s later a box of the operating *)
(* system waits for the user.                                              *)
CardTimesOut ==
  /\ up /\ start \in {"notice", "card"} /\ start' = "box"
  /\ UNCHANGED <<config, chain, at, noModels, server, engines, watched, mutex, leave, serving,
                 talk>>

Confirm == up /\ start \in {"notice", "card", "box"} /\ Ends

-----------------------------------------------------------------------------
(* The window: messages, settings, restart.                                *)

Window == up /\ (serving \/ (noModels /\ start \notin {"sync", "notice", "card", "box"}))

(* What trackedGo has started, the start-up among it, but not the steps    *)
(* of startup itself.                                                      *)
Tracked ==
  start \in {"try", "launch", "wait", "load", "card"} \/ (start = "box" /\ chain # <<>>)
  \/ watched \/ early > 0

(* requireReady, requireServer, trackedGo.  The wait of the tear-down is    *)
(* over as soon as nothing that is tracked runs.                           *)
SendMessage ==
  /\ Window /\ serving /\ sent < Replies /\ sent' = sent + 1
  /\ IF tear \in {"no", "generation"} \/ (tear = "wait" /\ Tracked)
     THEN early' = early + 1 /\ UNCHANGED late
     ELSE late' = late + 1 /\ UNCHANGED early
  /\ UNCHANGED <<config, boot, mutex, leave, serving>>

(* A reply ends, by itself or stopped.                                     *)
ReplyEnds ==
  /\ up
  /\ \/ early > 0 /\ early' = early - 1 /\ UNCHANGED late
     \/ late > 0 /\ late' = late - 1 /\ UNCHANGED early
  /\ UNCHANGED <<config, boot, mutex, leave, serving, sent>>

(* Mutant: the setting in force is recorded even if it is chosen again.    *)
SwitchedAgain(c, bt) == [type |-> bt, last |-> c.type]

Switched(c, bt) == [type |-> bt, last |-> IF c.type # bt THEN c.type ELSE c.last]

(* A backup is promised for one switch, away from a setting under which    *)
(* the engine runs.                                                        *)
SwitchBackend(bt) ==
  /\ Window /\ Save(Switched(conf, bt))
  /\ undo' = IF bt = conf.type THEN undo
             ELSE IF start = "over" /\ conf = disk /\ conf = [type |-> proven, last |-> Nothing]
             THEN proven ELSE Nothing
  /\ UNCHANGED <<copy, proven, boot, mutex, leave, serving, talk>>

(* The front end fetches the configuration, and writes its copy back, with *)
(* some other setting changed: UpdateConfig.                               *)
GetConfig ==
  /\ Window /\ copy # conf /\ copy' = conf
  /\ UNCHANGED <<disk, conf, proven, undo, boot, mutex, leave, serving, talk>>

UpdateConfig ==
  /\ Window /\ Save(copy) /\ undo' = IF copy = conf THEN undo ELSE Nothing
  /\ UNCHANGED <<copy, proven, boot, mutex, leave, serving, talk>>

(* RestartApp: if the new process cannot be started, this one ends.        *)
RestartApp ==
  /\ Window \/ (up /\ start = "download")
  /\ launched < Launches /\ launched' = launched + 1
  /\ \/ /\ polling' = polling + 1 /\ restarting' = TRUE
        /\ UNCHANGED <<config, boot, up, exiting, tear, serving, talk>>
     \/ up' = FALSE /\ Fresh /\ UNCHANGED <<config, polling>>

ForceQuit == up /\ restarting /\ Ends

Crash == up /\ Ends

-----------------------------------------------------------------------------
(* The exit: GracefulExit, teardown.                                       *)

GracefulExit ==
  /\ up /\ start # "off" /\ ~exiting /\ exiting' = TRUE /\ tear' = "generation"
  /\ UNCHANGED <<config, boot, mutex, restarting, serving, talk>>

Proceed(from, to) == up /\ tear = from /\ tear' = to

(* StopGeneration, rootCancel, watchCancel.                                *)
CancelAll ==
  /\ Proceed("generation", "wait")
  /\ UNCHANGED <<config, boot, mutex, exiting, restarting, serving, talk>>

(* The watchdog's context comes from rootCtx, which is cancelled whenever  *)
(* the watchdog was created.                                               *)
WatchEnds ==
  /\ up /\ watched /\ tear \notin {"no", "generation"}
  /\ watched' = FALSE
  /\ UNCHANGED <<config, start, chain, at, noModels, server, engines, mutex, leave, serving,
                 talk>>

WaitGroupDone ==
  /\ ~Tracked /\ Proceed("wait", "engine")
  /\ UNCHANGED <<config, boot, mutex, exiting, restarting, serving, talk>>

(* Mutant: the server captured when the start-up began is stopped.         *)
StopServerCaptured ==
  /\ Proceed("engine", "stores") /\ engines' = engines \ {1}
  /\ UNCHANGED <<config, start, chain, at, noModels, server, watched, mutex, exiting, restarting,
                 serving, talk>>

(* The server that is current after the wait.                              *)
StopServer ==
  /\ Proceed("engine", "stores") /\ engines' = engines \ {server}
  /\ UNCHANGED <<config, start, chain, at, noModels, server, watched, mutex, exiting, restarting,
                 serving, talk>>

CloseStores ==
  /\ Proceed("stores", "quit")
  /\ UNCHANGED <<config, boot, mutex, exiting, restarting, serving, talk>>

Quit == up /\ tear = "quit" /\ Ends

-----------------------------------------------------------------------------
StartStep == Startup \/ TryBackend \/ StartEngine \/ EngineReady \/ EngineFails \/ Load \/ CardTimesOut
TearStep  == CancelAll \/ WaitGroupDone \/ StopServer \/ CloseStores \/ Quit
MainStep  == PollWins \/ PollGivesUp

User ==
  \/ Launch \/ Confirm \/ SendMessage \/ GetConfig \/ UpdateConfig \/ RestartApp \/ GracefulExit
  \/ \E bt \in Choices : SwitchBackend(bt)

Next == StartStep \/ TearStep \/ MainStep \/ User \/ ReplyEnds \/ WatchEnds \/ ForceQuit \/ Crash

(* Waits for llama-server and for models have time limits and end with     *)
(* rootCtx; a reply ends; nothing is assumed of the user.                  *)
Fairness ==
  /\ WF_vars(StartStep) /\ WF_vars(TearStep) /\ WF_vars(MainStep)
  /\ WF_vars(ReplyEnds) /\ WF_vars(WatchEnds) /\ WF_vars(ForceQuit)

Spec == Init /\ [][Next]_vars /\ Fairness

-----------------------------------------------------------------------------
(* A single switch away from a setting under which the engine runs can be  *)
(* undone until the new setting is proven: config.json names the old one   *)
(* as the backup or has it in force again - whatever saves fail, whoever   *)
(* chooses the same backend twice, however often the process restarts,     *)
(* fails to start or crashes in between.                                   *)
FailedSwitchIsUndone ==
  undo # Nothing => disk.type = undo \/ disk.last = undo

(* Once the tear-down's wait is over, nothing that was admitted before     *)
(* runs, the start-up cannot start an engine any more, and when the        *)
(* stores are closed no llama-server is left, the ones of the fallback     *)
(* among them.                                                             *)
QuietBeforeClose ==
  /\ tear \in {"engine", "stores", "quit"} =>
       ~watched /\ early = 0 /\ start \notin {"launch", "wait", "load"} /\ engines \subseteq {server}
  /\ tear \in {"stores", "quit"} => engines = {}

(* An exit that was asked for ends the process, at whatever point of the   *)
(* start-up it came and whatever is admitted meanwhile - unless a box of   *)
(* the operating system waits for the user.                                *)
ExitsEnd == exiting ~> (~exiting \/ start = "box")

(* A restart is followed by a process that runs: the new one waits for the *)
(* mutex until the old one has quit.                                       *)
RestartIsFollowed == restarting ~> (up /\ ~restarting)

=============================================================================
