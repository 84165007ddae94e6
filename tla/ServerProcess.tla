--------------------------- MODULE ServerProcess ---------------------------
(* The llama-server process and those who start, watch and stop it:           *)
(* llm.Server (src/internal/llm/server.go, server_start.go), the start-up     *)
(* (src/app_server_watch.go) and the tear-down (src/app_lifecycle.go).        *)
(*                                                                          *)
(* A process runs in a pseudo console (ConPTY), with one goroutine that waits *)
(* for its end.  llm.Server knows the newest console only, and a flag,        *)
(* status.Running, which isAlive returns in place of the process's state.     *)
(* Loading a model, the callbacks of the watchdog and the backends tried one  *)
(* after the other, each with an llm.Server of its own, are left out, and so  *)
(* is exec.Cmd, which takes over where Windows has no ConPTY.               *)
EXTENDS Naturals

CONSTANTS
  Procs,         \* identities of the processes that may be created (a bound)
  MaxAttempts,   \* maxRestartAttempts
  NoProc         \* no console

ASSUME ProcsAssumption == NoProc \notin Procs
ASSUME AttemptsAssumption == MaxAttempts \in Nat \ {0}

VARIABLES
  proc,              \* the operating system's view of each process
  waiter,            \* the goroutine in pty.Wait, one for each process
  pty,               \* s.pty: whose console the Server holds
  running,           \* s.status.Running
  boot,              \* startServerAndWatch: where it is
  watchdog,          \* WatchWithCallback: where it is
  restartCount,      \* restarts since the server was last ready
  degradeLevel,      \* crashDegradeLevel
  permanentFailure,  \* the watchdog has given up
  exit               \* teardown: how far it is

server == <<pty, running>>
watching == <<restartCount, degradeLevel, permanentFailure>>
vars == <<proc, waiter, pty, running, boot, watchdog, restartCount, degradeLevel,
          permanentFailure, exit>>

Live(p) == proc[p] \in {"starting", "serving"}

(* GET /health on the port, whichever process answers it. *)
Healthy == \E p \in Procs : proc[p] = "serving"

(* rootCtx is cancelled, and with it the contexts derived from it. *)
Cancelled == exit # "no"

TypeOK ==
  /\ proc \in [Procs -> {"unborn", "starting", "serving", "dead"}]
  /\ waiter \in [Procs -> {"off", "waiting", "cancelled", "done"}]
  /\ pty \in Procs \cup {NoProc}
  /\ running \in BOOLEAN
  /\ boot \in {"start", "wait", "load", "failed", "done"}
  /\ watchdog \in {"off", "poll", "backoff", "wait", "restored", "gone"}
  /\ restartCount \in 0 .. MaxAttempts
  /\ degradeLevel \in 0 .. 2
  /\ permanentFailure \in BOOLEAN
  /\ exit \in {"no", "cancelled", "asked", "stopped", "closed"}

Init ==
  /\ proc = [p \in Procs |-> "unborn"]
  /\ waiter = [p \in Procs |-> "off"]
  /\ pty = NoProc
  /\ running = FALSE
  /\ boot = "start"
  /\ watchdog = "off"
  /\ restartCount = 0 /\ degradeLevel = 0 /\ permanentFailure = FALSE
  /\ exit = "no"

-----------------------------------------------------------------------------
(* The operations of llm.Server. *)

(* s.cancel(): the waiting goroutines of every context so far return. *)
CancelWaiters == [p \in Procs |-> IF waiter[p] = "waiting" THEN "cancelled" ELSE waiter[p]]

(* What the processes are after stopInternal: taskkill, with /F if need be,    *)
(* ends the process whose console the Server holds.                          *)
Killed == [p \in Procs |-> IF p = pty /\ Live(p) THEN "dead" ELSE proc[p]]

(* stopInternal. *)
Stop ==
  IF pty = NoProc
    THEN UNCHANGED <<proc, waiter, pty, running>>
    ELSE /\ proc' = Killed
         /\ waiter' = CancelWaiters
         /\ running' = FALSE
         /\ UNCHANGED pty

(* Start: a process that status.Running still reports is stopped first; the    *)
(* new process gets a console, a fresh context and a waiting goroutine, or     *)
(* cannot be created (ConPTY and exec.Cmd both fail), which Start does not     *)
(* report.                                                                  *)
Start ==
  LET others == IF running THEN Killed ELSE proc
  IN  \/ \E p \in Procs :
           /\ proc[p] = "unborn"
           /\ proc' = [others EXCEPT ![p] = "starting"]
           /\ waiter' = [CancelWaiters EXCEPT ![p] = "waiting"]
           /\ pty' = p
           /\ running' = TRUE
      \/ /\ proc' = others
         /\ waiter' = CancelWaiters
         /\ pty' = NoProc
         /\ running' = FALSE

(* updateStatusAfterExit: the goroutine's own process has ended, or its        *)
(* context was cancelled.  It closes the console the Server holds by now      *)
(* (which may end the process in it: ProcDies) and records that nothing runs. *)
WaiterReturns(p) ==
  /\ \/ waiter[p] = "waiting" /\ proc[p] = "dead"
     \/ waiter[p] = "cancelled"
  /\ waiter' = [waiter EXCEPT ![p] = "done"]
  /\ running' = FALSE
  /\ UNCHANGED <<proc, pty, boot, watchdog, watching, exit>>

-----------------------------------------------------------------------------
(* The start-up: startServerWithAutoFallback for one backend, the default      *)
(* model, then startServerWatcher.                                           *)

BootStart ==
  /\ boot = "start"
  /\ Start
  /\ boot' = "wait"
  /\ UNCHANGED <<watchdog, watching, exit>>

(* The user has asked to exit, or Start refuses to expose a server without a   *)
(* key (the watchdog has the same settings, so that it is refused nothing).    *)
BootAborts ==
  /\ boot = "start"
  /\ boot' = "failed"
  /\ UNCHANGED <<proc, waiter, server, watchdog, watching, exit>>

BootReady ==
  /\ boot = "wait" /\ Healthy
  /\ boot' = "load"
  /\ UNCHANGED <<proc, waiter, server, watchdog, watching, exit>>

(* The process has ended, 60 s are over, or the user exits: a half-started     *)
(* process is stopped.                                                      *)
BootNotReady ==
  /\ boot = "wait"
  /\ Stop
  /\ boot' = "failed"
  /\ UNCHANGED <<watchdog, watching, exit>>

BootWatches ==
  /\ boot = "load"
  /\ boot' = "done" /\ watchdog' = "poll"
  /\ UNCHANGED <<proc, waiter, server, watching, exit>>

BootProceed == BootStart \/ BootAborts \/ BootReady \/ BootNotReady \/ BootWatches

-----------------------------------------------------------------------------
(* WatchWithCallback.  It may be told to end just after it has looked. *)

(* A crash within 120 s of the start lowers the next start's demands by one    *)
(* level, or to the lowest at once when memory ran out.                       *)
Degraded(early, oom) ==
  IF ~early THEN degradeLevel ELSE IF oom \/ degradeLevel > 0 THEN 2 ELSE 1

(* Mutant: the restart is not counted. *)
WatchSeesCrashUncounted ==
  /\ watchdog = "poll" /\ ~running
  /\ restartCount < MaxAttempts
  /\ running' = FALSE
  /\ watchdog' = "backoff"
  /\ UNCHANGED <<proc, waiter, pty, boot, watching, exit>>

(* IsRunning is false: count the restart and wait for the backoff. *)
WatchSeesCrash ==
  /\ watchdog = "poll" /\ ~running
  /\ restartCount < MaxAttempts
  /\ restartCount' = restartCount + 1
  /\ \E early, oom \in BOOLEAN : degradeLevel' = Degraded(early, oom)
  /\ running' = FALSE
  /\ watchdog' = "backoff"
  /\ UNCHANGED <<proc, waiter, pty, boot, permanentFailure, exit>>

WatchGivesUp ==
  /\ watchdog = "poll" /\ ~running
  /\ restartCount >= MaxAttempts
  /\ permanentFailure' = TRUE
  /\ running' = FALSE
  /\ watchdog' = "gone"
  /\ UNCHANGED <<proc, waiter, pty, boot, restartCount, degradeLevel, exit>>

(* Mutant: Start clears the degradation, as it once did. *)
WatchRestartsAfresh ==
  /\ watchdog = "backoff"
  /\ Start
  /\ watchdog' = "wait"
  /\ degradeLevel' = 0
  /\ UNCHANGED <<boot, restartCount, permanentFailure, exit>>

WatchRestarts ==
  /\ watchdog = "backoff"
  /\ Start
  /\ watchdog' = "wait"
  /\ UNCHANGED <<boot, watching, exit>>

WatchHealthy ==
  /\ watchdog = "wait" /\ Healthy
  /\ watchdog' = "restored"
  /\ UNCHANGED <<proc, waiter, server, boot, watching, exit>>

(* The process has ended, or 60 s are over: the loop starts again, with the    *)
(* status saying that nothing runs.                                          *)
WatchNotReady ==
  /\ watchdog = "wait"
  /\ running' = FALSE
  /\ watchdog' = "poll"
  /\ UNCHANGED <<proc, waiter, pty, boot, watching, exit>>

(* SetStatus(true), the counters start afresh. *)
WatchRestored ==
  /\ watchdog = "restored"
  /\ running' = TRUE
  /\ restartCount' = 0
  /\ degradeLevel' = 0
  /\ watchdog' = "poll"
  /\ UNCHANGED <<proc, waiter, pty, boot, permanentFailure, exit>>

(* watchCtx is cancelled. *)
WatchEnds ==
  /\ watchdog \in {"poll", "backoff", "wait"} /\ Cancelled
  /\ watchdog' = "gone"
  /\ UNCHANGED <<proc, waiter, server, boot, watching, exit>>

WatchProceed ==
  WatchSeesCrash \/ WatchGivesUp \/ WatchRestarts \/ WatchHealthy \/ WatchNotReady
    \/ WatchRestored \/ WatchEnds

-----------------------------------------------------------------------------
(* teardown. *)

(* rootCancel and watchCancel. *)
ExitCancel ==
  /\ exit = "no"
  /\ exit' = "cancelled"
  /\ UNCHANGED <<proc, waiter, server, boot, watchdog, watching>>

(* g.Wait: the tracked goroutines are over. *)
GoroutinesOver == boot \in {"failed", "done"} /\ watchdog \in {"off", "gone"}

(* Mutant: teardown does not wait for the goroutines. *)
ExitAsksEarly ==
  /\ exit = "cancelled"
  /\ exit' = IF running THEN "asked" ELSE "stopped"
  /\ UNCHANGED <<proc, waiter, server, boot, watchdog, watching>>

(* GracefulStop: nothing to do when nothing is said to run, otherwise the       *)
(* process is asked to end ...                                               *)
ExitAsks ==
  /\ exit = "cancelled" /\ GoroutinesOver
  /\ exit' = IF running THEN "asked" ELSE "stopped"
  /\ UNCHANGED <<proc, waiter, server, boot, watchdog, watching>>

(* ... and a waiter says that it has, or it is forced to.                      *)
ExitStops ==
  /\ exit = "asked"
  /\ \/ ~running /\ waiter' = CancelWaiters /\ UNCHANGED <<proc, server>>
     \/ Stop
  /\ exit' = "stopped"
  /\ UNCHANGED <<boot, watchdog, watching>>

(* CloseJob: Windows ends every process bound to the job object. *)
ExitCloseJob ==
  /\ exit = "stopped"
  /\ proc' = [p \in Procs |-> IF Live(p) THEN "dead" ELSE proc[p]]
  /\ exit' = "closed"
  /\ UNCHANGED <<waiter, server, boot, watchdog, watching>>

ExitProceed == ExitCancel \/ ExitAsks \/ ExitStops \/ ExitCloseJob

-----------------------------------------------------------------------------
(* The operating system: one process can listen on the port, and a process     *)
(* may end at any time.                                                      *)

ProcServes(p) ==
  /\ proc[p] = "starting" /\ ~Healthy
  /\ proc' = [proc EXCEPT ![p] = "serving"]
  /\ UNCHANGED <<waiter, server, boot, watchdog, watching, exit>>

ProcDies(p) ==
  /\ Live(p)
  /\ proc' = [proc EXCEPT ![p] = "dead"]
  /\ UNCHANGED <<waiter, server, boot, watchdog, watching, exit>>

Next ==
  \/ BootProceed
  \/ WatchProceed
  \/ ExitProceed
  \/ \E p \in Procs : WaiterReturns(p) \/ ProcServes(p) \/ ProcDies(p)

Spec == Init /\ [][Next]_vars

(* The watchdog's waits all have deadlines.  Nothing is assumed of the         *)
(* processes, of their waiters, or of the user.                              *)
FairSpec == Spec /\ WF_vars(WatchProceed)

-----------------------------------------------------------------------------
(* Properties. *)

(* Once the tear-down has closed the job, no llama-server is left, and none is  *)
(* started: neither the start-up nor the watchdog runs on (teardown's order:   *)
(* cancel, wait for the goroutines, stop, close the job).                     *)
NoProcessOutlivesTeardown == exit = "closed" => \A p \in Procs : ~Live(p)

(* A server that was given up stays down: no late waiter, retry or callback     *)
(* lets the application believe in it again (WatchWithCallback, SetStatus).    *)
GivenUpStaysDown == permanentFailure => ~running

(* The degradation escalates across restarts: only a server that is ready       *)
(* again lowers the level, Start does not (WatchWithCallback, Start).          *)
DegradationEscalates ==
  [][degradeLevel' < degradeLevel => watchdog = "restored"]_vars

(* A crash is dealt with: the server is ready again, or the watchdog gives up    *)
(* or is told to end; it does not restart for ever.                          *)
CrashIsSettled == watchdog = "backoff" ~> watchdog \in {"restored", "gone"}

(* What makes the first two inductive: the goroutines wait for nobody who may    *)
(* act later, and only a watchdog at work, or the start-up, says "running".    *)
ShutdownOrder ==
  /\ watchdog # "off" => boot = "done"
  /\ exit \in {"asked", "stopped", "closed"} => GoroutinesOver
  /\ permanentFailure => watchdog = "gone" /\ ~running
  /\ NoProcessOutlivesTeardown
=============================================================================
