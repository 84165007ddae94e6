---------------------------- MODULE EngineProofs ----------------------------
(***************************************************************************)
(* Proofs about the engine: the server process, for any number of          *)
(* processes and restarts, and the installation of its files, for any      *)
(* backends and any number of failures, crashes and downloads.             *)
(***************************************************************************)
EXTENDS BackendInstall, ServerProcess, SequenceTheorems, TLAPS

-----------------------------------------------------------------------------
(* The server process.                                                     *)

(* Start and Stop keep the types of what they assign. *)
LEMMA StartTypes ==
  ASSUME TypeOK, Start
  PROVE  /\ proc' \in [Procs -> {"unborn", "starting", "serving", "dead"}]
         /\ waiter' \in [Procs -> {"off", "waiting", "cancelled", "done"}]
         /\ pty' \in Procs \cup {NoProc}
         /\ running' \in BOOLEAN
BY DEF TypeOK, Start, Killed, CancelWaiters, Live

LEMMA StopTypes ==
  ASSUME TypeOK, Stop
  PROVE  /\ proc' \in [Procs -> {"unborn", "starting", "serving", "dead"}]
         /\ waiter' \in [Procs -> {"off", "waiting", "cancelled", "done"}]
         /\ pty' \in Procs \cup {NoProc}
         /\ running' \in BOOLEAN
BY DEF TypeOK, Stop, Killed, CancelWaiters, Live

(* A crash keeps the level between 0 and 2 and never lowers it. *)
LEMMA DegradedRises ==
  ASSUME degradeLevel \in 0 .. 2, NEW early \in BOOLEAN, NEW oom \in BOOLEAN
  PROVE  Degraded(early, oom) \in 0 .. 2 /\ Degraded(early, oom) >= degradeLevel
BY DEF Degraded

(* Every variable keeps its type, and the restarts their limit                *)
(* (WatchWithCallback's restartCount and crashDegradeLevel).                 *)
THEOREM TypeCorrect == Spec => []TypeOK
<1>1. ASSUME Init PROVE TypeOK
  <2> USE <1>1 DEF Init
  <2>1. restartCount \in 0 .. MaxAttempts /\ degradeLevel \in 0 .. 2
    BY AttemptsAssumption
  <2>2. /\ proc \in [Procs -> {"unborn", "starting", "serving", "dead"}]
        /\ waiter \in [Procs -> {"off", "waiting", "cancelled", "done"}]
    BY SMT
  <2>3. running \in BOOLEAN /\ permanentFailure \in BOOLEAN
    BY Zenon
  <2> QED BY <2>1, <2>2, <2>3 DEF TypeOK
<1>2. ASSUME TypeOK, [Next]_vars PROVE TypeOK'
  <2> USE <1>2 DEF TypeOK, server, watching
  <2>1. CASE BootProceed
    <3>1. CASE BootStart
      BY <3>1, StartTypes DEF BootStart
    <3>2. CASE BootNotReady
      BY <3>2, StopTypes DEF BootNotReady
    <3>3. CASE BootAborts \/ BootReady \/ BootWatches
      BY <3>3 DEF BootAborts, BootReady, BootWatches
    <3> QED BY <2>1, <3>1, <3>2, <3>3 DEF BootProceed
  <2>2. CASE WatchProceed
    <3>1. CASE WatchSeesCrash
      <4>1. degradeLevel' \in 0 .. 2
        BY <3>1, DegradedRises DEF WatchSeesCrash
      <4>2. restartCount' \in 0 .. MaxAttempts
        BY <3>1, AttemptsAssumption DEF WatchSeesCrash
      <4> QED BY <3>1, <4>1, <4>2 DEF WatchSeesCrash
    <3>2. CASE WatchRestarts
      BY <3>2, StartTypes DEF WatchRestarts
    <3>3. CASE WatchRestored
      BY <3>3, AttemptsAssumption DEF WatchRestored
    <3>4. CASE WatchGivesUp \/ WatchHealthy \/ WatchNotReady \/ WatchEnds
      BY <3>4 DEF WatchGivesUp, WatchHealthy, WatchNotReady, WatchEnds
    <3> QED BY <2>2, <3>1, <3>2, <3>3, <3>4 DEF WatchProceed
  <2>3. CASE ExitProceed
    <3>1. CASE ExitStops
      BY <3>1, StopTypes DEF ExitStops, CancelWaiters
    <3>2. CASE ExitCancel \/ ExitAsks \/ ExitCloseJob
      BY <3>2 DEF ExitCancel, ExitAsks, ExitCloseJob
    <3> QED BY <2>3, <3>1, <3>2 DEF ExitProceed
  <2>4. ASSUME NEW p \in Procs, WaiterReturns(p) \/ ProcServes(p) \/ ProcDies(p)
        PROVE  TypeOK'
    BY <2>4 DEF WaiterReturns, ProcServes, ProcDies
  <2>5. CASE UNCHANGED vars
    BY <2>5 DEF vars
  <2> QED BY <1>2, <2>1, <2>2, <2>3, <2>4, <2>5 DEF Next
<1> QED BY <1>1, <1>2, PTL DEF Spec

(* The inductive invariant: the tear-down goes on only when no goroutine can    *)
(* start or report a process any more, and a watchdog that has given up is    *)
(* gone (teardown, WatchWithCallback).                                       *)
THEOREM ShutdownOrderHolds == Spec => []ShutdownOrder
<1>1. Init => ShutdownOrder
  BY DEF Init, ShutdownOrder, NoProcessOutlivesTeardown
<1>2. ASSUME TypeOK, ShutdownOrder, [Next]_vars PROVE ShutdownOrder'
  <2> USE <1>2 DEF ShutdownOrder, NoProcessOutlivesTeardown, GoroutinesOver, server, watching
  <2>1. CASE BootProceed
    BY <2>1 DEF BootProceed, BootStart, BootAborts, BootReady, BootNotReady, BootWatches
  <2>2. CASE WatchProceed
    BY <2>2 DEF WatchProceed, WatchSeesCrash, WatchGivesUp, WatchRestarts, WatchHealthy,
                WatchNotReady, WatchRestored, WatchEnds, Live
  <2>3. CASE ExitProceed
    <3>1. CASE ExitCancel \/ ExitAsks
      BY <3>1 DEF ExitCancel, ExitAsks
    <3>2. CASE ExitStops
      BY <3>2 DEF ExitStops, Stop
    <3>3. CASE ExitCloseJob
      BY <3>3 DEF ExitCloseJob, Live, TypeOK
    <3> QED BY <2>3, <3>1, <3>2, <3>3 DEF ExitProceed
  <2>4. ASSUME NEW p \in Procs, WaiterReturns(p) \/ ProcServes(p) \/ ProcDies(p)
        PROVE  ShutdownOrder'
    BY <2>4 DEF WaiterReturns, ProcServes, ProcDies, Live, TypeOK
  <2>5. CASE UNCHANGED vars
    BY <2>5 DEF vars, Live
  <2> QED BY <1>2, <2>1, <2>2, <2>3, <2>4, <2>5 DEF Next
<1> QED BY <1>1, <1>2, TypeCorrect, PTL DEF Spec

(* No llama-server is alive, or started, once the tear-down has closed the job. *)
THEOREM NothingOutlivesTeardown == Spec => []NoProcessOutlivesTeardown
<1>1. ShutdownOrder => NoProcessOutlivesTeardown
  BY DEF ShutdownOrder
<1> QED BY <1>1, ShutdownOrderHolds, PTL

(* A server that was given up is never said to run again. *)
THEOREM GivenUpIsFinal == Spec => []GivenUpStaysDown
<1>1. ShutdownOrder => GivenUpStaysDown
  BY DEF ShutdownOrder, GivenUpStaysDown
<1> QED BY <1>1, ShutdownOrderHolds, PTL

(* Only a server that is ready again lowers the degradation. *)
THEOREM DegradationRises == Spec => DegradationEscalates
<1>1. ASSUME TypeOK, [Next]_vars
      PROVE  degradeLevel' < degradeLevel => watchdog = "restored"
  <2> USE <1>1 DEF server, watching
  <2>1. CASE WatchSeesCrash
    BY <2>1, DegradedRises DEF WatchSeesCrash, TypeOK
  <2>2. CASE WatchRestored
    BY <2>2 DEF WatchRestored
  <2>3. degradeLevel' = degradeLevel \/ WatchSeesCrash \/ WatchRestored
    BY DEF Next, vars, BootProceed, BootStart, BootAborts, BootReady, BootNotReady,
           BootWatches, WatchProceed, WatchGivesUp, WatchRestarts, WatchHealthy,
           WatchNotReady, WatchEnds, ExitProceed, ExitCancel, ExitAsks, ExitStops,
           ExitCloseJob, WaiterReturns, ProcServes, ProcDies
  <2>4. CASE degradeLevel' = degradeLevel
    BY <2>4 DEF TypeOK
  <2> QED BY <2>1, <2>2, <2>3, <2>4
<1>2. ASSUME TypeOK, [Next]_vars
      PROVE  [degradeLevel' < degradeLevel => watchdog = "restored"]_vars
  BY <1>1, <1>2
<1> QED BY <1>2, TypeCorrect, PTL DEF Spec, DegradationEscalates

(***************************************************************************)
(* The installation.  Two invariants carry it: whoever writes a temporary  *)
(* file is alone with it, so that the one who renames it finds all of it;  *)
(* and a download that has done its k-th task has brought what its first k *)
(* tasks are for, while a base of which only the program is there is being *)
(* unpacked.                                                               *)
(***************************************************************************)
Tasks ==
  [op : {"fetch", "fetchBase", "install", "base", "runtime"}, pkg : Packages, dir : Backends,
   onFail : {"abort", "skip", "finish", "download"}]

(* How many tasks a download has for the base, and for the vendor's runtime. *)
BaseTasks(b)   == IF b \in Modular THEN 2 ELSE 0
CudartTasks(b) == IF b \in NeedsCudart THEN 1 ELSE 0

(* A sequence, continued: it keeps its places, and the new ones follow.    *)
LEMMA Continued ==
  ASSUME NEW s \in Seq(Tasks), NEW t \in Seq(Tasks)
  PROVE  /\ s \o t \in Seq(Tasks) /\ Len(s \o t) = Len(s) + Len(t)
         /\ \A i \in 1..Len(s) : i \in 1..Len(s \o t) /\ (s \o t)[i] = s[i]
         /\ Len(t) # 0 => (s \o t)[Len(s) + 1] = t[1]
<1>1. Len(s) \in Nat /\ Len(t) \in Nat
  OBVIOUS
<1>2. QED BY <1>1, ConcatProperties, Zenon, SMT

(* The parts of a download are sequences of tasks.                         *)
LEMMA PartsAreTasks ==
  ASSUME NEW b \in Backends
  PROVE  /\ BasePlan(b) \in Seq(Tasks) /\ Len(BasePlan(b)) = BaseTasks(b)
         /\ FallbackPlan(b) \in Seq(Tasks) /\ Len(FallbackPlan(b)) \in Nat
         /\ b \notin NeedsCudart => Len(FallbackPlan(b)) = 0
         /\ <<Task("fetch", b, b, "abort")>> \in Seq(Tasks)
         /\ <<Task("install", b, b, "abort")>> \in Seq(Tasks)
         /\ If(b \in NeedsCudart, <<Task("fetch", Cudart, b, "abort")>>) \in Seq(Tasks)
         /\ If(b \in NeedsCudart, <<Task("runtime", Cudart, b, "skip")>>) \in Seq(Tasks)
<1>1. /\ Task("fetch", b, b, "abort") \in Tasks /\ Task("install", b, b, "abort") \in Tasks
      /\ Task("runtime", Cudart, b, "skip") \in Tasks
      /\ Task("fetch", Cudart, b, "abort") \in Tasks
  BY DEF Task, Tasks, Packages
<1>2. Task("fetchBase", Cpu, b, "abort") \in Tasks /\ Task("base", Cpu, b, "abort") \in Tasks
  BY BackendInstallAssumption DEF Task, Tasks, Packages
<1>3. FallbackPlan(b) \in Seq(Tasks) /\ (b \notin NeedsCudart => Len(FallbackPlan(b)) = 0)
  <2>1. CASE Vulkan \in Backends
    <3>1. /\ Task("base", Cpu, Vulkan, "finish") \in Tasks
          /\ Task("fetch", Vulkan, Vulkan, "finish") \in Tasks
          /\ Task("install", Vulkan, Vulkan, "finish") \in Tasks
      BY <2>1, BackendInstallAssumption DEF Task, Tasks, Packages
    <3>2. QED BY <3>1 DEF FallbackPlan, If
  <2>2. CASE Vulkan \notin Backends
    BY <2>2 DEF FallbackPlan, If
  <2>3. QED BY <2>1, <2>2
<1>4. BasePlan(b) \in Seq(Tasks) /\ Len(BasePlan(b)) = BaseTasks(b)
  BY <1>2 DEF BasePlan, If, BaseTasks
<1>5. QED BY <1>1, <1>3, <1>4 DEF If

(* The tasks of a download, by their places; what follows is the fallback. *)
LEMMA DownloadTasks ==
  ASSUME NEW b \in Backends
  PROVE  LET P == DownloadPlan(b)
             m == BaseTasks(b)
             c == CudartTasks(b)
         IN  /\ P \in Seq(Tasks) /\ Len(P) \in Nat /\ Len(P) >= m + 2 + 2 * c
             /\ c = 0 => Len(P) = m + 2
             /\ b \in Modular => /\ P[1] = Task("fetchBase", Cpu, b, "abort")
                                 /\ P[2] = Task("base", Cpu, b, "abort")
             /\ P[m + 1] = Task("fetch", b, b, "abort")
             /\ c = 1 => P[m + 2] = Task("fetch", Cudart, b, "abort")
             /\ P[m + 2 + c] = Task("install", b, b, "abort")
             /\ c = 1 => P[m + 3 + c] = Task("runtime", Cudart, b, "skip")
<1> DEFINE m == BaseTasks(b)
           c == CudartTasks(b)
           f == If(b \in NeedsCudart, <<Task("fetch", Cudart, b, "abort")>>)
           r == If(b \in NeedsCudart, <<Task("runtime", Cudart, b, "skip")>>)
           s == <<Task("fetch", b, b, "abort")>>
           i == <<Task("install", b, b, "abort")>>
           B == BasePlan(b)
           L == FallbackPlan(b)
           P1 == B \o s
           P2 == P1 \o f
           P3 == P2 \o i
           P4 == P3 \o r
           P5 == P4 \o L
<1>1. DownloadPlan(b) = P5
  BY DEF DownloadPlan
<1>2. /\ m \in {0, 2} /\ c \in {0, 1} /\ m \in Nat /\ c \in Nat
      /\ Len(s) = 1 /\ Len(i) = 1 /\ Len(f) = c /\ Len(r) = c
      /\ s[1] = Task("fetch", b, b, "abort") /\ i[1] = Task("install", b, b, "abort")
      /\ c = 1 => /\ f[1] = Task("fetch", Cudart, b, "abort")
                  /\ r[1] = Task("runtime", Cudart, b, "skip")
  BY DEF BaseTasks, CudartTasks, If
<1>3. b \in Modular => /\ m = 2 /\ B[1] = Task("fetchBase", Cpu, b, "abort")
                       /\ B[2] = Task("base", Cpu, b, "abort")
  BY DEF BaseTasks, BasePlan, If
<1>4. /\ B \in Seq(Tasks) /\ Len(B) = m /\ L \in Seq(Tasks) /\ Len(L) \in Nat
      /\ c = 0 => Len(L) = 0
      /\ s \in Seq(Tasks) /\ i \in Seq(Tasks) /\ f \in Seq(Tasks) /\ r \in Seq(Tasks)
  BY PartsAreTasks DEF CudartTasks
<1> HIDE DEF m, c, f, r, s, i, B, L
<1>5. /\ P1 \in Seq(Tasks) /\ Len(P1) = m + 1 /\ P1[m + 1] = s[1]
      /\ \A k \in 1..m : P1[k] = B[k]
  <2>1. /\ P1 \in Seq(Tasks) /\ Len(P1) = Len(B) + Len(s)
        /\ \A k \in 1..Len(B) : P1[k] = B[k]
        /\ Len(s) # 0 => P1[Len(B) + 1] = s[1]
    BY <1>4, Continued
  <2>2. QED BY <2>1, <1>2, <1>4
<1> HIDE DEF P1
<1>6. /\ P2 \in Seq(Tasks) /\ Len(P2) = m + 1 + c /\ (c = 1 => P2[m + 2] = f[1])
      /\ \A k \in 1..(m + 1) : P2[k] = P1[k]
  <2>0. P1 \in Seq(Tasks) /\ f \in Seq(Tasks)
    BY <1>4, <1>5
  <2>1. /\ P2 \in Seq(Tasks) /\ Len(P2) = Len(P1) + Len(f)
        /\ \A k \in 1..Len(P1) : P2[k] = P1[k]
        /\ Len(f) # 0 => P2[Len(P1) + 1] = f[1]
    BY <2>0, Continued
  <2> HIDE DEF P2
  <2>2. CASE c = 0
    BY <2>1, <2>2, <1>2, <1>4, <1>5
  <2>3. CASE c = 1
    BY <2>1, <2>3, <1>2, <1>4, <1>5
  <2>4. QED BY <2>2, <2>3, <1>2
<1> HIDE DEF P2
<1>7. /\ P3 \in Seq(Tasks) /\ Len(P3) = m + 2 + c /\ P3[m + 2 + c] = i[1]
      /\ \A k \in 1..(m + 1 + c) : P3[k] = P2[k]
  <2>0. P2 \in Seq(Tasks) /\ i \in Seq(Tasks)
    BY <1>4, <1>6
  <2>1. /\ P3 \in Seq(Tasks) /\ Len(P3) = Len(P2) + Len(i)
        /\ \A k \in 1..Len(P2) : P3[k] = P2[k]
        /\ Len(i) # 0 => P3[Len(P2) + 1] = i[1]
    BY <2>0, Continued
  <2> HIDE DEF P3
  <2>2. CASE c = 0
    BY <2>1, <2>2, <1>2, <1>4, <1>6
  <2>3. CASE c = 1
    BY <2>1, <2>3, <1>2, <1>4, <1>6
  <2>4. QED BY <2>2, <2>3, <1>2
<1> HIDE DEF P3
<1>8. /\ P4 \in Seq(Tasks) /\ Len(P4) = m + 2 + 2 * c /\ (c = 1 => P4[m + 3 + c] = r[1])
      /\ \A k \in 1..(m + 2 + c) : P4[k] = P3[k]
  <2>0. P3 \in Seq(Tasks) /\ r \in Seq(Tasks)
    BY <1>4, <1>7
  <2>1. /\ P4 \in Seq(Tasks) /\ Len(P4) = Len(P3) + Len(r)
        /\ \A k \in 1..Len(P3) : P4[k] = P3[k]
        /\ Len(r) # 0 => P4[Len(P3) + 1] = r[1]
    BY <2>0, Continued
  <2> HIDE DEF P4
  <2>2. CASE c = 0
    BY <2>1, <2>2, <1>2, <1>4, <1>7
  <2>3. CASE c = 1
    BY <2>1, <2>3, <1>2, <1>4, <1>7
  <2>4. QED BY <2>2, <2>3, <1>2
<1> HIDE DEF P4
<1>9. /\ P5 \in Seq(Tasks) /\ Len(P5) = m + 2 + 2 * c + Len(L)
      /\ \A k \in 1..(m + 2 + 2 * c) : P5[k] = P4[k]
  <2>0. P4 \in Seq(Tasks) /\ L \in Seq(Tasks)
    BY <1>4, <1>8
  <2>1. /\ P5 \in Seq(Tasks) /\ Len(P5) = Len(P4) + Len(L)
        /\ \A k \in 1..Len(P4) : P5[k] = P4[k]
        /\ Len(L) # 0 => P5[Len(P4) + 1] = L[1]
    BY <2>0, Continued
  <2> HIDE DEF P5
  <2>2. CASE c = 0
    BY <2>1, <2>2, <1>2, <1>4, <1>8
  <2>3. CASE c = 1
    BY <2>1, <2>3, <1>2, <1>4, <1>8
  <2>4. QED BY <2>2, <2>3, <1>2
<1> HIDE DEF P5
<1>10. b \in Modular => P5[1] = B[1] /\ P5[2] = B[2]
  BY <1>2, <1>3, <1>5, <1>6, <1>7, <1>8, <1>9
<1>11. P5[m + 1] = s[1] /\ (c = 1 => P5[m + 2] = f[1])
  <2>1. CASE c = 0
    BY <2>1, <1>2, <1>5, <1>6, <1>7, <1>8, <1>9
  <2>2. CASE c = 1
    BY <2>2, <1>2, <1>5, <1>6, <1>7, <1>8, <1>9
  <2>3. QED BY <2>1, <2>2, <1>2
<1>12. P5[m + 2 + c] = i[1] /\ (c = 1 => P5[m + 3 + c] = r[1])
  <2>1. CASE c = 0
    BY <2>1, <1>2, <1>7, <1>8, <1>9
  <2>2. CASE c = 1
    BY <2>2, <1>2, <1>7, <1>8, <1>9
  <2>3. QED BY <2>1, <2>2, <1>2
<1>13. Len(P5) \in Nat /\ Len(P5) >= m + 2 + 2 * c /\ (c = 0 => Len(P5) = m + 2)
  BY <1>2, <1>4, <1>9
<1>14. QED BY <1>1, <1>2, <1>3, <1>9, <1>10, <1>11, <1>12, <1>13 DEF m, c

(* A plan is a sequence of tasks, and not an empty one.                    *)
LEMMA PlansAreTasks ==
  ASSUME NEW j \in Jobs
  PROVE  Plan(j) \in Seq(Tasks) /\ Len(Plan(j)) \in Nat \ {0}
         /\ (j.kind \notin {"start", "download"} => Len(Plan(j)) = 2)
         /\ (j.kind = "start" => Len(Plan(j)) \in {1, 2})
<1> DEFINE b == j.backend
<1>1. b \in Backends
  BY DEF Jobs
<1> HIDE DEF b
<1>2. DownloadPlan(b) \in Seq(Tasks) /\ Len(DownloadPlan(b)) \in Nat \ {0}
  BY <1>1, DownloadTasks DEF BaseTasks, CudartTasks
<1>3. /\ Task("install", b, b, "download") \in Tasks /\ Task("fetch", b, b, "abort") \in Tasks
      /\ Task("install", b, b, "abort") \in Tasks /\ Task("runtime", Cudart, b, "skip") \in Tasks
  BY <1>1 DEF Task, Tasks, Packages
<1>4. StartPlan(b) \in Seq(Tasks) /\ Len(StartPlan(b)) \in {1, 2}
  BY <1>3 DEF StartPlan, If
<1>5. ButtonPlan(b) \in Seq(Tasks) /\ Len(ButtonPlan(b)) = 2
  BY <1>3 DEF ButtonPlan
<1>6. CASE j.kind = "start"
  <2>1. Plan(j) = StartPlan(b)
    BY <1>6 DEF Plan, b
  <2>2. Len(StartPlan(b)) \in Nat \ {0}
    BY <1>4
  <2>3. ~(j.kind \notin {"start", "download"})
    BY <1>6
  <2>4. QED BY <2>1, <2>2, <2>3, <1>4, <1>6
<1>7. CASE j.kind = "download"
  BY <1>2, <1>7 DEF Plan, b
<1>8. CASE j.kind \notin {"start", "download"}
  BY <1>5, <1>8 DEF Plan, b
<1>9. QED BY <1>6, <1>7, <1>8

-----------------------------------------------------------------------------
(* Jobs: what a goroutine may be doing, and what its next job may be.      *)

FetchOps   == {"fetch", "fetchBase"}
QuietPhases == {"ask"} \union EndPhases   \* of a job that touches no file

(* The task of a job; Now(t) is that of a goroutine's.                     *)
Current(j) == Plan(j)[j.task]

KindsOf(t) ==
  IF t = "boot" THEN {"idle", "start", "download", "ready"} ELSE {"idle", "button"}

(* A job that goroutine t may have: the downloads and starts are boot's,   *)
(* archives are fetched in tasks that fetch and unpacked in the others,    *)
(* and the end of a download, not of another job, restarts the process.    *)
Sound(t, j) ==
  /\ j \in Jobs /\ j.task \in 1..Len(Plan(j))
  /\ j.kind \in KindsOf(t)
  /\ j.phase \in FetchPhases => Current(j).op \in FetchOps
  /\ j.phase \in UnpackPhases => Current(j).op \notin FetchOps
  /\ j.phase = "restart" => j.kind = "download"
  /\ j.phase = "decide" => j.kind \in {"start", "ready"}
  /\ j.kind \in {"idle", "ready"} => j.phase \in {"ask", "decide"}

(* The task of a sound job is a task, whatever its place.                  *)
LEMMA CurrentIsTask ==
  ASSUME NEW t, NEW j, Sound(t, j)
  PROVE  Current(j) \in Tasks
BY PlansAreTasks DEF Sound, Current

(* A plan depends on a job's kind and backend only.                        *)
LEMMA SamePlan ==
  ASSUME NEW j, NEW k, j.kind = k.kind, j.backend = k.backend
  PROVE  Plan(j) = Plan(k)
BY DEF Plan

(* A job that has just been begun.                                         *)
LEMMA NewJobIsSound ==
  ASSUME NEW t \in Threads, NEW b \in Backends, NEW n \in 1..Attempts,
         NEW kind \in KindsOf(t) \ {"ready"}
  PROVE  LET j == NewJob(kind, b, n)
         IN  Sound(t, j) /\ j.phase = "ask" /\ j.kind = kind /\ j.backend = b /\ j.task = 1
<1> DEFINE j == NewJob(kind, b, n)
<1>1. kind \in {"idle", "start", "download", "button"} /\ kind \in KindsOf(t)
  BY DEF KindsOf
<1>2. /\ j \in Jobs /\ j.kind = kind /\ j.backend = b /\ j.phase = "ask" /\ j.task = 1
  BY <1>1 DEF NewJob, JobAt, Jobs, Sources
<1>3. 1 \in 1..Len(Plan(j))
  BY <1>2, PlansAreTasks
<1> HIDE DEF j
<1>4. Sound(t, j)
  BY <1>1, <1>2, <1>3 DEF Sound, FetchPhases, UnpackPhases
<1>5. QED BY <1>2, <1>4 DEF j

(* A goroutine that has nothing to do.                                     *)
LEMMA IdleIsSound ==
  ASSUME NEW t \in Threads
  PROVE  Sound(t, Idle) /\ Idle.phase = "ask" /\ Idle.kind = "idle"
BY NewJobIsSound, BackendInstallAssumption DEF Idle, KindsOf

(* The job at work stays sound when it goes on in the same task.           *)
LEMMA InTaskIsSound ==
  ASSUME NEW t \in Threads, NEW j, Sound(t, j), j.kind \in {"start", "download", "button"},
         NEW k \in Jobs, k.kind = j.kind, k.backend = j.backend, k.task = j.task,
         \/ k.phase \in FetchPhases /\ Current(j).op \in FetchOps
         \/ k.phase \in UnpackPhases /\ Current(j).op \notin FetchOps
         \/ k.phase \in {"missing", "over"}
  PROVE  Sound(t, k) /\ Current(k) = Current(j)
<1>1. Plan(k) = Plan(j)
  BY SamePlan
<1>2. QED BY <1>1 DEF Sound, Current, FetchPhases, UnpackPhases

(* A job that is finished before or after its last task: a download goes   *)
(* on to the restart.                                                      *)
LEMMA FinishedIsSound ==
  ASSUME NEW t \in Threads, NEW j, Sound(t, j), j.kind \in {"start", "download", "button"}
  PROVE  /\ Sound(t, Finished(j)) /\ Finished(j).phase \in {"decide", "restart", "over"}
         /\ Finished(j).kind = j.kind /\ Finished(j).backend = j.backend
         /\ Finished(j).task = j.task
         /\ j.kind = "download" => Finished(j).phase = "restart"
<1> DEFINE k == Finished(j)
<1>1. /\ k \in Jobs /\ k.kind = j.kind /\ k.backend = j.backend /\ k.task = j.task
      /\ k.phase \in {"decide", "restart", "over"}
      /\ (k.phase = "restart" <=> j.kind = "download")
      /\ (k.phase = "decide" => j.kind = "start")
  BY DEF Finished, Sound, Jobs, EndPhases
<1> HIDE DEF k
<1>2. Plan(k) = Plan(j)
  BY <1>1, SamePlan
<1>3. QED BY <1>1, <1>2 DEF Sound, Current, FetchPhases, UnpackPhases, k

(* The job after a task: in the next one, or finished.                     *)
LEMMA AdvancedIsSound ==
  ASSUME NEW t \in Threads, NEW j, Sound(t, j), j.kind \in {"start", "download", "button"}
  PROVE  LET k == Advanced(j)
         IN  /\ Sound(t, k) /\ k.phase \in QuietPhases
             /\ k.kind = j.kind /\ k.backend = j.backend
             /\ \/ j.task # Len(Plan(j)) /\ k.phase = "ask" /\ k.task = j.task + 1
                \/ /\ k.task = j.task /\ k.phase # "ask"
                   /\ j.kind = "download" => k.phase = "restart"
<1>1. CASE j.task = Len(Plan(j))
  BY <1>1, FinishedIsSound DEF Advanced, QuietPhases, EndPhases
<1>2. CASE j.task # Len(Plan(j))
  <2> DEFINE k == JobAt(j.kind, j.backend, j.task + 1, j.attempt)
  <2>1. Advanced(j) = k
    BY <1>2 DEF Advanced
  <2>2. /\ k \in Jobs /\ k.kind = j.kind /\ k.backend = j.backend /\ k.task = j.task + 1
        /\ k.phase = "ask"
    <3>1. j \in Jobs /\ j.task + 1 \in Nat \ {0}
      BY DEF Sound, Jobs
    <3>2. QED BY <3>1 DEF JobAt, Jobs, Sources
  <2> HIDE DEF k
  <2>3. Plan(k) = Plan(j)
    BY <2>2, SamePlan
  <2>4. Len(Plan(j)) \in Nat /\ j.task \in 1..Len(Plan(j)) /\ j \in Jobs
    BY PlansAreTasks DEF Sound
  <2>5. k.task \in 1..Len(Plan(k))
    BY <1>2, <2>2, <2>3, <2>4
  <2>6. Sound(t, k)
    BY <2>2, <2>5 DEF Sound, FetchPhases, UnpackPhases
  <2>7. QED BY <2>1, <2>2, <2>6, <1>2 DEF QuietPhases
<1>3. QED BY <1>1, <1>2

(* The job after a task without which the rest is moot: from its first     *)
(* task again, or over.                                                    *)
LEMMA AbortedIsSound ==
  ASSUME NEW t \in Threads, NEW j, Sound(t, j), j.kind \in {"start", "download", "button"}
  PROVE  LET k == Aborted(j)
         IN  /\ Sound(t, k) /\ k.phase \in {"ask", "over"}
             /\ k.phase = "ask" => k.task = 1
             /\ k.phase = "over" => k.task = j.task
             /\ k.kind = j.kind /\ k.backend = j.backend
<1>0. j \in Jobs /\ j.backend \in Backends /\ j.attempt \in 1..Attempts /\ Attempts \in Nat
  BY BackendInstallAssumption DEF Sound, Jobs
<1>1. CASE j.kind = "download" /\ j.attempt < Attempts
  <2>1. Aborted(j) = NewJob("download", j.backend, j.attempt + 1)
    BY <1>1 DEF Aborted
  <2>2. j.attempt + 1 \in 1..Attempts
    BY <1>0, <1>1
  <2>3. t = "boot"
    BY <1>1 DEF Sound, KindsOf
  <2>4. QED BY <1>0, <1>1, <2>1, <2>2, <2>3, NewJobIsSound DEF KindsOf
<1>2. CASE ~(j.kind = "download" /\ j.attempt < Attempts)
  <2> DEFINE k == [j EXCEPT !.phase = "over"]
  <2>1. Aborted(j) = k
    BY <1>2 DEF Aborted
  <2>2. /\ k \in Jobs /\ k.kind = j.kind /\ k.backend = j.backend /\ k.task = j.task
        /\ k.phase = "over"
    BY <1>0 DEF Jobs, EndPhases
  <2> HIDE DEF k
  <2>3. Sound(t, k)
    BY <2>2, InTaskIsSound
  <2>4. QED BY <2>1, <2>2, <2>3
<1>3. QED BY <1>1, <1>2

-----------------------------------------------------------------------------
(* Types, and the soundness of all jobs: what the other invariants rest on. *)

Sane ==
  /\ wanted \in Backends /\ up \in BOOLEAN
  /\ faults \in 0..MaxFaults /\ presses \in 0..MaxPresses
  /\ zip \in [Packages -> Halves] /\ tmp \in [Packages -> Halves]
  /\ dir \in [Backends -> [Files -> {"none", "torn", "bad", "whole"}]]
  /\ job \in [Threads -> Jobs] /\ \A t \in Threads : Sound(t, job[t])
  /\ ~up => job = [t \in Threads |-> Idle]
  /\ spoiled \subseteq Backends /\ mixed \subseteq Packages

(* Soundness is more than the types.                                       *)
LEMMA SaneIsTyped == Sane => InstallTypeOK
BY DEF Sane, InstallTypeOK, Sound

(* What a goroutine that is at work works on.                              *)
LEMMA AtWork ==
  ASSUME Sane, NEW t \in Threads, NEW ph, At(t, ph)
  PROVE  /\ Sound(t, job[t]) /\ job[t] \in Jobs
         /\ job[t].kind \in {"start", "download", "button"}
         /\ job[t].phase = ph /\ up /\ Now(t) = Current(job[t]) /\ Now(t) \in Tasks
         /\ Now(t).pkg \in Packages /\ Now(t).dir \in Backends
<1>1. Sound(t, job[t]) /\ job[t] \in Jobs
  BY DEF Sane
<1>2. Now(t) = Current(job[t])
  BY DEF Now, Current
<1>3. Now(t) \in Tasks
  BY <1>1, <1>2, CurrentIsTask
<1>4. QED BY <1>1, <1>2, <1>3 DEF At, Tasks

(* A task that has failed leaves a sound job, at no file.                  *)
LEMMA FailureIsSound ==
  ASSUME Sane, NEW t \in Threads, NEW ph, At(t, ph)
  PROVE  LET k == AfterFailure(t)
         IN  /\ Sound(t, k) /\ k.phase \in QuietPhases
<1> DEFINE j == job[t]
<1>1. /\ Sound(t, j) /\ j \in Jobs /\ j.kind \in {"start", "download", "button"}
      /\ Now(t) = Current(j)
  BY AtWork
<1>2. CASE Now(t).onFail = "abort"
  BY <1>1, <1>2, AbortedIsSound DEF AfterFailure, QuietPhases, EndPhases
<1>3. CASE Now(t).onFail = "finish"
  BY <1>1, <1>3, FinishedIsSound DEF AfterFailure, QuietPhases, EndPhases
<1>4. CASE Now(t).onFail = "download"
  <2>1. t = "boot"
    <3>1. SUFFICES ASSUME t # "boot" PROVE FALSE
      OBVIOUS
    <3>2. j.kind = "button"
      BY <3>1, <1>1 DEF Sound, KindsOf
    <3>3. Plan(j) = ButtonPlan(j.backend)
      BY <3>2 DEF Plan
    <3>4. j.task \in 1..Len(Plan(j))
      BY <1>1 DEF Sound
    <3>5. j.task \in {1, 2} /\ Current(j) = ButtonPlan(j.backend)[j.task]
      BY <3>3, <3>4 DEF ButtonPlan, Current
    <3>6. Current(j).onFail = "abort"
      BY <3>5 DEF ButtonPlan, Task
    <3>7. QED BY <3>6, <1>1, <1>4
  <2>2. CASE j.backend \in SilentFallback
    <3>1. AfterFailure(t) = NewJob("start", Cpu, 1)
      BY <1>4, <2>2 DEF AfterFailure
    <3>2. Cpu \in Backends /\ 1 \in 1..Attempts
      BY BackendInstallAssumption
    <3>3. QED BY <3>1, <3>2, <2>1, NewJobIsSound DEF KindsOf, QuietPhases
  <2>3. CASE j.backend \notin SilentFallback
    <3> DEFINE k == [j EXCEPT !.phase = "missing"]
    <3>1. AfterFailure(t) = k
      BY <1>4, <2>3 DEF AfterFailure
    <3>2. /\ k \in Jobs /\ k.kind = j.kind /\ k.backend = j.backend /\ k.task = j.task
          /\ k.phase = "missing"
      BY <1>1 DEF Jobs, EndPhases
    <3> HIDE DEF k
    <3>3. QED BY <3>1, <3>2, <1>1, InTaskIsSound DEF QuietPhases, EndPhases
  <2>4. QED BY <2>2, <2>3
<1>5. CASE Now(t).onFail \notin {"abort", "finish", "download"}
  <2>1. AfterFailure(t) = Advanced(j)
    BY <1>5 DEF AfterFailure
  <2>2. QED BY <2>1, <1>1, AdvancedIsSound
<1>6. QED BY <1>2, <1>3, <1>4, <1>5

(* After an archive's source has failed.                                   *)
LEMMA NextSourceIsSound ==
  ASSUME Sane, NEW t \in Threads, NEW ph \in FetchPhases, At(t, ph), NextSource(t)
  PROVE  \E k : /\ Goes(t, k) /\ Sound(t, k)
                /\ \/ k.phase \in QuietPhases /\ TaskFails(t)
                   \/ /\ k.phase = "open" /\ k.kind = job[t].kind /\ k.backend = job[t].backend
                      /\ k.task = job[t].task
<1> DEFINE j == job[t]
<1>1. /\ Sound(t, j) /\ j \in Jobs /\ j.kind \in {"start", "download", "button"}
      /\ Current(j).op \in FetchOps
  BY AtWork DEF Sound
<1>2. CASE j.source < Sources
  <2> DEFINE k == [j EXCEPT !.phase = "open", !.source = @ + 1]
  <2>1. Goes(t, k)
    BY <1>2 DEF NextSource
  <2>2. j.source + 1 \in 1..Sources
    BY <1>1, <1>2 DEF Jobs, Sources
  <2>3. /\ k \in Jobs /\ k.kind = j.kind /\ k.backend = j.backend /\ k.task = j.task
        /\ k.phase = "open"
    BY <1>1, <2>2 DEF Jobs, FetchPhases
  <2> HIDE DEF k
  <2>4. Sound(t, k)
    BY <1>1, <2>3, InTaskIsSound DEF FetchPhases
  <2>5. QED BY <2>1, <2>3, <2>4
<1>3. CASE ~(j.source < Sources)
  <2>1. TaskFails(t)
    BY <1>3 DEF NextSource
  <2>2. QED BY <2>1, FailureIsSound DEF TaskFails
<1>4. QED BY <1>2, <1>3

(* A job that stays in its task.                                           *)
LEMMA PhaseIsSound ==
  ASSUME Sane, NEW t \in Threads, NEW ph, At(t, ph), NEW new,
         \/ new \in FetchPhases /\ Fetching(t)
         \/ new \in UnpackPhases /\ ~Fetching(t)
  PROVE  LET k == [job[t] EXCEPT !.phase = new]
         IN  /\ Sound(t, k) /\ k.phase = new /\ Current(k) = Now(t) /\ k.task = job[t].task
             /\ k.kind = job[t].kind /\ k.backend = job[t].backend /\ k.next = job[t].next
<1> DEFINE j == job[t]
           k == [j EXCEPT !.phase = new]
<1>1. /\ Sound(t, j) /\ j \in Jobs /\ j.kind \in {"start", "download", "button"}
      /\ Now(t) = Current(j)
  BY AtWork
<1>2. /\ k \in Jobs /\ k.kind = j.kind /\ k.backend = j.backend /\ k.task = j.task
      /\ k.phase = new /\ k.next = j.next
  BY <1>1 DEF Jobs
<1> HIDE DEF k
<1>3. \/ k.phase \in FetchPhases /\ Current(j).op \in FetchOps
      \/ k.phase \in UnpackPhases /\ Current(j).op \notin FetchOps
  BY <1>1, <1>2 DEF Fetching, FetchOps
<1>4. Sound(t, k) /\ Current(k) = Current(j)
  BY <1>1, <1>2, <1>3, InTaskIsSound
<1>5. QED BY <1>1, <1>2, <1>4 DEF k

(* The types of what a step may change, but for the jobs.                  *)
Typed ==
  /\ wanted \in Backends /\ faults \in 0..MaxFaults /\ presses \in 0..MaxPresses
  /\ zip \in [Packages -> Halves] /\ tmp \in [Packages -> Halves]
  /\ dir \in [Backends -> [Files -> {"none", "torn", "bad", "whole"}]]
  /\ spoiled \subseteq Backends /\ mixed \subseteq Packages

(* One goroutine takes up another sound job.                               *)
LEMMA OneMoves ==
  ASSUME Sane, up, up' = up, Typed', NEW t \in Threads, NEW k, Goes(t, k), Sound(t, k)
  PROVE  Sane' /\ job'[t] = k /\ \A u \in Threads \ {t} : job'[u] = job[u]
<1>1. k \in Jobs /\ job \in [Threads -> Jobs]
  BY DEF Sane, Sound
<1>2. job' = [job EXCEPT ![t] = k]
  BY DEF Goes
<1>3. job' \in [Threads -> Jobs] /\ job'[t] = k /\ \A u \in Threads \ {t} : job'[u] = job[u]
  BY <1>1, <1>2
<1>4. \A u \in Threads : Sound(u, job'[u])
  BY <1>3 DEF Sane
<1>5. up \in BOOLEAN
  BY DEF Sane
<1>6. QED BY <1>3, <1>4, <1>5 DEF Sane, Typed

(* The bound on the failures is kept.                                      *)
LEMMA FaultTypes ==
  ASSUME Sane, Fault \/ NoFault
  PROVE  faults' \in 0..MaxFaults
BY BackendInstallAssumption DEF Sane, Fault, NoFault

(* A temporary file that is being written is there.                        *)
Held == \A t \in Threads, p \in Packages : HoldsTmp(t, p) => tmp[p] # NoZip

(* No archive is not an archive without halves.                            *)
LEMMA HalvesAre == /\ NoZip \in Halves /\ {} \in Halves
                   /\ \A h \in Halves : h = NoZip \/ h \subseteq {1, 2}
                   /\ \A h : h \subseteq {1, 2} => h \in Halves /\ h # NoZip
BY BackendInstallAssumption DEF Halves

-----------------------------------------------------------------------------
(* What a step of goroutine t, whose next job is k, does to the archives   *)
(* and to the temporary files.                                             *)

(* It leaves the temporary files alone, and may drop an archive.           *)
Quiet(t, k) ==
  /\ k.phase \notin {"first", "second", "rename"} /\ job[t].phase \notin {"first", "second"}
  /\ tmp' = tmp /\ mixed' = mixed
  /\ \A p \in Packages : zip'[p] \in {zip[p], NoZip}

(* It removes what it has written, or what was left of an earlier attempt. *)
Removes(t, k) ==
  /\ k.phase \notin {"first", "second", "rename"}
  /\ tmp' = Removed(t, Now(t).pkg) /\ zip' = zip /\ mixed' = mixed

(* It opens the temporary file and truncates it.                           *)
Opens(t, k) ==
  /\ job[t].phase = "open" /\ Current(k) = Now(t)
  /\ tmp' = [tmp EXCEPT ![Now(t).pkg] = {}] /\ zip' = zip
  /\ \/ /\ k.phase = "first"
        /\ mixed' = IF OthersHold(t, Now(t).pkg) THEN mixed \union {Now(t).pkg} ELSE mixed
     \/ k.phase = "rename" /\ mixed' = mixed \union {Now(t).pkg}

(* It writes one half.                                                     *)
Writes(t, k) ==
  /\ Current(k) = Now(t) /\ zip' = zip /\ mixed' = mixed
  /\ \/ /\ job[t].phase = "first" /\ k.phase = "second"
        /\ tmp' = [tmp EXCEPT ![Now(t).pkg] = @ \union {1}]
     \/ /\ job[t].phase = "second" /\ k.phase = "rename"
        /\ tmp' = [tmp EXCEPT ![Now(t).pkg] = @ \union {2}]

(* It gives the temporary file its final name.                             *)
Renames(t, k) ==
  /\ job[t].phase = "rename" /\ k.phase \in QuietPhases /\ mixed' = mixed
  /\ LET p == Now(t).pkg IN
       /\ ~OthersHold(t, p) /\ tmp[p] # NoZip
       /\ zip' = [zip EXCEPT ![p] = tmp[p]] /\ tmp' = [tmp EXCEPT ![p] = NoZip]

Moves(t, k) ==
  /\ Goes(t, k) /\ Sound(t, k)
  /\ Quiet(t, k) \/ Removes(t, k) \/ Opens(t, k) \/ Writes(t, k) \/ Renames(t, k)

(* The temporary file stays, or is none.                                   *)
LEMMA RemovedTypes ==
  ASSUME Sane, NEW t \in Threads, NEW p \in Packages
  PROVE  Removed(t, p) \in [Packages -> Halves]
BY HalvesAre DEF Sane, Removed

(* An archive that could not be unpacked is there or is gone.              *)
LEMMA DroppedTypes ==
  ASSUME Sane, NEW t \in Threads, NEW p \in Packages
  PROVE  /\ Dropped(t, p) \in [Packages -> Halves]
         /\ \A q \in Packages : Dropped(t, p)[q] \in {zip[q], NoZip}
BY HalvesAre DEF Sane, Dropped

(* A step that touches nothing but one job.                                *)
LEMMA TouchesNothing ==
  ASSUME Sane, NEW t \in Threads, NEW ph, At(t, ph), ph \notin {"first", "second"},
         Fault \/ NoFault, UNCHANGED <<wanted, presses, zip, tmp, dir, up, spoiled, mixed>>,
         NEW k, Goes(t, k), Sound(t, k), k.phase \notin {"first", "second", "rename"}
  PROVE  Moves(t, k) /\ Sane'
<1>1. job[t].phase \notin {"first", "second"} /\ up
  BY AtWork
<1>2. Quiet(t, k)
  BY <1>1 DEF Quiet
<1>3. Typed'
  BY FaultTypes DEF Sane, Typed
<1>4. Sane'
  BY <1>1, <1>3, OneMoves
<1>5. QED BY <1>2, <1>4 DEF Moves

(* A step of a download moves one goroutine to a sound job, in one of      *)
(* the five ways.                                                          *)
LEMMA FetchSteps ==
  ASSUME Sane, Held, NEW t \in Threads,
         \/ LookupFails(t) \/ FetchAsk(t) \/ FetchOpen(t) \/ FetchWrite(t) \/ FetchFails(t)
         \/ FetchRename(t)
  PROVE  Sane' /\ \E k : Moves(t, k)
<1> DEFINE j == job[t]
           p == Now(t).pkg
<1>0. /\ zip \in [Packages -> Halves] /\ tmp \in [Packages -> Halves]
      /\ wanted \in Backends /\ presses \in 0..MaxPresses
      /\ dir \in [Backends -> [Files -> {"none", "torn", "bad", "whole"}]]
      /\ spoiled \subseteq Backends /\ mixed \subseteq Packages
  BY DEF Sane
<1>1. CASE LookupFails(t)
  <2>1. At(t, "ask") /\ Fault /\ Goes(t, AfterFailure(t))
    BY <1>1 DEF LookupFails, TaskFails
  <2>2. /\ Sound(t, AfterFailure(t))
        /\ AfterFailure(t).phase \notin {"first", "second", "rename"}
    BY <2>1, FailureIsSound DEF QuietPhases, EndPhases
  <2>3. QED BY <1>1, <2>1, <2>2, TouchesNothing DEF LookupFails
<1>2. CASE FetchAsk(t)
  <2>1. At(t, "ask") /\ NoFault /\ Fetching(t)
    BY <1>2 DEF FetchAsk
  <2>2. CASE TaskDone(t) /\ UNCHANGED tmp
    <3>1. Goes(t, Advanced(j))
      BY <2>2 DEF TaskDone
    <3>2. Sound(t, Advanced(j)) /\ Advanced(j).phase \notin {"first", "second", "rename"}
      BY <2>1, AtWork, AdvancedIsSound DEF QuietPhases, EndPhases
    <3>3. QED BY <1>2, <2>1, <2>2, <3>1, <3>2, TouchesNothing DEF FetchAsk
  <2>3. CASE To(t, "open") /\ tmp' = Removed(t, p)
    <3> DEFINE k == [j EXCEPT !.phase = "open"]
    <3>1. Goes(t, k)
      BY <2>3 DEF To
    <3>2. Sound(t, k) /\ k.phase = "open"
      BY <2>1, PhaseIsSound DEF FetchPhases
    <3> HIDE DEF k
    <3>3. Removes(t, k)
      BY <1>2, <2>3, <3>2 DEF Removes, FetchAsk
    <3>4. p \in Packages /\ up
      BY <2>1, AtWork
    <3>5. Typed'
      BY <1>0, <1>2, <2>1, <2>3, <3>4, RemovedTypes, FaultTypes DEF Typed, FetchAsk
    <3>6. up' = up
      BY <1>2 DEF FetchAsk
    <3>7. Sane'
      BY <3>1, <3>2, <3>4, <3>5, <3>6, OneMoves
    <3>8. QED BY <3>1, <3>2, <3>3, <3>7 DEF Moves
  <2>4. QED BY <1>2, <2>2, <2>3 DEF FetchAsk
<1>3. CASE FetchOpen(t)
  <2>1. At(t, "open") /\ up' = up /\ tmp' = [tmp EXCEPT ![p] = {}]
        /\ UNCHANGED <<wanted, presses, zip, dir, spoiled>>
    BY <1>3 DEF FetchOpen
  <2>2. p \in Packages /\ up /\ Fetching(t) /\ j.phase = "open"
    BY <2>1, AtWork DEF Sound, Fetching, FetchPhases, FetchOps
  <2>3. tmp' \in [Packages -> Halves]
    BY <1>0, <2>1, <2>2, HalvesAre
  <2>4. \E new \in {"first", "rename"} :
          /\ To(t, new) /\ (Fault \/ NoFault)
          /\ \/ /\ new = "first"
                /\ mixed' = IF OthersHold(t, p) THEN mixed \union {p} ELSE mixed
             \/ new = "rename" /\ mixed' = mixed \union {p}
    BY <1>3 DEF FetchOpen
  <2>5. PICK new \in {"first", "rename"} :
          /\ To(t, new) /\ (Fault \/ NoFault)
          /\ \/ /\ new = "first"
                /\ mixed' = IF OthersHold(t, p) THEN mixed \union {p} ELSE mixed
             \/ new = "rename" /\ mixed' = mixed \union {p}
    BY <2>4
  <2> DEFINE k == [j EXCEPT !.phase = new]
  <2>6. Goes(t, k)
    BY <2>5 DEF To
  <2>7. Sound(t, k) /\ k.phase = new /\ Current(k) = Now(t)
    BY <2>1, <2>2, PhaseIsSound DEF FetchPhases
  <2> HIDE DEF k
  <2>8. Opens(t, k)
    BY <2>1, <2>2, <2>5, <2>7 DEF Opens
  <2>9. Typed'
    BY <1>0, <2>1, <2>2, <2>3, <2>5, FaultTypes DEF Typed
  <2>10. QED BY <2>1, <2>2, <2>6, <2>7, <2>8, <2>9, OneMoves DEF Moves
<1>4. CASE FetchWrite(t)
  <2>1. /\ up' = up /\ NoFault
        /\ UNCHANGED <<wanted, presses, zip, dir, spoiled, mixed>>
    BY <1>4 DEF FetchWrite
  <2>2. PICK ph \in {"first", "second"}, new \in {"second", "rename"}, h \in {1, 2} :
          /\ At(t, ph) /\ To(t, new) /\ tmp' = [tmp EXCEPT ![p] = @ \union {h}]
          /\ \/ ph = "first" /\ new = "second" /\ h = 1
             \/ ph = "second" /\ new = "rename" /\ h = 2
    <3>1. CASE At(t, "first") /\ To(t, "second") /\ tmp' = [tmp EXCEPT ![p] = @ \union {1}]
      BY <3>1
    <3>2. CASE At(t, "second") /\ To(t, "rename") /\ tmp' = [tmp EXCEPT ![p] = @ \union {2}]
      BY <3>2
    <3>3. QED BY <1>4, <3>1, <3>2 DEF FetchWrite
  <2>3. p \in Packages /\ up /\ Fetching(t) /\ j.phase = ph
    BY <2>2, AtWork DEF Sound, Fetching, FetchPhases, FetchOps
  <2>4. HoldsTmp(t, p)
    BY <2>3 DEF HoldsTmp
  <2> DEFINE k == [j EXCEPT !.phase = new]
  <2>5. Goes(t, k)
    BY <2>2 DEF To
  <2>6. Sound(t, k) /\ k.phase = new /\ Current(k) = Now(t)
    BY <2>2, <2>3, PhaseIsSound DEF FetchPhases
  <2> HIDE DEF k
  <2>7. Writes(t, k)
    BY <2>1, <2>2, <2>3, <2>6 DEF Writes
  <2>8. tmp[p] \union {h} \in Halves
    <3>1. tmp[p] \in Halves /\ tmp[p] # NoZip
      BY <1>0, <2>3, <2>4 DEF Held
    <3>2. QED BY <3>1, HalvesAre
  <2>9. Typed'
    BY <1>0, <2>1, <2>2, <2>3, <2>8, FaultTypes DEF Typed
  <2>10. QED BY <2>1, <2>3, <2>5, <2>6, <2>7, <2>9, OneMoves DEF Moves
<1>5. CASE FetchFails(t)
  <2>1. PICK ph \in {"open", "first", "second"} : At(t, ph)
    BY <1>5 DEF FetchFails
  <2>2. /\ Fault /\ NextSource(t) /\ tmp' = Removed(t, p) /\ up' = up
        /\ UNCHANGED <<wanted, presses, zip, dir, spoiled, mixed>>
    BY <1>5 DEF FetchFails
  <2>3. p \in Packages /\ up
    BY <2>1, AtWork
  <2>4. PICK k : Goes(t, k) /\ Sound(t, k) /\ k.phase \in QuietPhases \union {"open"}
    BY <2>1, <2>2, NextSourceIsSound DEF FetchPhases
  <2>5. Removes(t, k)
    BY <2>2, <2>4 DEF Removes, QuietPhases, EndPhases
  <2>6. Typed'
    BY <1>0, <2>2, <2>3, RemovedTypes, FaultTypes DEF Typed
  <2>7. QED BY <2>2, <2>3, <2>4, <2>5, <2>6, OneMoves DEF Moves
<1>6. CASE FetchRename(t)
  <2>1. At(t, "rename") /\ NoFault /\ UNCHANGED <<wanted, presses, dir, up, spoiled, mixed>>
    BY <1>6 DEF FetchRename
  <2>2. CASE NextSource(t) /\ UNCHANGED <<zip, tmp>>
    <3>1. PICK k : Goes(t, k) /\ Sound(t, k) /\ k.phase \in QuietPhases \union {"open"}
      BY <2>1, <2>2, NextSourceIsSound DEF FetchPhases
    <3>2. k.phase \notin {"first", "second", "rename"}
      BY <3>1 DEF QuietPhases, EndPhases
    <3>3. QED BY <2>1, <2>2, <3>1, <3>2, TouchesNothing
  <2>3. CASE /\ ~OthersHold(t, p) /\ tmp[p] # NoZip
             /\ zip' = [zip EXCEPT ![p] = tmp[p]] /\ tmp' = [tmp EXCEPT ![p] = NoZip]
             /\ TaskDone(t)
    <3> DEFINE k == Advanced(j)
    <3>1. Goes(t, k)
      BY <2>3 DEF TaskDone
    <3>2. Sound(t, k) /\ k.phase \in QuietPhases
      BY <2>1, AtWork, AdvancedIsSound
    <3> HIDE DEF k
    <3>3. p \in Packages /\ up /\ j.phase = "rename"
      BY <2>1, AtWork
    <3>4. Renames(t, k)
      BY <2>1, <2>3, <3>2, <3>3 DEF Renames
    <3>5. Typed'
      BY <1>0, <2>1, <2>3, <3>3, HalvesAre, FaultTypes DEF Typed
    <3>6. QED BY <2>1, <3>1, <3>2, <3>3, <3>4, <3>5, OneMoves DEF Moves
  <2>4. QED BY <1>6, <2>2, <2>3 DEF FetchRename
<1>7. QED BY <1>1, <1>2, <1>3, <1>4, <1>5, <1>6

(* What an archive holds is files.                                         *)
LEMMA FilesOfArchives ==
  ASSUME NEW p \in Packages, NEW n \in Nat \ {0}, n <= Len(Contents(p))
  PROVE  Contents(p)[n] \in Files
<1>1. CASE p = Cudart
  BY <1>1 DEF Contents, Files
<1>2. CASE p # Cudart /\ p \in Modular
  BY <1>2 DEF Contents, Files
<1>3. CASE p # Cudart /\ p \notin Modular
  <2>1. Contents(p) = <<"exe", "core">>
    BY <1>3 DEF Contents
  <2>2. n \in {1, 2}
    BY <2>1
  <2>3. QED BY <2>1, <2>2 DEF Files
<1>4. QED BY <1>1, <1>2, <1>3

(* What is unpacked next is a file of the backend's directory.             *)
LEMMA FileIsFile ==
  ASSUME Sane, NEW t \in Threads, NEW ph, At(t, ph), MoreFiles(t)
  PROVE  File(t) \in Files
<1>1. Now(t).pkg \in Packages /\ job[t] \in Jobs
  BY AtWork
<1>2. job[t].next \in Nat \ {0} /\ job[t].next <= Len(Contents(Now(t).pkg))
  BY <1>1 DEF Jobs, MoreFiles
<1>3. QED BY <1>1, <1>2, FilesOfArchives DEF File

(* A step of t that changes files of one backend and perhaps drops an archive. *)
LEMMA TouchesFiles ==
  ASSUME Sane, NEW t \in Threads, NEW ph, At(t, ph), ph \notin {"first", "second"},
         Fault \/ NoFault, UNCHANGED <<wanted, presses, tmp, up, mixed>>,
         NEW k, Goes(t, k), Sound(t, k), k.phase \notin {"first", "second", "rename"},
         dir' \in [Backends -> [Files -> {"none", "torn", "bad", "whole"}]],
         spoiled' \subseteq Backends,
         zip' = zip \/ zip' = Dropped(t, Now(t).pkg)
  PROVE  Moves(t, k) /\ Sane'
<1>1. job[t].phase \notin {"first", "second"} /\ up /\ Now(t).pkg \in Packages
  BY AtWork
<1>2. zip' \in [Packages -> Halves] /\ \A q \in Packages : zip'[q] \in {zip[q], NoZip}
  BY <1>1, DroppedTypes DEF Sane
<1>3. Quiet(t, k)
  BY <1>1, <1>2 DEF Quiet
<1>4. Typed'
  BY <1>2, FaultTypes DEF Sane, Typed
<1>5. Sane'
  BY <1>1, <1>4, OneMoves
<1>6. QED BY <1>3, <1>5 DEF Moves

(* A job that begins to unpack.                                            *)
LEMMA UnpackJob ==
  ASSUME NEW j \in Jobs, NEW a \in BOOLEAN
  PROVE  LET u == [j EXCEPT !.phase = "unpack", !.next = 1, !.again = a]
         IN  /\ u \in Jobs /\ u.kind = j.kind /\ u.backend = j.backend /\ u.task = j.task
             /\ u.phase = "unpack" /\ u.next = 1
<1> DEFINE x == [j EXCEPT !.phase = "unpack"]
           y == [x EXCEPT !.next = 1]
           z == [y EXCEPT !.again = a]
<1>1. /\ x \in Jobs /\ x.kind = j.kind /\ x.backend = j.backend /\ x.task = j.task
      /\ x.phase = "unpack"
  BY DEF Jobs, UnpackPhases
<1> HIDE DEF x
<1>2. /\ y \in Jobs /\ y.kind = j.kind /\ y.backend = j.backend /\ y.task = j.task
      /\ y.phase = "unpack" /\ y.next = 1
  BY <1>1 DEF Jobs
<1> HIDE DEF y
<1>3. /\ z \in Jobs /\ z.kind = j.kind /\ z.backend = j.backend /\ z.task = j.task
      /\ z.phase = "unpack" /\ z.next = 1
  BY <1>2 DEF Jobs
<1>4. QED BY <1>3 DEF y, x

(* A step of an installation moves one goroutine to a sound job and        *)
(* leaves the temporary files alone.                                       *)
LEMMA UnpackSteps ==
  ASSUME Sane, NEW t \in Threads,
         \/ UnpackAsk(t) \/ UnpackFile(t) \/ UnpackFails(t) \/ UnpackAgain(t)
         \/ UnpackGivesUp(t) \/ UnpackEnds(t)
  PROVE  Sane' /\ \E k : Moves(t, k)
<1> DEFINE j == job[t]
           b == Now(t).dir
<1>0. /\ dir \in [Backends -> [Files -> {"none", "torn", "bad", "whole"}]]
      /\ spoiled \subseteq Backends
  BY DEF Sane
<1>1. CASE UnpackAsk(t)
  <2>1. /\ At(t, "ask") /\ ~Fetching(t) /\ NoFault
        /\ UNCHANGED <<wanted, presses, zip, tmp, dir, up, spoiled, mixed>>
    BY <1>1 DEF UnpackAsk
  <2> DEFINE u == [j EXCEPT !.phase = "unpack", !.next = 1, !.again = FALSE]
  <2>2. TaskDone(t) \/ TaskFails(t) \/ Goes(t, u)
    BY <1>1 DEF UnpackAsk
  <2>3. Sound(t, u) /\ u.phase = "unpack"
    <3>1. /\ Sound(t, j) /\ j \in Jobs /\ j.kind \in {"start", "download", "button"}
          /\ Now(t) = Current(j)
      BY <2>1, AtWork
    <3>2. /\ u \in Jobs /\ u.kind = j.kind /\ u.backend = j.backend /\ u.task = j.task
          /\ u.phase = "unpack"
      BY <3>1, UnpackJob
    <3> HIDE DEF u
    <3>3. u.phase \in UnpackPhases /\ Current(j).op \notin FetchOps
      BY <2>1, <3>1, <3>2 DEF UnpackPhases, Fetching, FetchOps
    <3>4. QED BY <3>1, <3>2, <3>3, InTaskIsSound
  <2> HIDE DEF u
  <2>4. \E k : Goes(t, k) /\ Sound(t, k) /\ k.phase \notin {"first", "second", "rename"}
    <3>1. CASE TaskDone(t)
      BY <2>1, <3>1, AtWork, AdvancedIsSound DEF TaskDone, QuietPhases, EndPhases
    <3>2. CASE TaskFails(t)
      BY <2>1, <3>2, FailureIsSound DEF TaskFails, QuietPhases, EndPhases
    <3>3. CASE Goes(t, u)
      BY <2>3, <3>3
    <3>4. QED BY <2>2, <3>1, <3>2, <3>3
  <2>5. QED BY <2>1, <2>4, TouchesNothing
<1>2. CASE UnpackFile(t)
  <2>1. /\ At(t, "unpack") /\ MoreFiles(t) /\ NoFault
        /\ UNCHANGED <<wanted, presses, zip, tmp, up, spoiled, mixed>>
    BY <1>2 DEF UnpackFile
  <2> DEFINE k == [j EXCEPT !.next = @ + 1]
  <2>2. Goes(t, k)
    BY <1>2 DEF UnpackFile
  <2>3. Sound(t, k) /\ k.phase = "unpack"
    <3>1. /\ Sound(t, j) /\ j \in Jobs /\ j.kind \in {"start", "download", "button"}
          /\ j.phase = "unpack"
      BY <2>1, AtWork
    <3>2. j.next + 1 \in Nat \ {0}
      BY <3>1 DEF Jobs
    <3>3. /\ k \in Jobs /\ k.kind = j.kind /\ k.backend = j.backend /\ k.task = j.task
          /\ k.phase = "unpack"
      BY <3>1, <3>2 DEF Jobs
    <3> HIDE DEF k
    <3>4. k.phase \in UnpackPhases /\ Current(j).op \notin FetchOps
      BY <3>1, <3>3 DEF Sound, UnpackPhases
    <3>5. QED BY <3>1, <3>3, <3>4, InTaskIsSound
  <2> HIDE DEF k
  <2>4. b \in Backends /\ File(t) \in Files
    BY <2>1, AtWork, FileIsFile
  <2>5. dir' = dir \/ dir' = [dir EXCEPT ![b][File(t)] = "whole"]
    BY <1>2 DEF UnpackFile
  <2>6. dir' \in [Backends -> [Files -> {"none", "torn", "bad", "whole"}]]
    BY <1>0, <2>4, <2>5
  <2>7. QED BY <1>0, <2>1, <2>2, <2>3, <2>6, TouchesFiles
<1>3. CASE UnpackFails(t)
  <2>1. /\ At(t, "unpack") /\ MoreFiles(t) /\ (Fault \/ NoFault)
        /\ To(t, "failed") /\ spoiled' = spoiled \union {b}
        /\ UNCHANGED <<wanted, presses, zip, tmp, up, mixed>>
    BY <1>3 DEF UnpackFails
  <2>2. ~Fetching(t)
    BY <2>1, AtWork DEF Sound, Fetching, FetchOps, UnpackPhases
  <2> DEFINE k == [j EXCEPT !.phase = "failed"]
  <2>3. Goes(t, k)
    BY <2>1 DEF To
  <2>4. Sound(t, k) /\ k.phase = "failed"
    BY <2>1, <2>2, PhaseIsSound DEF UnpackPhases
  <2> HIDE DEF k
  <2>5. b \in Backends /\ File(t) \in Files
    BY <2>1, AtWork, FileIsFile
  <2>6. dir' = dir \/ \E s \in {"torn", "bad"} : dir' = [dir EXCEPT ![b][File(t)] = s]
    BY <1>3 DEF UnpackFails
  <2>7. dir' \in [Backends -> [Files -> {"none", "torn", "bad", "whole"}]]
    BY <1>0, <2>5, <2>6
  <2>8. QED BY <1>0, <2>1, <2>3, <2>4, <2>5, <2>7, TouchesFiles
<1>4. CASE UnpackAgain(t)
  <2>1. /\ At(t, "failed") /\ NoFault /\ spoiled' = spoiled \union {b}
        /\ dir' = [dir EXCEPT ![b] = [f \in Files |-> "none"]]
        /\ UNCHANGED <<wanted, presses, zip, tmp, up, mixed>>
    BY <1>4 DEF UnpackAgain
  <2> DEFINE k == [j EXCEPT !.phase = "unpack", !.next = 1, !.again = TRUE]
  <2>2. Goes(t, k)
    BY <1>4 DEF UnpackAgain
  <2>3. Sound(t, k) /\ k.phase = "unpack"
    <3>1. /\ Sound(t, j) /\ j \in Jobs /\ j.kind \in {"start", "download", "button"}
          /\ j.phase = "failed"
      BY <2>1, AtWork
    <3>2. /\ k \in Jobs /\ k.kind = j.kind /\ k.backend = j.backend /\ k.task = j.task
          /\ k.phase = "unpack"
      BY <3>1, UnpackJob
    <3> HIDE DEF k
    <3>3. k.phase \in UnpackPhases /\ Current(j).op \notin FetchOps
      BY <3>1, <3>2 DEF Sound, UnpackPhases
    <3>4. QED BY <3>1, <3>2, <3>3, InTaskIsSound
  <2> HIDE DEF k
  <2>4. b \in Backends
    BY <2>1, AtWork
  <2>5. dir' \in [Backends -> [Files -> {"none", "torn", "bad", "whole"}]]
    BY <1>0, <2>1, <2>4
  <2>6. QED BY <1>0, <2>1, <2>2, <2>3, <2>4, <2>5, TouchesFiles
<1>5. CASE UnpackGivesUp(t)
  <2>1. /\ At(t, "failed") /\ NoFault /\ Goes(t, AfterFailure(t))
        /\ zip' = Dropped(t, Now(t).pkg)
        /\ UNCHANGED <<wanted, presses, tmp, dir, up, spoiled, mixed>>
    BY <1>5 DEF UnpackGivesUp, TaskFails
  <2>2. Sound(t, AfterFailure(t)) /\ AfterFailure(t).phase \notin {"first", "second", "rename"}
    BY <2>1, FailureIsSound DEF QuietPhases, EndPhases
  <2>3. QED BY <1>0, <2>1, <2>2, TouchesFiles
<1>6. CASE UnpackEnds(t)
  <2>1. /\ At(t, "unpack") /\ NoFault
        /\ UNCHANGED <<wanted, presses, tmp, dir, up, spoiled, mixed>>
    BY <1>6 DEF UnpackEnds
  <2>2. CASE TaskDone(t) /\ UNCHANGED zip
    <3>1. Goes(t, Advanced(j))
      BY <2>2 DEF TaskDone
    <3>2. Sound(t, Advanced(j)) /\ Advanced(j).phase \notin {"first", "second", "rename"}
      BY <2>1, AtWork, AdvancedIsSound DEF QuietPhases, EndPhases
    <3>3. QED BY <1>0, <2>1, <2>2, <3>1, <3>2, TouchesFiles
  <2>3. CASE TaskFails(t) /\ zip' = Dropped(t, Now(t).pkg)
    <3>1. Goes(t, AfterFailure(t))
      BY <2>3 DEF TaskFails
    <3>2. Sound(t, AfterFailure(t)) /\ AfterFailure(t).phase \notin {"first", "second", "rename"}
      BY <2>1, FailureIsSound DEF QuietPhases, EndPhases
    <3>3. QED BY <1>0, <2>1, <2>3, <3>1, <3>2, TouchesFiles
  <2>4. QED BY <1>6, <2>2, <2>3 DEF UnpackEnds
<1>7. QED BY <1>1, <1>2, <1>3, <1>4, <1>5, <1>6

-----------------------------------------------------------------------------
(* What an archive has to do with its temporary file.                      *)

(* Whoever writes it is alone; who is to rename it finds all of it, or     *)
(* none, unless another one has begun anew; and the archive is whole.      *)
WholeAt(p) ==
  /\ zip[p] \in {NoZip, {1, 2}}
  /\ \A t \in Threads : HoldsTmp(t, p) =>
       /\ ~OthersHold(t, p)
       /\ job[t].phase = "first" => tmp[p] = {}
       /\ job[t].phase = "second" => tmp[p] = {1}
  /\ \A t \in Threads :
       up /\ job[t].phase = "rename" /\ Now(t).pkg = p /\ ~OthersHold(t, p) =>
         tmp[p] \in {NoZip, {1, 2}}

ArchiveInv == Held /\ \A p \in Packages \ mixed : WholeAt(p)

Other(t) == IF t = "boot" THEN "button" ELSE "boot"

(* There is one other goroutine at most.                                   *)
LEMMA TwoThreads ==
  ASSUME NEW t \in Threads
  PROVE  /\ Other(t) \in Threads /\ Other(t) # t /\ Other(Other(t)) = t
         /\ \A u \in Threads : u = t \/ u = Other(t)
         /\ \A p : OthersHold(t, p) <=> HoldsTmp(Other(t), p)
BY DEF Threads, Other, OthersHold

(* The next state, when t moves to job k.                                  *)
Held1(k, p)   == k.phase \in {"first", "second"} /\ Current(k).pkg = p
Tidy(k, f)    == (k.phase = "first" => f = {}) /\ (k.phase = "second" => f = {1})
Ready1(k, p)  == k.phase = "rename" /\ Current(k).pkg = p

(* One archive, after a step of goroutine t that is described by its       *)
(* next job.                                                               *)
LEMMA NextWhole ==
  ASSUME NEW t \in Threads, NEW k, NEW o, o = Other(t), up, up' = up,
         job'[t] = k, job'[o] = job[o], NEW p \in Packages,
         zip'[p] \in {NoZip, {1, 2}},
         Held1(k, p) => ~Held1(job[o], p) /\ Tidy(k, tmp'[p]),
         Held1(job[o], p) => ~Held1(k, p) /\ Tidy(job[o], tmp'[p]),
         Ready1(k, p) /\ ~Held1(job[o], p) => tmp'[p] \in {NoZip, {1, 2}},
         Ready1(job[o], p) /\ ~Held1(k, p) => tmp'[p] \in {NoZip, {1, 2}}
  PROVE  WholeAt(p)'
<1>1. /\ o \in Threads /\ o # t /\ Other(o) = t
      /\ \A u \in Threads : u = t \/ u = o
  BY TwoThreads
<1>2. /\ HoldsTmp(t, p)' <=> Held1(k, p)
      /\ HoldsTmp(o, p)' <=> Held1(job[o], p)
      /\ Now(t)' = Current(k) /\ Now(o)' = Current(job[o])
  BY DEF HoldsTmp, Held1, Now, Current
<1>3. OthersHold(t, p)' <=> HoldsTmp(o, p)'
  BY <1>1 DEF OthersHold
<1>4. OthersHold(o, p)' <=> HoldsTmp(t, p)'
  BY <1>1 DEF OthersHold
<1>5. \A u \in Threads : HoldsTmp(u, p)' =>
       /\ ~OthersHold(u, p)'
       /\ job'[u].phase = "first" => tmp'[p] = {}
       /\ job'[u].phase = "second" => tmp'[p] = {1}
  BY <1>1, <1>2, <1>3, <1>4 DEF Tidy
<1>6. \A u \in Threads :
       up' /\ job'[u].phase = "rename" /\ Now(u)'.pkg = p /\ ~OthersHold(u, p)' =>
         tmp'[p] \in {NoZip, {1, 2}}
  BY <1>1, <1>2, <1>3, <1>4 DEF Ready1
<1>7. QED BY <1>5, <1>6 DEF WholeAt

(* The present state, of t and the other one.                              *)
LEMMA NowWhole ==
  ASSUME NEW t \in Threads, NEW o, o = Other(t), up, NEW p \in Packages, WholeAt(p)
  PROVE  LET j == job[t]
             h == job[o]
         IN  /\ zip[p] \in {NoZip, {1, 2}}
             /\ Held1(j, p) => ~Held1(h, p) /\ Tidy(j, tmp[p])
             /\ Held1(h, p) => ~Held1(j, p) /\ Tidy(h, tmp[p])
             /\ Ready1(j, p) /\ ~Held1(h, p) => tmp[p] \in {NoZip, {1, 2}}
             /\ Ready1(h, p) /\ ~Held1(j, p) => tmp[p] \in {NoZip, {1, 2}}
             /\ OthersHold(t, p) <=> Held1(h, p)
<1>1. /\ o \in Threads /\ o # t /\ Other(o) = t
      /\ OthersHold(t, p) <=> HoldsTmp(o, p)
      /\ OthersHold(o, p) <=> HoldsTmp(t, p)
  BY TwoThreads
<1>2. /\ HoldsTmp(t, p) <=> Held1(job[t], p)
      /\ HoldsTmp(o, p) <=> Held1(job[o], p)
      /\ Now(t) = Current(job[t]) /\ Now(o) = Current(job[o])
  BY DEF HoldsTmp, Held1, Now, Current
<1>3. QED BY <1>1, <1>2 DEF WholeAt, Tidy, Ready1, Held1

(* The archives stay whole under every step of a goroutine.                *)
LEMMA MoveKeepsArchives ==
  ASSUME Sane, Sane', ArchiveInv, up, up' = up, NEW t \in Threads, NEW k, Moves(t, k),
         job'[t] = k, \A u \in Threads \ {t} : job'[u] = job[u]
  PROVE  ArchiveInv'
<1> DEFINE o == Other(t)
           j == job[t]
           h == job[o]
           r == Now(t).pkg
<1>1. /\ o \in Threads /\ o # t /\ \A u \in Threads : u = t \/ u = o
      /\ \A p : OthersHold(t, p) <=> HoldsTmp(o, p)
  BY TwoThreads
<1>2. job'[o] = h
  BY <1>1
<1>3. /\ r \in Packages /\ Current(j) = Now(t) /\ Current(h) = Now(o)
      /\ \A p : HoldsTmp(t, p) <=> Held1(j, p)
      /\ \A p : HoldsTmp(o, p) <=> Held1(h, p)
      /\ \A p : HoldsTmp(t, p)' <=> Held1(k, p)
      /\ \A p : HoldsTmp(o, p)' <=> Held1(h, p)
  <2>1. Now(t) = Current(job[t]) /\ Now(o) = Current(job[o])
        /\ Now(t)' = Current(k) /\ Now(o)' = Current(h)
    BY <1>2 DEF Now, Current
  <2>2. Current(j) \in Tasks
    BY CurrentIsTask DEF Sane
  <2>3. QED BY <1>2, <2>1, <2>2 DEF HoldsTmp, Held1, Tasks
<1>4. tmp \in [Packages -> Halves] /\ zip \in [Packages -> Halves]
  BY DEF Sane
<1> HIDE DEF o, j, h, r
<1>5. CASE Quiet(t, k)
  <2>1. \A p \in Packages : ~Held1(k, p) /\ ~Held1(j, p) /\ ~Ready1(k, p)
    BY <1>5 DEF Quiet, Held1, Ready1, j
  <2>2. tmp' = tmp /\ mixed' = mixed /\ \A p \in Packages : zip'[p] \in {zip[p], NoZip}
    BY <1>5 DEF Quiet
  <2>3. Held'
    BY <1>1, <1>3, <2>1, <2>2 DEF Held, ArchiveInv
  <2>4. ASSUME NEW p \in Packages \ mixed' PROVE WholeAt(p)'
    <3>1. WholeAt(p)
      BY <2>2 DEF ArchiveInv
    <3>2. QED BY <3>1, <1>2, <2>1, <2>2, NowWhole, NextWhole DEF o, j, h
  <2>5. QED BY <2>3, <2>4 DEF ArchiveInv
<1>6. CASE Removes(t, k)
  <2>1. /\ \A p \in Packages : ~Held1(k, p) /\ ~Ready1(k, p)
        /\ tmp' = (IF OthersHold(t, r) THEN tmp ELSE [tmp EXCEPT ![r] = NoZip])
        /\ zip' = zip /\ mixed' = mixed
    BY <1>6 DEF Removes, Removed, Held1, Ready1, r
  <2>2. Held'
    BY <1>1, <1>3, <1>4, <2>1 DEF Held, ArchiveInv
  <2>3. ASSUME NEW p \in Packages \ mixed' PROVE WholeAt(p)'
    <3>1. WholeAt(p)
      BY <2>1 DEF ArchiveInv
    <3>2. CASE p = r
      <4>1. CASE OthersHold(t, r)
        BY <3>1, <3>2, <4>1, <1>2, <2>1, NowWhole, NextWhole DEF o, j, h
      <4>2. CASE ~OthersHold(t, r)
        <5>1. tmp'[p] = NoZip
          BY <3>2, <4>2, <2>1, <1>4
        <5>2. ~Held1(h, p)
          BY <4>2, <3>2, <1>1, <1>3
        <5>3. QED BY <3>1, <5>1, <5>2, <1>2, <2>1, NowWhole, NextWhole DEF o, j, h
      <4>3. QED BY <4>1, <4>2
    <3>3. CASE p # r
      <4>1. tmp'[p] = tmp[p]
        BY <3>3, <2>1, <1>4
      <4>2. ~Held1(j, p)
        BY <3>3, <1>3 DEF Held1, r
      <4>3. QED BY <3>1, <4>1, <4>2, <1>2, <2>1, NowWhole, NextWhole DEF o, j, h
    <3>4. QED BY <3>2, <3>3
  <2>4. QED BY <2>2, <2>3 DEF ArchiveInv
<1>7. CASE Opens(t, k)
  <2>1. /\ Current(k).pkg = r /\ tmp' = [tmp EXCEPT ![r] = {}] /\ zip' = zip
        /\ \/ k.phase = "first" /\ (OthersHold(t, r) => r \in mixed')
           \/ k.phase = "rename" /\ r \in mixed'
        /\ j.phase = "open" /\ mixed \subseteq mixed'
    BY <1>7 DEF Opens, r, j
  <2>2. tmp'[r] = {} /\ \A p \in Packages : p # r => tmp'[p] = tmp[p]
    BY <2>1, <1>3, <1>4
  <2>3. Held'
    BY <1>1, <1>3, <2>1, <2>2, HalvesAre DEF Held, ArchiveInv, Held1
  <2>4. ASSUME NEW p \in Packages \ mixed' PROVE WholeAt(p)'
    <3>1. WholeAt(p)
      BY <2>1 DEF ArchiveInv
    <3>2. ~Held1(j, p)
      BY <2>1 DEF Held1
    <3>3. CASE p = r
      <4>1. k.phase = "first" /\ ~Held1(h, p)
        BY <2>1, <3>3, <1>1, <1>3
      <4>2. Held1(k, p) /\ ~Ready1(k, p) /\ Tidy(k, {})
        BY <4>1, <2>1, <3>3 DEF Held1, Ready1, Tidy
      <4>3. tmp'[p] = {} /\ zip'[p] \in {NoZip, {1, 2}}
        BY <2>1, <2>2, <3>1, <3>3 DEF WholeAt
      <4>4. QED BY <4>1, <4>2, <4>3, <1>2, NextWhole DEF o, h
    <3>4. CASE p # r
      <4>1. ~Held1(k, p) /\ ~Ready1(k, p)
        BY <2>1, <3>4 DEF Held1, Ready1
      <4>2. QED BY <3>1, <3>2, <3>4, <4>1, <1>2, <2>1, <2>2, NowWhole, NextWhole DEF o, j, h
    <3>5. QED BY <3>3, <3>4
  <2>5. QED BY <2>3, <2>4 DEF ArchiveInv
<1>8. CASE Writes(t, k)
  <2>1. PICK x \in {1, 2} :
          /\ Current(k).pkg = r /\ zip' = zip /\ mixed' = mixed
          /\ tmp' = [tmp EXCEPT ![r] = @ \union {x}]
          /\ \/ x = 1 /\ j.phase = "first" /\ k.phase = "second"
             \/ x = 2 /\ j.phase = "second" /\ k.phase = "rename"
    BY <1>8 DEF Writes, r, j
  <2>2. tmp'[r] = tmp[r] \union {x} /\ \A p \in Packages : p # r => tmp'[p] = tmp[p]
    BY <2>1, <1>3, <1>4
  <2>3. Held1(j, r) /\ \A p : p # r => ~Held1(j, p) /\ ~Held1(k, p) /\ ~Ready1(k, p)
    BY <2>1, <1>3 DEF Held1, Ready1, r
  <2>4. Held'
    <3>1. tmp[r] # NoZip /\ tmp[r] \in Halves
      BY <2>3, <1>3, <1>4 DEF Held, ArchiveInv
    <3>2. tmp'[r] # NoZip
      BY <3>1, <2>1, <2>2, HalvesAre
    <3>3. QED BY <3>2, <1>1, <1>3, <2>2, <2>3 DEF Held, ArchiveInv
  <2>5. ASSUME NEW p \in Packages \ mixed' PROVE WholeAt(p)'
    <3>1. WholeAt(p)
      BY <2>1 DEF ArchiveInv
    <3>2. CASE p = r
      <4>1. ~Held1(h, p) /\ Tidy(j, tmp[p]) /\ zip[p] \in {NoZip, {1, 2}}
        BY <3>1, <3>2, <2>3, NowWhole DEF o, j, h
      <4>2. CASE x = 1
        <5>1. tmp'[p] = {1} /\ k.phase = "second"
          BY <4>1, <4>2, <2>1, <2>2, <3>2 DEF Tidy
        <5>2. Held1(k, p) /\ ~Ready1(k, p) /\ Tidy(k, {1})
          BY <5>1, <2>1, <3>2 DEF Held1, Ready1, Tidy
        <5>3. QED BY <5>1, <5>2, <4>1, <1>2, <2>1, NextWhole DEF o, h
      <4>3. CASE x = 2
        <5>1. tmp'[p] = {1, 2} /\ k.phase = "rename"
          BY <4>1, <4>3, <2>1, <2>2, <3>2 DEF Tidy
        <5>2. ~Held1(k, p)
          BY <5>1 DEF Held1
        <5>3. QED BY <5>1, <5>2, <4>1, <1>2, <2>1, NextWhole DEF o, h
      <4>4. QED BY <4>2, <4>3
    <3>3. CASE p # r
      BY <3>1, <3>3, <1>2, <2>1, <2>2, <2>3, NowWhole, NextWhole DEF o, j, h
    <3>4. QED BY <3>2, <3>3
  <2>6. QED BY <2>4, <2>5 DEF ArchiveInv
<1>9. CASE Renames(t, k)
  <2>1. /\ j.phase = "rename" /\ k.phase \in QuietPhases /\ mixed' = mixed
        /\ ~OthersHold(t, r) /\ tmp[r] # NoZip
        /\ zip' = [zip EXCEPT ![r] = tmp[r]] /\ tmp' = [tmp EXCEPT ![r] = NoZip]
    BY <1>9 DEF Renames, r, j
  <2>2. /\ tmp'[r] = NoZip /\ zip'[r] = tmp[r]
        /\ \A p \in Packages : p # r => tmp'[p] = tmp[p] /\ zip'[p] = zip[p]
    BY <2>1, <1>3, <1>4
  <2>3. \A p \in Packages : ~Held1(k, p) /\ ~Held1(j, p) /\ ~Ready1(k, p)
    BY <2>1 DEF QuietPhases, EndPhases, Held1, Ready1
  <2>4. ~Held1(h, r) /\ Ready1(j, r)
    BY <2>1, <1>1, <1>3 DEF Ready1, r
  <2>5. Held'
    BY <1>1, <1>3, <2>2, <2>3, <2>4 DEF Held, ArchiveInv
  <2>6. ASSUME NEW p \in Packages \ mixed' PROVE WholeAt(p)'
    <3>1. WholeAt(p)
      BY <2>1 DEF ArchiveInv
    <3>2. CASE p = r
      <4>1. tmp[p] \in {NoZip, {1, 2}}
        BY <3>1, <3>2, <2>4, NowWhole DEF o, j, h
      <4>2. QED BY <3>2, <4>1, <1>2, <2>2, <2>3, <2>4, NextWhole DEF o, h
    <3>3. CASE p # r
      BY <3>1, <3>3, <1>2, <2>2, <2>3, NowWhole, NextWhole DEF o, j, h
    <3>4. QED BY <3>2, <3>3
  <2>7. QED BY <2>5, <2>6 DEF ArchiveInv
<1>10. QED BY <1>5, <1>6, <1>7, <1>8, <1>9 DEF Moves

(* While nobody is at a temporary file, the archives stay what they are.   *)
LEMMA NobodyFetches ==
  ASSUME ArchiveInv, UNCHANGED <<zip, tmp, mixed>>,
         \A t \in Threads : job'[t].phase \notin {"first", "second", "rename"}
  PROVE  ArchiveInv'
<1>1. \A t \in Threads, p \in Packages : ~HoldsTmp(t, p)'
  BY DEF HoldsTmp
<1>2. Held'
  BY <1>1 DEF Held
<1>3. ASSUME NEW p \in Packages \ mixed' PROVE WholeAt(p)'
  <2>1. zip'[p] \in {NoZip, {1, 2}}
    BY DEF ArchiveInv, WholeAt
  <2>2. QED BY <2>1, <1>1 DEF WholeAt
<1>4. QED BY <1>2, <1>3 DEF ArchiveInv

(* A step of the application itself, which moves one goroutine.            *)
LEMMA QuietMove ==
  ASSUME Sane, ArchiveInv, up, up' = up, Typed', NEW t \in Threads,
         NEW k, Goes(t, k), Sound(t, k),
         k.phase \notin {"first", "second", "rename"},
         job[t].phase \notin {"first", "second"}, UNCHANGED <<zip, tmp, mixed>>
  PROVE  Sane' /\ ArchiveInv'
<1>1. Sane' /\ job'[t] = k /\ \A u \in Threads \ {t} : job'[u] = job[u]
  BY OneMoves
<1>2. Moves(t, k)
  BY DEF Moves, Quiet
<1>3. QED BY <1>1, <1>2, MoveKeepsArchives

(* The files of a process that has ended keep their types.                 *)
LEMMA EndTypes ==
  ASSUME Sane, ProcessEnds
  PROVE  /\ dir' \in [Backends -> [Files -> {"none", "torn", "bad", "whole"}]]
         /\ spoiled' \subseteq Backends
<1>1. dir \in [Backends -> [Files -> {"none", "torn", "bad", "whole"}]] /\ spoiled \subseteq Backends
  BY DEF Sane
<1>2. \A t \in Threads : Now(t).dir \in Backends
  <2>1. ASSUME NEW t \in Threads PROVE Now(t).dir \in Backends
    <3>1. Current(job[t]) \in Tasks
      BY CurrentIsTask DEF Sane
    <3>2. QED BY <3>1 DEF Current, Now, Tasks
  <2>2. QED BY <2>1
<1>3. Writing \subseteq Threads
  BY DEF Writing
<1>4. PICK cut \in SUBSET Writing :
        dir' = [b \in Backends |-> [f \in Files |->
                 IF \E t \in cut : Now(t).dir = b /\ File(t) = f /\ dir[b][f] \in {"none", "torn"}
                 THEN "torn" ELSE dir[b][f]]]
  BY DEF ProcessEnds
<1> DEFINE hit(b, f) ==
      \E t \in cut : Now(t).dir = b /\ File(t) = f /\ dir[b][f] \in {"none", "torn"}
<1>5. dir' = [b \in Backends |-> [f \in Files |-> IF hit(b, f) THEN "torn" ELSE dir[b][f]]]
  BY <1>4
<1> HIDE DEF hit
<1>6. dir' \in [Backends -> [Files -> {"none", "torn", "bad", "whole"}]]
  BY <1>1, <1>5
<1>7. spoiled' = spoiled \union {Now(t).dir : t \in Writing}
  BY DEF ProcessEnds
<1>8. QED BY <1>1, <1>2, <1>3, <1>6, <1>7

(* The process ends, or begins.                                            *)
LEMMA EndKeeps ==
  ASSUME Sane, ArchiveInv, ProcessEnds, faults' \in 0..MaxFaults
  PROVE  Sane' /\ ArchiveInv'
<1>1. up' = FALSE /\ job' = [t \in Threads |-> Idle] /\ UNCHANGED <<wanted, presses, zip, tmp, mixed>>
  BY DEF ProcessEnds
<1>2. \A t \in Threads : Sound(t, Idle) /\ Idle \in Jobs /\ Idle.phase = "ask"
  BY IdleIsSound DEF Sound
<1>3. job' \in [Threads -> Jobs] /\ \A t \in Threads : job'[t] = Idle
  BY <1>1, <1>2
<1>4. Sane'
  BY <1>1, <1>2, <1>3, EndTypes DEF Sane
<1>5. ArchiveInv'
  BY <1>1, <1>2, <1>3, NobodyFetches
<1>6. QED BY <1>4, <1>5

(* The process begins with one job, at the first task of a start.          *)
LEMMA LaunchKeeps ==
  ASSUME Sane, ArchiveInv, Launch
  PROVE  Sane' /\ ArchiveInv'
<1> DEFINE k == NewJob("start", wanted, 1)
<1>1. /\ ~up /\ up' = TRUE /\ Goes("boot", k) /\ NoFault
      /\ UNCHANGED <<wanted, presses, zip, tmp, dir, spoiled, mixed>>
  BY DEF Launch
<1>2. "boot" \in Threads /\ wanted \in Backends /\ 1 \in 1..Attempts
  BY BackendInstallAssumption DEF Sane, Threads
<1>3. Sound("boot", k) /\ k.phase = "ask"
  BY <1>2, NewJobIsSound DEF KindsOf
<1> HIDE DEF k
<1>4. job = [t \in Threads |-> Idle]
  BY <1>1 DEF Sane
<1>5. job' = [job EXCEPT !["boot"] = k]
  BY <1>1 DEF Goes
<1>6. \A t \in Threads : Sound(t, Idle) /\ Idle \in Jobs /\ Idle.phase = "ask"
  BY IdleIsSound DEF Sound
<1>7. /\ job' \in [Threads -> Jobs]
      /\ \A t \in Threads : Sound(t, job'[t]) /\ job'[t].phase = "ask"
  BY <1>2, <1>3, <1>4, <1>5, <1>6 DEF Sound
<1>8. Sane'
  BY <1>1, <1>7, FaultTypes DEF Sane
<1>9. ArchiveInv'
  BY <1>1, <1>7, NobodyFetches
<1>10. QED BY <1>8, <1>9

(* Going on with the engine, or beginning a download.                      *)
LEMMA DecideKeeps ==
  ASSUME Sane, ArchiveInv, Decide
  PROVE  Sane' /\ ArchiveInv'
<1> DEFINE j == job["boot"]
<1>0. "boot" \in Threads /\ wanted \in Backends /\ 1 \in 1..Attempts
  BY BackendInstallAssumption DEF Sane, Threads
<1>1. NoFault /\ UNCHANGED <<wanted, presses, zip, tmp, dir, up, spoiled, mixed>>
  BY DEF Decide
<1>2. PICK ph \in {"decide", "missing"} : At("boot", ph)
  BY DEF Decide
<1>3. /\ Sound("boot", j) /\ j \in Jobs /\ j.phase = ph /\ up /\ j.backend \in Backends
      /\ j.kind \in {"start", "download", "button"}
  BY <1>0, <1>2, AtWork DEF Jobs
<1>4. Typed'
  BY <1>1, FaultTypes DEF Sane, Typed
<1>5. \E k : Goes("boot", k) /\ Sound("boot", k) /\ k.phase \in {"ask", "decide"}
  <2>1. CASE At("boot", "decide") /\ Goes("boot", [j EXCEPT !.kind = "ready"])
    <3> DEFINE k == [j EXCEPT !.kind = "ready"]
    <3>1. k \in Jobs /\ k.kind = "ready" /\ k.phase = "decide" /\ k.task = j.task
      BY <2>1, <1>3 DEF Jobs, At
    <3> HIDE DEF k
    <3>2. Len(Plan(j)) \in {1, 2}
      BY <1>3, <2>1, PlansAreTasks DEF Sound, At
    <3>3. Len(Plan(k)) = 2
      BY <3>1, PlansAreTasks
    <3>4. k.task \in 1..Len(Plan(k))
      <4>1. j.task \in 1..Len(Plan(j))
        BY <1>3 DEF Sound
      <4> DEFINE n == Len(Plan(j))
                 i == j.task
      <4>2. i \in 1..2
        <5>1. i \in 1..n /\ n \in {1, 2} /\ i \in Nat
          BY <4>1, <3>2, <1>3 DEF Jobs
        <5> HIDE DEF n, i
        <5>2. QED BY <5>1
      <4>3. QED BY <4>2, <3>1, <3>3
    <3>5. Sound("boot", k)
      BY <3>1, <3>4 DEF Sound, KindsOf, FetchPhases, UnpackPhases
    <3>6. QED BY <2>1, <3>1, <3>5 DEF k
  <2>2. CASE Goes("boot", NewJob("download", j.backend, 1))
    BY <2>2, <1>0, <1>3, NewJobIsSound DEF KindsOf
  <2>3. CASE Goes("boot", NewJob("download", wanted, 1))
    BY <2>3, <1>0, NewJobIsSound DEF KindsOf
  <2>4. QED BY <2>1, <2>2, <2>3 DEF Decide
<1>6. PICK k : Goes("boot", k) /\ Sound("boot", k) /\ k.phase \in {"ask", "decide"}
  BY <1>5
<1>7. QED BY <1>0, <1>1, <1>3, <1>4, <1>6, QuietMove

(* The button's goroutine begins and ends.                                 *)
LEMMA ButtonKeeps ==
  ASSUME Sane, ArchiveInv, (\E b \in Pressable : PressButton(b)) \/ ButtonEnds
  PROVE  Sane' /\ ArchiveInv'
<1>0. "button" \in Threads /\ Cpu \in Backends /\ 1 \in 1..Attempts /\ MaxPresses \in Nat
      /\ Pressable \subseteq Backends
  BY BackendInstallAssumption DEF Threads
<1>1. CASE \E b \in Pressable : PressButton(b)
  <2>1. PICK b \in Pressable : PressButton(b)
    BY <1>1
  <2>2. /\ up /\ job["button"].kind = "idle" /\ Goes("button", NewJob("button", b, 1)) /\ NoFault
        /\ presses < MaxPresses /\ presses' = presses + 1
        /\ UNCHANGED <<wanted, zip, tmp, dir, up, spoiled, mixed>>
    BY <2>1 DEF PressButton
  <2>3. Sound("button", NewJob("button", b, 1)) /\ NewJob("button", b, 1).phase = "ask"
    BY <1>0, NewJobIsSound DEF KindsOf
  <2>4. job["button"].phase \in {"ask", "decide"}
    BY <1>0, <2>2 DEF Sane, Sound
  <2>5. presses' \in 0..MaxPresses
    BY <1>0, <2>2 DEF Sane
  <2>6. Typed'
    BY <2>2, <2>5, FaultTypes DEF Sane, Typed
  <2>7. QED BY <1>0, <2>2, <2>3, <2>4, <2>6, QuietMove
<1>2. CASE ButtonEnds
  <2>1. /\ At("button", "over") /\ Goes("button", Idle) /\ NoFault
        /\ UNCHANGED <<wanted, presses, zip, tmp, dir, up, spoiled, mixed>>
    BY <1>2 DEF ButtonEnds
  <2>2. up /\ job["button"].phase = "over"
    BY <1>0, <2>1, AtWork
  <2>3. Typed'
    BY <2>1, FaultTypes DEF Sane, Typed
  <2>4. QED BY <1>0, <2>1, <2>2, <2>3, IdleIsSound, QuietMove
<1>3. QED BY <1>1, <1>2

(* A step of a goroutine keeps the jobs sound and the archives whole.      *)
LEMMA StepKeeps ==
  ASSUME Sane, ArchiveInv, NEW t \in Threads, Step(t)
  PROVE  Sane' /\ ArchiveInv'
<1>1. Sane' /\ \E k : Moves(t, k)
  <2>1. CASE \/ LookupFails(t) \/ FetchAsk(t) \/ FetchOpen(t) \/ FetchWrite(t) \/ FetchFails(t)
             \/ FetchRename(t)
    BY <2>1, FetchSteps DEF ArchiveInv
  <2>2. CASE \/ UnpackAsk(t) \/ UnpackFile(t) \/ UnpackFails(t) \/ UnpackAgain(t)
             \/ UnpackGivesUp(t) \/ UnpackEnds(t)
    BY <2>2, UnpackSteps
  <2>3. QED BY <2>1, <2>2 DEF Step
<1>2. PICK k : Moves(t, k)
  BY <1>1
<1>3. up /\ up' = up
  BY DEF Step, LookupFails, FetchAsk, FetchOpen, FetchWrite, FetchFails, FetchRename, UnpackAsk,
         UnpackFile, UnpackFails, UnpackAgain, UnpackGivesUp, UnpackEnds, At
<1>4. job'[t] = k /\ \A u \in Threads \ {t} : job'[u] = job[u]
  BY <1>2 DEF Moves, Goes, Sane
<1>5. QED BY <1>1, <1>2, <1>3, <1>4, MoveKeepsArchives

(* Nothing has been downloaded at first.                                   *)
LEMMA InstallInitSane == InstallInit => Sane /\ ArchiveInv
<1> SUFFICES ASSUME InstallInit PROVE Sane /\ ArchiveInv
  OBVIOUS
<1>1. \A t \in Threads : Sound(t, Idle) /\ Idle \in Jobs
  BY IdleIsSound DEF Sound
<1>2. /\ up = FALSE /\ job = [t \in Threads |-> Idle]
      /\ zip = [p \in Packages |-> NoZip] /\ tmp = [p \in Packages |-> NoZip]
      /\ wanted \in Backends /\ dir = [b \in Backends |-> [f \in Files |-> "none"]]
      /\ faults \in 0..MaxFaults /\ presses \in 0..MaxPresses /\ spoiled = {} /\ mixed = {}
  BY BackendInstallAssumption DEF InstallInit
<1>3. zip \in [Packages -> Halves] /\ tmp \in [Packages -> Halves]
  BY <1>2, HalvesAre
<1>4. dir \in [Backends -> [Files -> {"none", "torn", "bad", "whole"}]]
  BY <1>2
<1>5. Sane
  BY <1>1, <1>2, <1>3, <1>4 DEF Sane
<1>6. \A t \in Threads, p \in Packages : ~HoldsTmp(t, p)
  BY <1>2 DEF HoldsTmp
<1>7. ArchiveInv
  BY <1>2, <1>6 DEF ArchiveInv, Held, WholeAt
<1>8. QED BY <1>5, <1>7

(* Every step keeps the jobs sound and the archives whole.                 *)
LEMMA NextKeeps == Sane /\ ArchiveInv /\ [InstallNext]_installVars => Sane' /\ ArchiveInv'
<1> SUFFICES ASSUME Sane, ArchiveInv, [InstallNext]_installVars PROVE Sane' /\ ArchiveInv'
  OBVIOUS
<1>1. CASE \E t \in Threads : Step(t)
  BY <1>1, StepKeeps
<1>2. CASE Launch
  BY <1>2, LaunchKeeps
<1>3. CASE Decide
  BY <1>3, DecideKeeps
<1>4. CASE (\E b \in Pressable : PressButton(b)) \/ ButtonEnds
  BY <1>4, ButtonKeeps
<1>5. CASE Crash \/ Restart \/ Quit
  <2>1. ProcessEnds /\ faults' \in 0..MaxFaults
    BY <1>5, FaultTypes DEF Crash, Restart, Quit
  <2>2. QED BY <2>1, EndKeeps
<1>6. CASE UNCHANGED installVars
  BY <1>6 DEF installVars, Sane, ArchiveInv, Held, WholeAt, HoldsTmp, OthersHold, Now
<1>7. QED BY <1>1, <1>2, <1>3, <1>4, <1>5, <1>6 DEF InstallNext

(* Every variable of the installation keeps its type, and no job leaves    *)
(* its plan (downloadAndInstallBackend's sequence of tasks).               *)
THEOREM InstallIsTyped == InstallSpec => []InstallTypeOK
<1>1. InstallInit => Sane /\ ArchiveInv
  BY InstallInitSane
<1>2. Sane /\ ArchiveInv /\ [InstallNext]_installVars => (Sane /\ ArchiveInv)'
  BY NextKeeps
<1>3. Sane => InstallTypeOK
  BY SaneIsTyped
<1>4. QED BY <1>1, <1>2, <1>3, PTL DEF InstallSpec

(* An archive has its final name with all its bytes only (DownloadBackendZip, the rename). *)
THEOREM ArchivesAreWhole == InstallSpec => []ArchiveIsWhole
<1>1. InstallInit => Sane /\ ArchiveInv
  BY InstallInitSane
<1>2. Sane /\ ArchiveInv /\ [InstallNext]_installVars => (Sane /\ ArchiveInv)'
  BY NextKeeps
<1>3. ArchiveInv => ArchiveIsWhole
  BY DEF ArchiveInv, ArchiveIsWhole, WholeAt
<1>4. QED BY <1>1, <1>2, <1>3, PTL DEF InstallSpec

-----------------------------------------------------------------------------
(* What a restart finds.                                                   *)

(* Goroutine t is between the two files of a base, in the directory of b.  *)
BaseWriter(t, b) ==
  /\ up /\ job[t].phase = "unpack" /\ job[t].next = 2
  /\ Now(t).pkg \notin Modular \union {Cudart} /\ Now(t).dir = b

(* A base of which only the first file is there is being unpacked.         *)
BaseComes ==
  \A b \in Backends \ spoiled :
    Present(b, "exe") /\ ~Present(b, "core") => \E t \in Threads : BaseWriter(t, b)

InstallPlace(b) == BaseTasks(b) + 2 + CudartTasks(b)

Past(k, n) == k.task > n \/ k.phase = "restart"

(* What a download has brought when it has done so many of its tasks; the  *)
(* vendor's runtime is skipped only if it cannot be unpacked.              *)
Brought(k) ==
  LET b == k.backend IN
    k.kind = "download" /\ b \notin spoiled =>
      /\ b \in Modular /\ Past(k, 2) => Present(b, "exe")
      /\ Past(k, InstallPlace(b)) => Present(b, IF b \in Modular THEN "dll" ELSE "exe")
      /\ b \in NeedsCudart =>
           /\ Past(k, 6) => Present(b, "rt")
           /\ k.task \in {5, 6} /\ k.phase # "restart" => zip[Cudart] # NoZip
           /\ k.task = 6 => /\ k.phase # "failed"
                            /\ k.phase = "unpack" /\ k.next > 1 => Present(b, "rt")

RestartInv == BaseComes /\ Brought(job["boot"])

(* The tasks of a download, once more, for the job that does them.         *)
LEMMA DownloadTask ==
  ASSUME NEW t, NEW j, Sound(t, j), j.kind = "download"
  PROVE  LET b == j.backend
             i == j.task
             n == Len(Plan(j))
         IN  /\ b \in Backends /\ n \in Nat /\ i \in 1..n /\ n >= InstallPlace(b)
             /\ InstallPlace(b) = (IF b \in NeedsCudart THEN 5 ELSE IF b \in Modular THEN 4 ELSE 2)
             /\ b \in NeedsCudart => b \in Modular /\ n >= 6
             /\ b \in Modular /\ i = 1 => Current(j) = Task("fetchBase", Cpu, b, "abort")
             /\ b \in Modular /\ i = 2 => Current(j) = Task("base", Cpu, b, "abort")
             /\ b \notin Modular /\ i = 1 => Current(j) = Task("fetch", b, b, "abort")
             /\ b \in Modular /\ i = 3 => Current(j) = Task("fetch", b, b, "abort")
             /\ b \in NeedsCudart /\ i = 4 => Current(j) = Task("fetch", Cudart, b, "abort")
             /\ i = InstallPlace(b) => Current(j) = Task("install", b, b, "abort")
             /\ b \in NeedsCudart /\ i = 6 => Current(j) = Task("runtime", Cudart, b, "skip")
             /\ b \notin NeedsCudart => i <= InstallPlace(b)
<1> DEFINE b == j.backend
           i == j.task
           P == DownloadPlan(b)
<1>1. b \in Backends /\ i \in 1..Len(Plan(j)) /\ Plan(j) = P /\ Current(j) = P[i]
  BY DEF Sound, Jobs, Plan, Current
<1>2. NeedsCudart \subseteq Modular
  BY BackendInstallAssumption
<1> HIDE DEF b, i, P
<1>3. /\ P \in Seq(Tasks) /\ Len(P) \in Nat
      /\ Len(P) >= BaseTasks(b) + 2 + 2 * CudartTasks(b)
      /\ CudartTasks(b) = 0 => Len(P) = BaseTasks(b) + 2
      /\ b \in Modular => /\ P[1] = Task("fetchBase", Cpu, b, "abort")
                          /\ P[2] = Task("base", Cpu, b, "abort")
      /\ P[BaseTasks(b) + 1] = Task("fetch", b, b, "abort")
      /\ CudartTasks(b) = 1 => P[BaseTasks(b) + 2] = Task("fetch", Cudart, b, "abort")
      /\ P[BaseTasks(b) + 2 + CudartTasks(b)] = Task("install", b, b, "abort")
      /\ CudartTasks(b) = 1 =>
           P[BaseTasks(b) + 3 + CudartTasks(b)] = Task("runtime", Cudart, b, "skip")
  BY <1>1, DownloadTasks DEF P
<1>4. CASE b \notin Modular
  <2>1. BaseTasks(b) = 0 /\ CudartTasks(b) = 0 /\ InstallPlace(b) = 2 /\ b \notin NeedsCudart
    BY <1>2, <1>4 DEF BaseTasks, CudartTasks, InstallPlace
  <2>2. Len(P) = 2 /\ P[1] = Task("fetch", b, b, "abort") /\ P[2] = Task("install", b, b, "abort")
    BY <1>3, <2>1
  <2>3. i \in {1, 2} /\ Len(Plan(j)) = 2
    BY <1>1, <2>2
  <2>4. QED BY <1>1, <1>4, <2>1, <2>2, <2>3 DEF b, i
<1>5. CASE b \in Modular /\ b \notin NeedsCudart
  <2>1. BaseTasks(b) = 2 /\ CudartTasks(b) = 0 /\ InstallPlace(b) = 4
    BY <1>5 DEF BaseTasks, CudartTasks, InstallPlace
  <2>2. Len(P) = 4 /\ P[3] = Task("fetch", b, b, "abort") /\ P[4] = Task("install", b, b, "abort")
    BY <1>3, <2>1
  <2>3. i \in 1..4 /\ Len(Plan(j)) = 4
    BY <1>1, <2>2
  <2>4. QED BY <1>1, <1>3, <1>5, <2>1, <2>2, <2>3 DEF b, i
<1>6. CASE b \in NeedsCudart
  <2>1. BaseTasks(b) = 2 /\ CudartTasks(b) = 1 /\ InstallPlace(b) = 5 /\ b \in Modular
    BY <1>2, <1>6 DEF BaseTasks, CudartTasks, InstallPlace
  <2>2. /\ Len(P) >= 6 /\ P[3] = Task("fetch", b, b, "abort")
        /\ P[4] = Task("fetch", Cudart, b, "abort") /\ P[5] = Task("install", b, b, "abort")
        /\ P[6] = Task("runtime", Cudart, b, "skip")
    BY <1>3, <2>1
  <2>3. Len(Plan(j)) \in Nat /\ Len(Plan(j)) >= 6
    BY <1>1, <1>3, <2>2
  <2>4. QED BY <1>1, <1>3, <1>6, <2>1, <2>2, <2>3 DEF b, i
<1>7. QED BY <1>4, <1>5, <1>6

(* What is there stays, unless an unpacking into the same directory has    *)
(* been cut short or has failed.                                           *)
Kept ==
  /\ spoiled \subseteq spoiled'
  /\ \A b \in Backends \ spoiled', f \in Files : Present(b, f) => Present(b, f)'

(* A download goes on in the same task.                                    *)
LEMMA BroughtInTask ==
  ASSUME NEW t, NEW j, Sound(t, j), Brought(j), j.phase # "restart", Kept,
         NEW k, k.kind = j.kind, k.backend = j.backend, k.task = j.task, k.phase # "restart",
         j.backend \in NeedsCudart /\ j.task \in {5, 6} =>
           zip'[Cudart] # NoZip \/ zip[Cudart] = NoZip,
         k.task = 6 /\ k.backend \in NeedsCudart /\ k.backend \notin spoiled' =>
           /\ k.phase # "failed"
           /\ k.phase = "unpack" /\ k.next > 1 => Present(k.backend, "rt")'
  PROVE  Brought(k)'
<1> DEFINE b == j.backend
<1> SUFFICES ASSUME k.kind = "download", b \notin spoiled'
             PROVE  /\ b \in Modular /\ Past(k, 2) => Present(b, "exe")'
                    /\ Past(k, InstallPlace(b)) =>
                         Present(b, IF b \in Modular THEN "dll" ELSE "exe")'
                    /\ b \in NeedsCudart =>
                         /\ Past(k, 6) => Present(b, "rt")'
                         /\ k.task \in {5, 6} /\ k.phase # "restart" => zip'[Cudart] # NoZip
                         /\ k.task = 6 => /\ k.phase # "failed"
                                          /\ k.phase = "unpack" /\ k.next > 1 => Present(b, "rt")'
  BY DEF Brought
<1>1. b \in Backends /\ b \notin spoiled
  BY DEF Sound, Jobs, Kept
<1>2. \A n \in Nat : Past(k, n) => Past(j, n)
  BY DEF Past
<1>3. InstallPlace(b) \in Nat
  BY DEF InstallPlace, BaseTasks, CudartTasks
<1>4. \A f \in Files : Present(b, f) => Present(b, f)'
  BY <1>1 DEF Kept
<1>5. b \in Modular /\ Past(k, 2) => Present(b, "exe")'
  BY <1>2, <1>1, <1>4 DEF Brought, Files
<1>6. Past(k, InstallPlace(b)) => Present(b, IF b \in Modular THEN "dll" ELSE "exe")'
  BY <1>1, <1>2, <1>3, <1>4 DEF Brought, Files
<1>7. b \in NeedsCudart /\ Past(k, 6) => Present(b, "rt")'
  BY <1>1, <1>2, <1>4 DEF Brought, Files
<1>8. b \in NeedsCudart /\ k.task \in {5, 6} => zip'[Cudart] # NoZip
  BY <1>1 DEF Brought
<1>9. QED BY <1>5, <1>6, <1>7, <1>8

(* A download has done a task.                                             *)
LEMMA BroughtDone ==
  ASSUME NEW t \in Threads, NEW j, Sound(t, j), Brought(j), j.phase # "restart", Kept,
         j.kind = "download",
         j.backend \notin spoiled' =>
           /\ j.backend \in Modular /\ j.task = 2 => Present(j.backend, "exe")'
           /\ j.task = InstallPlace(j.backend) =>
                Present(j.backend, IF j.backend \in Modular THEN "dll" ELSE "exe")'
           /\ j.backend \in NeedsCudart /\ j.task = 6 => Present(j.backend, "rt")'
           /\ j.backend \in NeedsCudart /\ j.task \in {4, 5} => zip'[Cudart] # NoZip
  PROVE  Brought(Advanced(j))'
<1> DEFINE b == j.backend
           k == Advanced(j)
           n == Len(Plan(j))
           i == j.task
<1>0. /\ b \in Backends /\ n \in Nat /\ i \in 1..n /\ n >= InstallPlace(b) /\ i \in Nat
      /\ InstallPlace(b) \in {2, 4, 5} /\ (b \in NeedsCudart => n >= 6)
      /\ (b \in Modular => InstallPlace(b) >= 4)
  BY DownloadTask
<1>1. /\ k.kind = "download" /\ k.backend = b
      /\ \/ i # n /\ k.phase = "ask" /\ k.task = i + 1
         \/ i = n /\ k.task = i /\ k.phase = "restart"
  BY AdvancedIsSound DEF Advanced, JobAt
<1> HIDE DEF k, n, i
<1> SUFFICES ASSUME b \notin spoiled'
             PROVE  /\ b \in Modular /\ Past(k, 2) => Present(b, "exe")'
                    /\ Past(k, InstallPlace(b)) =>
                         Present(b, IF b \in Modular THEN "dll" ELSE "exe")'
                    /\ b \in NeedsCudart =>
                         /\ Past(k, 6) => Present(b, "rt")'
                         /\ k.task \in {5, 6} /\ k.phase # "restart" => zip'[Cudart] # NoZip
                         /\ k.task = 6 => /\ k.phase # "failed"
                                          /\ k.phase = "unpack" /\ k.next > 1 => Present(b, "rt")'
  BY <1>1 DEF Brought, k
<1>2. b \notin spoiled /\ \A f \in Files : Present(b, f) => Present(b, f)'
  BY <1>0 DEF Kept
<1>3. \A x \in Nat : x <= n /\ Past(k, x) => i >= x
  BY <1>0, <1>1 DEF Past
<1>4. \A x \in Nat : i > x => Past(j, x)
  BY DEF Past, i
<1>5. ASSUME b \in Modular, Past(k, 2) PROVE Present(b, "exe")'
  <2>1. i >= 2
    BY <1>0, <1>3, <1>5
  <2>2. CASE i = 2
    BY <2>2, <1>5 DEF i
  <2>3. CASE i > 2
    BY <2>3, <1>2, <1>4, <1>5 DEF Brought, Files
  <2>4. QED BY <2>1, <2>2, <2>3, <1>0
<1>6. ASSUME Past(k, InstallPlace(b)) PROVE Present(b, IF b \in Modular THEN "dll" ELSE "exe")'
  <2>1. i >= InstallPlace(b) /\ InstallPlace(b) \in Nat
    BY <1>0, <1>3, <1>6
  <2>2. CASE i = InstallPlace(b)
    BY <2>2 DEF i
  <2>3. CASE i > InstallPlace(b)
    <3>1. Past(j, InstallPlace(b))
      BY <2>1, <2>3, <1>4
    <3>2. Present(b, IF b \in Modular THEN "dll" ELSE "exe")
      BY <3>1, <1>2 DEF Brought
    <3>3. QED BY <3>2, <1>2 DEF Files
  <2>4. QED BY <2>1, <2>2, <2>3, <1>0
<1>7. ASSUME b \in NeedsCudart, Past(k, 6) PROVE Present(b, "rt")'
  <2>1. i >= 6
    BY <1>0, <1>3, <1>7
  <2>2. CASE i = 6
    BY <2>2, <1>7 DEF i
  <2>3. CASE i > 6
    BY <2>3, <1>2, <1>4, <1>7 DEF Brought, Files
  <2>4. QED BY <2>1, <2>2, <2>3, <1>0
<1>8. ASSUME b \in NeedsCudart, k.task \in {5, 6}, k.phase # "restart" PROVE zip'[Cudart] # NoZip
  <2>1. i \in {4, 5}
    BY <1>0, <1>1, <1>8
  <2>2. QED BY <2>1, <1>8 DEF i
<1>9. ASSUME b \in NeedsCudart, k.task = 6 PROVE k.phase # "failed" /\ k.phase # "unpack"
  BY <1>1
<1>10. QED BY <1>5, <1>6, <1>7, <1>8, <1>9

(* Nothing is claimed of a job that has done no task.                      *)
LEMMA BroughtNothing ==
  ASSUME NEW k, k.task = 1, k.phase # "restart"
  PROVE  Brought(k) /\ Brought(k)'
<1>1. InstallPlace(k.backend) \in {2, 3, 4, 5}
  BY DEF InstallPlace, BaseTasks, CudartTasks
<1>2. ~Past(k, 2) /\ ~Past(k, InstallPlace(k.backend)) /\ ~Past(k, 6) /\ k.task \notin {5, 6}
  BY <1>1 DEF Past
<1>3. QED BY <1>2 DEF Brought

(* A task of a download fails.                                             *)
LEMMA BroughtFails ==
  ASSUME Sane, NEW ph, At("boot", ph), ph # "restart", Kept,
         NEW j, j = job["boot"], j.kind = "download", Brought(j),
         NEW k, k = AfterFailure("boot"),
         j.backend \in NeedsCudart => j.task # 6 \/ j.backend \in spoiled',
         j.backend \in NeedsCudart /\ j.task = 5 =>
           zip'[Cudart] # NoZip \/ zip[Cudart] = NoZip
  PROVE  Brought(k)'
<1> DEFINE b == j.backend
<1>0. "boot" \in Threads
  BY DEF Threads
<1>1. Sound("boot", j) /\ j.phase = ph /\ Now("boot") = Current(j)
  BY <1>0, AtWork
<1>2. CASE b \in NeedsCudart /\ b \in spoiled'
  <2>1. CASE k.kind = "download" /\ k.backend = b
    BY <1>2, <2>1 DEF Brought
  <2>2. CASE k.kind # "download"
    BY <2>2 DEF Brought
  <2>3. k.kind = "download" => k.backend = b
    <3>1. CASE Now("boot").onFail = "abort"
      BY <3>1, <1>0, <1>1, AbortedIsSound DEF AfterFailure
    <3>2. CASE Now("boot").onFail = "finish"
      BY <3>2, <1>0, <1>1, FinishedIsSound DEF AfterFailure
    <3>3. CASE Now("boot").onFail = "download"
      <4>1. CASE b \in SilentFallback
        BY <3>3, <4>1 DEF AfterFailure, NewJob, JobAt
      <4>2. CASE b \notin SilentFallback
        <5>1. k = [j EXCEPT !.phase = "missing"]
          BY <3>3, <4>2 DEF AfterFailure
        <5>2. j \in Jobs
          BY <1>1 DEF Sound
        <5>3. QED BY <5>1, <5>2 DEF Jobs
      <4>3. QED BY <4>1, <4>2
    <3>4. CASE Now("boot").onFail \notin {"abort", "finish", "download"}
      BY <3>4, <1>0, <1>1, AdvancedIsSound DEF AfterFailure
    <3>5. QED BY <3>1, <3>2, <3>3, <3>4
  <2>4. QED BY <2>1, <2>2, <2>3
<1>3. CASE ~(b \in NeedsCudart /\ b \in spoiled')
  <2>0. b \in NeedsCudart => j.task # 6
    BY <1>3
  <2>1. CASE Now("boot").onFail = "abort"
    <3>1. /\ k.phase \in {"ask", "over"} /\ (k.phase = "ask" => k.task = 1)
          /\ (k.phase = "over" => k.task = j.task) /\ k.kind = j.kind /\ k.backend = b
      BY <2>1, <1>0, <1>1, AbortedIsSound DEF AfterFailure
    <3>2. CASE k.phase = "ask"
      BY <3>1, <3>2, BroughtNothing
    <3>3. CASE k.phase = "over"
      <4>1. k.phase # "restart" /\ j.phase # "restart" /\ k.task = j.task
        BY <3>1, <3>3, <1>1
      <4>2. b \in NeedsCudart /\ j.task \in {5, 6} => zip'[Cudart] # NoZip \/ zip[Cudart] = NoZip
        BY <2>0
      <4>3. QED BY <3>1, <4>1, <4>2, <1>1, <2>0, BroughtInTask
    <3>4. QED BY <3>1, <3>2, <3>3
  <2>2. CASE Now("boot").onFail \notin {"abort", "download"}
    <3>1. /\ b \in NeedsCudart => j.task > 6
          /\ b \in NeedsCudart /\ j.task \in Nat
      <4>1. /\ b \in Backends /\ j.task \in 1..Len(Plan(j)) /\ Len(Plan(j)) \in Nat
            /\ b \notin NeedsCudart => j.task <= InstallPlace(b)
            /\ InstallPlace(b) = (IF b \in NeedsCudart THEN 5 ELSE IF b \in Modular THEN 4 ELSE 2)
        BY <1>1, DownloadTask
      <4>2. \A x, y, z, u : Task(x, y, z, u).onFail = u
        BY DEF Task
      <4>3. /\ j.task # InstallPlace(b)
            /\ b \in Modular => j.task \notin {1, 2, 3}
            /\ b \notin Modular => j.task # 1
            /\ b \in NeedsCudart => j.task # 4
        BY <1>1, <2>2, <4>2, DownloadTask
      <4>4. CASE b \in NeedsCudart
        <5>1. b \in Modular
          BY <4>4, BackendInstallAssumption
        <5>2. j.task \in Nat /\ j.task \notin {0, 1, 2, 3, 4, 5, 6}
          BY <4>1, <4>3, <4>4, <5>1, <2>0
        <5>3. QED BY <4>4, <5>2
      <4>5. CASE b \notin NeedsCudart /\ b \in Modular
        BY <4>1, <4>3, <4>5
      <4>6. CASE b \notin Modular
        <5>1. b \notin NeedsCudart
          BY <4>6, BackendInstallAssumption
        <5>2. QED BY <4>1, <4>3, <4>6, <5>1
      <4>7. QED BY <4>4, <4>5, <4>6
    <3>2. CASE Now("boot").onFail = "finish"
      <4>1. /\ k.kind = "download" /\ k.backend = b /\ k.task = j.task /\ k.phase = "restart"
        BY <3>2, <1>0, <1>1, FinishedIsSound DEF AfterFailure
      <4>2. b \in Backends /\ b \in Modular
        BY <3>1, <1>1, BackendInstallAssumption DEF Sound, Jobs
      <4>3. InstallPlace(b) = 5
        BY <3>1, <4>2 DEF InstallPlace, BaseTasks, CudartTasks
      <4>4. Past(j, 2) /\ Past(j, InstallPlace(b)) /\ Past(j, 6)
        BY <3>1, <4>3 DEF Past
      <4>5. b \notin spoiled' => Present(b, "exe")' /\ Present(b, "dll")' /\ Present(b, "rt")'
        <5>1. ASSUME b \notin spoiled'
              PROVE  b \notin spoiled /\ \A f \in Files : Present(b, f) => Present(b, f)'
          BY <4>2, <5>1 DEF Kept
        <5>2. QED BY <5>1, <4>2, <4>4, <3>1 DEF Brought, Files
      <4>6. QED BY <4>1, <4>2, <4>5, <3>1 DEF Brought
    <3>3. CASE Now("boot").onFail # "finish"
      <4>1. k = Advanced(j)
        BY <2>2, <3>3 DEF AfterFailure
      <4>2. InstallPlace(b) = 5 /\ j.task > 6 /\ j.task \in Nat
        BY <3>1, <1>1, DownloadTask
      <4>3. j.phase # "restart"
        BY <1>1
      <4>4. j.task \notin {2, 4, 5, 6} /\ j.task # InstallPlace(b)
        BY <4>2
      <4>5. QED BY <4>1, <4>3, <4>4, <1>0, <1>1, BroughtDone
    <3>4. QED BY <3>2, <3>3
  <2>3. CASE Now("boot").onFail = "download"
    <3>1. CASE b \in SilentFallback
      <4>1. k.kind = "start"
        BY <2>3, <3>1 DEF AfterFailure, NewJob, JobAt
      <4>2. QED BY <4>1 DEF Brought
    <3>2. CASE b \notin SilentFallback
      <4>1. k = [j EXCEPT !.phase = "missing"]
        BY <2>3, <3>2 DEF AfterFailure
      <4>2. k.kind = j.kind /\ k.backend = b /\ k.task = j.task /\ k.phase = "missing"
        BY <4>1, <1>1 DEF Sound, Jobs
      <4>3. j.phase # "restart"
        BY <1>1
      <4>4. b \in NeedsCudart /\ j.task \in {5, 6} => zip'[Cudart] # NoZip \/ zip[Cudart] = NoZip
        BY <2>0
      <4>5. QED BY <4>2, <4>3, <4>4, <1>1, <2>0, BroughtInTask
    <3>3. QED BY <3>1, <3>2
  <2>4. QED BY <2>1, <2>2, <2>3
<1>4. QED BY <1>2, <1>3

-----------------------------------------------------------------------------
(* The files, and those who are between the two files of a base.           *)

(* What each archive holds, without the order of the cases.                *)
LEMMA ContentsAre ==
  ASSUME NEW p
  PROVE  /\ p = Cudart => Contents(p) = <<"rt">>
         /\ p # Cudart /\ p \in Modular => Contents(p) = <<"dll">>
         /\ p # Cudart /\ p \notin Modular => Contents(p) = <<"exe", "core">>
<1>1. CASE p = Cudart
  BY <1>1, BackendInstallAssumption DEF Contents
<1>2. CASE p # Cudart /\ p \in Modular
  BY <1>2 DEF Contents
<1>3. CASE p # Cudart /\ p \notin Modular
  BY <1>3 DEF Contents
<1>4. QED BY <1>1, <1>2, <1>3

(* Between the two files of a base, the library is the one that is next.   *)
LEMMA BaseWriterFiles ==
  ASSUME NEW t, NEW b, BaseWriter(t, b)
  PROVE  /\ MoreFiles(t) /\ File(t) = "core" /\ Now(t).dir = b /\ job[t].phase = "unpack"
         /\ job[t].next = 2
<1>1. Contents(Now(t).pkg) = <<"exe", "core">>
  BY DEF BaseWriter, Contents
<1>2. QED BY <1>1 DEF BaseWriter, MoreFiles, File

(* Where no file changes and nobody leaves the middle of a base, bases     *)
(* stay complete or in work.                                               *)
LEMMA SameFiles ==
  ASSUME BaseComes, NEW t \in Threads, spoiled \subseteq spoiled', up' = up,
         \A u \in Threads \ {t} : job'[u] = job[u],
         \A b \in Backends \ spoiled' :
           /\ ~BaseWriter(t, b)
           /\ dir'[b] = dir[b]
  PROVE  Kept /\ BaseComes'
<1>1. Kept
  BY DEF Kept, Present
<1>2. ASSUME NEW b \in Backends \ spoiled', Present(b, "exe")', ~Present(b, "core")'
      PROVE  \E u \in Threads : BaseWriter(u, b)'
  <2>1. b \notin spoiled /\ Present(b, "exe") /\ ~Present(b, "core")
    BY <1>2 DEF Present
  <2>2. PICK u \in Threads : BaseWriter(u, b)
    BY <2>1 DEF BaseComes
  <2>3. u # t
    BY <2>2
  <2>4. job'[u] = job[u] /\ up' = up
    BY <2>3
  <2>5. BaseWriter(u, b)'
    BY <2>2, <2>4 DEF BaseWriter, Now
  <2>6. QED BY <2>5
<1>3. QED BY <1>1, <1>2 DEF BaseComes

(* A file that is unpacked: the program begins a base, the library         *)
(* completes it.                                                           *)
LEMMA FileKeepsBases ==
  ASSUME Sane, BaseComes, NEW t \in Threads, UnpackFile(t)
  PROVE  Kept /\ BaseComes'
<1> DEFINE j == job[t]
           k == [job[t] EXCEPT !.next = @ + 1]
<1>0. PICK b, f : b = Now(t).dir /\ f = File(t)
  OBVIOUS
<1>1. /\ At(t, "unpack") /\ MoreFiles(t) /\ up' = up /\ spoiled' = spoiled
      /\ job' = [job EXCEPT ![t] = k]
      /\ \/ dir[b][f] \in {"bad", "whole"} /\ dir' = dir
         \/ dir[b][f] \in {"none", "torn"} /\ dir' = [dir EXCEPT ![b][f] = "whole"]
  BY <1>0 DEF UnpackFile, Goes
<1>2. /\ b \in Backends /\ f \in Files /\ j \in Jobs /\ up /\ j.phase = "unpack"
      /\ Now(t).pkg \in Packages
  BY <1>0, <1>1, AtWork, FileIsFile
<1>3. dir \in [Backends -> [Files -> {"none", "torn", "bad", "whole"}]] /\ job \in [Threads -> Jobs]
  BY DEF Sane
<1>4. /\ k.phase = "unpack" /\ k.kind = j.kind /\ k.backend = j.backend /\ k.task = j.task
      /\ k.next = j.next + 1 /\ j.next \in Nat \ {0}
  BY <1>2 DEF Jobs
<1>5. job'[t] = k /\ \A u \in Threads \ {t} : job'[u] = job[u]
  BY <1>1, <1>3
<1>6. Now(t)' = Now(t)
  <2>1. Plan(k) = Plan(j)
    BY <1>4, SamePlan
  <2> HIDE DEF k
  <2>2. QED BY <1>4, <1>5, <2>1 DEF Now
<1> HIDE DEF k
<1>7. /\ Present(b, f)'
      /\ \A c \in Backends, g \in Files : c # b \/ g # f => (Present(c, g)' <=> Present(c, g))
  <2>1. CASE dir[b][f] \in {"bad", "whole"} /\ dir' = dir
    BY <2>1 DEF Present
  <2>2. CASE dir' = [dir EXCEPT ![b][f] = "whole"]
    <3>1. dir' \in [Backends -> [Files -> {"none", "torn", "bad", "whole"}]] /\ dir'[b][f] = "whole"
      BY <2>2, <1>2, <1>3
    <3>2. \A c \in Backends, g \in Files : c # b \/ g # f => dir'[c][g] = dir[c][g]
      BY <2>2, <1>2, <1>3
    <3>3. QED BY <3>1, <3>2 DEF Present
  <2>3. QED BY <2>1, <2>2, <1>1
<1>8. Kept
  <2>1. \A c \in Backends, g \in Files : Present(c, g) => Present(c, g)'
    BY <1>7
  <2>2. QED BY <2>1, <1>1 DEF Kept
<1>9. ASSUME NEW c \in Backends \ spoiled', Present(c, "exe")', ~Present(c, "core")'
      PROVE  \E u \in Threads : BaseWriter(u, c)'
  <2>1. CASE Present(c, "exe")
    <3>1. ~Present(c, "core") /\ c \notin spoiled
      BY <1>1, <1>8, <1>9 DEF Kept, Files
    <3>2. PICK u \in Threads : BaseWriter(u, c)
      BY <2>1, <3>1 DEF BaseComes
    <3>3. u # t
      <4>1. SUFFICES ASSUME u = t PROVE FALSE
        OBVIOUS
      <4>2. c = b /\ f = "core"
        BY <3>2, <4>1, <1>0, BaseWriterFiles
      <4>3. QED BY <4>2, <1>7, <1>9
    <3>4. BaseWriter(u, c)'
      BY <3>2, <3>3, <1>1, <1>5 DEF BaseWriter, Now
    <3>5. QED BY <3>4
  <2>2. CASE ~Present(c, "exe")
    <3>1. c = b /\ f = "exe"
      BY <2>2, <1>7, <1>9 DEF Files
    <3>2. Now(t).pkg \notin Modular \union {Cudart} /\ j.next = 1
      <4>1. Contents(Now(t).pkg)[j.next] = "exe" /\ j.next <= Len(Contents(Now(t).pkg))
        BY <1>0, <1>1, <3>1 DEF File, MoreFiles
      <4>2. CASE Now(t).pkg = Cudart
        <5>1. Contents(Now(t).pkg) = <<"rt">>
          BY <4>2, ContentsAre
        <5>2. j.next = 1
          BY <5>1, <4>1, <1>4
        <5>3. QED BY <5>1, <5>2, <4>1
      <4>3. CASE Now(t).pkg # Cudart /\ Now(t).pkg \in Modular
        <5>1. Contents(Now(t).pkg) = <<"dll">>
          BY <4>3, ContentsAre
        <5>2. j.next = 1
          BY <5>1, <4>1, <1>4
        <5>3. QED BY <5>1, <5>2, <4>1
      <4>4. CASE Now(t).pkg # Cudart /\ Now(t).pkg \notin Modular
        <5>1. Contents(Now(t).pkg) = <<"exe", "core">>
          BY <4>4, ContentsAre
        <5>2. j.next \in {1, 2}
          BY <5>1, <4>1, <1>4
        <5>3. QED BY <5>1, <5>2, <4>1, <4>4
      <4>5. QED BY <4>2, <4>3, <4>4
    <3>3. BaseWriter(t, c)'
      <4>1. k.next = 2 /\ k.phase = "unpack" /\ up'
        BY <3>2, <1>1, <1>2, <1>4
      <4>2. job'[t].next = 2 /\ job'[t].phase = "unpack"
        BY <4>1, <1>5
      <4>3. Now(t)'.pkg \notin Modular \union {Cudart} /\ Now(t)'.dir = c
        BY <1>0, <3>1, <3>2, <1>6
      <4>4. QED BY <4>1, <4>2, <4>3 DEF BaseWriter
    <3>4. QED BY <3>3
  <2>3. QED BY <2>1, <2>2
<1>10. QED BY <1>8, <1>9 DEF BaseComes

(* A step of a goroutine loses no file and leaves no base half done,       *)
(* where no unpacking fails.                                               *)
LEMMA StepKeepsBases ==
  ASSUME Sane, BaseComes, NEW t \in Threads, Step(t), \A u \in Threads \ {t} : job'[u] = job[u]
  PROVE  Kept /\ BaseComes'
<1>0. /\ dir \in [Backends -> [Files -> {"none", "torn", "bad", "whole"}]]
      /\ up' = up
  BY DEF Sane, Step, LookupFails, FetchAsk, FetchOpen, FetchWrite, FetchFails, FetchRename,
         UnpackAsk, UnpackFile, UnpackFails, UnpackAgain, UnpackGivesUp, UnpackEnds
<1>1. CASE \/ LookupFails(t) \/ FetchAsk(t) \/ FetchOpen(t) \/ FetchWrite(t) \/ FetchFails(t)
           \/ FetchRename(t) \/ UnpackAsk(t) \/ UnpackGivesUp(t)
  <2>1. dir' = dir /\ spoiled' = spoiled /\ job[t].phase # "unpack"
    BY <1>1 DEF LookupFails, FetchAsk, FetchOpen, FetchWrite, FetchFails, FetchRename, UnpackAsk,
         UnpackGivesUp, At
  <2>2. QED BY <2>1, <1>0, SameFiles DEF BaseWriter
<1>2. CASE UnpackEnds(t)
  <2>1. dir' = dir /\ spoiled' = spoiled /\ ~MoreFiles(t)
    BY <1>2 DEF UnpackEnds
  <2>2. QED BY <2>1, <1>0, BaseWriterFiles, SameFiles
<1>3. CASE UnpackAgain(t)
  <2>1. /\ job[t].phase = "failed" /\ spoiled' = spoiled \union {Now(t).dir}
        /\ dir' = [dir EXCEPT ![Now(t).dir] = [f \in Files |-> "none"]]
    BY <1>3 DEF UnpackAgain, At
  <2>2. \A b \in Backends \ spoiled' : dir'[b] = dir[b] /\ ~BaseWriter(t, b)
    BY <2>1, <1>0 DEF BaseWriter
  <2>3. QED BY <2>1, <2>2, <1>0, SameFiles
<1>4. CASE UnpackFails(t)
  <2>1. /\ spoiled' = spoiled \union {Now(t).dir}
        /\ dir' = dir \/ \E s \in {"torn", "bad"} : dir' = [dir EXCEPT ![Now(t).dir][File(t)] = s]
    BY <1>4 DEF UnpackFails
  <2>2. \A b \in Backends \ spoiled' : dir'[b] = dir[b]
    BY <2>1, <1>0
  <2>3. \A b \in Backends \ spoiled' : ~BaseWriter(t, b)
    BY <2>1 DEF BaseWriter
  <2>4. QED BY <2>1, <2>2, <2>3, <1>0, SameFiles
<1>5. CASE UnpackFile(t)
  BY <1>5, FileKeepsBases
<1>6. QED BY <1>1, <1>2, <1>3, <1>4, <1>5 DEF Step

-----------------------------------------------------------------------------
(* What a download has brought, step by step.                              *)

(* The button's goroutine does not touch the vendor's archive.             *)
LEMMA ButtonTasks ==
  ASSUME NEW j, Sound("button", j), j.kind = "button"
  PROVE  Current(j).pkg \in Backends
<1>1. j.task \in 1..Len(Plan(j)) /\ Plan(j) = ButtonPlan(j.backend) /\ j.backend \in Backends
  BY DEF Sound, Plan, Jobs
<1>2. j.task \in {1, 2} /\ Current(j) = ButtonPlan(j.backend)[j.task]
  BY <1>1 DEF ButtonPlan, Current
<1>3. QED BY <1>1, <1>2 DEF ButtonPlan, Task

(* What t's step does to the vendor's archive.                             *)
LEMMA ZipSteps ==
  ASSUME Sane, NEW t \in Threads, Step(t)
  PROVE  \/ zip[Cudart] # NoZip => zip'[Cudart] # NoZip
         \/ Now(t).pkg = Cudart
<1>0. zip \in [Packages -> Halves] /\ Cudart \in Packages
  BY DEF Sane, Packages
<1>1. CASE \/ LookupFails(t) \/ FetchAsk(t) \/ FetchOpen(t) \/ FetchWrite(t) \/ FetchFails(t)
           \/ UnpackAsk(t) \/ UnpackFile(t) \/ UnpackFails(t) \/ UnpackAgain(t)
  <2>1. zip' = zip
    BY <1>1 DEF LookupFails, FetchAsk, FetchOpen, FetchWrite, FetchFails, UnpackAsk, UnpackFile,
         UnpackFails, UnpackAgain
  <2>2. QED BY <2>1
<1>2. CASE FetchRename(t)
  <2>1. \/ zip' = zip
        \/ /\ tmp[Now(t).pkg] # NoZip
           /\ zip' = [zip EXCEPT ![Now(t).pkg] = tmp[Now(t).pkg]]
    BY <1>2 DEF FetchRename
  <2>2. Cudart # Now(t).pkg => zip'[Cudart] = zip[Cudart]
    BY <1>0, <2>1
  <2>3. QED BY <2>2
<1>3. ASSUME UnpackGivesUp(t) \/ (UnpackEnds(t) /\ ~Verified(Now(t)))
      PROVE  Now(t).pkg # Cudart => zip'[Cudart] = zip[Cudart]
  <2>1. zip' = Dropped(t, Now(t).pkg)
    BY <1>3 DEF UnpackGivesUp, UnpackEnds
  <2>2. QED BY <1>0, <2>1 DEF Dropped
<1>4. CASE UnpackGivesUp(t)
  <2>1. CASE Now(t).pkg = Cudart
    BY <1>4, <2>1
  <2>2. CASE Now(t).pkg # Cudart
    <3>1. zip'[Cudart] = zip[Cudart]
      BY <1>3, <1>4, <2>2
    <3>2. QED BY <3>1
  <2>3. QED BY <2>1, <2>2
<1>5. CASE UnpackEnds(t)
  <2>1. CASE Verified(Now(t))
    <3>1. zip' = zip
      BY <1>5, <2>1 DEF UnpackEnds
    <3>2. QED BY <3>1
  <2>2. CASE ~Verified(Now(t))
    BY <1>3, <1>5, <2>2
  <2>3. QED BY <2>1, <2>2
<1>6. QED BY <1>1, <1>2, <1>4, <1>5 DEF Step

(* While the start-up's goroutine stands still, its download loses nothing. *)
LEMMA BroughtStays ==
  ASSUME NEW t, NEW j, Sound(t, j), Brought(j), Kept, zip[Cudart] # NoZip => zip'[Cudart] # NoZip
  PROVE  Brought(j)'
<1> DEFINE b == j.backend
<1>1. SUFFICES ASSUME b \notin spoiled' PROVE Brought(j)'
  BY DEF Brought
<1>2. b \notin spoiled /\ \A f \in Files : Present(b, f) => Present(b, f)'
  BY <1>1 DEF Kept, Sound, Jobs
<1>3. QED BY <1>2 DEF Brought, Files

(* A step of the start-up's goroutine, in a download.                      *)
LEMMA BootBrings ==
  ASSUME Sane, Step("boot"), Kept, NEW j, j = job["boot"], j.kind = "download", Brought(j),
         NEW k, Goes("boot", k)
  PROVE  Brought(k)'
<1> DEFINE b == j.backend
           i == j.task
<1>0. "boot" \in Threads /\ job \in [Threads -> Jobs]
  BY DEF Threads, Sane
<1>1. /\ Sound("boot", j) /\ j \in Jobs /\ Now("boot") = Current(j) /\ i \in Nat /\ b \in Backends
      /\ job'["boot"] = k /\ Now("boot") \in Tasks
  BY <1>0, CurrentIsTask DEF Sane, Now, Current, Goes, Jobs
<1>2. \A x : Goes("boot", x) => x = k
  BY <1>0 DEF Goes
<1>3. /\ b \in Modular /\ i = 1 => Current(j) = Task("fetchBase", Cpu, b, "abort")
      /\ b \in Modular /\ i = 2 => Current(j) = Task("base", Cpu, b, "abort")
      /\ b \in NeedsCudart /\ i = 4 => Current(j) = Task("fetch", Cudart, b, "abort")
      /\ i = InstallPlace(b) => Current(j) = Task("install", b, b, "abort")
      /\ b \in NeedsCudart /\ i = 6 => Current(j) = Task("runtime", Cudart, b, "skip")
      /\ InstallPlace(b) = (IF b \in NeedsCudart THEN 5 ELSE IF b \in Modular THEN 4 ELSE 2)
      /\ b \in NeedsCudart => b \in Modular
  BY <1>1, DownloadTask
<1> HIDE DEF b
<1>4. /\ b \in Modular /\ i = 2 => Now("boot") = Task("base", Cpu, b, "abort")
      /\ b \in NeedsCudart /\ i = 4 => Now("boot") = Task("fetch", Cudart, b, "abort")
      /\ i = InstallPlace(b) => Now("boot") = Task("install", b, b, "abort")
      /\ b \in NeedsCudart /\ i = 6 => Now("boot") = Task("runtime", Cudart, b, "skip")
      /\ b \in NeedsCudart /\ i = 5 => Now("boot").pkg # Cudart
  BY <1>1, <1>3, BackendInstallAssumption DEF Task
<1>5. Fetching("boot") => /\ b \in Modular => i # 2
                          /\ i # InstallPlace(b)
                          /\ b \in NeedsCudart => i # 6
  BY <1>4 DEF Fetching, Task
<1>6. ~Fetching("boot") => (b \in NeedsCudart => i # 4)
  BY <1>4 DEF Fetching, Task
<1>7. b \in NeedsCudart /\ i = 5 => (zip[Cudart] # NoZip => zip'[Cudart] # NoZip)
  BY <1>0, <1>4, ZipSteps
<1>8. ASSUME NEW ph, At("boot", ph), ph # "restart", TaskFails("boot"),
             b \in NeedsCudart => i # 6 \/ b \in spoiled'
      PROVE  Brought(k)'
  <2>1. k = AfterFailure("boot")
    BY <1>2, <1>8 DEF TaskFails
  <2>2. b \in NeedsCudart /\ i = 5 => zip'[Cudart] # NoZip \/ zip[Cudart] = NoZip
    BY <1>7
  <2>3. QED BY <1>8, <2>1, <2>2, BroughtFails DEF b
<1>9. ASSUME NEW ph, At("boot", ph), ph # "restart", TaskDone("boot"),
             b \notin spoiled' =>
               /\ b \in Modular /\ i = 2 => Present(b, "exe")'
               /\ i = InstallPlace(b) => Present(b, IF b \in Modular THEN "dll" ELSE "exe")'
               /\ b \in NeedsCudart /\ i = 6 => Present(b, "rt")'
               /\ b \in NeedsCudart /\ i = 4 => zip'[Cudart] # NoZip
      PROVE  Brought(k)'
  <2>1. k = Advanced(j) /\ j.phase # "restart"
    BY <1>2, <1>9 DEF TaskDone, At
  <2>2. b \notin spoiled' /\ b \in NeedsCudart /\ i = 5 => zip'[Cudart] # NoZip
    <3>1. b \notin spoiled' => b \notin spoiled
      BY DEF Kept
    <3>2. b \notin spoiled /\ b \in NeedsCudart /\ i = 5 => zip[Cudart] # NoZip
      BY <2>1 DEF Brought, b
    <3>3. QED BY <3>1, <3>2, <1>7
  <2>3. QED BY <1>0, <1>1, <1>9, <2>1, <2>2, BroughtDone DEF b
<1>10. ASSUME NEW ph, At("boot", ph), ph # "restart", k.phase # "restart",
              k.kind = j.kind, k.backend = j.backend, k.task = j.task, zip' = zip,
              i = 6 /\ b \in NeedsCudart /\ b \notin spoiled' =>
                /\ k.phase # "failed"
                /\ k.phase = "unpack" /\ k.next > 1 => Present(b, "rt")'
       PROVE  Brought(k)'
  <2>1. j.phase # "restart"
    BY <1>10 DEF At
  <2>2. QED BY <1>1, <1>10, <2>1, BroughtInTask DEF b
<1>11. CASE LookupFails("boot")
  <2>1. At("boot", "ask") /\ Fetching("boot") /\ TaskFails("boot")
    BY <1>11 DEF LookupFails
  <2>2. QED BY <2>1, <1>5, <1>8
<1>12. CASE FetchAsk("boot")
  <2>1. At("boot", "ask") /\ Fetching("boot") /\ zip' = zip
    BY <1>12 DEF FetchAsk
  <2>2. CASE TaskDone("boot") /\ (zip[Now("boot").pkg] # NoZip \/ BaseIsThere(Now("boot")))
    <3>1. b \in NeedsCudart /\ i = 4 => zip'[Cudart] # NoZip
      BY <1>4, <2>1, <2>2 DEF BaseIsThere, Task
    <3>2. QED BY <2>1, <2>2, <3>1, <1>5, <1>9
  <2>3. CASE To("boot", "open")
    <3>1. k = [j EXCEPT !.phase = "open"]
      BY <1>2, <2>3 DEF To
    <3>2. k.phase = "open" /\ k.kind = j.kind /\ k.backend = j.backend /\ k.task = j.task
      BY <3>1, <1>1 DEF Jobs
    <3>3. QED BY <2>1, <3>2, <1>5, <1>10
  <2>4. QED BY <1>12, <2>2, <2>3 DEF FetchAsk
<1>13. CASE FetchOpen("boot") \/ FetchWrite("boot")
  <2>1. /\ zip' = zip
        /\ \E ph \in {"open", "first", "second"} : At("boot", ph)
        /\ \E new \in {"first", "second", "rename"} : To("boot", new)
    BY <1>13 DEF FetchOpen, FetchWrite
  <2>2. PICK ph \in {"open", "first", "second"} : At("boot", ph)
    BY <2>1
  <2>3. PICK new \in {"first", "second", "rename"} : To("boot", new)
    BY <2>1
  <2>4. Fetching("boot")
    BY <1>1, <2>2 DEF Sound, FetchPhases, Fetching, FetchOps, At
  <2>5. k = [j EXCEPT !.phase = new]
    BY <1>2, <2>3 DEF To
  <2>6. k.phase = new /\ k.kind = j.kind /\ k.backend = j.backend /\ k.task = j.task
    BY <2>5, <1>1 DEF Jobs
  <2>7. QED BY <2>1, <2>2, <2>4, <2>6, <1>5, <1>10
<1>14. ASSUME NEW ph \in FetchPhases, At("boot", ph), NextSource("boot"), zip' = zip
       PROVE  Brought(k)'
  <2>1. Fetching("boot") /\ ph # "restart"
    BY <1>1, <1>14 DEF Sound, FetchPhases, Fetching, FetchOps, At
  <2>2. CASE TaskFails("boot")
    BY <1>5, <1>8, <1>14, <2>1, <2>2
  <2>3. CASE Goes("boot", [j EXCEPT !.phase = "open", !.source = @ + 1])
    <3>1. k = [j EXCEPT !.phase = "open", !.source = @ + 1]
      BY <1>2, <2>3
    <3>2. k.phase = "open" /\ k.kind = j.kind /\ k.backend = j.backend /\ k.task = j.task
      BY <3>1, <1>1 DEF Jobs
    <3>3. QED BY <1>14, <2>1, <3>2, <1>5, <1>10
  <2>4. QED BY <1>14, <2>2, <2>3 DEF NextSource
<1>15. CASE FetchFails("boot")
  BY <1>14, <1>15 DEF FetchFails, FetchPhases
<1>16. CASE FetchRename("boot")
  <2>1. At("boot", "rename")
    BY <1>16 DEF FetchRename
  <2>2. CASE NextSource("boot") /\ zip' = zip
    BY <1>14, <2>1, <2>2 DEF FetchPhases
  <2>3. CASE /\ tmp[Now("boot").pkg] # NoZip /\ TaskDone("boot")
             /\ zip' = [zip EXCEPT ![Now("boot").pkg] = tmp[Now("boot").pkg]]
    <3>1. Fetching("boot")
      BY <1>1, <2>1 DEF Sound, FetchPhases, Fetching, FetchOps, At
    <3>2. b \in NeedsCudart /\ i = 4 => zip'[Cudart] # NoZip
      <4>1. zip \in [Packages -> Halves] /\ Cudart \in Packages
        BY DEF Sane, Packages
      <4>2. b \in NeedsCudart /\ i = 4 => Now("boot").pkg = Cudart
        BY <1>4 DEF Task
      <4>3. QED BY <2>3, <4>1, <4>2
    <3>3. QED BY <2>1, <2>3, <3>1, <3>2, <1>5, <1>9
  <2>4. QED BY <1>16, <2>2, <2>3 DEF FetchRename
<1>17. CASE UnpackAsk("boot")
  <2>1. At("boot", "ask") /\ ~Fetching("boot") /\ zip' = zip /\ dir' = dir /\ spoiled' = spoiled
    BY <1>17 DEF UnpackAsk
  <2>2. CASE Already(Now("boot")) /\ TaskDone("boot")
    <3>1. b \in Modular /\ i = 2 => Present(b, "exe")'
      BY <1>4, <2>1, <2>2 DEF Already, Task, Present
    <3>2. i = InstallPlace(b) => Present(b, IF b \in Modular THEN "dll" ELSE "exe")'
      BY <1>4, <2>1, <2>2 DEF Already, Task, Present
    <3>3. b \in NeedsCudart /\ i = 6 => Present(b, "rt")'
      BY <1>4, <2>1, <2>2 DEF Already, Task, Present
    <3>4. QED BY <2>1, <2>2, <3>1, <3>2, <3>3, <1>6, <1>9
  <2>3. CASE zip[Now("boot").pkg] = NoZip /\ TaskFails("boot")
    <3>1. j.phase = "ask"
      BY <2>1 DEF At
    <3>2. b \in NeedsCudart /\ i = 6 => b \in spoiled'
      <4>1. SUFFICES ASSUME b \in NeedsCudart, i = 6, b \notin spoiled PROVE FALSE
        BY <2>1
      <4>2. zip[Cudart] # NoZip
        BY <4>1, <3>1 DEF Brought, b
      <4>3. Now("boot").pkg = Cudart
        BY <4>1, <1>4 DEF Task
      <4>4. QED BY <2>3, <4>2, <4>3
    <3>3. QED BY <2>1, <2>3, <3>2, <1>8
  <2>4. CASE Goes("boot", [j EXCEPT !.phase = "unpack", !.next = 1, !.again = FALSE])
    <3>1. k = [j EXCEPT !.phase = "unpack", !.next = 1, !.again = FALSE]
      BY <1>2, <2>4
    <3> DEFINE u == [j EXCEPT !.phase = "unpack", !.next = 1, !.again = FALSE]
    <3>4. /\ u.phase = "unpack" /\ u.kind = j.kind /\ u.backend = j.backend /\ u.task = j.task
          /\ u.next = 1
      BY <1>1 DEF Jobs
    <3>2. /\ k.phase = "unpack" /\ k.kind = j.kind /\ k.backend = j.backend /\ k.task = j.task
          /\ k.next = 1
      BY <3>1, <3>4
    <3>3. QED BY <2>1, <3>2, <1>10
  <2>5. QED BY <1>17, <2>2, <2>3, <2>4 DEF UnpackAsk
<1>18. CASE UnpackFile("boot")
  <2>1. /\ At("boot", "unpack") /\ MoreFiles("boot") /\ zip' = zip
        /\ Goes("boot", [j EXCEPT !.next = @ + 1])
    BY <1>18 DEF UnpackFile
  <2>2. k = [j EXCEPT !.next = @ + 1] /\ j.phase = "unpack"
    BY <1>2, <2>1 DEF At
  <2>3. k.phase = "unpack" /\ k.kind = j.kind /\ k.backend = j.backend /\ k.task = j.task
    BY <2>2, <1>1 DEF Jobs
  <2>4. b \in NeedsCudart /\ i = 6 => Present(b, "rt")'
    <3>1. SUFFICES ASSUME b \in NeedsCudart, i = 6 PROVE dir'[b]["rt"] # "none"
      BY DEF Present
    <3>2. Now("boot").dir = b /\ Contents(Now("boot").pkg) = <<"rt">>
      BY <1>4, <3>1, ContentsAre DEF Task
    <3>8. Len(<<"rt">>) = 1 /\ j.next \in Nat \ {0}
      BY <1>1 DEF Jobs
    <3>9. j.next <= Len(<<"rt">>)
      BY <2>1, <3>2 DEF MoreFiles
    <3>3. j.next = 1
      BY <3>8, <3>9
    <3>4. File("boot") = "rt"
      BY <3>2, <3>3 DEF File
    <3>5. dir \in [Backends -> [Files -> {"none", "torn", "bad", "whole"}]] /\ "rt" \in Files
      BY DEF Sane, Files
    <3>6. \/ dir[b]["rt"] \in {"bad", "whole"} /\ dir' = dir
          \/ dir' = [dir EXCEPT ![b]["rt"] = "whole"]
      BY <1>18, <3>2, <3>4 DEF UnpackFile
    <3>7. QED BY <1>1, <3>5, <3>6
  <2>5. QED BY <2>1, <2>3, <2>4, <1>10
<1>19. CASE UnpackFails("boot")
  <2>1. /\ At("boot", "unpack") /\ zip' = zip /\ spoiled' = spoiled \union {Now("boot").dir}
        /\ Goes("boot", [j EXCEPT !.phase = "failed"])
    BY <1>19 DEF UnpackFails, To
  <2>2. k = [j EXCEPT !.phase = "failed"]
    BY <1>2, <2>1
  <2>3. k.phase = "failed" /\ k.kind = j.kind /\ k.backend = j.backend /\ k.task = j.task
    BY <2>2, <1>1 DEF Jobs
  <2>4. b \in NeedsCudart /\ i = 6 => b \in spoiled'
    BY <1>4, <2>1 DEF Task
  <2>5. QED BY <2>1, <2>3, <2>4, <1>10
<1>20. CASE UnpackAgain("boot")
  <2>1. /\ At("boot", "failed") /\ zip' = zip
        /\ Goes("boot", [j EXCEPT !.phase = "unpack", !.next = 1, !.again = TRUE])
    BY <1>20 DEF UnpackAgain
  <2>2. k = [j EXCEPT !.phase = "unpack", !.next = 1, !.again = TRUE]
    BY <1>2, <2>1
  <2> DEFINE u == [j EXCEPT !.phase = "unpack", !.next = 1, !.again = TRUE]
  <2>5. /\ u.phase = "unpack" /\ u.kind = j.kind /\ u.backend = j.backend /\ u.task = j.task
        /\ u.next = 1
    BY <1>1 DEF Jobs
  <2>3. /\ k.phase = "unpack" /\ k.kind = j.kind /\ k.backend = j.backend /\ k.task = j.task
        /\ k.next = 1
    BY <2>2, <2>5
  <2>4. QED BY <2>1, <2>3, <1>10
<1>21. CASE UnpackGivesUp("boot")
  <2>1. At("boot", "failed") /\ TaskFails("boot") /\ j.phase = "failed" /\ spoiled' = spoiled
    BY <1>21 DEF UnpackGivesUp, At
  <2>2. b \in NeedsCudart /\ i = 6 => b \in spoiled'
    BY <2>1 DEF Brought, b
  <2>3. QED BY <2>1, <2>2, <1>8
<1>22. CASE UnpackEnds("boot")
  <2>1. /\ At("boot", "unpack") /\ ~MoreFiles("boot") /\ j.phase = "unpack"
        /\ dir' = dir /\ spoiled' = spoiled
    BY <1>22 DEF UnpackEnds, At
  <2>2. ~Fetching("boot")
    BY <1>1, <2>1 DEF Sound, UnpackPhases, Fetching, FetchOps
  <2>3. CASE Verified(Now("boot")) /\ TaskDone("boot")
    <3>1. b \in Modular /\ i = 2 => Present(b, "exe")'
      BY <1>4, <2>1, <2>3 DEF Verified, Task, Present
    <3>2. i = InstallPlace(b) => Present(b, IF b \in Modular THEN "dll" ELSE "exe")'
      BY <1>4, <2>1, <2>3 DEF Verified, Task, Present
    <3>3. b \in NeedsCudart /\ i = 6 => Present(b, "rt")'
      BY <1>4, <2>1, <2>3 DEF Verified, Task, Present
    <3>4. QED BY <2>1, <2>2, <2>3, <3>1, <3>2, <3>3, <1>6, <1>9
  <2>4. CASE ~Verified(Now("boot")) /\ TaskFails("boot")
    <3>1. b \in NeedsCudart /\ i = 6 => b \in spoiled'
      <4>1. SUFFICES ASSUME b \in NeedsCudart, i = 6, b \notin spoiled PROVE FALSE
        BY <2>1
      <4>2. Now("boot").op = "runtime" /\ Now("boot").dir = b /\ Now("boot").pkg = Cudart
        BY <4>1, <1>4 DEF Task
      <4>3. Contents(Now("boot").pkg) = <<"rt">>
        BY <4>2, ContentsAre
      <4>7. Len(<<"rt">>) = 1 /\ j.next \in Nat \ {0}
        BY <1>1 DEF Jobs
      <4>8. ~(j.next <= Len(<<"rt">>))
        BY <2>1, <4>3 DEF MoreFiles
      <4>4. j.next > 1
        BY <4>7, <4>8
      <4>5. Present(b, "rt")
        BY <4>1, <4>4, <2>1 DEF Brought, b
      <4>6. QED BY <2>4, <4>2, <4>5 DEF Verified
    <3>2. QED BY <2>1, <2>4, <3>1, <1>8
  <2>5. QED BY <1>22, <2>3, <2>4 DEF UnpackEnds
<1>23. QED
  BY <1>11, <1>12, <1>13, <1>15, <1>16, <1>17, <1>18, <1>19, <1>20, <1>21, <1>22 DEF Step

-----------------------------------------------------------------------------
(* A goroutine that takes a step is at work, and no other moves.           *)
LEMMA StepMoves ==
  ASSUME Sane, ArchiveInv, NEW t \in Threads, Step(t)
  PROVE  \E ph, k : /\ At(t, ph) /\ ph # "restart" /\ Goes(t, k) /\ job'[t] = k
                    /\ \A u \in Threads \ {t} : job'[u] = job[u]
<1>1. \E k : Goes(t, k)
  <2>1. CASE \/ LookupFails(t) \/ FetchAsk(t) \/ FetchOpen(t) \/ FetchWrite(t) \/ FetchFails(t)
             \/ FetchRename(t)
    BY <2>1, FetchSteps DEF ArchiveInv, Moves
  <2>2. CASE \/ UnpackAsk(t) \/ UnpackFile(t) \/ UnpackFails(t) \/ UnpackAgain(t)
             \/ UnpackGivesUp(t) \/ UnpackEnds(t)
    BY <2>2, UnpackSteps DEF Moves
  <2>3. QED BY <2>1, <2>2 DEF Step
<1>2. PICK k : Goes(t, k)
  BY <1>1
<1>3. job'[t] = k /\ \A u \in Threads \ {t} : job'[u] = job[u]
  BY <1>2 DEF Goes, Sane
<1>4. \E ph \in {"ask", "open", "first", "second", "rename", "unpack", "failed"} : At(t, ph)
  BY DEF Step, LookupFails, FetchAsk, FetchOpen, FetchWrite, FetchFails, FetchRename, UnpackAsk,
         UnpackFile, UnpackFails, UnpackAgain, UnpackGivesUp, UnpackEnds
<1>5. QED BY <1>2, <1>3, <1>4

(* A task that fails begins no download.                                   *)
LEMMA FailureBeginsNothing ==
  ASSUME Sane, NEW t \in Threads, NEW ph, At(t, ph), job[t].kind # "download"
  PROVE  AfterFailure(t).kind # "download"
<1> DEFINE j == job[t]
<1>1. /\ Sound(t, j) /\ j \in Jobs /\ j.kind \in {"start", "download", "button"}
      /\ Now(t) = Current(j)
  BY AtWork
<1>2. CASE Now(t).onFail = "abort"
  BY <1>1, <1>2, AbortedIsSound DEF AfterFailure
<1>3. CASE Now(t).onFail = "finish"
  BY <1>1, <1>3, FinishedIsSound DEF AfterFailure
<1>4. CASE Now(t).onFail = "download"
  <2>1. CASE j.backend \in SilentFallback
    BY <1>4, <2>1 DEF AfterFailure, NewJob, JobAt
  <2>2. CASE j.backend \notin SilentFallback
    <3>1. AfterFailure(t) = [j EXCEPT !.phase = "missing"]
      BY <1>4, <2>2 DEF AfterFailure
    <3>2. [j EXCEPT !.phase = "missing"].kind = j.kind
      BY <1>1 DEF Jobs
    <3>3. QED BY <3>1, <3>2
  <2>3. QED BY <2>1, <2>2
<1>5. CASE Now(t).onFail \notin {"abort", "finish", "download"}
  BY <1>1, <1>5, AdvancedIsSound DEF AfterFailure
<1>6. QED BY <1>2, <1>3, <1>4, <1>5

(* Only Decide begins a download.                                          *)
LEMMA StepBeginsNoDownload ==
  ASSUME Sane, NEW t \in Threads, NEW ph, At(t, ph), Step(t), job[t].kind # "download",
         NEW k, Goes(t, k)
  PROVE  k.kind # "download"
<1> DEFINE j == job[t]
<1>1. /\ Sound(t, j) /\ j \in Jobs /\ j.kind \in {"start", "download", "button"}
  BY AtWork
<1>2. \A x : Goes(t, x) => x = k
  BY DEF Goes, Sane
<1>3. CASE TaskFails(t)
  BY <1>2, <1>3, FailureBeginsNothing DEF TaskFails
<1>4. CASE TaskDone(t)
  BY <1>1, <1>2, <1>4, AdvancedIsSound DEF TaskDone
<1>5. ASSUME NEW u, Goes(t, u), u.kind = j.kind PROVE k.kind # "download"
  BY <1>2, <1>5
<1>6. ASSUME NEW new, To(t, new) PROVE k.kind # "download"
  <2>1. [j EXCEPT !.phase = new].kind = j.kind
    BY <1>1 DEF Jobs
  <2>2. QED BY <2>1, <1>5, <1>6 DEF To
<1>7. CASE NextSource(t)
  <2> DEFINE u == [j EXCEPT !.phase = "open", !.source = @ + 1]
  <2>1. u.kind = j.kind
    BY <1>1 DEF Jobs
  <2>2. TaskFails(t) \/ Goes(t, u)
    BY <1>7 DEF NextSource
  <2>3. QED BY <2>1, <2>2, <1>3, <1>5
<1>8. CASE \/ LookupFails(t) \/ FetchAsk(t) \/ FetchOpen(t) \/ FetchWrite(t) \/ FetchFails(t)
           \/ FetchRename(t)
  <2>1. TaskFails(t) \/ TaskDone(t) \/ NextSource(t) \/ \E new : To(t, new)
    BY <1>8 DEF LookupFails, FetchAsk, FetchOpen, FetchWrite, FetchFails, FetchRename
  <2>2. QED BY <2>1, <1>3, <1>4, <1>6, <1>7
<1>9. CASE UnpackFails(t) \/ UnpackGivesUp(t) \/ UnpackEnds(t)
  <2>1. TaskFails(t) \/ TaskDone(t) \/ \E new : To(t, new)
    BY <1>9 DEF UnpackFails, UnpackGivesUp, UnpackEnds
  <2>2. QED BY <2>1, <1>3, <1>4, <1>6
<1>10. CASE UnpackAsk(t)
  <2> DEFINE u == [j EXCEPT !.phase = "unpack", !.next = 1, !.again = FALSE]
  <2>1. u.kind = j.kind
    BY <1>1 DEF Jobs
  <2>2. TaskFails(t) \/ TaskDone(t) \/ Goes(t, u)
    BY <1>10 DEF UnpackAsk
  <2>3. QED BY <2>1, <2>2, <1>3, <1>4, <1>5
<1>11. CASE UnpackAgain(t)
  <2> DEFINE u == [j EXCEPT !.phase = "unpack", !.next = 1, !.again = TRUE]
  <2>1. u.kind = j.kind
    BY <1>1 DEF Jobs
  <2>2. Goes(t, u)
    BY <1>11 DEF UnpackAgain
  <2>3. QED BY <2>1, <2>2, <1>5
<1>12. CASE UnpackFile(t)
  <2> DEFINE u == [j EXCEPT !.next = @ + 1]
  <2>1. u.kind = j.kind
    BY <1>1 DEF Jobs
  <2>2. Goes(t, u)
    BY <1>12 DEF UnpackFile
  <2>3. QED BY <2>1, <2>2, <1>5
<1>13. QED BY <1>8, <1>9, <1>10, <1>11, <1>12 DEF Step

(* A step of a goroutine keeps what the start-up's download has brought.   *)
LEMMA StepKeepsRestart ==
  ASSUME Sane, ArchiveInv, RestartInv, NEW t \in Threads, Step(t)
  PROVE  RestartInv'
<1>0. "boot" \in Threads /\ "button" \in Threads /\ Threads = {"boot", "button"}
  BY DEF Threads
<1>1. PICK ph, k : /\ At(t, ph) /\ ph # "restart" /\ Goes(t, k) /\ job'[t] = k
                   /\ \A u \in Threads \ {t} : job'[u] = job[u]
  BY StepMoves
<1>2. Kept /\ BaseComes'
  BY <1>1, StepKeepsBases DEF RestartInv
<1>3. PICK j : j = job["boot"]
  OBVIOUS
<1>4. Sound("boot", j) /\ Brought(j)
  BY <1>0, <1>3 DEF Sane, RestartInv
<1>5. CASE t = "boot"
  <2>1. Brought(k)'
    <3>1. CASE j.kind = "download"
      BY <3>1, <1>1, <1>2, <1>3, <1>4, <1>5, BootBrings
    <3>2. CASE j.kind # "download"
      <4>1. k.kind # "download"
        BY <3>2, <1>1, <1>3, <1>5, StepBeginsNoDownload
      <4>2. QED BY <4>1 DEF Brought
    <3>3. QED BY <3>1, <3>2
  <2>2. job'["boot"] = k
    BY <1>1, <1>5
  <2>3. QED BY <2>1, <2>2, <1>2 DEF RestartInv
<1>6. CASE t = "button"
  <2>1. Now(t).pkg # Cudart
    <3>1. Sound("button", job["button"]) /\ job["button"].kind = "button"
          /\ Now(t) = Current(job["button"])
      BY <1>1, <1>6, AtWork DEF Sound, KindsOf
    <3>2. QED BY <3>1, ButtonTasks, BackendInstallAssumption
  <2>2. zip[Cudart] # NoZip => zip'[Cudart] # NoZip
    BY <2>1, ZipSteps
  <2>3. Brought(j)'
    BY <2>2, <1>2, <1>4, BroughtStays
  <2>4. job'["boot"] = j
    BY <1>0, <1>1, <1>3, <1>6
  <2>5. QED BY <2>3, <2>4, <1>2 DEF RestartInv
<1>7. QED BY <1>0, <1>5, <1>6

-----------------------------------------------------------------------------
(* The steps of the application itself.                                    *)

(* A goroutine that is not unpacking takes up another job.                 *)
LEMMA MoveKeepsBases ==
  ASSUME BaseComes, UNCHANGED <<dir, up, spoiled>>, NEW t \in Threads,
         job[t].phase # "unpack", \A u \in Threads \ {t} : job'[u] = job[u]
  PROVE  Kept /\ BaseComes'
<1>1. \A b : ~BaseWriter(t, b)
  BY DEF BaseWriter
<1>2. QED BY <1>1, SameFiles

(* A start has brought nothing yet, and nobody is unpacking.               *)
LEMMA LaunchKeepsRestart ==
  ASSUME Sane, RestartInv, Launch
  PROVE  RestartInv'
<1>1. PICK k : k = NewJob("start", wanted, 1)
  OBVIOUS
<1>2. /\ ~up /\ Goes("boot", k) /\ UNCHANGED <<dir, spoiled>> /\ k.task = 1 /\ k.phase = "ask"
  BY <1>1 DEF Launch, NewJob, JobAt
<1>3. job'["boot"] = k
  BY <1>2 DEF Goes, Sane, Threads
<1>4. BaseComes'
  <2>1. \A b \in Backends \ spoiled : Present(b, "exe") => Present(b, "core")
    BY <1>2 DEF RestartInv, BaseComes, BaseWriter
  <2>2. QED BY <2>1, <1>2 DEF BaseComes, Present
<1>5. Brought(k)'
  BY <1>2, BroughtNothing
<1>6. QED BY <1>3, <1>4, <1>5 DEF RestartInv

(* A download that begins has brought nothing yet.                         *)
LEMMA DecideKeepsRestart ==
  ASSUME Sane, RestartInv, Decide
  PROVE  RestartInv'
<1>0. "boot" \in Threads /\ job \in [Threads -> Jobs]
  BY DEF Threads, Sane
<1>1. UNCHANGED <<dir, up, spoiled>> /\ job["boot"].phase # "unpack"
  BY DEF Decide, At
<1>2. PICK k : /\ Goes("boot", k)
               /\ \/ k.kind = "ready"
                  \/ k.task = 1 /\ k.phase = "ask"
  <2>1. CASE Goes("boot", [job["boot"] EXCEPT !.kind = "ready"])
    <3>1. [job["boot"] EXCEPT !.kind = "ready"].kind = "ready"
      BY <1>0 DEF Jobs
    <3>2. QED BY <2>1, <3>1
  <2>2. ASSUME NEW b, Goes("boot", NewJob("download", b, 1))
        PROVE  \E k : Goes("boot", k) /\ k.task = 1 /\ k.phase = "ask"
    BY <2>2 DEF NewJob, JobAt
  <2>3. QED BY <2>1, <2>2 DEF Decide
<1>3. job'["boot"] = k /\ \A u \in Threads \ {"boot"} : job'[u] = job[u]
  BY <1>0, <1>2 DEF Goes
<1>4. BaseComes'
  BY <1>0, <1>1, <1>3, MoveKeepsBases DEF RestartInv
<1>5. Brought(k)'
  <2>1. CASE k.kind = "ready"
    BY <2>1 DEF Brought
  <2>2. CASE k.task = 1 /\ k.phase = "ask"
    BY <2>2, BroughtNothing
  <2>3. QED BY <1>2, <2>1, <2>2
<1>6. QED BY <1>3, <1>4, <1>5 DEF RestartInv

(* The button's goroutine begins and ends outside of any file.             *)
LEMMA ButtonKeepsRestart ==
  ASSUME Sane, RestartInv, (\E b \in Pressable : PressButton(b)) \/ ButtonEnds
  PROVE  RestartInv'
<1>0. "boot" \in Threads /\ "button" \in Threads /\ job \in [Threads -> Jobs]
  BY DEF Threads, Sane
<1>1. UNCHANGED <<zip, dir, up, spoiled>> /\ job["button"].phase # "unpack"
  BY <1>0 DEF PressButton, ButtonEnds, At, Sane, Sound
<1>2. PICK k : Goes("button", k)
  BY DEF PressButton, ButtonEnds
<1>3. \A u \in Threads \ {"button"} : job'[u] = job[u]
  BY <1>2 DEF Goes
<1>4. Kept /\ BaseComes'
  BY <1>0, <1>1, <1>3, MoveKeepsBases DEF RestartInv
<1>5. PICK j : j = job["boot"]
  OBVIOUS
<1>6. Brought(j)'
  BY <1>0, <1>1, <1>4, <1>5, BroughtStays DEF RestartInv, Sane
<1>7. job'["boot"] = j
  BY <1>0, <1>3, <1>5
<1>8. QED BY <1>4, <1>6, <1>7 DEF RestartInv

(* A process that ends between the files of a base spoils it.              *)
LEMMA EndKeepsRestart ==
  ASSUME Sane, RestartInv, ProcessEnds
  PROVE  RestartInv'
<1>0. "boot" \in Threads
  BY DEF Threads
<1>1. /\ up' = FALSE /\ job' = [t \in Threads |-> Idle]
      /\ spoiled' = spoiled \union {Now(t).dir : t \in Writing}
  BY DEF ProcessEnds
<1>2. PICK cut \in SUBSET Writing :
        dir' = [b \in Backends |-> [f \in Files |->
                 IF \E t \in cut : Now(t).dir = b /\ File(t) = f /\ dir[b][f] \in {"none", "torn"}
                 THEN "torn" ELSE dir[b][f]]]
  BY DEF ProcessEnds
<1>3. ASSUME NEW b \in Backends \ spoiled', Present(b, "exe")', ~Present(b, "core")' PROVE FALSE
  <2>1. b \notin spoiled /\ \A t \in Writing : Now(t).dir # b
    BY <1>1, <1>3
  <2>2. "exe" \in Files /\ "core" \in Files
    BY DEF Files
  <2>3. dir'[b]["exe"] = dir[b]["exe"] /\ dir'[b]["core"] = dir[b]["core"]
    BY <1>2, <2>1, <2>2
  <2>4. Present(b, "exe") /\ ~Present(b, "core")
    BY <1>3, <2>3 DEF Present
  <2>5. PICK t \in Threads : BaseWriter(t, b)
    BY <2>1, <2>4 DEF RestartInv, BaseComes
  <2>6. t \in Writing /\ Now(t).dir = b
    BY <2>5, BaseWriterFiles DEF Writing, Unpacks, BaseWriter
  <2>7. QED BY <2>1, <2>6
<1>4. PICK k : k = Idle
  OBVIOUS
<1>5. Brought(k)'
  BY <1>4, BroughtNothing DEF Idle, NewJob, JobAt
<1>6. job'["boot"] = k
  BY <1>0, <1>1, <1>4
<1>7. QED BY <1>3, <1>5, <1>6 DEF RestartInv, BaseComes

-----------------------------------------------------------------------------
(* At first there is nothing in any directory.                             *)
LEMMA InitRestart == InstallInit => RestartInv
<1> SUFFICES ASSUME InstallInit PROVE RestartInv
  OBVIOUS
<1>1. job["boot"] = Idle /\ dir = [b \in Backends |-> [f \in Files |-> "none"]]
  BY DEF InstallInit, Threads
<1>2. \A b \in Backends : ~Present(b, "exe")
  BY <1>1 DEF Present, Files
<1>3. Brought(Idle)
  BY BroughtNothing DEF Idle, NewJob, JobAt
<1>4. QED BY <1>1, <1>2, <1>3 DEF RestartInv, BaseComes

(* Every step keeps what a restart relies on.                              *)
LEMMA NextKeepsRestart ==
  Sane /\ ArchiveInv /\ RestartInv /\ [InstallNext]_installVars => RestartInv'
<1> SUFFICES ASSUME Sane, ArchiveInv, RestartInv, [InstallNext]_installVars PROVE RestartInv'
  OBVIOUS
<1>1. CASE \E t \in Threads : Step(t)
  BY <1>1, StepKeepsRestart
<1>2. CASE Launch
  BY <1>2, LaunchKeepsRestart
<1>3. CASE Decide
  BY <1>3, DecideKeepsRestart
<1>4. CASE (\E b \in Pressable : PressButton(b)) \/ ButtonEnds
  BY <1>4, ButtonKeepsRestart
<1>5. CASE Crash \/ Restart \/ Quit
  BY <1>5, EndKeepsRestart DEF Crash, Restart, Quit
<1>6. CASE UNCHANGED installVars
  BY <1>6 DEF installVars, RestartInv, BaseComes, BaseWriter, Brought, Present, Now
<1>7. QED BY <1>1, <1>2, <1>3, <1>4, <1>5, <1>6 DEF InstallNext

(* A download that is done has brought all that validatePaths asks for.    *)
LEMMA RestartIsIntoUsable == Sane /\ RestartInv => RestartsIntoUsable
<1> SUFFICES ASSUME Sane, RestartInv, At("boot", "restart"),
                    job["boot"].backend \notin spoiled,
                    \A t \in Writing : Now(t).dir # job["boot"].backend
             PROVE  Usable(job["boot"].backend)
  BY DEF RestartsIntoUsable
<1> DEFINE j == job["boot"]
           b == j.backend
<1>1. "boot" \in Threads /\ Sound("boot", j) /\ j.phase = "restart" /\ j.kind = "download"
  BY AtWork DEF Threads, Sound
<1>2. /\ b \in Backends
      /\ b \in NeedsCudart => b \in Modular
  BY <1>1, BackendInstallAssumption DEF Sound, Jobs
<1>3. \A n : Past(j, n)
  BY <1>1 DEF Past
<1>4. /\ b \in Modular => Present(b, "exe")
      /\ Present(b, IF b \in Modular THEN "dll" ELSE "exe")
      /\ b \in NeedsCudart => Present(b, "rt")
  BY <1>1, <1>3 DEF RestartInv, Brought
<1>5. Present(b, "core")
  <2>1. SUFFICES ASSUME ~Present(b, "core") PROVE FALSE
    OBVIOUS
  <2>2. Present(b, "exe")
    BY <1>4
  <2>3. PICK t \in Threads : BaseWriter(t, b)
    BY <2>1, <2>2, <1>2 DEF RestartInv, BaseComes
  <2>4. t \in Writing /\ Now(t).dir = b
    BY <2>3, BaseWriterFiles DEF Writing, Unpacks, BaseWriter
  <2>5. QED BY <2>4
<1>6. QED BY <1>4, <1>5 DEF Usable

(* The application restarts itself after a download only into an engine    *)
(* that the next start accepts (App.downloadAndInstallBackend, which ends  *)
(* in RestartApp, and App.validatePaths).                                  *)
THEOREM RestartsFindTheEngine == InstallSpec => []RestartsIntoUsable
<1>1. InstallInit => Sane /\ ArchiveInv /\ RestartInv
  BY InstallInitSane, InitRestart
<1>2. Sane /\ ArchiveInv /\ RestartInv /\ [InstallNext]_installVars =>
        (Sane /\ ArchiveInv /\ RestartInv)'
  BY NextKeeps, NextKeepsRestart
<1>3. Sane /\ RestartInv => RestartsIntoUsable
  BY RestartIsIntoUsable
<1>4. QED BY <1>1, <1>2, <1>3, PTL DEF InstallSpec
=============================================================================
