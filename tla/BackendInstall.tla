--------------------------- MODULE BackendInstall ---------------------------
(***************************************************************************)
(* How an inference engine gets into the data directory: archives are      *)
(* downloaded under a temporary name and renamed, then unpacked into the   *)
(* directory of their backend.  The start-up unpacks what is there and     *)
(* downloads what is missing, the user may download a backend with a       *)
(* button meanwhile; a source may fail, and the process may die anywhere.  *)
(***************************************************************************)
EXTENDS Integers, Sequences, FiniteSets

CONSTANTS
  Backends,       \* the backends
  Wanted,         \* bound: those that configuration and hardware resolve to
  Pressable,      \* bound: those that the user asks for
  Modular,        \* those whose archive holds one library, laid over the CPU's
  NeedsCudart,    \* those that need the vendor's runtime too (CUDA)
  SilentFallback, \* those that the start replaces by the CPU's, if it can
  Cpu, Vulkan,    \* the base of the modular backends, and the preinstalled fallback
  Cudart,         \* the archive of the vendor's runtime
  Attempts,       \* downloads tried by one start (3 in the code)
  MaxFaults,      \* bound: failures of network and disk, and crashes
  MaxPresses,     \* bound: downloads the user asks for
  NoZip           \* an archive that does not exist

ASSUME BackendInstallAssumption ==
  /\ Cpu \in Backends \ Modular /\ Modular \subseteq Backends
  /\ NeedsCudart \subseteq Modular /\ SilentFallback \subseteq Modular \ NeedsCudart
  /\ Cudart \notin Backends /\ Attempts \in Nat \ {0} /\ MaxFaults \in Nat
  /\ MaxPresses \in Nat /\ Wanted \subseteq Backends /\ Pressable \subseteq Backends
  /\ \A halves \in SUBSET {1, 2} : NoZip # halves

Sources  == 2                       \* the mirror, then the original
Packages == Backends \union {Cudart}
Files    == {"exe", "core", "dll", "rt"}
Threads  == {"boot", "button"}      \* the start-up's goroutine and the button's

(* What an archive holds, in the order in which it is unpacked.            *)
Contents(p) ==
  CASE p = Cudart -> <<"rt">> [] p \in Modular -> <<"dll">> [] OTHER -> <<"exe", "core">>

VARIABLES
  wanted,   \* the backend that configuration and hardware resolve to
  zip,      \* the archives: the halves whose bytes are right
  tmp,      \* the same of the temporary files
  dir,      \* the files of each backend: "none", "torn", "bad" (right size) or "whole"
  up,       \* the process runs
  job,      \* what each goroutine does
  faults, presses,
  \* history
  spoiled,  \* backends whose unpacking was cut short, or failed
  mixed     \* archives with two writers at a time, or of another origin

installVars == <<wanted, zip, tmp, dir, up, job, faults, presses, spoiled, mixed>>

-----------------------------------------------------------------------------
(* A job is a sequence of tasks; a task that fails ends the attempt, or    *)
(* the job, or is passed over, or makes a download necessary.              *)

Task(op, p, b, onFail) == [op |-> op, pkg |-> p, dir |-> b, onFail |-> onFail]

If(cond, seq) == IF cond THEN seq ELSE <<>>

BasePlan(b) ==
  If(b \in Modular, <<Task("fetchBase", Cpu, b, "abort"), Task("base", Cpu, b, "abort")>>)

FallbackPlan(b) ==
  If(b \in NeedsCudart /\ Vulkan \in Backends,
     <<Task("base", Cpu, Vulkan, "finish"), Task("fetch", Vulkan, Vulkan, "finish"),
       Task("install", Vulkan, Vulkan, "finish")>>)

(* Mutant: a missing vendor runtime does not stop the installation.        *)
DownloadPlanLenient(b) ==
  BasePlan(b) \o <<Task("fetch", b, b, "abort")>>
  \o If(b \in NeedsCudart, <<Task("fetch", Cudart, b, "skip")>>)
  \o <<Task("install", b, b, "abort")>>
  \o If(b \in NeedsCudart, <<Task("runtime", Cudart, b, "skip")>>)
  \o FallbackPlan(b)

(* App.downloadAndInstallBackend                                           *)
DownloadPlan(b) ==
  BasePlan(b) \o <<Task("fetch", b, b, "abort")>>
  \o If(b \in NeedsCudart, <<Task("fetch", Cudart, b, "abort")>>)
  \o <<Task("install", b, b, "abort")>>
  \o If(b \in NeedsCudart, <<Task("runtime", Cudart, b, "skip")>>)
  \o FallbackPlan(b)

(* installBackend, before it decides whether anything must be downloaded.  *)
StartPlan(b) ==
  <<Task("install", b, b, "download")>>
  \o If(b \in NeedsCudart, <<Task("runtime", Cudart, b, "skip")>>)

(* App.DownloadBackend fetches the backend's own archive and nothing else. *)
ButtonPlan(b) == <<Task("fetch", b, b, "abort"), Task("install", b, b, "abort")>>

Plan(j) ==
  CASE j.kind = "start" -> StartPlan(j.backend)
    [] j.kind = "download" -> DownloadPlan(j.backend)
    [] OTHER -> ButtonPlan(j.backend)

(* About to do task k, in attempt n.                                       *)
JobAt(kind, b, k, n) ==
  [kind |-> kind, backend |-> b, task |-> k, phase |-> "ask", source |-> 1, next |-> 1,
   again |-> FALSE, attempt |-> n]

NewJob(kind, b, n) == JobAt(kind, b, 1, n)

Idle == NewJob("idle", Cpu, 1)

Now(t)     == Plan(job[t])[job[t].task]
At(t, ph)  == up /\ job[t].kind \in {"start", "download", "button"} /\ job[t].phase = ph
Goes(t, j) == job' = [job EXCEPT ![t] = j]
To(t, ph)  == Goes(t, [job[t] EXCEPT !.phase = ph])

Fault   == faults < MaxFaults /\ faults' = faults + 1
NoFault == faults' = faults

Present(b, f) == dir[b][f] # "none"

(* App.validatePaths, by existence only.                                   *)
Usable(b) ==
  /\ Present(b, "exe") /\ Present(b, "core")
  /\ b \in Modular => Present(b, "dll")
  /\ b \in NeedsCudart => Present(b, "rt")

(* The job after its last task, or after a task that makes the rest moot.  *)
Finished(j) ==
  [j EXCEPT !.phase = CASE j.kind = "start" -> "decide" [] j.kind = "download" -> "restart"
                        [] OTHER -> "over"]

Advanced(j) ==
  IF j.task = Len(Plan(j)) THEN Finished(j)
  ELSE JobAt(j.kind, j.backend, j.task + 1, j.attempt)

(* downloadBackendWithRetry starts over, the button gives up.              *)
Aborted(j) ==
  IF j.kind = "download" /\ j.attempt < Attempts
    THEN NewJob("download", j.backend, j.attempt + 1)
    ELSE [j EXCEPT !.phase = "over"]

TaskDone(t)  == Goes(t, Advanced(job[t]))
AfterFailure(t) ==
  CASE Now(t).onFail = "abort" -> Aborted(job[t])
    [] Now(t).onFail = "finish" -> Finished(job[t])
    [] Now(t).onFail = "download" ->
         IF job[t].backend \in SilentFallback THEN NewJob("start", Cpu, 1)
         ELSE [job[t] EXCEPT !.phase = "missing"]
    [] OTHER -> Advanced(job[t])
TaskFails(t) == Goes(t, AfterFailure(t))

-----------------------------------------------------------------------------
(* DownloadBackendZip and DownloadCudartZip.  A file that is open cannot   *)
(* be removed or replaced (Windows), but another goroutine can open and    *)
(* truncate it, and both then write at their own places.                   *)

Fetching(t) == Now(t).op \in {"fetch", "fetchBase"}

HoldsTmp(t, p) == up /\ job[t].phase \in {"first", "second"} /\ Now(t).pkg = p
Unpacks(t, p) == up /\ job[t].phase = "unpack" /\ Now(t).pkg = p
OthersHold(t, p) == \E u \in Threads \ {t} : HoldsTmp(u, p)

Removed(t, p) == IF OthersHold(t, p) THEN tmp ELSE [tmp EXCEPT ![p] = NoZip]

BaseIsThere(k) == k.op = "fetchBase" /\ Present(k.dir, "exe")

(* The release, or the archive in its list, cannot be looked up; this is   *)
(* asked for even when the archive has been downloaded before.             *)
LookupFails(t) ==
  /\ At(t, "ask") /\ Fetching(t) /\ ~BaseIsThere(Now(t))
  /\ Fault /\ TaskFails(t)
  /\ UNCHANGED <<wanted, presses, zip, tmp, dir, up, spoiled, mixed>>

(* The archive is there, or the base it is for is; else what an earlier    *)
(* attempt left is removed.                                                *)
FetchAsk(t) ==
  /\ At(t, "ask") /\ Fetching(t)
  /\ LET k == Now(t) IN
       IF zip[k.pkg] # NoZip \/ BaseIsThere(k)
         THEN TaskDone(t) /\ UNCHANGED tmp
         ELSE To(t, "open") /\ tmp' = Removed(t, k.pkg)
  /\ NoFault /\ UNCHANGED <<wanted, presses, zip, dir, up, spoiled, mixed>>

(* This source has failed: the next one, from the beginning, or none.      *)
NextSource(t) ==
  IF job[t].source < Sources
    THEN Goes(t, [job[t] EXCEPT !.phase = "open", !.source = @ + 1])
    ELSE TaskFails(t)

(* A mirror may answer with a page of its own: its length is counted       *)
(* against the length it names itself.                                     *)
FetchOpen(t) ==
  /\ At(t, "open")
  /\ tmp' = [tmp EXCEPT ![Now(t).pkg] = {}]
  /\ \/ /\ To(t, "first") /\ NoFault
        /\ mixed' = IF OthersHold(t, Now(t).pkg) THEN mixed \union {Now(t).pkg} ELSE mixed
     \/ To(t, "rename") /\ Fault /\ mixed' = mixed \union {Now(t).pkg}
  /\ UNCHANGED <<wanted, presses, zip, dir, up, spoiled>>

FetchWrite(t) ==
  /\ \/ At(t, "first") /\ To(t, "second") /\ tmp' = [tmp EXCEPT ![Now(t).pkg] = @ \union {1}]
     \/ At(t, "second") /\ To(t, "rename") /\ tmp' = [tmp EXCEPT ![Now(t).pkg] = @ \union {2}]
  /\ NoFault /\ UNCHANGED <<wanted, presses, zip, dir, up, spoiled, mixed>>

(* Mutant: the bytes received are not counted.                             *)
FetchFailsUncounted(t) ==
  /\ \E ph \in {"open", "first", "second"} : At(t, ph)
  /\ Fault
  /\ \/ NextSource(t) /\ tmp' = Removed(t, Now(t).pkg)
     \/ At(t, "second") /\ To(t, "rename") /\ UNCHANGED tmp
  /\ UNCHANGED <<wanted, presses, zip, dir, up, spoiled, mixed>>

(* No connection, a bad status, a read or write error, a short answer.     *)
FetchFails(t) ==
  /\ \E ph \in {"open", "first", "second"} : At(t, ph)
  /\ Fault
  /\ NextSource(t) /\ tmp' = Removed(t, Now(t).pkg)
  /\ UNCHANGED <<wanted, presses, zip, dir, up, spoiled, mixed>>

FetchRename(t) ==
  /\ At(t, "rename")
  /\ LET p == Now(t).pkg IN
       IF OthersHold(t, p) \/ tmp[p] = NoZip \/ (\E u \in Threads : Unpacks(u, p))
         THEN NextSource(t) /\ UNCHANGED <<zip, tmp>>
         ELSE /\ zip' = [zip EXCEPT ![p] = tmp[p]] /\ tmp' = [tmp EXCEPT ![p] = NoZip]
              /\ TaskDone(t)
  /\ NoFault /\ UNCHANGED <<wanted, presses, dir, up, spoiled, mixed>>

-----------------------------------------------------------------------------
(* EnsureBackendInstalled, EnsureCPUBaseInstalled, EnsureCudartInstalled   *)

Already(k) ==
  CASE k.op = "base" -> Present(k.dir, "exe")
    [] k.op = "runtime" -> Present(k.dir, "rt")
    [] OTHER -> Present(k.dir, "exe") /\ (k.dir \in Modular => Present(k.dir, "dll"))

Verified(k) ==
  CASE k.op = "base" -> Present(k.dir, "exe")
    [] k.op = "runtime" -> Present(k.dir, "rt")
    [] OTHER -> Present(k.dir, IF k.dir \in Modular THEN "dll" ELSE "exe")

UnpackAsk(t) ==
  /\ At(t, "ask") /\ ~Fetching(t)
  /\ IF Already(Now(t)) THEN TaskDone(t)
     ELSE IF zip[Now(t).pkg] = NoZip THEN TaskFails(t)
     ELSE Goes(t, [job[t] EXCEPT !.phase = "unpack", !.next = 1, !.again = FALSE])
  /\ NoFault /\ UNCHANGED <<wanted, presses, zip, tmp, dir, up, spoiled, mixed>>

File(t)      == Contents(Now(t).pkg)[job[t].next]
Readable(t)  ==   \* the archive's directory is at its end
  zip[Now(t).pkg] # NoZip /\ 2 \in zip[Now(t).pkg]
MoreFiles(t) == job[t].next <= Len(Contents(Now(t).pkg))

(* One file: passed over if it is there in its size, else written.         *)
UnpackFile(t) ==
  /\ At(t, "unpack") /\ Readable(t) /\ MoreFiles(t)
  /\ LET b == Now(t).dir IN
       \/ dir[b][File(t)] \in {"bad", "whole"} /\ UNCHANGED dir
       \/ /\ dir[b][File(t)] \in {"none", "torn"} /\ 1 \in zip[Now(t).pkg]
          /\ dir' = [dir EXCEPT ![b][File(t)] = "whole"]
  /\ Goes(t, [job[t] EXCEPT !.next = @ + 1])
  /\ NoFault /\ UNCHANGED <<wanted, presses, zip, tmp, up, spoiled, mixed>>

(* The archive cannot be opened, a file cannot be written, or its bytes    *)
(* are wrong: what was written of it stays.                                *)
UnpackFails(t) ==
  /\ At(t, "unpack") /\ MoreFiles(t)
  /\ LET b == Now(t).dir IN
       /\ \/ ~Readable(t) /\ NoFault /\ UNCHANGED dir
          \/ /\ Readable(t) /\ 1 \notin zip[Now(t).pkg] /\ dir[b][File(t)] \in {"none", "torn"}
             /\ \E s \in {"torn", "bad"} : dir' = [dir EXCEPT ![b][File(t)] = s]
             /\ NoFault
          \/ /\ Readable(t) /\ dir[b][File(t)] \in {"none", "torn"}
             /\ Fault /\ dir' = [dir EXCEPT ![b][File(t)] = "torn"]
       /\ spoiled' = spoiled \union {b}
  /\ To(t, "failed")
  /\ UNCHANGED <<wanted, presses, zip, tmp, up, mixed>>

(* An archive that can be opened is tried once more, in an empty           *)
(* directory, whatever else was in it.                                     *)
MayRetry(t) == Readable(t) /\ ~job[t].again /\ Now(t).op # "runtime"

UnpackAgain(t) ==
  /\ At(t, "failed") /\ MayRetry(t)
  /\ dir' = [dir EXCEPT ![Now(t).dir] = [f \in Files |-> "none"]]
  /\ Goes(t, [job[t] EXCEPT !.phase = "unpack", !.next = 1, !.again = TRUE])
  /\ spoiled' = spoiled \union {Now(t).dir}
  /\ NoFault /\ UNCHANGED <<wanted, presses, zip, tmp, up, mixed>>

Dropped(t, p) ==
  IF \E u \in Threads \ {t} : Unpacks(u, p) THEN zip ELSE [zip EXCEPT ![p] = NoZip]

(* Mutant: the archive that could not be unpacked is kept.                 *)
UnpackGivesUpKeeping(t) ==
  /\ At(t, "failed") /\ ~MayRetry(t)
  /\ TaskFails(t)
  /\ NoFault /\ UNCHANGED <<wanted, presses, zip, tmp, dir, up, spoiled, mixed>>

(* The archive is deleted, so that it is downloaded again.                 *)
UnpackGivesUp(t) ==
  /\ At(t, "failed") /\ ~MayRetry(t)
  /\ zip' = Dropped(t, Now(t).pkg)
  /\ TaskFails(t)
  /\ NoFault /\ UNCHANGED <<wanted, presses, tmp, dir, up, spoiled, mixed>>

UnpackEnds(t) ==
  /\ At(t, "unpack") /\ ~MoreFiles(t)
  /\ IF Verified(Now(t)) THEN TaskDone(t) /\ UNCHANGED zip
     ELSE TaskFails(t) /\ zip' = Dropped(t, Now(t).pkg)
  /\ NoFault /\ UNCHANGED <<wanted, presses, tmp, dir, up, spoiled, mixed>>

-----------------------------------------------------------------------------
(* The application around the jobs. *)

InstallInit ==
  /\ wanted \in Wanted
  /\ zip = [p \in Packages |-> NoZip] /\ tmp = [p \in Packages |-> NoZip]
  /\ dir = [b \in Backends |-> [f \in Files |-> "none"]]
  /\ up = FALSE /\ job = [t \in Threads |-> Idle]
  /\ faults = 0 /\ presses = 0 /\ spoiled = {} /\ mixed = {}

Launch ==
  /\ ~up /\ up' = TRUE
  /\ Goes("boot", NewJob("start", wanted, 1))
  /\ NoFault /\ UNCHANGED <<wanted, presses, zip, tmp, dir, spoiled, mixed>>

(* installBackend: go on with the engine, or download it in the background *)
(* (the CPU's if that one has replaced the one that is wanted).            *)
Decide ==
  /\ \/ /\ At("boot", "decide") /\ Usable(job["boot"].backend)
        /\ Goes("boot", [job["boot"] EXCEPT !.kind = "ready"])
     \/ /\ At("boot", "decide") /\ ~Usable(job["boot"].backend)
        /\ Goes("boot", NewJob("download", job["boot"].backend, 1))
     \/ /\ At("boot", "missing")
        /\ Goes("boot", NewJob("download", wanted, 1))
  /\ NoFault /\ UNCHANGED <<wanted, presses, zip, tmp, dir, up, spoiled, mixed>>

(* DownloadBackend holds downloadingBackends for as long as it runs.       *)
PressButton(b) ==
  /\ up /\ presses < MaxPresses /\ presses' = presses + 1
  /\ job["button"].kind = "idle" /\ job["boot"].kind \in {"download", "ready"}
  /\ Goes("button", NewJob("button", b, 1))
  /\ NoFault /\ UNCHANGED <<wanted, zip, tmp, dir, up, spoiled, mixed>>

ButtonEnds ==
  /\ At("button", "over")
  /\ Goes("button", Idle)
  /\ NoFault /\ UNCHANGED <<wanted, presses, zip, tmp, dir, up, spoiled, mixed>>

(* The process ends; a file that is being written is cut short or not yet  *)
(* begun, an open temporary file stays.                                    *)
Writing == {t \in Threads : Unpacks(t, Now(t).pkg) /\ MoreFiles(t)}

ProcessEnds ==
  /\ up' = FALSE
  /\ job' = [t \in Threads |-> Idle]
  /\ spoiled' = spoiled \union {Now(t).dir : t \in Writing}
  /\ \E cut \in SUBSET Writing :
       dir' = [b \in Backends |-> [f \in Files |->
                 IF \E t \in cut : Now(t).dir = b /\ File(t) = f /\ dir[b][f] \in {"none", "torn"}
                 THEN "torn" ELSE dir[b][f]]]
  /\ UNCHANGED <<wanted, presses, zip, tmp, mixed>>

Crash == up /\ Fault /\ ProcessEnds

(* RestartApp after a download; the user quits once it has failed, or at   *)
(* any time once the engine is there.                                      *)
Restart == At("boot", "restart") /\ NoFault /\ ProcessEnds
Quit ==
  /\ up /\ (At("boot", "over") \/ job["boot"].kind = "ready")
  /\ NoFault /\ ProcessEnds

Step(t) ==
  \/ LookupFails(t) \/ FetchAsk(t) \/ FetchOpen(t) \/ FetchWrite(t) \/ FetchFails(t) \/ FetchRename(t)
  \/ UnpackAsk(t) \/ UnpackFile(t) \/ UnpackFails(t) \/ UnpackAgain(t) \/ UnpackGivesUp(t)
  \/ UnpackEnds(t)

InstallNext ==
  \/ \E t \in Threads : Step(t)
  \/ Launch \/ Decide \/ (\E b \in Pressable : PressButton(b)) \/ ButtonEnds
  \/ Crash \/ Restart \/ Quit

(* The goroutines go on, and the user starts the application again after   *)
(* it has ended, and restarts it when its downloads have failed.           *)
Fairness ==
  /\ \A t \in Threads : WF_installVars(Step(t))
  /\ WF_installVars(Launch) /\ WF_installVars(Decide)
  /\ WF_installVars(ButtonEnds) /\ WF_installVars(Restart)
  /\ WF_installVars(At("boot", "over") /\ Quit)

InstallSpec == InstallInit /\ [][InstallNext]_installVars /\ Fairness

-----------------------------------------------------------------------------
Halves == {NoZip} \union SUBSET {1, 2}

(* Where a job may be: of its task, or of itself.                          *)
FetchPhases  == {"open", "first", "second", "rename"}
UnpackPhases == {"unpack", "failed"}
EndPhases    == {"missing", "decide", "restart", "over"}

Jobs ==
  [kind : {"idle", "start", "download", "button", "ready"}, backend : Backends,
   task : Nat \ {0}, phase : {"ask"} \union FetchPhases \union UnpackPhases \union EndPhases,
   source : 1..Sources, next : Nat \ {0}, again : BOOLEAN, attempt : 1..Attempts]

InstallTypeOK ==
  /\ wanted \in Backends /\ up \in BOOLEAN /\ faults \in 0..MaxFaults /\ presses \in 0..MaxPresses
  /\ zip \in [Packages -> Halves] /\ tmp \in [Packages -> Halves]
  /\ dir \in [Backends -> [Files -> {"none", "torn", "bad", "whole"}]]
  /\ job \in [Threads -> Jobs] /\ \A t \in Threads : job[t].task \in 1..Len(Plan(job[t]))
  /\ spoiled \subseteq Backends /\ mixed \subseteq Packages

(* An archive gets its final name with all its bytes, whatever fails and   *)
(* whenever the process dies, unless a source answered with something else *)
(* or two goroutines wrote its temporary file at the same time (the        *)
(* start-up takes no part in the button's downloadingBackends).            *)
ArchiveIsWhole == \A p \in Packages \ mixed : zip[p] \in {NoZip, {1, 2}}

(* The application restarts itself after a download only into an engine    *)
(* that the next start accepts: it never restarts in a loop, as long as no *)
(* unpacking was cut short or failed and the button's goroutine, whose     *)
(* first file makes the start-up believe that all is done, is not unpacking*)
(* into the same directory.                                                *)
RestartsIntoUsable ==
  At("boot", "restart") =>
    LET b == job["boot"].backend IN
      Usable(b) \/ b \in spoiled \/ (\E t \in Writing : Now(t).dir = b)

(* Unpacking was cut short between two files of the base: all tests of the *)
(* installation find the program, and validatePaths misses a library.      *)
Stuck(b) == Present(b, "exe") /\ ~Present(b, "core")

(* Sources may fail, archives may be corrupt and the process may die: the  *)
(* starts sooner or later find the engine that is wanted, or the one that  *)
(* silently replaces it, unless its base is stuck between two files, a     *)
(* state that no start repairs.                                            *)
InstallConverges ==
  <>[](\E b \in {wanted} \union (IF wanted \in SilentFallback THEN {Cpu} ELSE {}) :
         Usable(b) \/ Stuck(b))
=============================================================================
