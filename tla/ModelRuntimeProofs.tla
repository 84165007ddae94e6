------------------------- MODULE ModelRuntimeProofs -------------------------
(***************************************************************************)
(* Proofs about model switching, for every set of models and of threads that *)
(* call SwitchModel and any number of crashes: type correctness; the         *)
(* inductive invariant from which the exclusion of switches, the client's    *)
(* model and the success of a switch follow; and the one that says that      *)
(* somebody works on whatever the user is made to wait for.                  *)
(***************************************************************************)
EXTENDS ModelRuntime, TLAPS

(* A step keeps the goroutines' phases and models in their types. *)
LEMMA PhasesStep == PhasesOK /\ [Next]_vars => PhasesOK'
<1> SUFFICES ASSUME PhasesOK, [Next]_vars PROVE PhasesOK'
  OBVIOUS
<1> USE RuntimeAssumption DEF PhasesOK, MaybeModel, Kinds
<1>1. ASSUME NEW s \in Switchers, NEW m \in Models, SwitchBegin(s, m) PROVE PhasesOK'
  BY <1>1 DEF SwitchBegin, SwitchGoto, router, flags, starter, monitor, watcher,
     process
<1>2. ASSUME NEW s \in Switchers, SwitchPrepare(s) PROVE PhasesOK'
  BY <1>2 DEF SwitchPrepare, SwitchGoto, Show, router, session, starter, monitor,
     watcher, process
<1>3. ASSUME NEW s \in Switchers, SwitchLoad(s) PROVE PhasesOK'
  BY <1>3 DEF SwitchLoad, LoadAccepted, SwitchGoto, session, flags, starter, monitor,
     watcher, process
<1>4. ASSUME NEW s \in Switchers, SwitchLoaded(s) PROVE PhasesOK'
  BY <1>4 DEF SwitchLoaded, SwitchGoto, router, session, flags, starter, monitor,
     watcher, process
<1>5. ASSUME NEW s \in Switchers, SwitchFails(s) PROVE PhasesOK'
  BY <1>5 DEF SwitchFails, SwitchGoto, router, flags, starter, monitor, watcher,
     process
<1>6. ASSUME NEW s \in Switchers, SwitchFinalize(s) PROVE PhasesOK'
  BY <1>6 DEF SwitchFinalize, SwitchGoto, router, flags, starter, monitor, watcher,
     process
<1>7. ASSUME NEW s \in Switchers, SwitchAnnounce(s) PROVE PhasesOK'
  BY <1>7 DEF SwitchAnnounce, SwitchEnd, SwitchGoto, EmitSuccess, Show, router,
     starter, monitor, watcher, process
<1>8. ASSUME NEW s \in Switchers, RollbackLoad(s) PROVE PhasesOK'
  BY <1>8 DEF RollbackLoad, LoadAccepted, SwitchGoto, session, flags, starter,
     monitor, watcher, process
<1>9. ASSUME NEW s \in Switchers, RollbackFails(s) PROVE PhasesOK'
  BY <1>9 DEF RollbackFails, SwitchEnd, SwitchGoto, EmitError, Show, router, starter,
     monitor, watcher, process
<1>10. ASSUME NEW s \in Switchers, RollbackDone(s) PROVE PhasesOK'
  BY <1>10 DEF RollbackDone, SwitchEnd, SwitchGoto, EmitSuccess, Show, router,
     starter, monitor, watcher, process
<1>11. CASE ReplaceClient
  BY <1>11 DEF ReplaceClient, router, session, flags, switchers, starter, monitor,
     watcher, process
<1>12. ASSUME NEW m \in Defaults, BootServer(m) PROVE PhasesOK'
  BY <1>12 DEF BootServer, EmitError, Show, router, switchers, monitor, watcher
<1>13. CASE BootAnnounce
  BY <1>13 DEF BootAnnounce, Show, router, session, switchers, monitor, watcher,
     process
<1>14. CASE BootLoad
  BY <1>14 DEF BootLoad, LoadAccepted, LoadRefused, EmitError, Show, router, session,
     switchers, monitor, watcher, process
<1>15. CASE BootWait
  BY <1>15 DEF BootWait, EmitError, Show, router, session, flags, switchers, monitor,
     watcher, process
<1>16. CASE BootReload
  BY <1>16 DEF BootReload, LoadAccepted, LoadRefused, EmitError, EmitSuccess, Show,
     router, session, flags, switchers, monitor, watcher, process
<1>17. CASE BootSuccess
  BY <1>17 DEF BootSuccess, EmitSuccess, Show, router, session, switchers, monitor,
     watcher, process
<1>18. CASE BootWatch
  BY <1>18 DEF BootWatch, router, session, flags, switchers, process
<1>19. CASE BackgroundLoaded
  BY <1>19 DEF BackgroundLoaded, router, session, switchers, monitor, watcher, process
<1>20. CASE BackgroundSuccess
  BY <1>20 DEF BackgroundSuccess, EmitSuccess, Show, router, session, switchers,
     monitor, watcher, process
<1>21. CASE BackgroundFails
  BY <1>21 DEF BackgroundFails, EmitError, Show, router, session, switchers, monitor,
     watcher, process
<1>22. CASE MonitorTick
  BY <1>22 DEF MonitorTick, router, session, flags, switchers, starter, watcher,
     process
<1>23. CASE MonitorHealthy
  BY <1>23 DEF MonitorHealthy, MonitorRests, router, session, flags, switchers,
     starter, watcher, process
<1>24. CASE MonitorCrashed
  BY <1>24 DEF MonitorCrashed, MonitorRests, EmitError, Show, router, session,
     switchers, starter, watcher, process
<1>25. CASE MonitorReload
  BY <1>25 DEF MonitorReload, MonitorRests, LoadAccepted, LoadRefused, EmitError,
     Show, router, session, switchers, starter, watcher, process
<1>26. CASE MonitorReloaded
  BY <1>26 DEF MonitorReloaded, MonitorRests, EmitError, EmitSuccess, Show, router,
     session, switchers, starter, watcher, process
<1>27. CASE WatcherNotices
  BY <1>27 DEF WatcherNotices, StatusCallback, Show, router, session, flags,
     switchers, starter, monitor, process
<1>28. CASE WatcherRestarts
  BY <1>28 DEF WatcherRestarts, StatusCallback, Show, router, session, flags,
     switchers, starter, monitor
<1>29. CASE WatcherReload
  BY <1>29 DEF WatcherReload, LoadAccepted, LoadRefused, EmitError, Show, router,
     session, flags, switchers, starter, monitor, process
<1>30. CASE WatcherReloaded
  BY <1>30 DEF WatcherReloaded, EmitError, Show, router, session, switchers, starter,
     monitor, process
<1>31. CASE WatcherAnnounces
  BY <1>31 DEF WatcherAnnounces, Show, router, session, switchers, starter, monitor,
     process
<1>32. CASE WatcherReports
  BY <1>32 DEF WatcherReports, StatusCallback, Show, router, session, flags,
     switchers, starter, monitor, process
<1>33. CASE RouterLoads
  BY <1>33 DEF RouterLoads, session, flags, switchers, starter, monitor, watcher,
     process
<1>34. CASE RouterDrops
  BY <1>34 DEF RouterDrops, RouterEmpty, session, flags, switchers, starter, monitor,
     watcher, process
<1>35. CASE ProcessExits
  BY <1>35 DEF ProcessExits, RouterEmpty, session, flags, switchers, starter, monitor,
     watcher
<1>36. CASE UNCHANGED vars
  BY <1>36 DEF vars, router, session, flags, switchers, starter, monitor, watcher,
     process
<1>37. QED
  BY <1>1, <1>2, <1>3, <1>4, <1>5, <1>6, <1>7, <1>8, <1>9, <1>10, <1>11, <1>12, <1>13,
     <1>14, <1>15, <1>16, <1>17, <1>18, <1>19, <1>20, <1>21, <1>22, <1>23, <1>24,
     <1>25, <1>26, <1>27, <1>28, <1>29, <1>30, <1>31, <1>32, <1>33, <1>34, <1>35,
     <1>36 DEF Next, SwitchProceed, StarterProceed, MonitorProceed, WatcherProceed,
     Environment

(* A step keeps the flags Boolean. *)
LEMMA FlagsStep == PhasesOK /\ FlagsOK /\ [Next]_vars => FlagsOK'
<1> SUFFICES ASSUME PhasesOK, FlagsOK, [Next]_vars PROVE FlagsOK'
  OBVIOUS
<1> USE DEF FlagsOK
<1>1. ASSUME NEW s \in Switchers, NEW m \in Models, SwitchBegin(s, m) PROVE FlagsOK'
  BY <1>1 DEF SwitchBegin, SwitchGoto, router, flags, starter, monitor, watcher,
     process
<1>2. ASSUME NEW s \in Switchers, SwitchPrepare(s) PROVE FlagsOK'
  BY <1>2 DEF SwitchPrepare, SwitchGoto, Show, router, session, starter, monitor,
     watcher, process
<1>3. ASSUME NEW s \in Switchers, SwitchLoad(s) PROVE FlagsOK'
  BY <1>3 DEF SwitchLoad, LoadAccepted, SwitchGoto, session, flags, starter, monitor,
     watcher, process
<1>4. ASSUME NEW s \in Switchers, SwitchLoaded(s) PROVE FlagsOK'
  BY <1>4 DEF SwitchLoaded, SwitchGoto, router, session, flags, starter, monitor,
     watcher, process
<1>5. ASSUME NEW s \in Switchers, SwitchFails(s) PROVE FlagsOK'
  BY <1>5 DEF SwitchFails, SwitchGoto, router, flags, starter, monitor, watcher,
     process
<1>6. ASSUME NEW s \in Switchers, SwitchFinalize(s) PROVE FlagsOK'
  BY <1>6 DEF SwitchFinalize, SwitchGoto, router, flags, starter, monitor, watcher,
     process
<1>7. ASSUME NEW s \in Switchers, SwitchAnnounce(s) PROVE FlagsOK'
  BY <1>7 DEF SwitchAnnounce, SwitchEnd, SwitchGoto, EmitSuccess, Show, router,
     starter, monitor, watcher, process
<1>8. ASSUME NEW s \in Switchers, RollbackLoad(s) PROVE FlagsOK'
  BY <1>8 DEF RollbackLoad, LoadAccepted, SwitchGoto, session, flags, starter,
     monitor, watcher, process
<1>9. ASSUME NEW s \in Switchers, RollbackFails(s) PROVE FlagsOK'
  BY <1>9 DEF RollbackFails, SwitchEnd, SwitchGoto, EmitError, Show, router, starter,
     monitor, watcher, process
<1>10. ASSUME NEW s \in Switchers, RollbackDone(s) PROVE FlagsOK'
  BY <1>10 DEF RollbackDone, SwitchEnd, SwitchGoto, EmitSuccess, Show, router,
     starter, monitor, watcher, process
<1>11. CASE ReplaceClient
  BY <1>11 DEF ReplaceClient, router, session, flags, switchers, starter, monitor,
     watcher, process
<1>12. ASSUME NEW m \in Defaults, BootServer(m) PROVE FlagsOK'
  BY <1>12 DEF BootServer, EmitError, Show, router, switchers, monitor, watcher
<1>13. CASE BootAnnounce
  BY <1>13 DEF BootAnnounce, Show, router, session, switchers, monitor, watcher,
     process
<1>14. CASE BootLoad
  BY <1>14 DEF BootLoad, LoadAccepted, LoadRefused, EmitError, Show, router, session,
     switchers, monitor, watcher, process
<1>15. CASE BootWait
  BY <1>15 DEF BootWait, EmitError, Show, router, session, flags, switchers, monitor,
     watcher, process
<1>16. CASE BootReload
  BY <1>16 DEF BootReload, LoadAccepted, LoadRefused, EmitError, EmitSuccess, Show,
     router, session, flags, switchers, monitor, watcher, process
<1>17. CASE BootSuccess
  BY <1>17 DEF BootSuccess, EmitSuccess, Show, router, session, switchers, monitor,
     watcher, process
<1>18. CASE BootWatch
  BY <1>18 DEF BootWatch, router, session, flags, switchers, process
<1>19. CASE BackgroundLoaded
  BY <1>19 DEF BackgroundLoaded, router, session, switchers, monitor, watcher, process
<1>20. CASE BackgroundSuccess
  BY <1>20 DEF BackgroundSuccess, EmitSuccess, Show, router, session, switchers,
     monitor, watcher, process
<1>21. CASE BackgroundFails
  BY <1>21 DEF BackgroundFails, EmitError, Show, router, session, switchers, monitor,
     watcher, process
<1>22. CASE MonitorTick
  BY <1>22 DEF MonitorTick, router, session, flags, switchers, starter, watcher,
     process
<1>23. CASE MonitorHealthy
  BY <1>23 DEF MonitorHealthy, MonitorRests, router, session, flags, switchers,
     starter, watcher, process
<1>24. CASE MonitorCrashed
  BY <1>24 DEF MonitorCrashed, MonitorRests, EmitError, Show, router, session,
     switchers, starter, watcher, process
<1>25. CASE MonitorReload
  BY <1>25 DEF MonitorReload, MonitorRests, LoadAccepted, LoadRefused, EmitError,
     Show, router, session, switchers, starter, watcher, process
<1>26. CASE MonitorReloaded
  BY <1>26 DEF MonitorReloaded, MonitorRests, EmitError, EmitSuccess, Show, router,
     session, switchers, starter, watcher, process
<1>27. CASE WatcherNotices
  BY <1>27 DEF WatcherNotices, StatusCallback, Show, router, session, flags,
     switchers, starter, monitor, process
<1>28. CASE WatcherRestarts
  BY <1>28 DEF WatcherRestarts, StatusCallback, Show, router, session, flags,
     switchers, starter, monitor
<1>29. CASE WatcherReload
  BY <1>29 DEF WatcherReload, LoadAccepted, LoadRefused, EmitError, Show, router,
     session, flags, switchers, starter, monitor, process
<1>30. CASE WatcherReloaded
  BY <1>30 DEF WatcherReloaded, EmitError, Show, router, session, switchers, starter,
     monitor, process
<1>31. CASE WatcherAnnounces
  BY <1>31 DEF WatcherAnnounces, Show, router, session, switchers, starter, monitor,
     process
<1>32. CASE WatcherReports
  BY <1>32 DEF WatcherReports, StatusCallback, Show, router, session, flags,
     switchers, starter, monitor, process
<1>33. CASE RouterLoads
  BY <1>33 DEF RouterLoads, session, flags, switchers, starter, monitor, watcher,
     process
<1>34. CASE RouterDrops
  BY <1>34 DEF RouterDrops, RouterEmpty, session, flags, switchers, starter, monitor,
     watcher, process
<1>35. CASE ProcessExits
  BY <1>35 DEF ProcessExits, RouterEmpty, session, flags, switchers, starter, monitor,
     watcher
<1>36. CASE UNCHANGED vars
  BY <1>36 DEF vars, router, session, flags, switchers, starter, monitor, watcher,
     process
<1>37. QED
  BY <1>1, <1>2, <1>3, <1>4, <1>5, <1>6, <1>7, <1>8, <1>9, <1>10, <1>11, <1>12, <1>13,
     <1>14, <1>15, <1>16, <1>17, <1>18, <1>19, <1>20, <1>21, <1>22, <1>23, <1>24,
     <1>25, <1>26, <1>27, <1>28, <1>29, <1>30, <1>31, <1>32, <1>33, <1>34, <1>35,
     <1>36 DEF Next, SwitchProceed, StarterProceed, MonitorProceed, WatcherProceed,
     Environment

(* Type correctness of the session, the flags and every goroutine's phase. *)
THEOREM TypeCorrect == Spec => []TypeOK
<1>1. Init => TypeOK
  <2>1. Init => PhasesOK
    BY RuntimeAssumption DEF Init, PhasesOK, MaybeModel, Kinds
  <2>2. Init => FlagsOK
    BY DEF Init, FlagsOK, MaybeModel
  <2>3. QED
    BY <2>1, <2>2 DEF TypeOK
<1>2. TypeOK /\ [Next]_vars => TypeOK'
  BY PhasesStep, FlagsStep DEF TypeOK
<1>3. QED
  BY <1>1, <1>2, PTL DEF Spec

-----------------------------------------------------------------------------
(* The invariant survives a step that leaves the session, the client's model    *)
(* and the running switches alone and does not go back before the start-up.    *)
LEMMA Untouched ==
  ASSUME SwitchInvariant, UNCHANGED <<session, clientModel, switchers>>,
         boot' = "start" => boot = "start" /\ ~running' /\ wat' = "off"
  PROVE  SwitchInvariant'
BY DEF SwitchInvariant, OneSwitchAtATime, Busy, ClientNamesNoOther, session, switchers

(* Every step preserves it: only one call of SwitchModel moves at a time, and   *)
(* only BootServer, RollbackDone and SwitchFinalize change the current model.   *)
LEMMA SwitchStep == TypeOK /\ SwitchInvariant /\ [Next]_vars => SwitchInvariant'
<1> SUFFICES ASSUME TypeOK, SwitchInvariant, [Next]_vars PROVE SwitchInvariant'
  OBVIOUS
<1>t. /\ sw \in [Switchers -> {"idle", "prepare", "load", "wait", "finalize", "announce",
                              "rollback", "rollwait"}]
      /\ target \in [Switchers -> MaybeModel] /\ previous \in [Switchers -> MaybeModel]
  BY DEF TypeOK, PhasesOK
<1>1. ASSUME NEW s \in Switchers, NEW m \in Models, SwitchBegin(s, m) PROVE SwitchInvariant'
  BY <1>t, <1>1, RuntimeAssumption DEF SwitchInvariant, OneSwitchAtATime, Busy,
     ClientNamesNoOther, SwitchBegin, SwitchGoto, router, starter, watcher, process
<1>2. ASSUME NEW s \in Switchers, SwitchPrepare(s) PROVE SwitchInvariant'
  BY <1>t, <1>2, RuntimeAssumption DEF SwitchInvariant, OneSwitchAtATime, Busy,
     ClientNamesNoOther, SwitchPrepare, SwitchGoto, router, session, starter, watcher,
     process
<1>3. ASSUME NEW s \in Switchers, SwitchLoad(s) PROVE SwitchInvariant'
  BY <1>t, <1>3, RuntimeAssumption DEF SwitchInvariant, OneSwitchAtATime, Busy,
     ClientNamesNoOther, SwitchLoad, LoadAccepted, SwitchGoto, session, starter,
     watcher, process
<1>4. ASSUME NEW s \in Switchers, SwitchLoaded(s) PROVE SwitchInvariant'
  BY <1>t, <1>4, RuntimeAssumption DEF SwitchInvariant, OneSwitchAtATime, Busy,
     ClientNamesNoOther, SwitchLoaded, SwitchGoto, router, session, starter, watcher,
     process
<1>5. ASSUME NEW s \in Switchers, SwitchFails(s) PROVE SwitchInvariant'
  BY <1>t, <1>5, RuntimeAssumption DEF SwitchInvariant, OneSwitchAtATime, Busy,
     ClientNamesNoOther, SwitchFails, SwitchGoto, router, starter, watcher, process
<1>6. ASSUME NEW s \in Switchers, SwitchFinalize(s) PROVE SwitchInvariant'
  BY <1>t, <1>6, RuntimeAssumption DEF SwitchInvariant, OneSwitchAtATime, Busy,
     ClientNamesNoOther, SwitchFinalize, SwitchGoto, router, starter, watcher, process
<1>7. ASSUME NEW s \in Switchers, SwitchAnnounce(s) PROVE SwitchInvariant'
  BY <1>t, <1>7, RuntimeAssumption DEF SwitchInvariant, OneSwitchAtATime, Busy,
     ClientNamesNoOther, SwitchAnnounce, SwitchEnd, SwitchGoto, router, starter,
     watcher, process
<1>8. ASSUME NEW s \in Switchers, RollbackLoad(s) PROVE SwitchInvariant'
  BY <1>t, <1>8, RuntimeAssumption DEF SwitchInvariant, OneSwitchAtATime, Busy,
     ClientNamesNoOther, RollbackLoad, LoadAccepted, SwitchGoto, session, starter,
     watcher, process
<1>9. ASSUME NEW s \in Switchers, RollbackFails(s) PROVE SwitchInvariant'
  BY <1>t, <1>9, RuntimeAssumption DEF SwitchInvariant, OneSwitchAtATime, Busy,
     ClientNamesNoOther, RollbackFails, SwitchEnd, SwitchGoto, router, starter, watcher,
     process
<1>10. ASSUME NEW s \in Switchers, RollbackDone(s) PROVE SwitchInvariant'
  BY <1>t, <1>10, RuntimeAssumption DEF SwitchInvariant, OneSwitchAtATime, Busy,
     ClientNamesNoOther, RollbackDone, SwitchEnd, SwitchGoto, router, starter, watcher,
     process
<1>11. CASE ReplaceClient
  BY <1>t, <1>11, RuntimeAssumption DEF SwitchInvariant, OneSwitchAtATime, Busy,
     ClientNamesNoOther, ReplaceClient, router, session, switchers, starter, watcher,
     process
<1>12. ASSUME NEW m \in Defaults, BootServer(m) PROVE SwitchInvariant'
  BY <1>t, <1>12, RuntimeAssumption DEF SwitchInvariant, OneSwitchAtATime, Busy,
     ClientNamesNoOther, BootServer, router, switchers, watcher
<1>13. CASE BootAnnounce
  BY <1>13, Untouched DEF SwitchInvariant, BootAnnounce, watcher, process
<1>14. CASE BootLoad
  BY <1>14, Untouched DEF SwitchInvariant, BootLoad, watcher, process
<1>15. CASE BootWait
  BY <1>15, Untouched DEF SwitchInvariant, BootWait, watcher, process
<1>16. CASE BootReload
  BY <1>16, Untouched DEF SwitchInvariant, BootReload, watcher, process
<1>17. CASE BootSuccess
  BY <1>17, Untouched DEF SwitchInvariant, BootSuccess, watcher, process
<1>18. CASE BootWatch
  BY <1>18, Untouched DEF SwitchInvariant, BootWatch, process
<1>19. CASE BackgroundLoaded
  BY <1>19, Untouched DEF SwitchInvariant, BackgroundLoaded, watcher, process
<1>20. CASE BackgroundSuccess
  BY <1>20, Untouched DEF SwitchInvariant, BackgroundSuccess, watcher, process
<1>21. CASE BackgroundFails
  BY <1>21, Untouched DEF SwitchInvariant, BackgroundFails, watcher, process
<1>22. CASE MonitorTick
  BY <1>22, Untouched DEF SwitchInvariant, MonitorTick, starter, watcher, process
<1>23. CASE MonitorHealthy
  BY <1>23, Untouched DEF SwitchInvariant, MonitorHealthy, starter, watcher, process
<1>24. CASE MonitorCrashed
  BY <1>24, Untouched DEF SwitchInvariant, MonitorCrashed, starter, watcher, process
<1>25. CASE MonitorReload
  BY <1>25, Untouched DEF SwitchInvariant, MonitorReload, starter, watcher, process
<1>26. CASE MonitorReloaded
  BY <1>26, Untouched DEF SwitchInvariant, MonitorReloaded, starter, watcher, process
<1>27. CASE WatcherNotices
  BY <1>27, Untouched DEF SwitchInvariant, WatcherNotices, starter, process
<1>28. CASE WatcherRestarts
  BY <1>28, Untouched DEF SwitchInvariant, WatcherRestarts, starter
<1>29. CASE WatcherReload
  BY <1>29, Untouched DEF SwitchInvariant, WatcherReload, starter, process
<1>30. CASE WatcherReloaded
  BY <1>30, Untouched DEF SwitchInvariant, WatcherReloaded, starter, process
<1>31. CASE WatcherAnnounces
  BY <1>31, Untouched DEF SwitchInvariant, WatcherAnnounces, starter, process
<1>32. CASE WatcherReports
  BY <1>32, Untouched DEF SwitchInvariant, WatcherReports, starter, process
<1>33. CASE RouterLoads
  BY <1>33, Untouched DEF SwitchInvariant, RouterLoads, starter, watcher, process
<1>34. CASE RouterDrops
  BY <1>34, Untouched DEF SwitchInvariant, RouterDrops, starter, watcher, process
<1>35. CASE ProcessExits
  BY <1>35, Untouched DEF SwitchInvariant, ProcessExits, starter, watcher
<1>36. CASE UNCHANGED vars
  BY <1>36, Untouched DEF SwitchInvariant, vars, starter, watcher, process
<1>37. QED
  BY <1>1, <1>2, <1>3, <1>4, <1>5, <1>6, <1>7, <1>8, <1>9, <1>10, <1>11, <1>12, <1>13,
     <1>14, <1>15, <1>16, <1>17, <1>18, <1>19, <1>20, <1>21, <1>22, <1>23, <1>24, <1>25,
     <1>26, <1>27, <1>28, <1>29, <1>30, <1>31, <1>32, <1>33, <1>34, <1>35, <1>36 DEF
     Next, SwitchProceed, StarterProceed, MonitorProceed, WatcherProceed, Environment

(* The invariant holds in every behaviour of the model runtime. *)
THEOREM SwitchInvariantHolds == Spec => []SwitchInvariant
<1>1. Init => SwitchInvariant
  BY DEF Init, SwitchInvariant, OneSwitchAtATime, Busy, ClientNamesNoOther
<1>2. QED
  BY <1>1, SwitchStep, TypeCorrect, PTL DEF Spec

(* The session admits one SwitchModel at a time, its rollback included, and is  *)
(* free exactly when none is running.                                       *)
THEOREM SwitchesExclude == Spec => []OneSwitchAtATime
<1>1. SwitchInvariant => OneSwitchAtATime
  BY DEF SwitchInvariant
<1>2. QED
  BY <1>1, SwitchInvariantHolds, PTL

(* The HTTP client's requests never name a model other than the current one. *)
THEOREM ClientAgrees == Spec => []ClientNamesNoOther
<1>1. SwitchInvariant => ClientNamesNoOther
  BY DEF SwitchInvariant
<1>2. QED
  BY <1>1, SwitchInvariantHolds, PTL

(* A switch that succeeds leaves its model current, whatever the other         *)
(* goroutines did meanwhile.                                                *)
THEOREM SuccessIsCurrent == Spec => SuccessNamesCurrentModel
<1>1. TypeOK /\ SwitchInvariant /\ [Next]_vars
        => [\A s \in Switchers :
              sw[s] = "announce" /\ sw'[s] = "idle" => currentModel' = target[s]]_vars
  <2> SUFFICES ASSUME TypeOK, SwitchInvariant, Next, NEW s \in Switchers,
                      sw[s] = "announce", sw'[s] = "idle"
               PROVE  currentModel' = target[s]
    BY DEF vars
  <2>1. sw \in [Switchers -> {"idle", "prepare", "load", "wait", "finalize", "announce",
                             "rollback", "rollwait"}] /\ boot # "start"
    BY DEF TypeOK, PhasesOK, SwitchInvariant
  <2>2. currentModel = target[s] /\ sw' # sw
    BY <2>1 DEF SwitchInvariant
  <2>3. PICK q \in Switchers : (\E m \in Models : SwitchBegin(q, m)) \/ SwitchProceed(q)
    <3>1. ~\E m \in Defaults : BootServer(m)
      BY <2>1 DEF BootServer
    <3>2. sw' # sw
      BY <2>2
    <3>3. QED
      BY <3>1, <3>2 DEF Next, StarterProceed, MonitorProceed, WatcherProceed, Environment,
         ReplaceClient, BootAnnounce, BootLoad, BootWait, BootReload, BootSuccess, BootWatch,
         BackgroundLoaded, BackgroundSuccess, BackgroundFails, MonitorTick, MonitorHealthy,
         MonitorCrashed, MonitorReload, MonitorReloaded, WatcherNotices, WatcherRestarts,
         WatcherReload, WatcherReloaded, WatcherAnnounces, WatcherReports, RouterLoads,
         RouterDrops, ProcessExits, switchers
  <2>4. q = s
    BY <2>1, <2>2, <2>3 DEF SwitchBegin, SwitchProceed, SwitchPrepare, SwitchLoad, SwitchLoaded,
       SwitchFails, SwitchFinalize, SwitchAnnounce, RollbackLoad, RollbackFails, RollbackDone,
       SwitchEnd, SwitchGoto
  <2>5. SwitchAnnounce(s)
    BY <2>1, <2>3, <2>4 DEF SwitchBegin, SwitchProceed, SwitchPrepare, SwitchLoad, SwitchLoaded,
       SwitchFails, SwitchFinalize, RollbackLoad, RollbackFails, RollbackDone
  <2>6. QED
    BY <2>2, <2>5 DEF SwitchAnnounce
<1>2. QED
  BY <1>1, SwitchInvariantHolds, TypeCorrect, PTL DEF Spec, SuccessNamesCurrentModel

-----------------------------------------------------------------------------
(* Nobody is left waiting for nothing. *)

(* While messages are refused although a model was chosen and the server runs,  *)
(* either the failure mark is up or a goroutine is at a point from which every  *)
(* way on makes the server ready or raises the mark.  The start-up's goroutines *)
(* are so only while their model is still the current one; otherwise they give  *)
(* up without a word, and it is the switch that answers.                      *)
SomeoneAnswers ==
  \/ serverReady \/ loadFailed \/ ~running \/ currentModel = NoModel
  \/ \E s \in Switchers : Busy(s)
  \/ boot \in {"select", "load", "wait", "reload", "rewait"} /\ currentModel = bootModel
  \/ bg = "waiting" /\ currentModel = bootModel
  \/ mon \in {"reload", "rewait"}
  \/ wat \in {"reload", "rewait"}

(* An error that is shown without being served is about to be replaced by the   *)
(* success that has cleared the mark.                                        *)
ErrorIsReplaced == shown = "error" => loadFailed \/ boot = "detect" \/ bg = "detect"

AnswerInvariant ==
  /\ SomeoneAnswers /\ ErrorIsReplaced
  /\ bg # "off" => boot \in {"watch", "done"}
  /\ boot # "done" => mon = "off" /\ wat = "off"
  /\ wat = "restart" => ~running

(* A step that touches none of this. *)
LEMMA AnswerUntouched ==
  ASSUME AnswerInvariant,
         UNCHANGED <<flags, currentModel, boot, bg, bootModel, wat, sw>>,
         running' => running,
         mon \in {"off", "reload", "rewait"} => mon' = mon
  PROVE  AnswerInvariant'
BY DEF AnswerInvariant, SomeoneAnswers, ErrorIsReplaced, Busy, flags

LEMMA AnswerStep == TypeOK /\ SwitchInvariant /\ AnswerInvariant /\ [Next]_vars => AnswerInvariant'
<1> SUFFICES ASSUME TypeOK, SwitchInvariant, AnswerInvariant, [Next]_vars PROVE AnswerInvariant'
  OBVIOUS
<1>t. /\ sw \in [Switchers -> {"idle", "prepare", "load", "wait", "finalize", "announce",
                              "rollback", "rollwait"}]
      /\ boot = "start" => ~running /\ wat = "off" /\ currentModel = NoModel
      /\ switching => \E s \in Switchers : Busy(s)
  BY DEF TypeOK, PhasesOK, SwitchInvariant, OneSwitchAtATime
<1> DEFINE Others == UNCHANGED <<boot, bg, bootModel, wat, mon, running>>
(* SwitchModel is busy to its end, and ends with a word. *)
<1>1. ASSUME NEW s \in Switchers, (\E m \in Models : SwitchBegin(s, m)) \/ SwitchProceed(s)
      PROVE  AnswerInvariant'
  <2>1. Others
    BY <1>1 DEF SwitchProceed, SwitchBegin, SwitchPrepare, SwitchLoad, SwitchLoaded, SwitchFails,
       SwitchFinalize, SwitchAnnounce, RollbackLoad, RollbackFails, RollbackDone, starter,
       monitor, watcher, process
  <2>2. CASE SwitchAnnounce(s) \/ RollbackDone(s)
    BY <2>1, <2>2 DEF SwitchAnnounce, RollbackDone, EmitSuccess, Show, AnswerInvariant,
       SomeoneAnswers, ErrorIsReplaced
  <2>3. CASE RollbackFails(s)
    BY <2>1, <2>3 DEF RollbackFails, EmitError, Show, AnswerInvariant, SomeoneAnswers,
       ErrorIsReplaced
  <2>4. CASE ~(SwitchAnnounce(s) \/ RollbackDone(s) \/ RollbackFails(s))
    <3>1. sw'[s] # "idle"
      BY <1>1, <1>t, <2>4 DEF SwitchProceed, SwitchBegin, SwitchPrepare, SwitchLoad, SwitchLoaded,
         SwitchFails, SwitchFinalize, RollbackLoad, SwitchGoto
    <3>2. loadFailed' = loadFailed /\ (shown' = shown \/ shown' = "busy")
      BY <1>1, <2>4 DEF SwitchProceed, SwitchBegin, SwitchPrepare, SwitchLoad, SwitchLoaded,
         SwitchFails, SwitchFinalize, RollbackLoad, Show, flags
    <3>3. QED
      BY <2>1, <3>1, <3>2 DEF AnswerInvariant, SomeoneAnswers, ErrorIsReplaced, Busy
  <2>5. QED
    BY <2>2, <2>3, <2>4
(* The start-up, and the wait it leaves in the background. *)
<1>2. ASSUME NEW m \in Defaults, BootServer(m) PROVE AnswerInvariant'
  BY <1>t, <1>2 DEF BootServer, EmitError, Show, AnswerInvariant, SomeoneAnswers, ErrorIsReplaced,
     Busy, switchers, monitor, watcher
<1>3. CASE BootAnnounce
  BY <1>3 DEF BootAnnounce, Show, AnswerInvariant, SomeoneAnswers, ErrorIsReplaced, Busy,
     session, switchers, monitor, watcher, process
<1>4. CASE BootLoad
  BY <1>4 DEF BootLoad, EmitError, Show, AnswerInvariant, SomeoneAnswers, ErrorIsReplaced, Busy,
     session, switchers, monitor, watcher, process
<1>5. CASE BootWait
  BY <1>5 DEF BootWait, EmitError, Show, AnswerInvariant, SomeoneAnswers, ErrorIsReplaced, Busy,
     session, flags, switchers, monitor, watcher, process
<1>6. CASE BootReload
  BY <1>6 DEF BootReload, EmitError, EmitSuccess, Show, AnswerInvariant, SomeoneAnswers,
     ErrorIsReplaced, Busy, session, flags, switchers, monitor, watcher, process
<1>7. CASE BootSuccess
  BY <1>7 DEF BootSuccess, EmitSuccess, Show, AnswerInvariant, SomeoneAnswers, ErrorIsReplaced,
     Busy, session, switchers, monitor, watcher, process
<1>8. CASE BootWatch
  BY <1>8 DEF BootWatch, AnswerInvariant, SomeoneAnswers, ErrorIsReplaced, Busy, session, flags,
     switchers, process
<1>9. CASE BackgroundLoaded
  BY <1>9 DEF BackgroundLoaded, AnswerInvariant, SomeoneAnswers, ErrorIsReplaced, monitor,
     watcher, process
<1>10. CASE BackgroundSuccess
  BY <1>10 DEF BackgroundSuccess, EmitSuccess, Show, AnswerInvariant, SomeoneAnswers,
     ErrorIsReplaced, Busy, session, switchers, monitor, watcher, process
<1>11. CASE BackgroundFails
  BY <1>t, <1>11 DEF BackgroundFails, EmitError, Show, AnswerInvariant, SomeoneAnswers,
     ErrorIsReplaced, Busy, session, switchers, monitor, watcher, process
(* The health monitor. *)
<1>12. CASE MonitorTick \/ MonitorHealthy
  BY <1>12, AnswerUntouched DEF MonitorTick, MonitorHealthy, MonitorRests, session, starter,
     switchers, watcher, process
<1>13. CASE MonitorCrashed
  BY <1>13 DEF MonitorCrashed, EmitError, Show, AnswerInvariant, SomeoneAnswers, ErrorIsReplaced,
     starter, watcher, process
<1>14. CASE MonitorReload
  BY <1>14 DEF MonitorReload, EmitError, Show, AnswerInvariant, SomeoneAnswers, ErrorIsReplaced,
     starter, watcher, process
<1>15. CASE MonitorReloaded
  BY <1>15 DEF MonitorReloaded, EmitError, EmitSuccess, Show, AnswerInvariant, SomeoneAnswers,
     ErrorIsReplaced, starter, watcher, process
(* The process watcher. *)
<1>16. CASE WatcherNotices
  BY <1>16 DEF WatcherNotices, StatusCallback, Show, AnswerInvariant, SomeoneAnswers,
     ErrorIsReplaced, flags, starter, process
<1>17. CASE WatcherRestarts
  BY <1>17 DEF WatcherRestarts, StatusCallback, Show, AnswerInvariant, SomeoneAnswers,
     ErrorIsReplaced, flags, starter
<1>18. CASE WatcherReload
  BY <1>18 DEF WatcherReload, EmitError, Show, AnswerInvariant, SomeoneAnswers, ErrorIsReplaced,
     flags, starter, process
<1>19. CASE WatcherReloaded
  BY <1>19 DEF WatcherReloaded, EmitError, Show, AnswerInvariant, SomeoneAnswers, ErrorIsReplaced,
     starter, process
<1>20. CASE WatcherAnnounces
  BY <1>20 DEF WatcherAnnounces, Show, AnswerInvariant, SomeoneAnswers, ErrorIsReplaced, Busy,
     session, switchers, starter, monitor, process
<1>21. CASE WatcherReports
  BY <1>21 DEF WatcherReports, StatusCallback, Show, AnswerInvariant, SomeoneAnswers,
     ErrorIsReplaced, Busy, session, flags, switchers, starter, monitor, process
(* The rest. *)
<1>22. CASE ReplaceClient \/ Environment
  BY <1>22, AnswerUntouched DEF ReplaceClient, Environment, RouterLoads, RouterDrops, ProcessExits,
     session, switchers, starter, monitor, watcher, process
<1>23. CASE UNCHANGED vars
  BY <1>23, AnswerUntouched DEF vars, session, switchers, starter, monitor, watcher, process
<1>24. QED
  BY <1>1, <1>2, <1>3, <1>4, <1>5, <1>6, <1>7, <1>8, <1>9, <1>10, <1>11, <1>12, <1>13, <1>14,
     <1>15, <1>16, <1>17, <1>18, <1>19, <1>20, <1>21, <1>22, <1>23
     DEF Next, StarterProceed, MonitorProceed, WatcherProceed

(* Who has taken the readiness away gives it back or says that it failed,        *)
(* whatever the other goroutines do in between.                              *)
THEOREM AnswerInvariantHolds == Spec => []AnswerInvariant
<1>1. Init => AnswerInvariant
  BY DEF Init, AnswerInvariant, SomeoneAnswers, ErrorIsReplaced
<1>2. QED
  BY <1>1, AnswerStep, TypeCorrect, SwitchInvariantHolds, PTL DEF Spec

(* A server that runs, has a model and refuses messages with nobody at work on   *)
(* it has its failure mark up.                                              *)
THEOREM NoSilentLimbo == Spec => []NoLimbo
<1>1. AnswerInvariant => NoLimbo
  BY DEF AnswerInvariant, SomeoneAnswers, NoLimbo, Working
<1>2. QED
  BY <1>1, AnswerInvariantHolds, PTL

(* The error last shown is the one that GetServerStatus serves, once everybody   *)
(* is done.                                                                 *)
THEOREM ShownErrorIsServed == Spec => []ErrorIsServed
<1>1. AnswerInvariant => ErrorIsServed
  BY DEF AnswerInvariant, ErrorIsReplaced, ErrorIsServed, Working
<1>2. QED
  BY <1>1, AnswerInvariantHolds, PTL

=============================================================================
