---------------------------- MODULE Daemon_proofs ----------------------------
(***************************************************************************)
(* For any repositories and threads: the daemon's syncs of a repository    *)
(* exclude each other, the guard and the WaitGroup are exact, the jobs in  *)
(* gocron are those of the live config, and a shutdown without timeouts    *)
(* leaves no sync behind.                                                  *)
(***************************************************************************)
EXTENDS Daemon, FiniteSetTheorems, TLAPS

USE DEF Goto, Return, Threads, Jobs, Configs, runVars, threadVars, reloadVars

\* The parts of Next, by what they touch.
LEMMA NextCases ==
    ASSUME [Next]_vars
    PROVE  \/ \E t \in CronThreads, j \in Jobs : Fire(t, j)
           \/ \E t \in CronThreads : LookupRepo(t)
           \/ \E t \in CronThreads \cup HttpThreads : SyncStep(t)
           \/ \E t \in HttpThreads :
                \/ AnswerMissing(t) \/ Respond(t) \/ PostSync(t)
                \/ \E r \in Repos : NextRepo(t, r) \/ PostSyncRepo(t, r)
           \/ \E t \in HttpThreads \cup {Hup} : LoadConfig(t) \/ ReloadStep(t)
           \/ Signal \/ RunStep
           \/ \E rs \in SUBSET Repos : EditConfig(rs)
           \/ UNCHANGED vars
BY DEF Next, ThreadStep, CronStep, HttpStep

-----------------------------------------------------------------------------
LEMMA InitTypeOK == Init => TypeOK
<1> SUFFICES ASSUME Init PROVE TypeOK OBVIOUS
<1>1. disk \in Configs BY DaemonAssumption DEF Init, DaemonAssumption
<1>2. PICK i \in Instances : jobs = [r \in Repos |-> <<r, i>>] /\ cron = {<<r, i>> : r \in Repos}
      BY DEF Init
<1>3. jobs \in [Repos -> Jobs] /\ cron \in SUBSET Jobs BY <1>2
<1>4. active \in SUBSET Repos /\ wg \in Int BY DEF Init
<1>5. cronUp \in BOOLEAN /\ down \in BOOLEAN /\ late \in BOOLEAN BY DEF Init
<1>6. cfg \in Configs BY <1>1 DEF Init
<1>7. snap \in [Threads -> Configs \cup {NoConfig}] BY DEF Init
<1>8. /\ job \in [Threads -> Jobs \cup {NoJob}] /\ repo \in [Threads -> Repos \cup {NoRepo}]
      /\ todo \in [Threads -> SUBSET Repos]
      BY DEF Init
<1>9. /\ pc = [t \in Threads |-> "idle"] /\ mu = NoThread /\ snap = [t \in Threads |-> NoConfig]
      /\ main = "serving"
      BY DEF Init
<1>10. \A t \in Threads : mu # t BY <1>9, DaemonAssumption DEF DaemonAssumption
<1> QED BY <1>1, <1>3, <1>4, <1>5, <1>6, <1>7, <1>8, <1>9, <1>10
    DEF TypeOK, SyncPlaces, ReloadPlaces, Guarded

LEMMA NextTypeOK == TypeOK /\ [Next]_vars => TypeOK'
<1> SUFFICES ASSUME TypeOK, [Next]_vars PROVE TypeOK' OBVIOUS
<1> USE DaemonAssumption DEF TypeOK, DaemonAssumption, SyncPlaces, ReloadPlaces, Guarded
<1>1. ASSUME NEW t \in CronThreads, NEW j \in Jobs, Fire(t, j) PROVE TypeOK'
      BY <1>1 DEF Fire
<1>2. ASSUME NEW t \in CronThreads, LookupRepo(t) PROVE TypeOK'
      BY <1>2 DEF LookupRepo
<1>3. ASSUME NEW t \in CronThreads \cup HttpThreads, SyncStep(t) PROVE TypeOK'
      <2>1. CASE CheckDown(t) BY <2>1 DEF CheckDown
      <2>2. CASE TryStart(t) BY <2>2 DEF TryStart
      <2>3. CASE AddSync(t) BY <2>3 DEF AddSync
      <2>4. CASE FinishSync(t) BY <2>4 DEF FinishSync, FinishRepo
      <2>5. CASE DoneSync(t) BY <2>5 DEF DoneSync, CountDone
      <2> QED BY <1>3, <2>1, <2>2, <2>3, <2>4, <2>5 DEF SyncStep
<1>4. ASSUME NEW t \in HttpThreads,
             \/ AnswerMissing(t) \/ Respond(t) \/ PostSync(t)
             \/ \E r \in Repos : NextRepo(t, r) \/ PostSyncRepo(t, r)
      PROVE  TypeOK'
      BY <1>4 DEF AnswerMissing, Respond, PostSync, NextRepo, PostSyncRepo, Accepts
<1>5. ASSUME NEW t \in HttpThreads \cup {Hup}, LoadConfig(t) \/ ReloadStep(t) PROVE TypeOK'
      <2>1. CASE LoadConfig(t) BY <2>1 DEF LoadConfig
      <2>2. CASE BeginReload(t) BY <2>2 DEF BeginReload, ApplyLockFree
      <2>3. CASE RemoveJobs(t) BY <2>3 DEF RemoveJobs, DeregisterJobs
      <2>4. CASE SwapConfig(t) BY <2>4 DEF SwapConfig
      <2>5. CASE ScheduleJobs(t)
            <3>1. snap[t] \in [ver : 0 .. MaxVersion, repos : SUBSET Repos] BY <2>5 DEF ScheduleJobs
            <3>2. jobs' \in [Repos -> Jobs \cup {NoJob}] /\ cron' \in SUBSET Jobs
                  BY <2>5, <3>1 DEF ScheduleJobs, RegisterJobs
            <3> QED BY <2>5, <3>2 DEF ScheduleJobs
      <2> QED BY <1>5, <2>1, <2>2, <2>3, <2>4, <2>5 DEF ReloadStep
<1>6. CASE Signal \/ RunStep
      <2>1. /\ UNCHANGED <<disk, cfg, mu, jobs, cron, active, wg, pc, job, repo, todo, snap>>
            /\ main' \in {"serving", "stopping", "cronstop", "waiting", "drained", "expired",
                          "closing", "stopped"}
            BY <1>6 DEF Signal, RunStep, MoveMain, StopCron, CronStopped, CronTimeout,
                        WaitReturns, WaitTimeout, CloseListener, HttpStopped, HttpTimeout
      <2>2. cronUp' \in BOOLEAN /\ down' \in BOOLEAN /\ late' \in BOOLEAN
            BY <1>6 DEF Signal, RunStep, StopCron, CronStopped, CronTimeout,
                        WaitReturns, WaitTimeout, CloseListener, HttpStopped, HttpTimeout
      <2> QED BY <2>1, <2>2
<1>7. ASSUME NEW rs \in SUBSET Repos, EditConfig(rs) PROVE TypeOK'
      BY <1>7 DEF EditConfig
<1>8. CASE UNCHANGED vars BY <1>8 DEF vars
<1> QED BY <1>1, <1>2, <1>3, <1>4, <1>5, <1>6, <1>7, <1>8, NextCases

\* The variables keep their types; a thread applies a reload exactly while it
\* owns applyMu.
THEOREM TypeCorrect == Spec => []TypeOK
BY InitTypeOK, NextTypeOK, PTL DEF Spec

-----------------------------------------------------------------------------
(* The guard.                                                              *)

\* The guard holds the repositories of the guarded threads, one thread each.
GuardInv ==
    /\ active = {repo[t] : t \in {u \in Threads : InGuard(u)}}
    /\ \A t, u \in Threads : InGuard(t) /\ InGuard(u) /\ repo[t] = repo[u] => t = u

\* A step that lets nobody into the guard and nobody out.
Quiet ==
    /\ active' = active
    /\ \A t \in Threads : InGuard(t)' <=> InGuard(t)
    /\ \A t \in Threads : InGuard(t) => repo'[t] = repo[t]

\* Only TryStart and FinishSync are not quiet.
LEMMA QuietSteps ==
    ASSUME TypeOK, [Next]_vars,
           \A t \in CronThreads \cup HttpThreads : ~ TryStart(t) /\ ~ FinishSync(t)
    PROVE  Quiet
<1> USE DEF Quiet, InGuard, Guarded
<1>0. pc \in [Threads -> {"idle", "task", "missing", "pick", "loaded"}
                          \cup SyncPlaces \cup ReloadPlaces]
      /\ repo \in [Threads -> Repos \cup {NoRepo}]
      BY DEF TypeOK
<1>1. ASSUME NEW t \in CronThreads,
             (\E j \in Jobs : Fire(t, j)) \/ LookupRepo(t)
      PROVE  Quiet
      BY <1>0, <1>1 DEF Fire, LookupRepo
<1>2. ASSUME NEW t \in CronThreads \cup HttpThreads, SyncStep(t) PROVE Quiet
      BY <1>0, <1>2 DEF SyncStep, CheckDown, AddSync, DoneSync
<1>3. ASSUME NEW t \in HttpThreads,
             \/ AnswerMissing(t) \/ Respond(t) \/ PostSync(t)
             \/ \E r \in Repos : NextRepo(t, r) \/ PostSyncRepo(t, r)
      PROVE  Quiet
      BY <1>0, <1>3 DEF AnswerMissing, Respond, PostSync, NextRepo, PostSyncRepo, Accepts
<1>4. ASSUME NEW t \in HttpThreads \cup {Hup}, LoadConfig(t) \/ ReloadStep(t) PROVE Quiet
      BY <1>0, <1>4 DEF LoadConfig, ReloadStep, BeginReload, RemoveJobs, SwapConfig, ScheduleJobs
<1>5. CASE \/ Signal \/ RunStep \/ (\E rs \in SUBSET Repos : EditConfig(rs))
           \/ UNCHANGED vars
      BY <1>5 DEF Signal, RunStep, MoveMain, StopCron, CronStopped, CronTimeout, WaitReturns,
                  WaitTimeout, CloseListener, HttpStopped, HttpTimeout, EditConfig, vars
<1> QED BY <1>1, <1>2, <1>3, <1>4, <1>5, NextCases

LEMMA InitGuardInv == Init => GuardInv
BY DEF Init, GuardInv, InGuard, Guarded

LEMMA NextGuardInv == TypeOK /\ GuardInv /\ [Next]_vars => GuardInv'
<1> SUFFICES ASSUME TypeOK, GuardInv, [Next]_vars PROVE GuardInv' OBVIOUS
<1> USE DEF InGuard, Guarded
<1>0. /\ pc \in [Threads -> {"idle", "task", "missing", "pick", "loaded"}
                          \cup SyncPlaces \cup ReloadPlaces]
      /\ repo \in [Threads -> Repos \cup {NoRepo}]
      BY DEF TypeOK
<1>1. CASE Quiet BY <1>1 DEF GuardInv, Quiet
<1>2. ASSUME NEW t \in CronThreads \cup HttpThreads, TryStart(t), repo[t] \notin active
      PROVE  GuardInv'
      <2>1. /\ active' = active \cup {repo[t]}
            /\ pc' = [pc EXCEPT ![t] = "add"] /\ repo' = repo /\ pc[t] = "start"
            BY <1>2 DEF TryStart, NotStarted
      <2>2. \A u \in Threads : InGuard(u)' <=> InGuard(u) \/ u = t BY <1>0, <2>1
      <2>3. \A u \in Threads : InGuard(u) => repo[u] # repo[t] BY <1>2 DEF GuardInv
      <2> HIDE DEF InGuard
      <2> QED BY <2>1, <2>2, <2>3 DEF GuardInv
<1>3. ASSUME NEW t \in CronThreads \cup HttpThreads, TryStart(t), repo[t] \in active
      PROVE  GuardInv'
      BY <1>0, <1>3 DEF TryStart, NotStarted, GuardInv
<1>4. ASSUME NEW t \in CronThreads \cup HttpThreads, FinishSync(t) PROVE GuardInv'
      <2>1. /\ active' = active \ {repo[t]}
            /\ pc' = [pc EXCEPT ![t] = "done"] /\ repo' = repo /\ InGuard(t)
            BY <1>4 DEF FinishSync, FinishRepo
      <2>2. \A u \in Threads : InGuard(u)' <=> InGuard(u) /\ u # t BY <1>0, <2>1
      <2> HIDE DEF InGuard
      <2>3. \A u \in Threads : InGuard(u) /\ u # t => repo[u] # repo[t]
            BY <2>1 DEF GuardInv
      <2> QED BY <2>1, <2>2, <2>3 DEF GuardInv
<1> QED BY <1>1, <1>2, <1>3, <1>4, QuietSteps

-----------------------------------------------------------------------------
(* The WaitGroup.                                                          *)

Counting == {t \in Threads : pc[t] \in Counted}

WgInv == wg = Cardinality(Counting)

LEMMA NextWgInv == TypeOK /\ WgInv /\ [Next]_vars => WgInv'
<1> SUFFICES ASSUME TypeOK, WgInv, [Next]_vars PROVE WgInv' OBVIOUS
<1> USE DEF WgInv, Counting, Counted
<1>0. /\ pc \in [Threads -> {"idle", "task", "missing", "pick", "loaded"}
                          \cup SyncPlaces \cup ReloadPlaces]
      /\ IsFiniteSet(Counting)
      BY DaemonAssumption, FS_Subset DEF TypeOK, DaemonAssumption
<1>1. ASSUME NEW t \in CronThreads,
             (\E j \in Jobs : Fire(t, j)) \/ LookupRepo(t)
      PROVE  Counting' = Counting /\ wg' = wg
      BY <1>0, <1>1 DEF Fire, LookupRepo
<1>2. ASSUME NEW t \in CronThreads \cup HttpThreads, CheckDown(t) \/ TryStart(t) \/ FinishSync(t)
      PROVE  Counting' = Counting /\ wg' = wg
      BY <1>0, <1>2 DEF CheckDown, TryStart, FinishSync
<1>3. ASSUME NEW t \in CronThreads \cup HttpThreads, AddSync(t) PROVE WgInv'
      <2>1. Counting' = Counting \cup {t} /\ t \notin Counting /\ wg' = wg + 1
            BY <1>0, <1>3 DEF AddSync
      <2> HIDE DEF Counting
      <2> QED BY <1>0, <2>1, FS_AddElement
<1>4. ASSUME NEW t \in CronThreads \cup HttpThreads, DoneSync(t) PROVE WgInv'
      <2>1. Counting' = Counting \ {t} /\ t \in Counting /\ wg' = wg - 1
            BY <1>0, <1>4 DEF DoneSync, CountDone
      <2> HIDE DEF Counting
      <2> QED BY <1>0, <2>1, FS_RemoveElement
<1>5. ASSUME NEW t \in HttpThreads,
             \/ AnswerMissing(t) \/ Respond(t) \/ PostSync(t)
             \/ \E r \in Repos : NextRepo(t, r) \/ PostSyncRepo(t, r)
      PROVE  Counting' = Counting /\ wg' = wg
      BY <1>0, <1>5 DEF AnswerMissing, Respond, PostSync, NextRepo, PostSyncRepo, Accepts
<1>6. ASSUME NEW t \in HttpThreads \cup {Hup}, LoadConfig(t) \/ ReloadStep(t)
      PROVE  Counting' = Counting /\ wg' = wg
      BY <1>0, <1>6 DEF LoadConfig, ReloadStep, BeginReload, RemoveJobs, SwapConfig, ScheduleJobs
<1>7. CASE \/ Signal \/ RunStep \/ (\E rs \in SUBSET Repos : EditConfig(rs))
           \/ UNCHANGED vars
      BY <1>7 DEF Signal, RunStep, MoveMain, StopCron, CronStopped, CronTimeout, WaitReturns,
                  WaitTimeout, CloseListener, HttpStopped, HttpTimeout, EditConfig, vars
<1> QED BY <1>1, <1>2, <1>3, <1>4, <1>5, <1>6, <1>7, NextCases DEF SyncStep

\* The guard and the WaitGroup say exactly what the threads are doing.
THEOREM GuardAndGroup == Spec => []GuardAndGroupExact
<1>1. Init => WgInv
      <2> SUFFICES ASSUME Init PROVE WgInv OBVIOUS
      <2>1. Counting = {} /\ wg = 0 BY DEF Init, Counting, Counted
      <2> QED BY <2>1, FS_EmptySet DEF WgInv
<1>2. GuardInv /\ WgInv => GuardAndGroupExact
      BY DEF GuardInv, WgInv, Counting, GuardAndGroupExact
<1> QED BY <1>1, <1>2, InitGuardInv, NextGuardInv, NextWgInv, TypeCorrect, PTL DEF Spec

\* Syncs of one repository exclude each other: the daemon implements the
\* abstract lock, with TryStart as Enter and Finish as Leave.
THEOREM Refinement == Spec => ImplementsExclusion
<1> USE DEF InGuard, Guarded
<1>1. Init => Guard!Init BY DEF Init, Syncing, Guard!Init
<1>2. TypeOK /\ GuardInv /\ [Next]_vars => [Guard!Next]_Syncing
      <2> SUFFICES ASSUME TypeOK, GuardInv, [Next]_vars PROVE [Guard!Next]_Syncing OBVIOUS
      <2>0. /\ pc \in [Threads -> {"idle", "task", "missing", "pick", "loaded"}
                                \cup SyncPlaces \cup ReloadPlaces]
            /\ repo \in [Threads -> Repos \cup {NoRepo}]
            /\ \A t \in Threads : pc[t] \in SyncPlaces => repo[t] \in Repos
            BY DEF TypeOK
      <2>1. CASE Quiet BY <2>1 DEF Quiet, Syncing
      <2>2. ASSUME NEW t \in CronThreads \cup HttpThreads, TryStart(t), repo[t] \notin active
            PROVE  Guard!Next
            <3>1. /\ pc' = [pc EXCEPT ![t] = "add"] /\ repo' = repo /\ pc[t] = "start"
                  BY <2>2 DEF TryStart, NotStarted
            <3>2. repo[t] \in Repos /\ repo[t] # NoRepo
                  BY <2>0, <3>1, DaemonAssumption DEF SyncPlaces, DaemonAssumption
            <3>3. Syncing[t] = NoRepo BY <3>1 DEF Syncing
            <3>4. \A u \in Threads : Syncing[u] # repo[t]
                  BY <2>2, <3>2 DEF Syncing, GuardInv
            <3>5. Syncing' = [Syncing EXCEPT ![t] = repo[t]] BY <2>0, <3>1 DEF Syncing
            <3> QED BY <3>2, <3>3, <3>4, <3>5 DEF Guard!Next, Guard!Enter
      <2>3. ASSUME NEW t \in CronThreads \cup HttpThreads, TryStart(t), repo[t] \in active
            PROVE  UNCHANGED Syncing
            BY <2>0, <2>3 DEF TryStart, NotStarted, Syncing
      <2>4. ASSUME NEW t \in CronThreads \cup HttpThreads, FinishSync(t) PROVE Guard!Next
            <3>1. pc' = [pc EXCEPT ![t] = "done"] /\ repo' = repo /\ pc[t] = "sync"
                  BY <2>4 DEF FinishSync
            <3>2. Syncing[t] # NoRepo
                  BY <2>0, <3>1, DaemonAssumption DEF Syncing, SyncPlaces, DaemonAssumption
            <3>3. Syncing' = [Syncing EXCEPT ![t] = NoRepo] BY <2>0, <3>1 DEF Syncing
            <3> QED BY <3>2, <3>3 DEF Guard!Next, Guard!Leave
      <2> QED BY <2>1, <2>2, <2>3, <2>4, QuietSteps
<1> QED BY <1>1, <1>2, TypeCorrect, InitGuardInv, NextGuardInv, PTL
    DEF Spec, ImplementsExclusion, Guard!Spec

-----------------------------------------------------------------------------
(* The jobs.                                                               *)

\* gocron has one job per repository of the live config.
Matched ==
    /\ cron = {jobs[r] : r \in cfg.repos}
    /\ \A r \in Repos : jobs[r] = NoJob <=> r \notin cfg.repos
    /\ \A r \in cfg.repos : jobs[r][1] = r

\* How far Matched is broken while a reload is being applied.
JobInv ==
    cronUp =>
        /\ mu = NoThread => Matched
        /\ \A t \in Threads :
             /\ pc[t] = "remove" => Matched
             /\ pc[t] \in {"swap", "schedule"} => cron = {} /\ \A r \in Repos : jobs[r] = NoJob
             /\ pc[t] = "schedule" => cfg = snap[t]

LEMMA InitJobInv == Init => JobInv
<1> SUFFICES ASSUME Init PROVE JobInv OBVIOUS
<1>1. PICK i \in Instances : jobs = [r \in Repos |-> <<r, i>>] /\ cron = {<<r, i>> : r \in Repos}
      BY DEF Init
<1>2. cfg.repos = Repos /\ \A t \in Threads : pc[t] = "idle" BY DEF Init
<1>3. \A r \in Repos : jobs[r] # NoJob BY <1>1, DaemonAssumption DEF DaemonAssumption
<1> QED BY <1>1, <1>2, <1>3 DEF JobInv, Matched

\* A step that leaves the job table, gocron and the reloads alone.
LEMMA JobFrame ==
    ASSUME JobInv, UNCHANGED <<cfg, mu, jobs, cron>>, cronUp' => cronUp,
           \A t \in Threads : pc'[t] \in ReloadPlaces => pc'[t] = pc[t] /\ snap'[t] = snap[t]
    PROVE  JobInv'
BY DEF JobInv, Matched, ReloadPlaces

LEMMA NextJobInv == TypeOK /\ JobInv /\ [Next]_vars => JobInv'
<1> SUFFICES ASSUME TypeOK, JobInv, [Next]_vars PROVE JobInv' OBVIOUS
<1>0. /\ pc \in [Threads -> {"idle", "task", "missing", "pick", "loaded"}
                          \cup SyncPlaces \cup ReloadPlaces]
      /\ snap \in [Threads -> Configs \cup {NoConfig}]
      /\ jobs \in [Repos -> Jobs \cup {NoJob}] /\ cron \in SUBSET Jobs
      /\ cfg.repos \in SUBSET Repos
      /\ \A t \in Threads : pc[t] \in ReloadPlaces <=> mu = t
      /\ \A t \in Threads : pc[t] \in ReloadPlaces \cup {"loaded"} <=> snap[t] # NoConfig
      BY DEF TypeOK
<1>1. ASSUME NEW t \in CronThreads,
             (\E j \in Jobs : Fire(t, j)) \/ LookupRepo(t)
      PROVE  JobInv'
      BY <1>0, <1>1, JobFrame DEF Fire, LookupRepo, ReloadPlaces
<1>2. ASSUME NEW t \in CronThreads \cup HttpThreads, SyncStep(t) PROVE JobInv'
      BY <1>0, <1>2, JobFrame
      DEF SyncStep, CheckDown, TryStart, AddSync, FinishSync, DoneSync, ReloadPlaces
<1>3. ASSUME NEW t \in HttpThreads,
             \/ AnswerMissing(t) \/ Respond(t) \/ PostSync(t)
             \/ \E r \in Repos : NextRepo(t, r) \/ PostSyncRepo(t, r)
      PROVE  JobInv'
      BY <1>0, <1>3, JobFrame
      DEF AnswerMissing, Respond, PostSync, NextRepo, PostSyncRepo, Accepts, ReloadPlaces
<1>4. ASSUME NEW t \in HttpThreads \cup {Hup}, LoadConfig(t) PROVE JobInv'
      BY <1>0, <1>4, JobFrame DEF LoadConfig, ReloadPlaces
<1>5. ASSUME NEW t \in HttpThreads \cup {Hup}, BeginReload(t) PROVE JobInv'
      <2>1. CASE down BY <1>0, <1>5, <2>1, JobFrame DEF BeginReload, ReloadPlaces
      <2>2. CASE ~ down
            <3>1. cronUp => Matched BY <1>5 DEF BeginReload, ApplyLockFree, JobInv
            <3>2. /\ pc' = [pc EXCEPT ![t] = "remove"] /\ mu' # NoThread /\ mu = NoThread
                  /\ UNCHANGED <<cfg, jobs, cron, cronUp, snap>>
                  BY <1>5, <2>2, DaemonAssumption
                  DEF BeginReload, ApplyLockFree, DaemonAssumption
            <3>3. \A u \in Threads : pc[u] \notin ReloadPlaces
                  BY <1>0, <3>2, DaemonAssumption DEF DaemonAssumption
            <3> QED BY <1>0, <3>1, <3>2, <3>3 DEF JobInv, Matched, ReloadPlaces
      <2> QED BY <2>1, <2>2
<1>6. ASSUME NEW t \in HttpThreads \cup {Hup}, RemoveJobs(t) PROVE JobInv'
      <2>0. /\ pc[t] = "remove" /\ pc' = [pc EXCEPT ![t] = "swap"]
            /\ jobs' = [r \in Repos |-> NoJob]
            /\ cron' = IF cronUp THEN cron \ {jobs[r] : r \in Repos} ELSE cron
            /\ UNCHANGED <<cfg, mu, cronUp, snap>>
            BY <1>6 DEF RemoveJobs, DeregisterJobs
      <2>1. mu = t /\ mu # NoThread
            BY <1>0, <2>0, DaemonAssumption DEF ReloadPlaces, DaemonAssumption
      <2>2. \A u \in Threads \ {t} : pc'[u] \notin ReloadPlaces
            BY <1>0, <2>0, <2>1
      <2>3. cronUp => cron' = {}
            BY <1>0, <2>0 DEF JobInv, Matched
      <2> QED BY <1>0, <2>0, <2>1, <2>2, <2>3 DEF JobInv, ReloadPlaces
<1>7. ASSUME NEW t \in HttpThreads \cup {Hup}, SwapConfig(t) PROVE JobInv'
      <2>0. /\ pc[t] = "swap" /\ pc' = [pc EXCEPT ![t] = "schedule"]
            /\ cfg' = snap[t]
            /\ UNCHANGED <<jobs, cron, mu, cronUp, snap>>
            BY <1>7 DEF SwapConfig
      <2>1. mu = t /\ mu # NoThread
            BY <1>0, <2>0, DaemonAssumption DEF ReloadPlaces, DaemonAssumption
      <2>2. \A u \in Threads \ {t} : pc'[u] \notin ReloadPlaces
            BY <1>0, <2>0, <2>1
      <2> QED BY <1>0, <2>0, <2>1, <2>2 DEF JobInv, ReloadPlaces
<1>8. ASSUME NEW t \in HttpThreads \cup {Hup}, ScheduleJobs(t) PROVE JobInv'
      <2>0. /\ pc[t] = "schedule" /\ pc' = [pc EXCEPT ![t] = "idle"]
            /\ mu' = NoThread /\ UNCHANGED <<cfg, cronUp>>
            /\ snap' = [snap EXCEPT ![t] = NoConfig]
            BY <1>8 DEF ScheduleJobs
      <2>1. mu = t BY <1>0, <2>0 DEF ReloadPlaces
      <2>2. \A u \in Threads : pc'[u] \notin ReloadPlaces
            BY <1>0, <2>0, <2>1 DEF ReloadPlaces
      <2>3. CASE ~ cronUp BY <2>0, <2>3 DEF JobInv
      <2>4. CASE cronUp
            <3>1. cfg = snap[t] /\ cron = {} BY <2>0, <2>4 DEF JobInv
            <3>2. PICK new \in [cfg.repos -> Jobs] :
                    /\ \A r \in cfg.repos : FreshJob(r, new[r])
                    /\ jobs' = [r \in Repos |-> IF r \in cfg.repos THEN new[r] ELSE NoJob]
                    /\ cron' = cron \cup {new[r] : r \in cfg.repos}
                  BY <1>8, <2>4, <3>1 DEF ScheduleJobs, RegisterJobs
            <3>3. cron' = {jobs'[r] : r \in cfg.repos} BY <1>0, <3>1, <3>2
            <3>4. \A r \in cfg.repos : jobs'[r] = new[r] /\ new[r][1] = r /\ new[r] \in Jobs
                  BY <1>0, <3>2 DEF FreshJob
            <3>5. \A r \in Repos : jobs'[r] = NoJob <=> r \notin cfg.repos
                  BY <1>0, <3>2, <3>4, DaemonAssumption DEF DaemonAssumption
            <3> QED BY <2>0, <2>2, <3>3, <3>4, <3>5 DEF JobInv, Matched, ReloadPlaces
      <2> QED BY <2>3, <2>4
<1>9. CASE Signal \/ RunStep
      BY <1>9, JobFrame
      DEF Signal, RunStep, MoveMain, StopCron, CronStopped, CronTimeout, WaitReturns,
          WaitTimeout, CloseListener, HttpStopped, HttpTimeout
<1>10. CASE (\E rs \in SUBSET Repos : EditConfig(rs)) \/ UNCHANGED vars
      BY <1>10, JobFrame DEF EditConfig, vars
<1> QED BY <1>1, <1>2, <1>3, <1>4, <1>5, <1>6, <1>7, <1>8, <1>9, <1>10, NextCases
    DEF ReloadStep

\* Outside a reload gocron has one job for each configured repository and no
\* other, however many reloads were applied.
THEOREM JobsAreTheConfig == Spec => []JobsMatchConfig
<1>1. JobInv => JobsMatchConfig BY DEF JobInv, Matched, JobsMatchConfig
<1> QED BY <1>1, InitJobInv, NextJobInv, TypeCorrect, PTL DEF Spec

-----------------------------------------------------------------------------
(* The shutdown.                                                           *)

\* What each wait of Run has established once it is over.
StopInv ==
    /\ main \in {"cronstop", "waiting", "drained", "expired", "closing", "stopped"} => ~ cronUp
    /\ main \in {"waiting", "drained", "expired", "closing", "stopped"} /\ ~ late =>
           \A t \in CronThreads : pc[t] = "idle"
    /\ main = "stopped" /\ ~ late => \A t \in HttpThreads : pc[t] = "idle"
    /\ pc[Hup] \in {"idle", "loaded"} \cup ReloadPlaces

LEMMA InitStopInv == Init => StopInv
BY DEF Init, StopInv

LEMMA NextStopInv == TypeOK /\ StopInv /\ [Next]_vars => StopInv'
<1> SUFFICES ASSUME TypeOK, StopInv, [Next]_vars PROVE StopInv' OBVIOUS
<1>0. /\ pc \in [Threads -> {"idle", "task", "missing", "pick", "loaded"}
                          \cup SyncPlaces \cup ReloadPlaces]
      /\ CronThreads \cap HttpThreads = {} /\ Hup \notin CronThreads \cup HttpThreads
      BY DaemonAssumption DEF TypeOK, DaemonAssumption
<1>1. CASE UNCHANGED <<main, late, cronUp>>
      <2>1. CASE \A t \in Threads : pc'[t] = pc[t]
            BY <1>1, <2>1 DEF StopInv
      <2>2. CASE ThreadStep
            <3>1. main # "stopped" BY <2>2 DEF ThreadStep
            <3>2. ASSUME NEW t \in CronThreads, CronStep(t) \/ (\E j \in Jobs : Fire(t, j))
                  PROVE  StopInv'
                  BY <1>0, <1>1, <3>1, <3>2
                  DEF StopInv, CronStep, SyncStep, Fire, LookupRepo, CheckDown, TryStart, AddSync,
                      FinishSync, DoneSync
            <3>3. ASSUME NEW t \in HttpThreads \cup {Hup}, LoadConfig(t) \/ ReloadStep(t)
                  PROVE  StopInv'
                  BY <1>0, <1>1, <3>1, <3>3
                  DEF StopInv, LoadConfig, ReloadStep, BeginReload, RemoveJobs, SwapConfig,
                      ScheduleJobs, ReloadPlaces
            <3>4. ASSUME NEW t \in HttpThreads, HttpStep(t) \/ PostSync(t) \/ (\E r \in Repos : PostSyncRepo(t, r)),
                         ~ ReloadStep(t)
                  PROVE  StopInv'
                  BY <1>0, <1>1, <3>1, <3>4
                  DEF StopInv, HttpStep, SyncStep, AnswerMissing, NextRepo, Respond, PostSync,
                      PostSyncRepo, CheckDown, TryStart, AddSync, FinishSync, DoneSync
            <3> QED BY <2>2, <3>2, <3>3, <3>4 DEF ThreadStep
      <2>3. CASE (\E rs \in SUBSET Repos : EditConfig(rs)) \/ UNCHANGED vars
            BY <2>1, <2>3 DEF EditConfig, vars
      <2>4. CASE Signal \/ RunStep
            BY <2>1, <2>4
            DEF Signal, RunStep, MoveMain, StopCron, CronStopped, CronTimeout, WaitReturns,
                WaitTimeout, CloseListener, HttpStopped, HttpTimeout
      <2> QED BY <2>2, <2>3, <2>4 DEF Next
<1>2. CASE Signal \/ RunStep
      BY <1>2
      DEF StopInv, Signal, RunStep, MoveMain, StopCron, CronStopped, CronTimeout, WaitReturns,
          WaitTimeout, CloseListener, HttpStopped, HttpTimeout, HandlersDone, Busy
<1>3. CASE ~ (Signal \/ RunStep)
      BY <1>1, <1>3, NextCases
      DEF Fire, LookupRepo, SyncStep, CheckDown, TryStart, AddSync, FinishSync, DoneSync,
          AnswerMissing, Respond, PostSync, NextRepo, PostSyncRepo, LoadConfig, ReloadStep,
          BeginReload, RemoveJobs, SwapConfig, ScheduleJobs, EditConfig, vars
<1> QED BY <1>2, <1>3

\* A shutdown in which no wait timed out leaves no sync in progress.
THEOREM ShutdownIsClean == Spec => []CleanStop
<1>1. StopInv => CleanStop BY DEF StopInv, CleanStop, SyncPlaces, ReloadPlaces, Guarded
<1> QED BY <1>1, InitStopInv, NextStopInv, TypeCorrect, PTL DEF Spec
=============================================================================
