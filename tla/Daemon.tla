-------------------------------- MODULE Daemon --------------------------------
(***************************************************************************)
(* The daemon (pkg/daemon): gocron jobs, HTTP handlers and SIGHUP share    *)
(* the live config, the job table, the per-repository sync guard and the   *)
(* WaitGroup that the shutdown waits for.                                  *)
(*                                                                         *)
(* A thread is a goroutine that runs a gocron task, an HTTP handler or the *)
(* SIGHUP loop.  A step of a thread is the code between two operations on  *)
(* shared state.  Reload's loops over the jobs run under applyMu and touch *)
(* only gocron, so each loop is one step.                                  *)
(***************************************************************************)
EXTENDS Integers, FiniteSets

CONSTANTS Repos,        \* repository names
          CronThreads,  \* goroutines in which gocron runs tasks
          HttpThreads,  \* goroutines in which net/http runs handlers
          Hup,          \* the goroutine of runReloadOnSignal
          Instances,    \* tells the gocron jobs of one repository apart
          MaxVersion,   \* bound on the edits of the config on disk
          NoRepo, NoJob, NoThread, NoConfig

Threads == CronThreads \cup HttpThreads \cup {Hup}
Jobs == Repos \X Instances
Configs == [ver : 0 .. MaxVersion, repos : SUBSET Repos]

ASSUME DaemonAssumption ==
    /\ IsFiniteSet(Threads)
    /\ CronThreads \cap HttpThreads = {}
    /\ Hup \notin CronThreads \cup HttpThreads
    /\ MaxVersion \in Nat
    /\ NoRepo \notin Repos
    /\ NoJob \notin Jobs
    /\ NoThread \notin Threads
    /\ NoConfig \notin Configs

VARIABLES
    disk,      \* the config files; repos = {} stands for any that Load or Validate refuses
    cfg,       \* Scheduler.cfg, the live config
    mu,        \* Scheduler.applyMu
    jobs,      \* Scheduler.jobs
    cron,      \* the jobs registered in gocron
    cronUp,    \* gocron runs: it fires, adds and removes jobs
    active,    \* repoSyncGuard.active
    wg,        \* syncWG's counter
    down,      \* state.shuttingDown
    main,      \* where Run is
    late,      \* Run gave up waiting for something
    pc, job, repo, todo, snap  \* a thread's place and locals

threadVars == <<pc, job, repo, todo, snap>>
runVars == <<down, main, late>>
reloadVars == <<cfg, mu, jobs, cron>>
vars == <<disk, reloadVars, cronUp, active, wg, runVars, threadVars>>

\* From TryStart's success to Finish, and from Add to Done.
Guarded == {"add", "sync"}
Counted == {"sync", "done"}
SyncPlaces == {"check", "start", "done"} \cup Guarded
ReloadPlaces == {"remove", "swap", "schedule"}

InGuard(t) == pc[t] \in Guarded
Busy(t) == pc[t] # "idle"

\* Beyond the types: a guarded thread has a repository, and applyMu has an
\* owner exactly while a reload is being applied.
TypeOK ==
    /\ disk \in Configs /\ cfg \in Configs /\ snap \in [Threads -> Configs \cup {NoConfig}]
    /\ mu \in Threads \cup {NoThread}
    /\ jobs \in [Repos -> Jobs \cup {NoJob}]
    /\ cron \in SUBSET Jobs
    /\ active \in SUBSET Repos
    /\ wg \in Int
    /\ cronUp \in BOOLEAN /\ down \in BOOLEAN /\ late \in BOOLEAN
    /\ main \in {"serving", "stopping", "cronstop", "waiting", "drained", "expired",
                 "closing", "stopped"}
    /\ pc \in [Threads -> {"idle", "task", "missing", "pick", "loaded"}
                          \cup SyncPlaces \cup ReloadPlaces]
    /\ job \in [Threads -> Jobs \cup {NoJob}]
    /\ repo \in [Threads -> Repos \cup {NoRepo}]
    /\ todo \in [Threads -> SUBSET Repos]
    /\ \A t \in Threads : pc[t] \in SyncPlaces \cup {"task", "missing"} => repo[t] \in Repos
    /\ \A t \in Threads : pc[t] \in ReloadPlaces <=> mu = t
    /\ \A t \in Threads : pc[t] \in ReloadPlaces \cup {"loaded"} <=> snap[t] # NoConfig

Init ==
    /\ disk = [ver |-> 0, repos |-> Repos]
    /\ cfg = disk
    /\ mu = NoThread
    /\ \E i \in Instances :
         /\ jobs = [r \in Repos |-> <<r, i>>]
         /\ cron = {<<r, i>> : r \in Repos}
    /\ cronUp = TRUE
    /\ active = {} /\ wg = 0
    /\ down = FALSE /\ main = "serving" /\ late = FALSE
    /\ pc = [t \in Threads |-> "idle"]
    /\ job = [t \in Threads |-> NoJob]
    /\ repo = [t \in Threads |-> NoRepo]
    /\ todo = [t \in Threads |-> {}]
    /\ snap = [t \in Threads |-> NoConfig]

Goto(t, at) == pc' = [pc EXCEPT ![t] = at]

\* The guarded part of a task or handler returns to its caller.
Return(t) ==
    IF t \in HttpThreads
      THEN Goto(t, "pick") /\ UNCHANGED <<job, repo>>
      ELSE /\ Goto(t, "idle")
           /\ job' = [job EXCEPT ![t] = NoJob]
           /\ repo' = [repo EXCEPT ![t] = NoRepo]

EditConfig(rs) ==
    /\ disk.ver < MaxVersion
    /\ disk' = [ver |-> disk.ver + 1, repos |-> rs]
    /\ UNCHANGED <<reloadVars, cronUp, active, wg, runVars, threadVars>>
-----------------------------------------------------------------------------
(* A gocron task, the function literal of scheduleJob.                     *)

\* gocron starts a due job; in singleton mode a job does not overlap itself.
Fire(t, j) ==
    /\ pc[t] = "idle"
    /\ cronUp /\ j \in cron
    /\ \A u \in CronThreads : job[u] # j
    /\ Goto(t, "task")
    /\ job' = [job EXCEPT ![t] = j]
    /\ repo' = [repo EXCEPT ![t] = j[1]]
    /\ UNCHANGED <<disk, reloadVars, cronUp, active, wg, runVars, todo, snap>>

\* cur.Repos[name] in the config that is live when the task runs.
LookupRepo(t) ==
    /\ pc[t] = "task"
    /\ IF repo[t] \in cfg.repos
         THEN Goto(t, "check") /\ UNCHANGED <<job, repo>>
         ELSE Return(t)
    /\ UNCHANGED <<disk, reloadVars, cronUp, active, wg, runVars, todo, snap>>
-----------------------------------------------------------------------------
(* RunGuardedSync.                                                         *)

CheckDown(t) ==
    /\ pc[t] = "check"
    /\ IF down THEN Return(t) ELSE Goto(t, "start") /\ UNCHANGED <<job, repo>>
    /\ UNCHANGED <<disk, reloadVars, cronUp, active, wg, runVars, todo, snap>>

\* TryStart that inserts without looking.
StartAlways(r) == TRUE

\* TryStart looks the name up and inserts it under the guard's mutex.
NotStarted(r) == r \notin active

TryStart(t) ==
    /\ pc[t] = "start"
    /\ IF NotStarted(repo[t])
         THEN /\ active' = active \cup {repo[t]}
              /\ Goto(t, "add")
              /\ UNCHANGED <<job, repo>>
         ELSE Return(t) /\ UNCHANGED active
    /\ UNCHANGED <<disk, reloadVars, cronUp, wg, runVars, todo, snap>>

AddSync(t) ==
    /\ pc[t] = "add"
    /\ wg' = wg + 1
    /\ Goto(t, "sync")
    /\ UNCHANGED <<disk, reloadVars, cronUp, active, runVars, job, repo, todo, snap>>

\* guard.Finish.
FinishRepo(r) == active' = active \ {r}

\* SyncRepo returned or panicked; the deferred function runs guard.Finish.
FinishSync(t) ==
    /\ pc[t] = "sync"
    /\ FinishRepo(repo[t])
    /\ Goto(t, "done")
    /\ UNCHANGED <<disk, reloadVars, cronUp, wg, runVars, job, repo, todo, snap>>

\* The deferred function without syncWG.Done.
CountDoneNothing == UNCHANGED wg

\* syncWG.Done.
CountDone == wg' = wg - 1

DoneSync(t) ==
    /\ pc[t] = "done"
    /\ CountDone
    /\ Return(t)
    /\ UNCHANGED <<disk, reloadVars, cronUp, active, runVars, todo, snap>>
-----------------------------------------------------------------------------
(* The HTTP handlers.  httpServer.Shutdown closes the listener first.      *)

Accepts(t) == pc[t] = "idle" /\ main \notin {"closing", "stopped"}

\* POST /sync/{repo}: the handler works with the config it loads here.
PostSyncRepo(t, r) ==
    /\ Accepts(t)
    /\ IF r \in cfg.repos
         THEN Goto(t, "pick") /\ todo' = [todo EXCEPT ![t] = {r}] /\ UNCHANGED repo
         ELSE Goto(t, "missing") /\ repo' = [repo EXCEPT ![t] = r] /\ UNCHANGED todo
    /\ UNCHANGED <<disk, reloadVars, cronUp, active, wg, runVars, job, snap>>

\* An unknown repository: 409 while a sync of it runs, otherwise 404.
AnswerMissing(t) ==
    /\ pc[t] = "missing"
    /\ Goto(t, "idle")
    /\ repo' = [repo EXCEPT ![t] = NoRepo]
    /\ UNCHANGED <<disk, reloadVars, cronUp, active, wg, runVars, job, todo, snap>>

\* POST /sync.
PostSync(t) ==
    /\ Accepts(t)
    /\ Goto(t, "pick")
    /\ todo' = [todo EXCEPT ![t] = cfg.repos]
    /\ UNCHANGED <<disk, reloadVars, cronUp, active, wg, runVars, job, repo, snap>>

NextRepo(t, r) ==
    /\ pc[t] = "pick"
    /\ r \in todo[t]
    /\ todo' = [todo EXCEPT ![t] = @ \ {r}]
    /\ repo' = [repo EXCEPT ![t] = r]
    /\ Goto(t, "check")
    /\ UNCHANGED <<disk, reloadVars, cronUp, active, wg, runVars, job, snap>>

Respond(t) ==
    /\ pc[t] = "pick"
    /\ todo[t] = {}
    /\ Goto(t, "idle")
    /\ repo' = [repo EXCEPT ![t] = NoRepo]
    /\ UNCHANGED <<disk, reloadVars, cronUp, active, wg, runVars, job, todo, snap>>
-----------------------------------------------------------------------------
(* loadValidateAndReload and Reload, from POST /reload and from SIGHUP.    *)

\* config.Load and Validate, before applyMu is taken.  A config they refuse
\* changes nothing and is left out.
LoadConfig(t) ==
    /\ pc[t] = "idle"
    /\ t \in HttpThreads => Accepts(t)
    /\ disk.repos # {}
    /\ snap' = [snap EXCEPT ![t] = disk]
    /\ Goto(t, "loaded")
    /\ UNCHANGED <<disk, reloadVars, cronUp, active, wg, runVars, job, repo, todo>>

\* Reload without applyMu.
NoApplyLock == TRUE

\* applyMu.Lock() returns.
ApplyLockFree == mu = NoThread

\* applyMu.Lock() and the check of shuttingDown.
BeginReload(t) ==
    /\ pc[t] = "loaded"
    /\ ApplyLockFree
    /\ IF down
         THEN Goto(t, "idle") /\ snap' = [snap EXCEPT ![t] = NoConfig] /\ UNCHANGED mu
         ELSE Goto(t, "remove") /\ mu' = t /\ UNCHANGED snap
    /\ UNCHANGED <<disk, cfg, jobs, cron, cronUp, active, wg, runVars, job, repo, todo>>

\* The job map is reset but the jobs stay in gocron.
ForgetJobs == UNCHANGED cron

\* RemoveJob for every job of the map; it fails once gocron is shut down.
DeregisterJobs == cron' = IF cronUp THEN cron \ {jobs[r] : r \in Repos} ELSE cron

RemoveJobs(t) ==
    /\ pc[t] = "remove"
    /\ DeregisterJobs
    /\ jobs' = [r \in Repos |-> NoJob]
    /\ Goto(t, "swap")
    /\ UNCHANGED <<disk, cfg, mu, cronUp, active, wg, runVars,
                   job, repo, todo, snap>>

\* s.cfg.Store(newCfg).
SwapConfig(t) ==
    /\ pc[t] = "swap"
    /\ cfg' = snap[t]
    /\ Goto(t, "schedule")
    /\ UNCHANGED <<disk, mu, jobs, cron, cronUp, active, wg, runVars,
                   job, repo, todo, snap>>

\* A job of r that gocron neither has nor runs.
FreshJob(r, j) ==
    /\ j[1] = r /\ j \notin cron
    /\ \A u \in CronThreads : job[u] # j

\* NewJob failed for every repository of the new config.
RegisterNothing(new) == UNCHANGED cron

\* gocron takes the new jobs over.
RegisterJobs(new) == cron' = cron \cup new

\* scheduleJob for every repository of the new config, unless NewJob fails
\* because gocron is shut down; then applyMu is released and the call answered.
ScheduleJobs(t) ==
    /\ pc[t] = "schedule"
    /\ IF cronUp
         THEN \E new \in [snap[t].repos -> Jobs] :
                /\ \A r \in snap[t].repos : FreshJob(r, new[r])
                /\ jobs' = [r \in Repos |-> IF r \in snap[t].repos THEN new[r] ELSE NoJob]
                /\ RegisterJobs({new[r] : r \in snap[t].repos})
         ELSE UNCHANGED <<jobs, cron>>
    /\ mu' = NoThread
    /\ snap' = [snap EXCEPT ![t] = NoConfig]
    /\ Goto(t, "idle")
    /\ UNCHANGED <<disk, cfg, cronUp, active, wg, runVars, job, repo, todo>>
-----------------------------------------------------------------------------
(* Run, from the signal on.                                                *)

MoveMain(from, to) ==
    /\ main = from
    /\ main' = to
    /\ UNCHANGED <<disk, reloadVars, active, wg, threadVars>>

\* SIGINT or SIGTERM: shuttingDown is set before anything is stopped.
Signal == MoveMain("serving", "stopping") /\ down' = TRUE /\ UNCHANGED <<cronUp, late>>

\* scheduler.Shutdown fires no more jobs and then waits for the running
\* tasks, up to its own timeout.
StopCron == MoveMain("stopping", "cronstop") /\ cronUp' = FALSE /\ UNCHANGED <<down, late>>

CronStopped ==
    /\ MoveMain("cronstop", "waiting")
    /\ \A t \in CronThreads : ~ Busy(t)
    /\ UNCHANGED <<cronUp, down, late>>

CronTimeout == MoveMain("cronstop", "waiting") /\ late' = TRUE /\ UNCHANGED <<cronUp, down>>

\* syncWG.Wait() returned: "all in-flight syncs stopped".
WaitReturns == MoveMain("waiting", "drained") /\ wg = 0 /\ UNCHANGED <<cronUp, down, late>>

\* Waiting for syncWG without a timeout.
WaitForever == FALSE

\* shutdownCtx is done after defaultShutdownTimeout.
WaitTimeout == MoveMain("waiting", "expired") /\ late' = TRUE /\ UNCHANGED <<cronUp, down>>

CloseListener ==
    /\ MoveMain("drained", "closing") \/ MoveMain("expired", "closing")
    /\ UNCHANGED <<cronUp, down, late>>

\* httpServer.Shutdown returns nil when every handler has returned.
HandlersDone == \A t \in HttpThreads : ~ Busy(t)

\* httpServer.Close in the place of Shutdown: it does not wait for the handlers.
HttpClosed == MoveMain("closing", "stopped") /\ UNCHANGED <<cronUp, down, late>>

HttpStopped == MoveMain("closing", "stopped") /\ HandlersDone /\ UNCHANGED <<cronUp, down, late>>

HttpTimeout == MoveMain("closing", "stopped") /\ late' = TRUE /\ UNCHANGED <<cronUp, down>>

RunStep ==
    \/ StopCron \/ CronStopped \/ CronTimeout \/ WaitReturns \/ WaitTimeout
    \/ CloseListener \/ HttpStopped \/ HttpTimeout
-----------------------------------------------------------------------------
SyncStep(t) == CheckDown(t) \/ TryStart(t) \/ AddSync(t) \/ FinishSync(t) \/ DoneSync(t)

ReloadStep(t) == BeginReload(t) \/ RemoveJobs(t) \/ SwapConfig(t) \/ ScheduleJobs(t)

CronStep(t) == LookupRepo(t) \/ SyncStep(t)

HttpStep(t) ==
    \/ AnswerMissing(t) \/ (\E r \in Repos : NextRepo(t, r)) \/ Respond(t)
    \/ SyncStep(t) \/ ReloadStep(t)

\* Run's return ends the process and every thread with it.
ThreadStep ==
    /\ main # "stopped"
    /\ \/ \E t \in CronThreads : CronStep(t) \/ (\E j \in Jobs : Fire(t, j))
       \/ \E t \in HttpThreads :
            \/ HttpStep(t) \/ PostSync(t) \/ LoadConfig(t)
            \/ \E r \in Repos : PostSyncRepo(t, r)
       \/ LoadConfig(Hup) \/ ReloadStep(Hup)

Next == ThreadStep \/ Signal \/ RunStep \/ \E rs \in SUBSET Repos : EditConfig(rs)

Spec == Init /\ [][Next]_vars

\* Goroutines keep running, applyMu (a sync.Mutex) is not withheld from a
\* waiter for ever, gocron fires what is due, and Run's waits have timeouts.
\* Nothing is assumed of a sync: SyncRepo may never return.
FairSpec ==
    /\ Spec /\ WF_vars(RunStep)
    /\ \A t \in CronThreads : WF_vars(main # "stopped" /\ pc[t] # "sync" /\ CronStep(t))
    /\ \A t \in HttpThreads : WF_vars(main # "stopped" /\ pc[t] # "sync" /\ HttpStep(t))
    /\ WF_vars(main # "stopped" /\ ReloadStep(Hup))
    /\ \A t \in HttpThreads \cup {Hup} : SF_vars(main # "stopped" /\ BeginReload(t))
    /\ \A r \in Repos :
         SF_vars(main # "stopped" /\ \E t \in CronThreads, i \in Instances : Fire(t, <<r, i>>))
-----------------------------------------------------------------------------
\* The repository each thread is syncing, as the abstract lock sees it.
Syncing == [t \in Threads |-> IF InGuard(t) THEN repo[t] ELSE NoRepo]

Guard == INSTANCE Exclusion
    WITH Actors <- Threads, Resources <- Repos, Nowhere <- NoRepo, inside <- Syncing

\* No two syncs of one repository overlap, whatever fires them and however
\* often the jobs are replaced in between.
ImplementsExclusion == Guard!Spec

\* The guard holds exactly the repositories being synced, and the WaitGroup
\* counts exactly the threads between Add and Done.
GuardAndGroupExact ==
    /\ active = {repo[t] : t \in {u \in Threads : InGuard(u)}}
    /\ wg = Cardinality({t \in Threads : pc[t] \in Counted})

\* While gocron runs and no reload is under way, every configured repository
\* has exactly one job and no other job is left in gocron.
JobsMatchConfig ==
    mu = NoThread /\ cronUp =>
        /\ cron = {jobs[r] : r \in cfg.repos}
        /\ \A r \in Repos : jobs[r] = NoJob <=> r \notin cfg.repos
        /\ \A r \in cfg.repos : jobs[r][1] = r

\* When Run returns without having hit a timeout, no sync is in progress.
CleanStop == main = "stopped" /\ ~ late => \A t \in Threads : pc[t] \notin SyncPlaces

\* A shutdown completes, even if a sync never returns.
ShutdownCompletes == down ~> main = "stopped"

\* A repository that stays configured while no reload keeps starting and
\* nobody shuts the daemon down is synced again and again; only a sync of it
\* that never returns ends the polling.
ReposPolled ==
    \A r \in Repos :
        \/ []<>(r \in active)
        \/ []<>(mu # NoThread)
        \/ []<>(r \notin cfg.repos)
        \/ <>down
=============================================================================
