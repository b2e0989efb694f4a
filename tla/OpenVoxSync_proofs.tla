-------------------------- MODULE OpenVoxSync_proofs --------------------------
(***************************************************************************)
(* For any refs, directories and workers: the production path is a link or *)
(* a directory, the pools are barriers, every ref is reported once, and no *)
(* step can be repeated for ever.  If no two refs share a name and none    *)
(* has the production directory, a branch or a fetched tag that is         *)
(* reported is in place when the sync ends, each ref is visited as         *)
(* RefVisit has it, and the alias leads to the default branch.             *)
(***************************************************************************)
EXTENDS OpenVoxSync, FiniteSetTheorems, TLAPS

USE DEF dirVars, planVars, poolVars, reportVars, resultVars

\* The workers with a job, and their jobs.
Busy == {w \in Workers : at[w] \in {"has", "in"}}
Jobs == {job[w] : w \in Busy}

Settled == done \cup upToDate \cup failed

\* In one way only.
SettledOnce == done \cap upToDate = {} /\ (done \cup upToDate) \cap failed = {}

\* A worker is done with its job, which is reported unless ctx is done.
Ends(w) ==
    /\ stage \in Pools /\ w \in Busy
    /\ at' = [at EXCEPT ![w] = "free"] /\ job' = [job EXCEPT ![w] = NoRef]
    /\ UNCHANGED <<stage, planVars, pruned, err, cancelled, queue>>
    /\ \/ done' = done \cup {job[w]} /\ UNCHANGED <<upToDate, failed>>
       \/ upToDate' = upToDate \cup {job[w]} /\ job[w] \in Tags /\ UNCHANGED <<done, failed>>
       \/ failed' = failed \cup {job[w]} /\ UNCHANGED <<done, upToDate>>
       \/ cancelled /\ UNCHANGED <<done, upToDate, failed>>

LEMMA WorkerEnds ==
    ASSUME NEW w \in Workers,
           LockTimeout(w) \/ SkipJob(w) \/ Synced(w) \/ TagUpToDate(w) \/ Unsynced(w)
    PROVE  Ends(w)
<1> USE DEF Ends, Work, Busy, DropJob, ReportFailed
<1>1. CASE LockTimeout(w) BY <1>1 DEF LockTimeout
<1>2. CASE SkipJob(w) BY <1>2 DEF SkipJob
<1>3. CASE Synced(w) BY <1>3 DEF Synced
<1>4. CASE TagUpToDate(w) BY <1>4 DEF TagUpToDate
<1>5. CASE Unsynced(w) BY <1>5 DEF Unsynced
<1> QED BY <1>1, <1>2, <1>3, <1>4, <1>5

\* The steps, those of the pools by their worker.
LEMMA NextCases ==
    ASSUME [Next]_vars
    PROVE  \/ Start \/ List \/ Filter \/ SyncCache \/ GiveUp \/ BranchesCut \/ BranchesDone
           \/ EnsureAlias \/ AliasFails \/ TagsDone \/ PruneDone
           \/ \E w \in Workers : Leave(w) \/ Enter(w)
           \/ \E w \in Workers, r \in queue : TakeJob(w, r)
           \/ \E w \in Workers : LockTimeout(w) \/ SkipJob(w) \/ Synced(w) \/ TagUpToDate(w) \/ Unsynced(w)
           \/ \E w \in Workers : Touch(w) \/ Unlink(w)
           \/ \E d \in Dirs : PruneDir(d)
           \/ Crash \/ Cancel
           \/ UNCHANGED vars
BY DEF Next, StageStep, WorkerStep, VisitStep

\* Inside a visit only directories change.
LEMMA VisitChanges ==
    ASSUME TypeOK, NEW w \in Workers, Touch(w) \/ Unlink(w)
    PROVE  /\ stage \in Pools /\ at[w] = "in" /\ w \in Busy
           /\ UNCHANGED <<stage, planVars, poolVars, resultVars, cancelled>>
           /\ link' \in {link, NoLink}
           /\ link' # link => Dir(job[w]) = Production
BY DEF Touch, Unlink, Work, Busy, TypeOK

LEMMA DirTypes == \A r \in Refs : Dir(r) \in Dirs /\ r \notin {Absent, Broken, NoRef}
BY OpenVoxAssumption DEF OpenVoxAssumption, Dir

-----------------------------------------------------------------------------
(* The jobs at hand.                                                       *)

LEMMA JobsKept ==
    ASSUME UNCHANGED <<at, job>>
    PROVE  Busy' = Busy /\ Jobs' = Jobs
BY DEF Busy, Jobs

\* No worker has a job before and after a pool, and when one starts.
LEMMA NoJobs ==
    ASSUME \A w \in Workers : at[w] \in {"gone", "free"}
    PROVE  Busy = {} /\ Jobs = {}
BY DEF Busy, Jobs

LEMMA NoNewJobs ==
    ASSUME NEW rs, Fill(rs) \/ Forget
    PROVE  Busy' = {} /\ Jobs' = {}
BY DEF Fill, Forget, Busy, Jobs

\* A worker that takes none or goes on with its own.
LEMMA JobsMoved ==
    ASSUME TypeOK, NEW w \in Workers, Leave(w) \/ Enter(w)
    PROVE  Busy' = Busy /\ Jobs' = Jobs /\ job' = job
BY DEF Leave, Enter, Work, Busy, Jobs, TypeOK

LEMMA JobTaken ==
    ASSUME TypeOK, NEW w \in Workers, NEW r \in queue, TakeJob(w, r)
    PROVE  /\ w \notin Busy /\ Busy' = Busy \cup {w} /\ Jobs' = Jobs \cup {r}
           /\ job'[w] = r /\ \A v \in Busy : job'[v] = job[v]
<1>1. w \notin Busy /\ Busy' = Busy \cup {w} BY DEF TakeJob, Work, Busy, TypeOK
<1>2. job'[w] = r /\ \A v \in Busy : job'[v] = job[v] BY <1>1 DEF TakeJob, Busy, TypeOK
<1> QED BY <1>1, <1>2 DEF Jobs

LEMMA JobEnded ==
    ASSUME TypeOK, NEW w \in Workers, Ends(w), \A v, u \in Busy : job[v] = job[u] => v = u
    PROVE  /\ Busy' = Busy \ {w} /\ Jobs' = Jobs \ {job[w]} /\ job[w] \in Jobs
           /\ \A v \in Busy' : job'[v] = job[v]
<1>1. w \in Busy /\ Busy' = Busy \ {w} BY DEF Ends, Busy, TypeOK
<1>2. \A v \in Busy' : job'[v] = job[v] BY <1>1 DEF Ends, Busy, TypeOK
<1> QED BY <1>1, <1>2 DEF Jobs

\* Its job is no more at hand, whether or not others have it.
LEMMA JobsShrink ==
    ASSUME TypeOK, NEW w \in Workers, Ends(w)
    PROVE  Jobs' \subseteq Jobs
<1>1. Busy' = Busy \ {w} BY DEF Ends, Busy, TypeOK
<1>2. \A v \in Busy' : job'[v] = job[v] BY <1>1 DEF Ends, Busy, TypeOK
<1> QED BY <1>1, <1>2 DEF Jobs

-----------------------------------------------------------------------------
(* Types, and the order of the stages.                                     *)

StageInv ==
    /\ link # Production
    /\ stage \in {"idle", "list"} => wanted = {}
    /\ stage \in {"idle", "list", "filter", "cache"} => queue = {} /\ done = {} /\ upToDate = {} /\ failed = {}
    /\ PoolsAreBarriers
    /\ Jobs \subseteq Refs

LEMMA InitTypes == Init => TypeOK /\ StageInv
BY OpenVoxAssumption DEF Init, TypeOK, StageInv, PoolsAreBarriers, OpenVoxAssumption, Pools, Refs, Jobs, Busy

LEMMA NextStageInv == TypeOK /\ StageInv /\ [Next]_vars => StageInv'
<1> SUFFICES ASSUME TypeOK, StageInv, [Next]_vars PROVE StageInv' OBVIOUS
<1> USE DEF StageInv, PoolsAreBarriers, Pools
<1>a. NoLink # Production BY OpenVoxAssumption DEF OpenVoxAssumption
<1>1. CASE Start
      <2>1. Jobs' = {} BY <1>1, NoNewJobs DEF Start
      <2> QED BY <1>1, <2>1 DEF Start, Forget
<1>2. CASE List \/ Filter \/ GiveUp
      <2>1. Jobs' = Jobs BY <1>2, JobsKept DEF List, Filter, GiveUp
      <2> QED BY <1>2, <2>1 DEF List, Filter, GiveUp, Stage
<1>3. CASE SyncCache
      <2>1. Jobs' = {} BY <1>3, NoNewJobs DEF SyncCache
      <2> QED BY <1>3, <2>1 DEF SyncCache, Stage
<1>4. CASE BranchesCut \/ BranchesDone \/ TagsDone \/ PruneDone
      <2>1. UNCHANGED <<link, at, job>> /\ AllGone
            BY <1>4 DEF BranchesCut, BranchesDone, TagsDone, PruneDone, Advance
      <2>2. stage' \in {"alias", "prune", "stale", "ended"}
            BY <1>4 DEF BranchesCut, BranchesDone, TagsDone, PruneDone, Advance, Stage
      <2> QED BY <2>1, <2>2, JobsKept DEF AllGone
<1>5. CASE EnsureAlias \/ AliasFails
      <2>1. stage' = "tags" /\ Fill(wanted \cap Tags)
            BY <1>5 DEF EnsureAlias, AliasFails, Advance, Stage
      <2>2. \/ link' \in {link, NoLink}
            \/ content[Production] = Absent /\ content[Dir(head)] # Absent /\ link' = Dir(head)
            BY <1>5 DEF EnsureAlias, AliasFails, AliasWanted, NoRealDir, LinkTo, LinkCut
      <2> QED BY <2>1, <2>2, <1>a, NoNewJobs
<1>6. ASSUME NEW w \in Workers, Leave(w) \/ Enter(w) PROVE StageInv'
      BY <1>6, JobsMoved DEF Leave, Enter, Work
<1>7. ASSUME NEW w \in Workers, Touch(w) \/ Unlink(w) PROVE StageInv'
      BY <1>7, <1>a, VisitChanges, JobsKept
<1>8. ASSUME NEW w \in Workers, NEW r \in queue, TakeJob(w, r) PROVE StageInv'
      <2>1. Jobs' \subseteq Refs BY <1>8, JobTaken DEF TypeOK
      <2> QED BY <1>8, <2>1 DEF TakeJob, Work
<1>9. ASSUME NEW w \in Workers,
             LockTimeout(w) \/ SkipJob(w) \/ Synced(w) \/ TagUpToDate(w) \/ Unsynced(w)
      PROVE  StageInv'
      <2>1. Ends(w) BY <1>9, WorkerEnds
      <2>2. link' \in {link, NoLink}
            BY <1>9 DEF LockTimeout, SkipJob, Synced, TagUpToDate, Unsynced
      <2> QED BY <2>1, <2>2, <1>a, JobsShrink DEF Ends
<1>10. ASSUME NEW d \in Dirs, PruneDir(d) PROVE StageInv'
      <2>1. Jobs' = Jobs BY <1>10, JobsKept DEF PruneDir
      <2> QED BY <1>10, <1>a, <2>1 DEF PruneDir, RemovePath
<1>11. CASE Crash
      <2>1. Jobs' = {} BY <1>11, NoNewJobs DEF Crash
      <2>2. link' \in {link, NoLink} BY <1>11 DEF Crash, LinkCut
      <2> QED BY <1>11, <1>a, <2>1, <2>2 DEF Crash, Forget
<1>12. CASE Cancel BY <1>12, JobsKept DEF Cancel
<1>13. CASE UNCHANGED vars BY <1>13, JobsKept DEF vars
<1> QED BY <1>1, <1>2, <1>3, <1>4, <1>5, <1>6, <1>7, <1>8, <1>9, <1>10, <1>11, <1>12, <1>13, NextCases

LEMMA NextTypeOK == TypeOK /\ StageInv /\ [Next]_vars => TypeOK'
<1> SUFFICES ASSUME TypeOK, StageInv, [Next]_vars PROVE TypeOK' OBVIOUS
<1> DEFINE Contents == [Dirs -> Refs \cup {Absent, Broken}]
<1>a. /\ Production \in Dirs /\ NoLink \notin Dirs /\ Absent \notin Refs /\ Absent # Broken
      /\ Branches \subseteq Refs /\ Tags \subseteq Refs
      BY OpenVoxAssumption DEF OpenVoxAssumption, Refs
<1>b. ASSUME NEW w \in Workers, NEW a \in {"free", "has", "in", "gone"}
      PROVE  [at EXCEPT ![w] = a] \in [Workers -> {"free", "has", "in", "gone"}]
      BY DEF TypeOK
<1>1. CASE Start BY <1>1 DEF Start, Forget, TypeOK
<1>2. CASE List
      <2>1. wanted = {} /\ queue = {} BY <1>2 DEF List, StageInv
      <2>2. /\ UNCHANGED <<dirVars, opts, wanted, poolVars, done, upToDate, failed, pruned, cancelled>>
            /\ seen' \subseteq Refs /\ head' \in Branches \cup {NoRef} /\ stage' \in {"ended", "filter"}
            BY <1>2 DEF List
      <2>3. err' \in BOOLEAN BY <1>2 DEF List, Collision
      <2> QED BY <2>1, <2>2, <2>3 DEF TypeOK
<1>3. CASE Filter BY <1>3 DEF Filter, Stage, TypeOK, StageInv
<1>4. CASE SyncCache BY <1>4 DEF SyncCache, Stage, Fill, TypeOK, Pools
<1>5. CASE GiveUp BY <1>5 DEF GiveUp, TypeOK
<1>6. CASE BranchesCut \/ BranchesDone \/ TagsDone \/ PruneDone
      BY <1>6 DEF BranchesCut, BranchesDone, TagsDone, PruneDone, Advance, Stage, TypeOK
<1>7. CASE EnsureAlias \/ AliasFails
      <2>1. /\ UNCHANGED <<content, planVars, job, done, upToDate, failed, pruned, cancelled>> /\ err' \in BOOLEAN
            /\ stage' = "tags" /\ Fill(wanted \cap Tags)
            BY <1>7 DEF EnsureAlias, AliasFails, Advance, Stage, TypeOK
      <2>2. link' \in {link, NoLink} \/ (content[Production] = Absent /\ head # NoRef /\ link' = Dir(head))
            BY <1>7 DEF EnsureAlias, AliasFails, AliasWanted, NoRealDir, LinkTo, LinkCut
      <2>3. link' \in Dirs \cup {NoLink} BY <2>2, <1>a, DirTypes DEF TypeOK
      <2> QED BY <2>1, <2>2, <2>3 DEF Fill, TypeOK, Pools
<1>8. ASSUME NEW w \in Workers, Leave(w) \/ Enter(w) PROVE TypeOK'
      BY <1>8, <1>b DEF Leave, Enter, Work, TypeOK
<1>9. ASSUME NEW w \in Workers, NEW r \in queue, TakeJob(w, r) PROVE TypeOK'
      <2>1. r \in Refs BY DEF TypeOK
      <2> QED BY <1>9, <1>b, <2>1 DEF TakeJob, Receive, Work, TypeOK
<1>10. ASSUME NEW w \in Workers,
              LockTimeout(w) \/ SkipJob(w) \/ Synced(w) \/ TagUpToDate(w) \/ Unsynced(w)
       PROVE  TypeOK'
      <2>1. Ends(w) /\ job[w] \in Refs BY <1>10, WorkerEnds DEF Ends, StageInv, Jobs
      <2>2. UNCHANGED dirVars BY <1>10 DEF LockTimeout, SkipJob, Synced, TagUpToDate, Unsynced
      <2>3. /\ done' \subseteq Refs /\ upToDate' \subseteq Tags /\ failed' \subseteq Refs
            /\ job' \in [Workers -> Refs \cup {NoRef}]
            /\ UNCHANGED <<stage, planVars, pruned, err, cancelled, queue>>
            /\ at' = [at EXCEPT ![w] = "free"]
            BY <2>1 DEF Ends, TypeOK
      <2> QED BY <2>2, <2>3, <1>b DEF TypeOK
<1>11. ASSUME NEW w \in Workers, Touch(w) \/ Unlink(w) PROVE TypeOK'
      <2> DEFINE d == Resolve(Dir(job[w]))
      <2>1. job[w] \in Refs BY <1>11, VisitChanges DEF StageInv, Jobs
      <2>2. d \in Dirs /\ (link # NoLink => d # Production)
            BY <2>1, DirTypes DEF Resolve, StageInv, TypeOK
      <2>3. CASE Touch(w)
            <3>1. PICK c \in Refs \cup {Absent, Broken} : content' = [content EXCEPT ![d] = c]
                  BY <2>1, <2>3 DEF Touch
            <3>2. content' \in Contents BY <2>2, <3>1 DEF TypeOK
            <3>3. link # NoLink => content'[Production] = content[Production]
                  BY <2>2, <3>1, <1>a DEF TypeOK
            <3>4. UNCHANGED link BY <2>3 DEF Touch
            <3> QED BY <1>11, <3>2, <3>3, <3>4, VisitChanges DEF TypeOK
      <2>4. CASE Unlink(w) BY <1>11, <2>4, VisitChanges DEF Unlink, TypeOK
      <2> QED BY <1>11, <2>3, <2>4
<1>12. ASSUME NEW d \in Dirs, PruneDir(d) PROVE TypeOK'
      <2>1. /\ content' \in Contents /\ link' \in {link, NoLink}
            /\ link' # NoLink => content'[Production] \in {content[Production], Absent}
            BY <1>12, <1>a DEF PruneDir, RemovePath, TypeOK
      <2> QED BY <1>12, <2>1, <1>a DEF PruneDir, TypeOK
<1>13. CASE Crash
      <2>1. UNCHANGED content /\ link' \in {link, NoLink} BY <1>13 DEF Crash, LinkCut
      <2> QED BY <1>13, <2>1 DEF Crash, Forget, TypeOK
<1>14. CASE Cancel BY <1>14 DEF Cancel, TypeOK
<1>15. CASE UNCHANGED vars BY <1>15 DEF vars, TypeOK
<1> QED BY <1>1, <1>2, <1>3, <1>4, <1>5, <1>6, <1>7, <1>8, <1>9, <1>10, <1>11, <1>12, <1>13, <1>14, <1>15, NextCases

\* The variables keep their types, and the production path is a symlink or a
\* directory.
THEOREM TypeCorrect == Spec => []TypeOK
BY InitTypes, NextTypeOK, NextStageInv, PTL DEF Spec

\* Between the pools no worker is in any directory.
THEOREM Barriers == Spec => []PoolsAreBarriers
<1>1. StageInv => PoolsAreBarriers BY DEF StageInv
<1> QED BY <1>1, InitTypes, NextTypeOK, NextStageInv, PTL DEF Spec

-----------------------------------------------------------------------------
(* What is reported.                                                       *)

PoolRefs == IF stage = "branches" THEN wanted \cap Branches ELSE wanted \cap Tags

\* A ref is in the queue, at a worker or reported, and at one of them only.
JobInv ==
    /\ Jobs \cap (queue \cup Settled) = {} /\ queue \cap Settled = {} /\ SettledOnce
    /\ \A v, w \in Busy : job[v] = job[w] => v = w
    /\ Jobs \subseteq wanted /\ Settled \subseteq wanted
    /\ stage \in Pools => queue \cup Jobs \subseteq PoolRefs
    /\ stage \in {"branches", "alias"} => Settled \subseteq Branches

\* A step that moves no job and reports nothing.
LEMMA JobInvKept ==
    ASSUME JobInv, UNCHANGED <<queue, at, job, wanted, done, upToDate, failed>>,
           stage' = stage \/ stage' \notin {"branches", "tags", "alias"}
    PROVE  JobInv'
BY JobsKept DEF JobInv, Settled, SettledOnce, PoolRefs, Pools, Busy

LEMMA NextJobInv == TypeOK /\ StageInv /\ JobInv /\ [Next]_vars => JobInv'
<1> SUFFICES ASSUME TypeOK, StageInv, JobInv, [Next]_vars PROVE JobInv' OBVIOUS
<1> USE DEF SettledOnce
<1>a. ASSUME Busy' = {}, Jobs' = {}, queue' \cap Settled' = {}, SettledOnce',
             Settled' \subseteq wanted', stage' \in Pools => queue' \subseteq PoolRefs',
             stage' \in {"branches", "alias"} => Settled' \subseteq Branches
      PROVE  JobInv'
      BY <1>a DEF JobInv
<1>b. Settled' = done' \cup upToDate' \cup failed' BY DEF Settled
<1>1. CASE Start \/ Crash
      <2>1. Forget BY <1>1 DEF Start, Crash
      <2> QED BY <1>a, <2>1, NoNewJobs DEF Forget, Settled
<1>2. CASE List \/ GiveUp
      <2>1. UNCHANGED <<queue, at, job, wanted, done, upToDate, failed>> /\ stage' \in {"ended", "filter"}
            BY <1>2 DEF List, GiveUp
      <2> QED BY <2>1, JobInvKept
<1>3. CASE Filter
      <2>1. UNCHANGED <<queue, at, job, done, upToDate, failed>> /\ stage = "filter" /\ stage' = "cache"
            BY <1>3 DEF Filter, Stage
      <2>2. queue = {} /\ done = {} /\ upToDate = {} /\ failed = {} /\ Busy = {} /\ Jobs = {}
            BY <2>1, NoJobs DEF StageInv, PoolsAreBarriers, Pools
      <2> QED BY <1>a, <2>1, <2>2, JobsKept DEF Settled, Pools
<1>4. CASE SyncCache
      <2>1. /\ UNCHANGED <<wanted, done, upToDate, failed>> /\ stage' = "branches" /\ queue' = wanted \cap Branches
            /\ done = {} /\ upToDate = {} /\ failed = {}
            BY <1>4 DEF SyncCache, Stage, Fill, StageInv
      <2>2. Busy' = {} /\ Jobs' = {} BY <1>4, NoNewJobs DEF SyncCache
      <2> QED BY <1>a, <2>1, <2>2 DEF Settled, PoolRefs
<1>5. CASE BranchesCut \/ BranchesDone \/ TagsDone \/ PruneDone
      <2>1. /\ UNCHANGED <<queue, at, job, wanted, done, upToDate, failed>> /\ AllGone
            /\ stage' \in {"alias", "prune", "stale", "ended"}
            /\ stage' = "alias" => stage = "branches"
            BY <1>5 DEF BranchesCut, BranchesDone, TagsDone, PruneDone, Advance, Stage
      <2> QED BY <2>1, JobsKept DEF JobInv, Settled, Pools, Busy
<1>6. CASE EnsureAlias \/ AliasFails
      <2>1. /\ UNCHANGED <<wanted, done, upToDate, failed>> /\ stage = "alias" /\ stage' = "tags"
            /\ queue' = wanted \cap Tags /\ Fill(wanted \cap Tags)
            BY <1>6 DEF EnsureAlias, AliasFails, Advance, Stage, Fill
      <2>2. Settled \subseteq Branches /\ SettledOnce /\ Settled \subseteq wanted
            BY <2>1 DEF JobInv
      <2>3. Branches \cap Tags = {} BY OpenVoxAssumption DEF OpenVoxAssumption
      <2> QED BY <1>a, <2>1, <2>2, <2>3, NoNewJobs DEF Settled, PoolRefs
<1>7. ASSUME NEW w \in Workers, Leave(w) \/ Enter(w) PROVE JobInv'
      <2>1. UNCHANGED <<stage, queue, wanted, done, upToDate, failed>> BY <1>7 DEF Leave, Enter, Work
      <2> QED BY <1>7, <2>1, JobsMoved DEF JobInv, Settled, PoolRefs
<1>8. ASSUME NEW w \in Workers, NEW r \in queue, TakeJob(w, r) PROVE JobInv'
      <2>1. /\ UNCHANGED <<stage, wanted, done, upToDate, failed>> /\ queue' = queue \ {r}
            /\ Busy' = Busy \cup {w} /\ Jobs' = Jobs \cup {r}
            /\ job'[w] = r /\ \A v \in Busy : job'[v] = job[v]
            BY <1>8, JobTaken DEF TakeJob, Receive, Work
      <2>2. \A v \in Busy : job[v] # r BY DEF JobInv, Jobs
      <2>3. \A v, u \in Busy' : job'[v] = job'[u] => v = u BY <2>1, <2>2 DEF JobInv
      <2>4. r \in wanted /\ r \notin Jobs /\ r \notin Settled BY DEF TypeOK, JobInv
      <2> QED BY <2>1, <2>3, <2>4 DEF JobInv, Settled, PoolRefs
<1>9. ASSUME NEW w \in Workers,
             LockTimeout(w) \/ SkipJob(w) \/ Synced(w) \/ TagUpToDate(w) \/ Unsynced(w)
      PROVE  JobInv'
      <2>1. Ends(w) BY <1>9, WorkerEnds
      <2>2. /\ Busy' = Busy \ {w} /\ Jobs' = Jobs \ {job[w]} /\ job[w] \in Jobs
            /\ \A v \in Busy' : job'[v] = job[v]
            BY <2>1, JobEnded DEF JobInv
      <2>3. \A v, u \in Busy' : job'[v] = job'[u] => v = u BY <2>2 DEF JobInv
      <2>4. /\ UNCHANGED <<stage, queue, wanted>> /\ stage \in Pools
            /\ Settled' \subseteq Settled \cup {job[w]}
            BY <2>1 DEF Ends, Settled
      <2>5. job[w] \in wanted /\ job[w] \notin Settled /\ job[w] \notin queue
            /\ (stage = "branches" => job[w] \in Branches)
            BY <2>2, <2>4 DEF JobInv, PoolRefs
      <2>6. SettledOnce' BY <2>1, <2>5 DEF Ends, JobInv, Settled, SettledOnce
      <2> QED BY <2>2, <2>3, <2>4, <2>5, <2>6 DEF JobInv, Settled, PoolRefs, Pools
<1>10. ASSUME NEW d \in Dirs, PruneDir(d) PROVE JobInv' BY <1>10, JobInvKept DEF PruneDir
<1>11. ASSUME NEW w \in Workers, Touch(w) \/ Unlink(w) PROVE JobInv' BY <1>11, JobInvKept, VisitChanges
<1>12. CASE Cancel BY <1>12, JobInvKept DEF Cancel
<1>13. CASE UNCHANGED vars BY <1>13, JobInvKept DEF vars
<1> QED BY <1>1, <1>2, <1>3, <1>4, <1>5, <1>6, <1>7, <1>8, <1>9, <1>10, <1>11, <1>12, <1>13, NextCases

\* Unless ctx is done a worker leaves only an empty queue, and no ref is lost.
ReportInv ==
    ~ cancelled =>
        /\ stage \in Pools /\ (\E w \in Workers : at[w] = "gone") => queue = {}
        /\ stage = "branches" => Settled \cup queue \cup Jobs = wanted \cap Branches
        /\ stage = "alias" => Settled = wanted \cap Branches
        /\ stage = "tags" => Settled \cup queue \cup Jobs = wanted
        /\ stage \in {"prune", "stale"} \/ (stage = "ended" /\ ~ err) => Settled = wanted

LEMMA NextReportInv == TypeOK /\ StageInv /\ JobInv /\ ReportInv /\ [Next]_vars => ReportInv'
<1> SUFFICES ASSUME TypeOK, StageInv, JobInv, ReportInv, [Next]_vars, ~ cancelled' PROVE ReportInv'
    BY DEF ReportInv
<1>a. Settled' = done' \cup upToDate' \cup failed' BY DEF Settled
<1>b. Workers # {} /\ wanted \subseteq Refs /\ Refs = Branches \cup Tags
      BY OpenVoxAssumption DEF OpenVoxAssumption, TypeOK, Refs
<1>1. CASE Start BY <1>1 DEF Start, ReportInv, Pools
<1>2. CASE Crash BY <1>2 DEF Crash, ReportInv, Pools
<1>3. CASE List \/ Filter \/ GiveUp
      <2>1. stage' \in {"filter", "cache"} \/ (stage' = "ended" /\ err')
            BY <1>3 DEF List, Filter, GiveUp, Stage
      <2> QED BY <2>1 DEF ReportInv, Pools
<1>4. CASE SyncCache
      <2>1. /\ UNCHANGED <<wanted, done, upToDate, failed>> /\ stage' = "branches" /\ queue' = wanted \cap Branches
            /\ done = {} /\ upToDate = {} /\ failed = {}
            /\ (\E w \in Workers : at'[w] = "gone") => queue' = {}
            BY <1>4 DEF SyncCache, Stage, Fill, StageInv
      <2>2. Jobs' = {} BY <1>4, NoNewJobs DEF SyncCache
      <2> QED BY <1>a, <2>1, <2>2 DEF ReportInv
<1>5. CASE BranchesCut \/ BranchesDone \/ TagsDone \/ PruneDone
      <2>1. /\ UNCHANGED <<queue, at, job, wanted, done, upToDate, failed, err, cancelled>> /\ AllGone
            /\ ~ BranchesCut
            /\ \/ stage = "branches" /\ stage' = "alias"
               \/ stage = "tags" /\ stage' = "prune"
               \/ stage = "prune" /\ stage' = "stale"
               \/ stage = "stale" /\ stage' = "ended"
            BY <1>5 DEF BranchesCut, BranchesDone, TagsDone, PruneDone, Advance, Stage
      <2>2. Jobs = {} BY <2>1, NoJobs DEF AllGone
      <2>3. stage \in Pools => queue = {} BY <1>b, <2>1 DEF AllGone, ReportInv
      <2> QED BY <2>1, <2>2, <2>3, <1>a DEF ReportInv, Settled, Pools
<1>6. CASE EnsureAlias \/ AliasFails
      <2>1. /\ UNCHANGED <<wanted, done, upToDate, failed, cancelled>> /\ stage = "alias" /\ stage' = "tags"
            /\ queue' = wanted \cap Tags /\ Fill(wanted \cap Tags)
            /\ (\E w \in Workers : at'[w] = "gone") => queue' = {}
            BY <1>6 DEF EnsureAlias, AliasFails, Advance, Stage, Fill
      <2>2. Settled = wanted \cap Branches BY <2>1 DEF ReportInv
      <2>3. Jobs' = {} BY <2>1, NoNewJobs
      <2> QED BY <1>a, <1>b, <2>1, <2>2, <2>3 DEF ReportInv, Settled
<1>7. ASSUME NEW w \in Workers, Leave(w) \/ Enter(w) PROVE ReportInv'
      <2>1. UNCHANGED <<stage, queue, wanted, done, upToDate, failed, err, cancelled>> /\ stage \in Pools
            BY <1>7 DEF Leave, Enter, Work
      <2>2. Jobs' = Jobs BY <1>7, JobsMoved
      <2>3. (\E v \in Workers : at'[v] = "gone") => queue = {}
            <3>1. CASE Leave(w) BY <2>1, <3>1 DEF Leave, Drained
            <3>2. CASE Enter(w)
                  <4>1. (\E v \in Workers : at'[v] = "gone") => \E v \in Workers : at[v] = "gone"
                        BY <3>2 DEF Enter, Work, TypeOK
                  <4> QED BY <2>1, <4>1 DEF ReportInv
            <3> QED BY <1>7, <3>1, <3>2
      <2> QED BY <1>a, <2>1, <2>2, <2>3 DEF ReportInv, Settled, Pools
<1>8. ASSUME NEW w \in Workers, NEW r \in queue, TakeJob(w, r) PROVE ReportInv'
      <2>1. /\ UNCHANGED <<stage, wanted, done, upToDate, failed, cancelled>> /\ queue' = queue \ {r}
            /\ Jobs' = Jobs \cup {r} /\ stage \in Pools
            BY <1>8, JobTaken DEF TakeJob, Receive, Work
      <2>2. (\E v \in Workers : at'[v] = "gone") => \E v \in Workers : at[v] = "gone"
            BY <1>8 DEF TakeJob, Work, TypeOK
      <2> QED BY <1>a, <2>1, <2>2 DEF ReportInv, Settled, Pools
<1>9. ASSUME NEW w \in Workers,
             LockTimeout(w) \/ SkipJob(w) \/ Synced(w) \/ TagUpToDate(w) \/ Unsynced(w)
      PROVE  ReportInv'
      <2>1. Ends(w) BY <1>9, WorkerEnds
      <2>2. Jobs' = Jobs \ {job[w]} /\ job[w] \in Jobs BY <2>1, JobEnded DEF JobInv
      <2>3. UNCHANGED <<stage, queue, wanted, cancelled>> /\ stage \in Pools BY <2>1 DEF Ends
      <2>4. Settled' = Settled \cup {job[w]} BY <2>1, <2>3 DEF Ends, Settled
      <2>5. (\E v \in Workers : at'[v] = "gone") => \E v \in Workers : at[v] = "gone"
            BY <2>1 DEF Ends, TypeOK
      <2> QED BY <2>2, <2>3, <2>4, <2>5 DEF ReportInv, Pools
<1>10. ASSUME NEW d \in Dirs, PruneDir(d) PROVE ReportInv'
      <2>1. UNCHANGED <<stage, wanted, queue, at, job, done, upToDate, failed, err, cancelled>> BY <1>10 DEF PruneDir
      <2> QED BY <1>a, <2>1, JobsKept DEF ReportInv, Settled
<1>11. CASE Cancel BY <1>11 DEF Cancel
<1>12. ASSUME NEW w \in Workers, Touch(w) \/ Unlink(w) PROVE ReportInv'
      BY <1>12, <1>a, VisitChanges, JobsKept DEF ReportInv, Settled
<1>13. CASE UNCHANGED vars BY <1>13, <1>a, JobsKept DEF vars, ReportInv, Settled
<1> QED BY <1>1, <1>2, <1>3, <1>4, <1>5, <1>6, <1>7, <1>8, <1>9, <1>10, <1>11, <1>12, <1>13, NextCases

LEMMA InitReports == Init => JobInv /\ ReportInv
BY DEF Init, JobInv, ReportInv, Pools, Jobs, Busy, Settled, SettledOnce

LEMMA StepsCorrect == Spec => [](TypeOK /\ StageInv /\ JobInv /\ ReportInv)
BY InitTypes, InitReports, NextTypeOK, NextStageInv, NextJobInv, NextReportInv, PTL DEF Spec

\* Every ref is reported once by a sync that ends by itself, however its
\* workers take turns.
THEOREM RefsReported == Spec => []EveryRefReported
<1>1. JobInv /\ ReportInv => EveryRefReported
      BY DEF JobInv, ReportInv, Settled, SettledOnce, EveryRefReported
<1> QED BY <1>1, StepsCorrect, PTL

-----------------------------------------------------------------------------
(* What is reported is in place, if every ref has a directory of its own.  *)

\* No two refs have one name, and none has the directory of the alias: then
\* detectCollisions is all that is needed.
OwnDirs == \A r, q \in Refs : (NameOf[r] = NameOf[q] => r = q) /\ Dir(r) # Production

DirInv ==
    /\ content[Production] = Absent
    /\ stage \notin {"idle", "list", "ended"} => ~ Collision(seen)
    /\ \A t \in upToDate : content[Dir(t)] # Absent
    /\ \A r \in done : \/ content[Dir(r)] = r
                       \/ Dir(r) \in pruned /\ r \in Branches \ {head} /\ "stale" \in opts

LEMMA OwnDir ==
    ASSUME OwnDirs, TypeOK, DirInv, stage \notin {"idle", "list", "ended"},
           NEW r \in seen, NEW q \in seen, Dir(r) = Dir(q)
    PROVE  r = q
<1>1. r \in Refs /\ q \in Refs BY DEF TypeOK
<1>2. NameOf[r] = NameOf[q] BY DEF DirInv, Collision
<1> QED BY <1>1, <1>2 DEF OwnDirs

LEMMA NoResolving == ASSUME OwnDirs PROVE \A r \in Refs : Resolve(Dir(r)) = Dir(r)
BY DEF OwnDirs, Resolve

\* A step that changes no directory and reports nothing.
LEMMA DirInvKept ==
    ASSUME DirInv, UNCHANGED <<content, opts, seen, head, done, upToDate, pruned>>,
           stage' \in {"idle", "ended"} \/ stage \notin {"idle", "list", "ended"} \/ stage' = stage
    PROVE  DirInv'
BY DEF DirInv, Collision

\* Of the refs reported pruning hits only branches, for their age.
LEMMA PrunedForAge ==
    ASSUME OwnDirs, TypeOK, JobInv, DirInv, NEW d \in Dirs, PruneDir(d),
           NEW r \in done \cup upToDate, Dir(r) = d
    PROVE  r \in Branches \ {head} /\ "stale" \in opts
<1>1. r \in seen BY DEF TypeOK, JobInv, Settled
<1>2. CASE stage = "prune"
      <2>1. d \notin Active BY <1>2 DEF PruneDir, Obsolete
      <2> QED BY <1>1, <2>1 DEF Active
<1>3. CASE stage = "stale"
      <2>1. "stale" \in opts /\ d \in MaybeStale BY <1>3 DEF PruneDir
      <2>2. PICK b \in (seen \cap Branches) \ {head} : d = Dir(b) BY <2>1 DEF MaybeStale
      <2>3. b = r BY <1>1, <1>3, <2>2, OwnDir
      <2> QED BY <2>1, <2>2, <2>3
<1> QED BY <1>2, <1>3 DEF PruneDir

LEMMA NextDirInv ==
    ASSUME OwnDirs
    PROVE  TypeOK /\ StageInv /\ JobInv /\ DirInv /\ [Next]_vars => DirInv'
<1> SUFFICES ASSUME TypeOK, StageInv, JobInv, DirInv, [Next]_vars PROVE DirInv' OBVIOUS
<1>a. done \subseteq seen /\ upToDate \subseteq seen /\ seen \subseteq Refs BY DEF TypeOK, JobInv, Settled
<1>b. Production \in Dirs BY OpenVoxAssumption DEF OpenVoxAssumption
<1>1. CASE Start BY <1>1 DEF Start, Forget, DirInv
<1>2. CASE List
      <2>1. UNCHANGED <<content, done, upToDate>> /\ done = {} /\ upToDate = {} BY <1>2 DEF List, StageInv
      <2>2. stage' # "ended" => ~ Collision(seen') BY <1>2 DEF List
      <2>3. Collision(seen)' = Collision(seen') BY DEF Collision
      <2> QED BY <2>1, <2>2, <2>3 DEF DirInv
<1>3. CASE Filter \/ GiveUp \/ SyncCache
      <2>1. UNCHANGED <<content, opts, seen, head, done, upToDate, pruned>>
            BY <1>3 DEF Filter, GiveUp, SyncCache
      <2>2. stage' = "ended" \/ stage \in {"filter", "cache"} BY <1>3 DEF Filter, GiveUp, SyncCache, Stage
      <2> QED BY <2>1, <2>2, DirInvKept
<1>4. CASE BranchesCut \/ BranchesDone \/ TagsDone \/ PruneDone \/ EnsureAlias \/ AliasFails
      <2>1. UNCHANGED <<content, opts, seen, head, done, upToDate, pruned>>
            BY <1>4 DEF BranchesCut, BranchesDone, TagsDone, PruneDone, EnsureAlias, AliasFails, Advance
      <2>2. stage \in {"branches", "tags", "alias", "prune", "stale"}
            BY <1>4 DEF BranchesCut, BranchesDone, TagsDone, PruneDone, EnsureAlias, AliasFails, Advance, Stage
      <2> QED BY <2>1, <2>2, DirInvKept
<1>5. ASSUME NEW w \in Workers, Leave(w) \/ Enter(w) PROVE DirInv'
      BY <1>5, DirInvKept DEF Leave, Enter, Work
<1>6. ASSUME NEW w \in Workers, NEW r \in queue, TakeJob(w, r) PROVE DirInv'
      BY <1>6, DirInvKept DEF TakeJob, Work
<1>7. ASSUME NEW w \in Workers,
             LockTimeout(w) \/ SkipJob(w) \/ Synced(w) \/ TagUpToDate(w) \/ Unsynced(w)
      PROVE  DirInv'
      <2>1. Ends(w) BY <1>7, WorkerEnds
      <2>2. PICK j \in Jobs : j = job[w] BY <2>1 DEF Ends, Jobs
      <2>3. j \in seen /\ j \in Refs /\ Dir(j) \in Dirs /\ Dir(j) # Production
            /\ Resolve(Dir(j)) = Dir(j)
            BY <2>2, DirTypes, NoResolving DEF JobInv, Settled, TypeOK, OwnDirs
      <2>4. /\ UNCHANGED <<stage, opts, seen, head, pruned>> /\ stage \in {"branches", "tags"}
            BY <2>1 DEF Ends, Pools
      <2>5. /\ UNCHANGED content
            /\ done' = done \/ (done' = done \cup {j} /\ content[Dir(j)] = j)
            /\ upToDate' = upToDate \/ (upToDate' = upToDate \cup {j} /\ content[Dir(j)] # Absent)
            BY <1>7, <2>2, <2>3 DEF LockTimeout, SkipJob, Synced, TagUpToDate, Unsynced, InPlace
      <2> QED BY <1>a, <2>4, <2>5 DEF DirInv, Collision
<1>8. ASSUME NEW w \in Workers, Touch(w) \/ Unlink(w) PROVE DirInv'
      <2>1. PICK j \in Jobs : j = job[w] BY <1>8, VisitChanges DEF Jobs
      <2>2. j \in seen /\ j \in Refs /\ j \notin done \cup upToDate /\ Dir(j) # Production /\ Resolve(Dir(j)) = Dir(j)
            BY <2>1, NoResolving DEF JobInv, Settled, TypeOK, OwnDirs
      <2>3. UNCHANGED <<stage, opts, seen, head, done, upToDate, pruned>> /\ stage \in {"branches", "tags"}
            BY <1>8, VisitChanges DEF Pools
      <2>4. \A r \in done \cup upToDate : Dir(r) # Dir(j) BY <1>a, <2>2, <2>3, OwnDir
      <2>5. \A d \in Dirs \ {Dir(j)} : content'[d] = content[d]
            BY <1>8, <2>1, <2>2 DEF Touch, Unlink, TypeOK
      <2> QED BY <1>a, <1>b, <2>2, <2>3, <2>4, <2>5, DirTypes DEF DirInv, Collision
<1>9. ASSUME NEW d \in Dirs, PruneDir(d) PROVE DirInv'
      <2>1. /\ UNCHANGED <<stage, opts, seen, head, done, upToDate>> /\ stage \in {"prune", "stale"}
            /\ pruned' = pruned \cup {d}
            BY <1>9 DEF PruneDir
      <2>2. \A a \in Dirs \ {d} : content'[a] = content[a] BY <1>9 DEF PruneDir, RemovePath, TypeOK
      <2>3. content'[Production] = Absent BY <1>9, <1>b DEF PruneDir, RemovePath, TypeOK, DirInv
      <2>4. \A r \in done \cup upToDate : Dir(r) = d => r \in Branches \ {head} /\ "stale" \in opts
            BY <1>9, PrunedForAge
      <2>5. \A t \in upToDate : Dir(t) # d
            BY <2>4, OpenVoxAssumption DEF OpenVoxAssumption, TypeOK
      <2> QED BY <1>a, <2>1, <2>2, <2>3, <2>4, <2>5, DirTypes DEF DirInv, Collision
<1>10. CASE Crash BY <1>10 DEF Crash, Forget, DirInv
<1>11. CASE Cancel BY <1>11, DirInvKept DEF Cancel
<1>12. CASE UNCHANGED vars BY <1>12, DirInvKept DEF vars
<1> QED BY <1>1, <1>2, <1>3, <1>4, <1>5, <1>6, <1>7, <1>8, <1>9, <1>10, <1>11, <1>12, NextCases

LEMMA DirsCorrect ==
    ASSUME OwnDirs PROVE Spec => [](TypeOK /\ StageInv /\ JobInv /\ ReportInv /\ DirInv)
<1>1. Init => DirInv BY OpenVoxAssumption DEF Init, DirInv, OpenVoxAssumption
<1>2. TypeOK /\ StageInv /\ JobInv /\ DirInv /\ [Next]_vars => DirInv' BY NextDirInv
<1> QED BY <1>1, <1>2, StepsCorrect, PTL DEF Spec

\* A branch reported as synced or up to date and a tag reported as fetched are
\* in place when the sync ends, and an up-to-date tag has its directory, if no
\* two refs share a name and none has the directory of the alias.
THEOREM ReportedPlaces == ASSUME OwnDirs PROVE Spec => []ReportedInPlace
<1>1. TypeOK /\ JobInv /\ DirInv => ReportedInPlace
      BY NoResolving DEF TypeOK, JobInv, DirInv, Settled, ReportedInPlace
<1> QED BY <1>1, DirsCorrect, PTL

-----------------------------------------------------------------------------
(* The alias.                                                              *)

AliasInv ==
    stage \in {"tags", "prune", "stale", "ended"} /\ Alias /\ ~ err /\ ~ cancelled /\ head \in done =>
        link = Dir(head)

LEMMA NextAliasInv ==
    ASSUME OwnDirs
    PROVE  TypeOK /\ StageInv /\ JobInv /\ ReportInv /\ DirInv /\ AliasInv /\ [Next]_vars => AliasInv'
<1> SUFFICES ASSUME TypeOK, StageInv, JobInv, ReportInv, DirInv, AliasInv, [Next]_vars PROVE AliasInv'
    OBVIOUS
<1>a. Branches \cap Tags = {} /\ Branches \subseteq Refs /\ NoRef \notin Refs /\ Absent \notin Refs
      BY OpenVoxAssumption DEF OpenVoxAssumption, Refs
<1>b. ASSUME UNCHANGED <<link, head, done, err, cancelled>>,
             stage' \notin {"tags", "prune", "stale", "ended"}
             \/ stage \in {"tags", "prune", "stale", "ended"} \/ cancelled
      PROVE  AliasInv'
      BY <1>b DEF AliasInv
<1>1. CASE Start \/ Crash
      <2>1. stage' \in {"list", "idle"} BY <1>1 DEF Start, Crash
      <2> QED BY <2>1 DEF AliasInv
<1>2. CASE List \/ GiveUp \/ Filter \/ SyncCache
      <2>1. stage' \in {"filter", "cache", "branches"} \/ (stage' = "ended" /\ err')
            BY <1>2 DEF List, GiveUp, Filter, SyncCache, Stage
      <2> QED BY <2>1 DEF AliasInv
<1>3. CASE BranchesCut \/ BranchesDone \/ TagsDone \/ PruneDone
      <2>1. /\ UNCHANGED <<link, head, done, err, cancelled>>
            /\ stage' = "alias" \/ stage \in {"tags", "prune", "stale"} \/ cancelled
            BY <1>3 DEF BranchesCut, BranchesDone, TagsDone, PruneDone, Advance, Stage
      <2> QED BY <2>1, <1>b
<1>4. CASE AliasFails BY <1>4 DEF AliasFails, AliasInv
<1>5. CASE EnsureAlias
      <2>1. UNCHANGED <<head, done, cancelled>> /\ stage = "alias" BY <1>5 DEF EnsureAlias, Advance, Stage
      <2>2. SUFFICES ASSUME Alias, head \in done, ~ cancelled PROVE link' = Dir(head)
            BY <2>1 DEF AliasInv
      <2>3. head \in Branches /\ head \in Refs /\ head # NoRef
            BY <2>2, <1>a DEF TypeOK
      <2>4. content[Dir(head)] = head BY <2>2 DEF DirInv
      <2>5. AliasWanted /\ NoRealDir
            BY <1>a, <2>2, <2>3, <2>4 DEF AliasWanted, NoRealDir, DirInv, OwnDirs
      <2> QED BY <1>5, <2>5 DEF EnsureAlias, LinkTo
<1>6. ASSUME NEW w \in Workers, Leave(w) \/ Enter(w) PROVE AliasInv'
      BY <1>6, <1>b DEF Leave, Enter, Work
<1>7. ASSUME NEW w \in Workers, NEW r \in queue, TakeJob(w, r) PROVE AliasInv'
      BY <1>7, <1>b DEF TakeJob, Work
<1>8. ASSUME NEW w \in Workers,
             LockTimeout(w) \/ SkipJob(w) \/ Synced(w) \/ TagUpToDate(w) \/ Unsynced(w)
      PROVE  AliasInv'
      <2>1. Ends(w) BY <1>8, WorkerEnds
      <2>2. PICK j \in Jobs : j = job[w] BY <2>1 DEF Ends, Jobs
      <2>3. UNCHANGED <<stage, head, err, cancelled>> /\ stage \in Pools /\ done' \subseteq done \cup {j}
            BY <2>1, <2>2 DEF Ends
      <2>4. UNCHANGED link BY <1>8 DEF LockTimeout, SkipJob, Synced, TagUpToDate, Unsynced
      <2>5. stage = "tags" => j \in Tags BY DEF JobInv, PoolRefs, Pools
      <2>6. SUFFICES ASSUME stage = "tags", Alias, ~ err, ~ cancelled, head \in done'
            PROVE  link = Dir(head)
            BY <2>3, <2>4 DEF AliasInv, Pools
      <2>7. head \in Branches \cup {NoRef} /\ j \in Tags BY <2>5, <2>6 DEF TypeOK
      <2>8. NoRef \notin Tags BY OpenVoxAssumption DEF OpenVoxAssumption, Refs
      <2>9. head \in done BY <1>a, <2>3, <2>6, <2>7, <2>8
      <2> QED BY <2>6, <2>9 DEF AliasInv
<1>9. ASSUME NEW w \in Workers, Touch(w) \/ Unlink(w) PROVE AliasInv'
      <2>1. Dir(job[w]) # Production BY <1>9, VisitChanges DEF StageInv, Jobs, OwnDirs
      <2> QED BY <1>9, <1>b, <2>1, VisitChanges DEF Pools
<1>10. ASSUME NEW d \in Dirs, PruneDir(d) PROVE AliasInv'
      <2>1. UNCHANGED <<stage, head, done, err, cancelled>> /\ stage \in {"prune", "stale"}
            BY <1>10 DEF PruneDir
      <2>2. d # Production
            <3>1. d \in Obsolete \/ d \in MaybeStale BY <1>10 DEF PruneDir
            <3> QED BY <3>1, <1>a DEF Obsolete, MaybeStale, DirInv, OwnDirs
      <2>3. UNCHANGED link BY <1>10, <2>2 DEF PruneDir, RemovePath
      <2> QED BY <1>b, <2>1, <2>3
<1>11. CASE Cancel BY <1>11 DEF Cancel, AliasInv
<1>12. CASE UNCHANGED vars BY <1>12, <1>b DEF vars
<1> QED BY <1>1, <1>2, <1>3, <1>4, <1>5, <1>6, <1>7, <1>8, <1>9, <1>10, <1>11, <1>12, NextCases

\* After a sync of the default branch the alias leads to its directory.
THEOREM AliasLeads == ASSUME OwnDirs PROVE Spec => []AliasFollowsDefault
<1>1. Init => AliasInv BY DEF Init, AliasInv
<1>2. TypeOK /\ StageInv /\ JobInv /\ ReportInv /\ DirInv /\ AliasInv /\ [Next]_vars => AliasInv'
      BY NextAliasInv
<1>3. DirInv /\ AliasInv => AliasFollowsDefault BY DEF DirInv, AliasInv, AliasFollowsDefault
<1> QED BY <1>1, <1>2, <1>3, DirsCorrect, PTL DEF Spec

-----------------------------------------------------------------------------
(* Each ref for itself: the visits to its directory implement RefVisit.    *)

LEMMA VisitUnseen ==
    ASSUME NEW r \in Refs, UNCHANGED <<content, at, job, done, upToDate, failed>>
    PROVE  UNCHANGED Visit(r)!vars
BY DEF Visit!vars, VisitContent, VisitInside, VisitReport

LEMMA NoVisit ==
    ASSUME NEW r \in Refs, \A w \in Workers : at[w] \in {"gone", "free", "has"}
    PROVE  ~ VisitInside(r)
BY DEF VisitInside

LEMMA NewVisits == ASSUME NEW r \in Refs, NEW rs, Fill(rs) \/ Forget PROVE ~ VisitInside(r)'
BY DEF VisitInside, Fill, Forget

\* A ref at hand is not reported, and one worker has it.
LEMMA JobAtHand ==
    ASSUME JobInv, StageInv, NEW w \in Busy
    PROVE  /\ VisitReport(job[w]) = "none"
           /\ job[w] \in Refs /\ job[w] \in wanted
           /\ VisitInside(job[w]) <=> at[w] = "in"
<1>1. job[w] \in Jobs /\ w \in Workers BY DEF Jobs, Busy
<1>2. job[w] \notin done /\ job[w] \notin failed BY <1>1 DEF JobInv, Settled
<1>3. \A v \in Workers : at[v] = "in" /\ job[v] = job[w] => v = w BY DEF JobInv, Busy
<1> QED BY <1>1, <1>2, <1>3 DEF VisitReport, VisitInside, JobInv, StageInv

LEMMA WorkerVisits ==
    ASSUME OwnDirs, TypeOK, StageInv, JobInv, NEW r \in Refs, NEW w \in Workers,
           \/ Leave(w) \/ Enter(w) \/ LockTimeout(w) \/ SkipJob(w) \/ Synced(w) \/ TagUpToDate(w) \/ Unsynced(w)
           \/ \E q \in queue : TakeJob(w, q)
    PROVE  [Visit(r)!Next]_(Visit(r)!vars)
<1> USE DEF Visit!Next, Visit!vars
<1>a. UNCHANGED content => VisitContent(r)' = VisitContent(r) /\ VisitContent(r) \in {"absent", "ref", "other"}
      BY DEF VisitContent
<1>b. VisitInside(r) \in BOOLEAN /\ VisitInside(r)' \in BOOLEAN BY DEF VisitInside
<1>1. CASE Leave(w)
      <2>1. UNCHANGED <<content, job, done, upToDate, failed>> BY <1>1 DEF Leave
      <2>2. VisitInside(r)' = VisitInside(r) BY <1>1 DEF Leave, Work, VisitInside, TypeOK
      <2> QED BY <2>1, <2>2, <1>a DEF VisitReport
<1>2. CASE \E q \in queue : TakeJob(w, q)
      <2>1. UNCHANGED <<content, done, upToDate, failed>> BY <1>2 DEF TakeJob
      <2>2. VisitInside(r)' = VisitInside(r) BY <1>2 DEF TakeJob, Work, VisitInside, TypeOK
      <2> QED BY <2>1, <2>2, <1>a DEF VisitReport
<1>3. CASE Enter(w)
      <2>1. UNCHANGED <<content, job, done, upToDate, failed>> /\ w \in Busy /\ at[w] = "has"
            BY <1>3 DEF Enter, Work, Busy
      <2>2. VisitReport(r)' = VisitReport(r) BY <2>1 DEF VisitReport
      <2>3. CASE job[w] = r
            <3>1. ~ VisitInside(r) /\ VisitReport(r) = "none" BY <2>1, <2>3, JobAtHand
            <3>2. VisitInside(r)' BY <1>3, <2>1, <2>3 DEF Enter, Work, VisitInside, TypeOK
            <3> QED BY <2>1, <2>2, <3>1, <3>2, <1>a DEF Visit!Enter
      <2>4. CASE job[w] # r
            <3>1. VisitInside(r)' = VisitInside(r)
                  BY <1>3, <2>1, <2>4 DEF Enter, Work, VisitInside, TypeOK
            <3> QED BY <2>1, <2>2, <3>1, <1>a
      <2> QED BY <2>3, <2>4
<1>4. CASE LockTimeout(w) \/ SkipJob(w) \/ Synced(w) \/ TagUpToDate(w) \/ Unsynced(w)
      <2>1. Ends(w) /\ w \in Busy BY <1>4, WorkerEnds DEF Ends
      <2>2. UNCHANGED content BY <1>4 DEF LockTimeout, SkipJob, Synced, TagUpToDate, Unsynced
      <2>3. CASE job[w] # r
            <3>1. VisitInside(r)' = VisitInside(r)
                  <4>1. \A v \in Workers : at'[v] = "in" <=> at[v] = "in" /\ v # w
                        BY <2>1 DEF Ends, TypeOK
                  <4>2. \A v \in Workers : v # w => job'[v] = job[v] BY <2>1 DEF Ends, TypeOK
                  <4> QED BY <2>3, <4>1, <4>2 DEF VisitInside
            <3>2. VisitReport(r)' = VisitReport(r) BY <2>1, <2>3 DEF Ends, VisitReport
            <3> QED BY <2>2, <3>1, <3>2, <1>a
      <2>4. CASE job[w] = r
            <3>1. VisitReport(r) = "none" /\ (VisitInside(r) <=> at[w] = "in") BY <2>1, <2>4, JobAtHand
            <3>2. ~ VisitInside(r)'
                  <4>1. Busy' = Busy \ {w} /\ \A v \in Busy' : job'[v] = job[v]
                        BY <2>1, JobEnded DEF JobInv
                  <4>2. \A v \in Busy' : job'[v] # r BY <2>1, <2>4, <4>1 DEF JobInv
                  <4> QED BY <4>2 DEF VisitInside, Busy
            <3>3. CASE LockTimeout(w)
                  <4>1. at[w] = "has" /\ r \in failed' /\ done' = done
                        BY <2>4, <3>3 DEF LockTimeout, Work, ReportFailed
                  <4>2. VisitReport(r)' = "failed" BY <3>1, <4>1 DEF VisitReport
                  <4> QED BY <2>2, <3>1, <3>2, <4>1, <4>2, <1>a, <1>b DEF Visit!Refuse
            <3>4. CASE SkipJob(w)
                  <4>1. at[w] = "has" /\ UNCHANGED <<done, upToDate, failed>> BY <3>4 DEF SkipJob, Work
                  <4> QED BY <2>2, <3>1, <3>2, <4>1, <1>a, <1>b DEF VisitReport
            <3>5. CASE Synced(w)
                  <4>1. at[w] = "in" /\ r \in done' BY <2>4, <3>5 DEF Synced, Work
                  <4>2. VisitReport(r)' = "done" BY <4>1 DEF VisitReport
                  <4>3. content[Dir(r)] = r BY <2>4, <3>5, NoResolving DEF Synced, InPlace
                  <4>4. VisitContent(r) = "ref" BY <4>3, DirTypes DEF VisitContent
                  <4> QED BY <2>2, <3>1, <3>2, <4>1, <4>2, <4>4, <1>a DEF Visit!Succeed
            <3>6. CASE TagUpToDate(w) \/ Unsynced(w)
                  <4>1. at[w] = "in" /\ done' = done BY <3>6 DEF TagUpToDate, Unsynced, Work
                  <4>2. VisitReport(r)' \in {"failed", "none"} BY <3>1, <4>1 DEF VisitReport
                  <4> QED BY <2>2, <3>1, <3>2, <4>1, <4>2, <1>a DEF Visit!GiveUp, Visit!Contents
            <3> QED BY <1>4, <3>3, <3>4, <3>5, <3>6
      <2> QED BY <2>3, <2>4
<1> QED BY <1>1, <1>2, <1>3, <1>4

\* A visit to one ref's directory, of another ref if they share it: then no
\* listing has both.
LEMMA VisitVisits ==
    ASSUME OwnDirs, TypeOK, StageInv, JobInv, DirInv, NEW r \in Refs, NEW w \in Workers,
           Touch(w) \/ Unlink(w)
    PROVE  [Visit(r)!Next]_(Visit(r)!vars)
<1> USE DEF Visit!Next, Visit!vars
<1>1. /\ stage \in Pools /\ at[w] = "in" /\ w \in Busy
      /\ UNCHANGED <<seen, at, job, done, upToDate, failed>>
      BY VisitChanges
<1>2. VisitInside(r)' = VisitInside(r) /\ VisitReport(r)' = VisitReport(r)
      BY <1>1 DEF VisitInside, VisitReport
<1>3. CASE Unlink(w)
      BY <1>2, <1>3 DEF Unlink, VisitContent
<1>4. CASE Touch(w) /\ job[w] = r
      <2>1. VisitInside(r) BY <1>1, <1>4 DEF VisitInside
      <2>2. VisitContent(r)' \in Visit(r)!Contents BY DEF VisitContent, Visit!Contents
      <2> QED BY <1>2, <2>1, <2>2 DEF Visit!Touch
<1>5. CASE Touch(w) /\ job[w] # r
      <2>1. PICK q \in Refs : q = job[w] /\ q \in wanted BY <1>1, JobAtHand
      <2>2. /\ Resolve(Dir(q)) = Dir(q) /\ Dir(q) \in Dirs
            /\ q \in seen /\ q # r
            BY <1>5, <2>1, NoResolving, DirTypes DEF TypeOK
      <2>3. \E c \in {Absent, Broken, q} : content' = [content EXCEPT ![Dir(q)] = c]
            BY <1>5, <2>1, <2>2 DEF Touch
      <2>4. CASE Dir(q) # Dir(r)
            <3>1. content'[Dir(r)] = content[Dir(r)] BY <2>3, <2>4, DirTypes DEF TypeOK
            <3> QED BY <1>2, <3>1 DEF VisitContent
      <2>5. CASE Dir(q) = Dir(r)
            <3>1. r \notin seen BY <1>1, <2>2, <2>5, OwnDir DEF Pools
            <3>2. r \notin wanted BY <3>1 DEF TypeOK
            <3>3. ~ VisitInside(r) /\ VisitReport(r) = "none"
                  BY <3>2 DEF JobInv, Jobs, Busy, Settled, VisitInside, VisitReport
            <3>4. content'[Dir(r)] \in {Absent, Broken, q} BY <2>2, <2>3, <2>5 DEF TypeOK
            <3>5. r \notin {Absent, Broken, q} BY <2>2, DirTypes
            <3>6. VisitContent(r)' \in {"absent", "other"} BY <3>4, <3>5 DEF VisitContent
            <3> QED BY <1>2, <3>3, <3>6 DEF Visit!Disturb
      <2> QED BY <2>4, <2>5
<1> QED BY <1>3, <1>4, <1>5

LEMMA PruneVisits ==
    ASSUME OwnDirs, TypeOK, StageInv, JobInv, DirInv, NEW r \in Refs, NEW d \in Dirs, PruneDir(d)
    PROVE  [Visit(r)!Next]_(Visit(r)!vars)
<1> USE DEF Visit!Next, Visit!vars
<1>1. UNCHANGED <<at, job, done, upToDate, failed>> /\ stage \in {"prune", "stale"} BY DEF PruneDir
<1>2. /\ VisitInside(r)' = VisitInside(r) /\ VisitReport(r)' = VisitReport(r)
      /\ ~ VisitInside(r)
      BY <1>1, NoVisit DEF VisitInside, VisitReport, StageInv, PoolsAreBarriers, Pools
<1>3. CASE content'[Dir(r)] = content[Dir(r)] BY <1>2, <1>3 DEF VisitContent
<1>4. CASE content'[Dir(r)] # content[Dir(r)]
      <2>1. Dir(r) = d /\ content'[d] = Absent
            BY <1>4, DirTypes DEF PruneDir, RemovePath, TypeOK
      <2>2. VisitContent(r)' = "absent" BY <2>1, DirTypes DEF VisitContent
      <2>3. r \in done => r \in Branches BY <2>1, PrunedForAge
      <2> QED BY <1>2, <2>2, <2>3 DEF Visit!Prune, VisitReport
<1> QED BY <1>3, <1>4

\* The steps of the sync itself.
LEMMA StageVisits ==
    ASSUME TypeOK, StageInv, NEW r \in Refs,
           \/ Start \/ List \/ Filter \/ SyncCache \/ GiveUp \/ BranchesCut \/ BranchesDone
           \/ EnsureAlias \/ AliasFails \/ TagsDone \/ PruneDone \/ Crash \/ Cancel
    PROVE  [Visit(r)!Next]_(Visit(r)!vars)
<1> USE DEF Visit!Next, Visit!vars
<1>1. UNCHANGED content
      BY DEF Start, List, Filter, SyncCache, GiveUp, BranchesCut, BranchesDone, EnsureAlias,
             AliasFails, TagsDone, PruneDone, Advance, Crash, Cancel
<1>2. VisitContent(r)' = VisitContent(r) /\ VisitContent(r) \in Visit(r)!Contents
      BY <1>1 DEF VisitContent, Visit!Contents
<1>3. VisitInside(r) \in BOOLEAN /\ VisitInside(r)' \in BOOLEAN BY DEF VisitInside
<1>4. CASE Start \/ Crash
      <2>1. Forget BY <1>4 DEF Start, Crash
      <2>2. ~ VisitInside(r)' BY <2>1, NewVisits
      <2>3. VisitReport(r)' = "none" BY <2>1 DEF Forget, VisitReport
      <2> QED BY <1>2, <1>3, <2>2, <2>3 DEF Visit!GiveUp, Visit!Forget
<1>5. CASE SyncCache \/ EnsureAlias \/ AliasFails
      <2>1. UNCHANGED <<done, upToDate, failed>> /\ stage \in {"cache", "alias"}
            /\ (Fill(wanted \cap Branches) \/ Fill(wanted \cap Tags))
            BY <1>5 DEF SyncCache, EnsureAlias, AliasFails, Advance, Stage
      <2>2. ~ VisitInside(r) BY <2>1, NoVisit DEF StageInv, PoolsAreBarriers, Pools
      <2>3. ~ VisitInside(r)' BY <2>1, NewVisits
      <2> QED BY <1>2, <1>3, <2>1, <2>2, <2>3 DEF VisitReport
<1>6. CASE List \/ Filter \/ GiveUp \/ BranchesCut \/ BranchesDone \/ TagsDone \/ PruneDone \/ Cancel
      <2>1. UNCHANGED <<at, job, done, upToDate, failed>>
            BY <1>6 DEF List, Filter, GiveUp, BranchesCut, BranchesDone, TagsDone, PruneDone,
                        Advance, Cancel
      <2> QED BY <1>1, <2>1, VisitUnseen
<1> QED BY <1>4, <1>5, <1>6

\* What is done to one ref's directory is one visit after another, and none of
\* the sync's other steps breaks what the visits promise; that of an up-to-date
\* tag promises nothing.
THEOREM VisitsRefinement == ASSUME OwnDirs PROVE Spec => ImplementsVisits
<1>1. Init => \A r \in Refs : Visit(r)!Init
      <2> SUFFICES ASSUME Init, NEW r \in Refs PROVE Visit(r)!Init OBVIOUS
      <2>1. VisitContent(r) = "absent" /\ ~ VisitInside(r) /\ VisitReport(r) = "none"
            BY DirTypes DEF Init, VisitContent, VisitInside, VisitReport
      <2> QED BY <2>1 DEF Visit!Init
<1>2. TypeOK /\ StageInv /\ JobInv /\ DirInv /\ [Next]_vars
          => \A r \in Refs : [Visit(r)!Next]_(Visit(r)!vars)
      <2> SUFFICES ASSUME TypeOK, StageInv, JobInv, DirInv, [Next]_vars, NEW r \in Refs
                   PROVE  [Visit(r)!Next]_(Visit(r)!vars)
          OBVIOUS
      <2>1. CASE UNCHANGED vars
            <3>1. UNCHANGED Visit(r)!vars BY <2>1, VisitUnseen DEF vars
            <3> QED BY <3>1
      <2> QED BY <2>1, NextCases, StageVisits, WorkerVisits, VisitVisits, PruneVisits
<1> QED BY <1>1, <1>2, DirsCorrect, PTL DEF Spec, ImplementsVisits

-----------------------------------------------------------------------------
(* A sync comes to an end.                                                 *)

LEMMA OneLess ==
    ASSUME NEW S, IsFiniteSet(S), NEW x \in S
    PROVE  Cardinality(S \ {x}) = Cardinality(S) - 1
BY FS_RemoveElement

\* The number of workers in some states, of any assignment of states to them.
Count(of, states) == Cardinality({v \in Workers : of[v] \in states})

\* A worker changes from one state to another, and the others do not.
LEMMA WorkerNumbers ==
    ASSUME NEW w \in Workers, NEW before, NEW after, NEW to, after[w] = to,
           \A v \in Workers \ {w} : after[v] = before[v],
           NEW states
    PROVE  Count(after, states) =
             IF before[w] \in states /\ to \notin states THEN Count(before, states) - 1
             ELSE IF before[w] \notin states /\ to \in states THEN Count(before, states) + 1
             ELSE Count(before, states)
<1> DEFINE S == {v \in Workers : before[v] \in states}
           T == {v \in Workers : after[v] \in states}
<1>1. IsFiniteSet(S)
      BY FS_Subset, OpenVoxAssumption DEF OpenVoxAssumption
<1>2. CASE before[w] \in states /\ to \notin states
      <2>1. T = S \ {w} /\ w \in S BY <1>2
      <2>2. Cardinality(T) = Cardinality(S) - 1 BY <1>1, <2>1, OneLess
      <2> QED BY <1>2, <2>2 DEF Count
<1>3. CASE before[w] \notin states /\ to \in states
      <2>1. T = S \cup {w} /\ w \notin S BY <1>3
      <2>2. Cardinality(T) = Cardinality(S) + 1 BY <1>1, <2>1, FS_AddElement
      <2> QED BY <1>3, <2>2 DEF Count
<1>4. CASE (before[w] \in states) <=> (to \in states)
      <2>1. T = S BY <1>4
      <2> QED BY <1>4, <2>1 DEF Count
<1> QED BY <1>2, <1>3, <1>4

LEMMA WorkTypes ==
    ASSUME TypeOK
    PROVE  /\ IsFiniteSet(queue) /\ Cardinality(queue) \in Nat
           /\ \A states : Number(states) \in Nat
           /\ IsFiniteSet(Dirs \ pruned) /\ Cardinality(Dirs \ pruned) \in Nat
<1>1. IsFiniteSet(queue)
      <2>1. queue \subseteq Refs BY DEF TypeOK
      <2> QED BY <2>1, FS_Subset, OpenVoxAssumption DEF OpenVoxAssumption
<1>2. ASSUME NEW states PROVE Number(states) \in Nat
      <2>1. IsFiniteSet({w \in Workers : at[w] \in states})
            BY FS_Subset, OpenVoxAssumption DEF OpenVoxAssumption
      <2> QED BY <2>1, FS_CardinalityType DEF Number
<1>3. IsFiniteSet(Dirs \ pruned) BY FS_Difference, OpenVoxAssumption DEF OpenVoxAssumption
<1> QED BY <1>1, <1>2, <1>3, FS_CardinalityType

LEMMA WorkerGoesOn ==
    ASSUME TypeOK, NEW w \in Workers, WorkerStep(w)
    PROVE  stage' = stage /\ WorkLeft' < WorkLeft
<1> DEFINE H == Number({"has"})
           B == Number({"has", "in"})
           A == Number({"has", "in", "free"})
           Q == Cardinality(queue)
           D == Cardinality(Dirs \ pruned)
<1>a. H \in Nat /\ B \in Nat /\ A \in Nat /\ Q \in Nat /\ D \in Nat BY WorkTypes
<1>b. ASSUME NEW t, at' = [at EXCEPT ![w] = t]
      PROVE  /\ H' = IF at[w] \in {"has"} /\ t \notin {"has"} THEN H - 1
                     ELSE IF at[w] \notin {"has"} /\ t \in {"has"} THEN H + 1 ELSE H
             /\ B' = IF at[w] \in {"has", "in"} /\ t \notin {"has", "in"} THEN B - 1
                     ELSE IF at[w] \notin {"has", "in"} /\ t \in {"has", "in"} THEN B + 1 ELSE B
             /\ A' = IF at[w] \in {"has", "in", "free"} /\ t \notin {"has", "in", "free"} THEN A - 1
                     ELSE IF at[w] \notin {"has", "in", "free"} /\ t \in {"has", "in", "free"} THEN A + 1
                     ELSE A
      <2>1. /\ H = Count(at, {"has"}) /\ H' = Count(at', {"has"})
            /\ B = Count(at, {"has", "in"}) /\ B' = Count(at', {"has", "in"})
            /\ A = Count(at, {"has", "in", "free"}) /\ A' = Count(at', {"has", "in", "free"})
            BY DEF Number, Count
      <2>2. at'[w] = t /\ \A v \in Workers \ {w} : at'[v] = at[v] BY <1>b DEF TypeOK
      <2>3. ASSUME NEW states
            PROVE  Count(at', states) = IF at[w] \in states /\ t \notin states THEN Count(at, states) - 1
                                        ELSE IF at[w] \notin states /\ t \in states THEN Count(at, states) + 1
                                        ELSE Count(at, states)
            BY <2>2, WorkerNumbers
      <2> HIDE DEF H, B, A
      <2> QED BY <2>1, <2>3
<1>c. UNCHANGED <<stage, pruned>>
      BY DEF WorkerStep, Leave, Enter, LockTimeout, SkipJob, Synced, TagUpToDate, Unsynced, TakeJob, Work
<1>d. D' = D BY <1>c
<1>e. WorkLeft = 4 * Q + H + B + A + D /\ WorkLeft' = 4 * Q' + H' + B' + A' + D' BY DEF WorkLeft
<1>1. CASE \E r \in queue : TakeJob(w, r)
      <2>1. PICK r \in queue : queue' = queue \ {r} /\ at[w] = "free" /\ at' = [at EXCEPT ![w] = "has"]
            BY <1>1 DEF TakeJob, Receive, Work
      <2>2. IsFiniteSet(queue) BY WorkTypes
      <2>3. Q' = Q - 1 BY <2>1, <2>2, OneLess
      <2>4. H' = H + 1 /\ B' = B + 1 /\ A' = A BY <2>1, <1>b
      <2> HIDE DEF H, B, A, Q, D
      <2> QED BY <1>a, <1>c, <1>d, <1>e, <2>4, <2>3
<1>2. CASE ~ \E r \in queue : TakeJob(w, r)
      <2>1. Q' = Q
            BY <1>2 DEF WorkerStep, Leave, Enter, LockTimeout, SkipJob, Synced, TagUpToDate, Unsynced
      <2>2. \/ at[w] = "free" /\ at' = [at EXCEPT ![w] = "gone"]
            \/ at[w] = "has" /\ at' = [at EXCEPT ![w] = "in"]
            \/ at[w] = "has" /\ at' = [at EXCEPT ![w] = "free"]
            \/ at[w] = "in" /\ at' = [at EXCEPT ![w] = "free"]
            BY <1>2 DEF WorkerStep, Leave, Enter, LockTimeout, SkipJob, Synced, TagUpToDate, Unsynced, Work
      <2>3. \/ H' = H /\ B' = B /\ A' = A - 1
            \/ H' = H - 1 /\ B' = B /\ A' = A
            \/ H' = H - 1 /\ B' = B - 1 /\ A' = A
            \/ H' = H /\ B' = B - 1 /\ A' = A
            BY <2>2, <1>b
      <2> HIDE DEF H, B, A, Q, D
      <2> QED BY <1>a, <1>c, <1>d, <1>e, <2>1, <2>3
<1> QED BY <1>1, <1>2

LEMMA PruningGoesOn ==
    ASSUME TypeOK, NEW d \in Dirs, PruneDir(d)
    PROVE  stage' = stage /\ WorkLeft' < WorkLeft
<1>1. UNCHANGED <<stage, queue, at>> /\ d \in Dirs \ pruned /\ pruned' = pruned \cup {d} BY DEF PruneDir
<1>2. Dirs \ pruned' = (Dirs \ pruned) \ {d} BY <1>1
<1>3. Cardinality(Dirs \ pruned') = Cardinality(Dirs \ pruned) - 1 BY <1>1, <1>2, WorkTypes, OneLess
<1>4. \A states : Number(states)' = Number(states) BY <1>1 DEF Number
<1>5. /\ Cardinality(queue) \in Nat /\ Cardinality(Dirs \ pruned) \in Nat
      /\ Number({"has"}) \in Nat /\ Number({"has", "in"}) \in Nat /\ Number({"has", "in", "free"}) \in Nat
      BY WorkTypes
<1> QED BY <1>1, <1>3, <1>4, <1>5 DEF WorkLeft

LEMMA StagesGoOn ==
    ASSUME TypeOK, StageStep \/ Crash
    PROVE  StagesLeft' < StagesLeft
<1>1. \/ stage = "list" /\ stage' \in {"filter", "ended"}
      \/ stage = "filter" /\ stage' = "cache"
      \/ stage = "cache" /\ stage' \in {"branches", "ended"}
      \/ stage = "branches" /\ stage' \in {"alias", "ended"}
      \/ stage = "alias" /\ stage' = "tags"
      \/ stage = "tags" /\ stage' = "prune"
      \/ stage = "prune" /\ stage' = "stale"
      \/ stage = "stale" /\ stage' = "ended"
      \/ stage \notin {"idle", "ended"} /\ stage' = "idle"
      BY DEF StageStep, List, Filter, SyncCache, GiveUp, BranchesCut, BranchesDone, EnsureAlias,
             AliasFails, TagsDone, PruneDone, Advance, Stage, Crash
<1> QED BY <1>1 DEF StagesLeft, TypeOK, Pools

\* However its workers take turns and whatever fails, a sync has an end: but
\* for what visits do inside their directories, no step can be repeated.
THEOREM SyncBounded == Spec => SyncIsBounded
<1>1. TypeOK /\ [Next]_vars =>
        [\/ StagesLeft' < StagesLeft
         \/ stage' = stage /\ WorkLeft' < WorkLeft
         \/ Start \/ Cancel \/ \E w \in Workers : VisitStep(w)]_vars
      BY WorkerGoesOn, PruningGoesOn, StagesGoOn DEF Next
<1> QED BY <1>1, StepsCorrect, PTL DEF Spec, SyncIsBounded
=============================================================================
