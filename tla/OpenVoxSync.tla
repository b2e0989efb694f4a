------------------------------ MODULE OpenVoxSync ------------------------------
(***************************************************************************)
(* syncRepoOpenVox (pkg/gsync/openvox.go): one sync of a repository keeps  *)
(* one directory per matched branch and tag.  Its stages follow each other *)
(* (branches, production alias, tags, prune, stale prune); inside a pool   *)
(* stage the workers run concurrently.  Syncs follow one another; only the *)
(* listing looks at the upstream, so it may give any refs each time.       *)
(*                                                                         *)
(* A directory is what its path leads to, and the alias is a symlink, so   *)
(* the path and the directory are modelled apart.  What happens to one ref *)
(* inside its directory is RefSync, here a visit; its locks are DirLock,  *)
(* here exclusive access to the path.                                      *)
(***************************************************************************)
EXTENDS FiniteSets, Integers

CONSTANTS Branches, Tags,
          NameOf,      \* the name of each ref
          Dirs,        \* directory names under local_path
          DirOf,       \* SanitizeName, by name
          Production,  \* SanitizeName("production")
          Alias,       \* production_alias
          Workers,     \* openvox_max_workers
          Absent, Broken, NoLink, NoRef

Refs == Branches \cup Tags
Dir(r) == DirOf[NameOf[r]]

ASSUME OpenVoxAssumption ==
    /\ Branches \cap Tags = {}
    /\ DirOf \in [{NameOf[r] : r \in Refs} -> Dirs]
    /\ Production \in Dirs
    /\ Alias \in BOOLEAN
    /\ {Absent, Broken, NoRef} \cap Refs = {} /\ Absent # Broken
    /\ NoLink \notin Dirs
    /\ Workers # {}
    /\ IsFiniteSet(Refs) /\ IsFiniteSet(Dirs) /\ IsFiniteSet(Workers)

VARIABLES
    content,   \* the ref checked out in a directory; Broken: anything else
    link,      \* the target of the production symlink
    stage,     \* where syncRepoOpenVox is
    opts,      \* the prune options of this sync
    seen,      \* matched refs of the listing
    head,      \* defaultBranch of the listing
    wanted,    \* the refs left for the pools by the staleness filter
    queue,     \* the channel jobs
    at, job,   \* the workers of the current pool
    done, upToDate, failed, \* the Result; upToDate are the TagsUpToDate
    pruned,    \* the directories removed
    err,       \* Result.Err is set before the pools, or the alias was not made
    cancelled  \* ctx is done

dirVars == <<content, link>>
planVars == <<opts, seen, head, wanted>>
poolVars == <<queue, at, job>>
reportVars == <<done, upToDate, failed>>
resultVars == <<reportVars, pruned, err>>
vars == <<dirVars, stage, planVars, poolVars, resultVars, cancelled>>

Pools == {"branches", "tags"}

\* Beyond the types: production is a symlink or a directory, never both.
TypeOK ==
    /\ content \in [Dirs -> Refs \cup {Absent, Broken}]
    /\ link \in Dirs \cup {NoLink}
    /\ stage \in Pools \cup {"idle", "list", "filter", "cache", "alias", "prune", "stale", "ended"}
    /\ opts \subseteq {"prune", "stale", "dry"}
    /\ seen \subseteq Refs /\ wanted \subseteq seen /\ queue \subseteq wanted
    /\ head \in Branches \cup {NoRef}
    /\ at \in [Workers -> {"free", "has", "in", "gone"}]
    /\ job \in [Workers -> Refs \cup {NoRef}]
    /\ done \subseteq Refs /\ upToDate \subseteq Tags /\ failed \subseteq Refs
    /\ pruned \subseteq Dirs
    /\ err \in BOOLEAN /\ cancelled \in BOOLEAN
    /\ link # NoLink => content[Production] = Absent

Init ==
    /\ content = [d \in Dirs |-> Absent] /\ link = NoLink
    /\ stage = "idle" /\ opts = {}
    /\ seen = {} /\ head = NoRef /\ wanted = {}
    /\ queue = {} /\ at = [w \in Workers |-> "gone"] /\ job = [w \in Workers |-> NoRef]
    /\ done = {} /\ upToDate = {} /\ failed = {} /\ pruned = {}
    /\ err = FALSE /\ cancelled = FALSE

\* Nothing of a sync outlives it but the directories.
Forget ==
    /\ seen' = {} /\ head' = NoRef /\ wanted' = {}
    /\ queue' = {} /\ at' = [w \in Workers |-> "gone"] /\ job' = [w \in Workers |-> NoRef]
    /\ done' = {} /\ upToDate' = {} /\ failed' = {} /\ pruned' = {}
    /\ err' = FALSE /\ cancelled' = FALSE

Stage(from, to) == stage = from /\ stage' = to

\* The directory a path leads to, and whether it leads to one.
Resolve(d) == IF d = Production /\ link # NoLink THEN link ELSE d
IsOpen(d) == \E w \in Workers : at[w] = "in" /\ Dir(job[w]) = d

\* os.RemoveAll of a path: a symlink is removed, not its target.
RemovePath(d) ==
    IF d = Production /\ link # NoLink
      THEN link' = NoLink /\ UNCHANGED content
      ELSE content' = [content EXCEPT ![d] = Absent] /\ UNCHANGED link
-----------------------------------------------------------------------------
(* From the start of the sync to the pools.                                *)

\* SyncRepo drops prune_stale without prune.
Start ==
    /\ stage \in {"idle", "ended"} /\ stage' = "list"
    /\ opts' \in {o \in SUBSET {"prune", "stale", "dry"} : "stale" \in o => "prune" \in o}
    /\ Forget
    /\ UNCHANGED dirVars

\* detectCollisions that finds none.
NoCollision(rs) == FALSE

\* Two listed refs of different names for one directory.
Collision(rs) ==
    \E r, q \in rs : NameOf[r] # NameOf[q] /\ Dir(r) = Dir(q)

\* loadResolverRepoAndRefs, extractRemoteRefState and detectCollisions.  The
\* default branch need not match the patterns, nor HEAD name one at all.
List ==
    /\ stage = "list"
    /\ seen' \in SUBSET Refs
    /\ head' \in Branches \cup {NoRef}
    /\ err' = Collision(seen')
    /\ stage' = IF Collision(seen') THEN "ended" ELSE "filter"
    /\ UNCHANGED <<dirVars, opts, wanted, poolVars, reportVars, pruned, cancelled>>

\* filterOpenVoxBranchesForSync: any branches but the default one may turn out
\* to be stale; they are looked at if both options are on.
Filter ==
    /\ Stage("filter", "cache")
    /\ \E old \in SUBSET ((seen \cap Branches) \ {head}) :
         /\ old # {} => {"prune", "stale"} \subseteq opts
         /\ wanted' = seen \ old
    /\ UNCHANGED <<dirVars, opts, seen, head, poolVars, resultVars, cancelled>>

\* Workers are started with all jobs in the buffered channel; a stage without
\* jobs returns at once.
Fill(rs) ==
    /\ queue' = rs
    /\ at' = [w \in Workers |-> IF rs = {} THEN "gone" ELSE "free"]

SyncCache ==
    /\ Stage("cache", "branches")
    /\ Fill(wanted \cap Branches)
    /\ UNCHANGED <<dirVars, planVars, job, resultVars, cancelled>>

\* An error before the pools ends the sync.
GiveUp ==
    /\ stage \in {"list", "cache"} /\ stage' = "ended"
    /\ err' = TRUE
    /\ UNCHANGED <<dirVars, planVars, poolVars, reportVars, pruned, cancelled>>
-----------------------------------------------------------------------------
(* The worker pools of syncOpenVoxBranches and syncOpenVoxTags.            *)

Work(w, from, to) ==
    /\ stage \in Pools
    /\ at[w] = from
    /\ at' = [at EXCEPT ![w] = to]
    /\ UNCHANGED <<stage, planVars, pruned, err, cancelled>>

\* The channel is never closed.
StaysOpen == FALSE

\* close(jobs), and every job has been received.
Drained == queue = {}

\* A job that is handed out again and again.
Reuse(r) == UNCHANGED queue

Receive(r) == queue' = queue \ {r}

TakeJob(w, r) ==
    /\ Work(w, "free", "has")
    /\ r \in queue /\ Receive(r)
    /\ job' = [job EXCEPT ![w] = r]
    /\ UNCHANGED <<dirVars, reportVars>>

\* The worker's select returns on a closed channel or on ctx.Done().
Leave(w) ==
    /\ Work(w, "free", "gone")
    /\ Drained \/ cancelled
    /\ UNCHANGED <<dirVars, queue, job, reportVars>>

\* The path's lock.
Enter(w) ==
    /\ Work(w, "has", "in")
    /\ ~ IsOpen(Dir(job[w]))
    /\ UNCHANGED <<dirVars, queue, job, reportVars>>

DropJob(w) == job' = [job EXCEPT ![w] = NoRef]

\* A failure that is only logged.
ReportNothing(r) == UNCHANGED failed

ReportFailed(r) == failed' = failed \cup {r}

\* Another process kept the lock for lockAcquireTimeout.
LockTimeout(w) ==
    /\ Work(w, "has", "free")
    /\ ReportFailed(job[w])
    /\ DropJob(w)
    /\ UNCHANGED <<dirVars, queue, done, upToDate>>

\* ctx.Err() before the lock.
SkipJob(w) ==
    /\ Work(w, "has", "free") /\ cancelled
    /\ DropJob(w)
    /\ UNCHANGED <<dirVars, queue, reportVars>>

\* What the visit does to the directory, step by step and through whatever the
\* path leads to: RemoveAll, the clone, the checkout.  Nothing is made behind a
\* dangling link, and RemoveAll does not follow one.
Touch(w) ==
    LET d == Resolve(Dir(job[w]))
    IN  /\ Work(w, "in", "in")
        /\ \E c \in {Absent, Broken, job[w]} :
             /\ d # Dir(job[w]) => Absent \notin {c, content[d]}
             /\ content' = [content EXCEPT ![d] = c]
        /\ UNCHANGED <<link, queue, job, reportVars>>

\* RemoveAll of the migration or of recreateOpenVoxRepo finds a symlink.
Unlink(w) ==
    /\ Work(w, "in", "in")
    /\ link # NoLink /\ Dir(job[w]) = Production
    /\ link' = NoLink
    /\ UNCHANGED <<content, queue, job, reportVars>>

\* A visit that returns no error without looking at what it leaves.
TrustVisit(w) == TRUE

InPlace(w) == content[Resolve(Dir(job[w]))] = job[w]

\* A branch that was checked out, or whose working tree was looked at, and a
\* tag that was fetched and checked out.
Synced(w) ==
    /\ Work(w, "in", "free")
    /\ InPlace(w)
    /\ done' = done \cup {job[w]}
    /\ DropJob(w)
    /\ UNCHANGED <<dirVars, queue, upToDate, failed>>

\* isTagUpToDateLocal looks at the tag's ref, which any repository there may
\* have, and not at what is checked out; or the fetch brought nothing new.
TagUpToDate(w) ==
    /\ Work(w, "in", "free")
    /\ job[w] \in Tags /\ content[Resolve(Dir(job[w]))] # Absent
    /\ upToDate' = upToDate \cup {job[w]}
    /\ DropJob(w)
    /\ UNCHANGED <<dirVars, queue, done, failed>>

\* An error, or ctx done meanwhile: the directory stays as it is then.
Unsynced(w) ==
    /\ Work(w, "in", "free")
    /\ \/ ReportFailed(job[w])
       \/ cancelled /\ UNCHANGED failed
    /\ DropJob(w)
    /\ UNCHANGED <<dirVars, queue, done, upToDate>>

\* A pool that is left while its workers run.
NoWait == TRUE

\* wg.Wait().
AllGone == \A w \in Workers : at[w] = "gone"

\* From one stage to the next, when the workers of the first have returned.
Advance(from, to) ==
    /\ Stage(from, to) /\ AllGone
    /\ UNCHANGED <<planVars, job, reportVars, cancelled>>

\* The producer saw ctx.Done(): no alias, no tags and no pruning.
BranchesCut ==
    /\ Advance("branches", "ended")
    /\ cancelled /\ wanted \cap Branches # {}
    /\ UNCHANGED <<dirVars, queue, at, pruned, err>>

BranchesDone ==
    /\ Advance("branches", "alias")
    /\ UNCHANGED <<dirVars, queue, at, pruned, err>>
-----------------------------------------------------------------------------
(* ensureProductionAlias, then the tags.                                   *)

\* ensureSymlink that does not look what is at the path.
AlwaysLink == TRUE

\* Lstat: nothing there, or a symlink.
NoRealDir == content[Production] = Absent

\* ensureSymlink that keeps an existing symlink.
LinkOnce(d) == link' = IF link = NoLink THEN d ELSE link

LinkTo(d) == link' = d

\* A link to somewhere else is removed before the new one is made.
LinkCut(d) == link' \in IF link = d THEN {link} ELSE {link, NoLink}

\* The default branch's directory is there, and upstream has no production.
AliasWanted ==
    /\ Alias /\ head # NoRef
    /\ \A b \in seen \cap Branches : Dir(b) # Production
    /\ content[Dir(head)] # Absent

EnsureAlias ==
    /\ Advance("alias", "tags")
    /\ IF AliasWanted /\ NoRealDir THEN LinkTo(Dir(head)) ELSE UNCHANGED link
    /\ Fill(wanted \cap Tags)
    /\ UNCHANGED <<content, pruned, err>>

\* The lock of the alias's path is not to be had, or the link not to be made;
\* the code only logs it.
AliasFails ==
    /\ Advance("alias", "tags")
    /\ AliasWanted /\ LinkCut(Dir(head)) /\ err' = TRUE
    /\ Fill(wanted \cap Tags)
    /\ UNCHANGED <<content, pruned>>

TagsDone ==
    /\ Advance("tags", "prune")
    /\ UNCHANGED <<dirVars, queue, at, pruned, err>>
-----------------------------------------------------------------------------
(* Pruning, one directory a step; the dry run only reports.                *)

\* The names in activeNames, if only branches were in it.
ActiveBranches == {Dir(r) : r \in seen \cap Branches} \cup (IF Alias THEN {Production} ELSE {})

\* sanitizedToOriginal: the matched refs' directories and the alias.
Active == {Dir(r) : r \in seen} \cup (IF Alias THEN {Production} ELSE {})

\* os.ReadDir's directories (a symlink is none) that are not active.
Obsolete == {d \in Dirs : content[d] # Absent} \ Active

\* Directories of listed branches, the default one aside, in which HEAD may have
\* a commit that is too old, whatever else is wrong with them.
MaybeStale ==
    {Dir(b) : b \in {c \in (seen \cap Branches) \ {head} : content[Resolve(Dir(c))] # Absent}}

PruneDir(d) ==
    /\ \/ stage = "prune" /\ "prune" \in opts /\ d \in Obsolete
       \/ stage = "stale" /\ "stale" \in opts /\ d \in MaybeStale
    /\ d \notin pruned /\ pruned' = pruned \cup {d}
    /\ IF "dry" \in opts THEN UNCHANGED dirVars ELSE RemovePath(d)
    /\ UNCHANGED <<stage, planVars, poolVars, reportVars, err, cancelled>>

\* The stage's loop ends; a directory whose lock was not to be had stays.
PruneDone ==
    /\ Advance("prune", "stale") \/ Advance("stale", "ended")
    /\ UNCHANGED <<dirVars, queue, at, pruned, err>>
-----------------------------------------------------------------------------
\* The process is killed, and its directories stay as they are then.
Crash ==
    /\ stage \notin {"idle", "ended"} /\ stage' = "idle"
    /\ opts' = {} /\ Forget
    /\ IF stage = "alias" /\ AliasWanted /\ NoRealDir THEN LinkCut(Dir(head)) ELSE UNCHANGED link
    /\ UNCHANGED content

Cancel ==
    /\ stage \notin {"idle", "ended"} /\ ~ cancelled
    /\ cancelled' = TRUE
    /\ UNCHANGED <<dirVars, stage, planVars, poolVars, resultVars>>

WorkerStep(w) ==
    \/ Leave(w) \/ Enter(w) \/ LockTimeout(w) \/ SkipJob(w)
    \/ Synced(w) \/ TagUpToDate(w) \/ Unsynced(w) \/ \E r \in queue : TakeJob(w, r)

\* Inside a visit; WorkerStep ends one, however long it takes.
VisitStep(w) == Touch(w) \/ Unlink(w)

StageStep ==
    \/ List \/ Filter \/ SyncCache \/ GiveUp \/ BranchesCut \/ BranchesDone
    \/ EnsureAlias \/ AliasFails \/ TagsDone \/ PruneDone

Next ==
    \/ Start \/ StageStep \/ (\E w \in Workers : WorkerStep(w) \/ VisitStep(w))
    \/ (\E d \in Dirs : PruneDir(d)) \/ Crash \/ Cancel

Spec == Init /\ [][Next]_vars

\* The sync's goroutines run, and what a worker does in a directory returns.
FairSpec == Spec /\ WF_vars(StageStep) /\ \A w \in Workers : WF_vars(WorkerStep(w))
-----------------------------------------------------------------------------
\* Every branch reported as synced or up to date, and every tag reported as
\* fetched, is what its directory has when the sync ends, whatever the other
\* workers, the alias and the pruning did after it was synced.  Only a branch
\* may be gone, as stale, and not the default one (configuration.md:95).  A tag
\* reported as up to date still has its directory, and no more: what is checked
\* out there nobody looked at (RefSync!UpToDateTagIsCheckedOut).
ReportedInPlace ==
    stage = "ended" =>
        /\ \A r \in done :
             \/ content[Resolve(Dir(r))] = r
             \/ Dir(r) \in pruned /\ r \in Branches \ {head} /\ "stale" \in opts
        /\ \A t \in upToDate : content[Resolve(Dir(t))] # Absent

\* The pools are barriers: the alias is made, directories are pruned and the
\* sync is over only when no worker is left in any directory.
PoolsAreBarriers == stage \notin Pools => \A w \in Workers : at[w] = "gone"

\* A sync that ends without an error or a cancellation has reported every ref
\* it wanted, and each in one way only.
EveryRefReported ==
    stage = "ended" /\ ~ err /\ ~ cancelled =>
        /\ done \cup upToDate \cup failed = wanted
        /\ done \cap upToDate = {} /\ (done \cup upToDate) \cap failed = {}

\* After the sync the alias leads to the default branch, unless upstream has a
\* production branch or the sync was cut short (configuration.md:107).
AliasFollowsDefault ==
    stage = "ended" /\ Alias /\ ~ err /\ ~ cancelled /\ head \in done
    /\ (\A b \in seen \cap Branches : Dir(b) # Production)
        => link = Dir(head) /\ content[link] = head

\* The directory of a ref, the visits to it and their report, as RefVisit sees
\* them.  As in RefSync an up-to-date tag counts as not reported: its visit
\* looked at the ref alone and promises nothing of the directory.
VisitContent(r) ==
    CASE content[Dir(r)] = r -> "ref"
      [] content[Dir(r)] = Absent -> "absent"
      [] OTHER -> "other"

VisitInside(r) == \E w \in Workers : at[w] = "in" /\ job[w] = r

VisitReport(r) == IF r \in done THEN "done" ELSE IF r \in failed THEN "failed" ELSE "none"

Visit(r) == INSTANCE RefVisit
    WITH content <- VisitContent(r), inside <- VisitInside(r), report <- VisitReport(r),
         Prunable <- r \in Branches

\* Of all refs at once a sync keeps what RefVisit promises of each, every step
\* being one of its steps or none: the other workers, the alias and the pruning
\* of one ref's directory never break the promise made for another.
ImplementsVisits ==
    /\ \A r \in Refs : Visit(r)!Init
    /\ [][\A r \in Refs : [Visit(r)!Next]_(Visit(r)!vars)]_vars

\* The stages still to come, and what is left to do in this one: every queued
\* job takes a worker at most three steps, and every worker has to leave.
StagesLeft ==
    CASE stage = "list" -> 9  [] stage = "filter" -> 8 [] stage = "cache" -> 7 [] stage = "branches" -> 6
      [] stage = "alias" -> 5 [] stage = "tags" -> 4   [] stage = "prune" -> 3 [] stage = "stale" -> 2
      [] stage = "ended" -> 1 [] stage = "idle" -> 0

Number(states) == Cardinality({w \in Workers : at[w] \in states})

WorkLeft ==
    4 * Cardinality(queue) + Number({"has"}) + Number({"has", "in"}) + Number({"has", "in", "free"})
    + Cardinality(Dirs \ pruned)

\* A sync never goes round in a circle: but for what a visit does inside its
\* directory (RefSync), every step of any worker and every directory pruned
\* leaves less to do, and no stage comes back.
SyncIsBounded ==
    [][\/ StagesLeft' < StagesLeft
       \/ stage' = stage /\ WorkLeft' < WorkLeft
       \/ Start \/ Cancel \/ \E w \in Workers : VisitStep(w)]_vars

\* A sync ends, whatever fails.
SyncEnds == stage = "list" ~> stage \in {"ended", "idle"}
=============================================================================
