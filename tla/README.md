# A TLA+ model of gfetch

gfetch mirrors selected branches and tags of upstream git repositories. It
runs as a one-shot `gfetch sync` or as a polling daemon with an HTTP API. This
directory has TLA+ modules for its concurrent and failure-prone parts, TLC
configurations that check them on small instances, and TLAPS proofs.

Paths below are relative to the repository. The file of a definition and its
lines are in the `map` of `PROJECT.json`.

## Inventory

| Component | Code | State | Operations | What makes it correct |
|---|---|---|---|---|
| Keyed in-process locks | `pkg/gsync/openvox.go:36-101` | map of key to reference-counted mutex | `Acquire`, its release closure, `ForgetIfIdle` | one holder per key; no entry is dropped under a waiter or leaked |
| Directory file locks, orphan cleanup | `openvox.go:103-187, 628-704` | lock files and their flocks, in-process locks | `acquireOpenVoxFileLock`, `tryAcquire…`, `Release`, `cleanupOrphan…` | one worker per directory, over processes too; nothing leaks; an attempt ends |
| Daemon | `pkg/daemon/` | live config, job table, gocron's jobs, guard, WaitGroup, shutdown flag | tasks, `POST /sync`, `/sync/{repo}`, `/reload`, SIGHUP, `Run` | no overlapping syncs of a repository; jobs match the config; shutdown ends and is clean; polling goes on |
| OpenVox sync of one ref | `openvox.go:376-497, 856-1012, 1133-1226`, `pkg/gsync/branch.go` | resolver repository, shared cache, the ref's directory | listing, cache fetch, clone or init over the cache, fetch, checkout, recreation | what is reported is checked out; borrowed objects exist; damage heals |
| OpenVox sync of a repository | `openvox.go:205-374, 499-626, 706-854, 1014-1051, 1199-1319`, `pkg/gsync/prune.go:60-101` | directories, production symlink, worker pools, `Result` | collision check, staleness filter, two pools, alias, prune, stale prune | branches and fetched tags that are reported are in place at the end; every ref is reported once; the alias follows the default branch |
| Standard sync | `pkg/gsync/syncer.go`, `branch.go`, `tag.go`, `prune.go`, `refs.go` | one working copy: local refs, remote-tracking refs, HEAD, files | set-up, listing, branch loop, obsolete and stale pruning, tags, checkout with a fallback | what is reported is there at the end; every listed ref is accounted for once; only what is to be pruned is; the copy comes back in sync |
| Configuration | `pkg/config/` | none at run time | `Load`, `applyDefaults`, `Validate`, `ParseDuration` | an entry's own value wins over the default; whatever prunes stale branches has an age |
| Command line | `internal/cli/` | none | flags of `gfetch sync`, printing | flags add to the configuration |
| Authentication | `pkg/gsync/auth.go`, `known_hosts.go` | none | choose a transport | not modelled: its failure is a failed listing or fetch |
| Telemetry | `pkg/telemetry/` | counters nobody reads back | increments | not modelled |

How they interact: the daemon's tasks and handlers call `SyncRepo` under the
per-repository guard; `SyncRepo` runs the openvox or the standard sync; an
openvox sync runs its refs in worker goroutines, each of which takes its
directory's in-process lock and then its file lock; the directories borrow the
objects of one cache repository. A second process (`gfetch sync` beside the
daemon) shares only the file system with the first.

Hard to test, and the reason for the models: goroutines that keep an entry or
a config they looked up under a lock after it is unlocked; flocks that belong
to inodes while files are removed by name; shutdown that races requests;
reloads that read and apply in different orders; crashes between two writes of
a set-up; failed checkouts after successful fetches; upstream branches that
come and go between syncs; refs that are judged, moved, pruned and checked out
at different times in one sync. `hazards` in `PROJECT.json` lists them by line.

## Modules

| Module | Models | Proofs |
|---|---|---|
| `Exclusion` | abstract: actors enter and leave resources, one actor in each | |
| `RefVisit` | abstract: what a sync promises for one ref | |
| `KeyedLock` | `keyedLockManager` | `KeyedLock_proofs` |
| `DirLock` | a directory's in-process lock and lock file, the orphan cleanup, several processes | `DirLock_proofs` |
| `Daemon` | scheduler, HTTP handlers, guard, reload, shutdown | `Daemon_proofs` |
| `RefSync` | repeated openvox syncs of one ref, with crashes, failures and edits | `RefSync_proofs` |
| `OpenVoxSync` | repeated openvox syncs of all refs of a repository | `OpenVoxSync_proofs` |
| `RepoConfig` | an entry of the configuration, its defaults, its validation, and the flags | with `StandardSync` |
| `StandardSync` | repeated standard syncs of a repository, upstream changes, failures, crashes | `StandardSync_proofs` |

`MC…` modules fix small instances; each `.cfg` is one run.

How the modules compose. `KeyedLock`, `DirLock` and `Daemon` are each shown to
implement `Exclusion` (instances named `Abstract`, `PerProcess`, `Guard`).
`DirLock` uses the result for `KeyedLock`: its in-process lock is the abstract
one, with `AcquireReturns` as the strong fairness of `AcquireDirLock`.
`RefVisit` is the contract for one ref: visits to its place, each of which may
leave anything behind, a report of success only for a visit that leaves the ref
there, and nothing but pruning that takes it away while the report stands.
`RefSync` implements it for one ref of the openvox layout, step by step;
`OpenVoxSync` and `StandardSync` implement one instance of it for every ref at
once (`Visit(r)`), whatever their other steps do in the meantime. So
`OpenVoxSync` may take a visit as any change of the directory (`Touch`,
`Unlink`) up to its end (`Synced`, `Unsynced`), while `RefSync` has what
happens inside; a directory's locks are exclusive access to a path there, which
`DirLock` shows within a process.
`StandardSync` takes its options from `RepoConfig`: a sync's `opts` are what a
configuration file (`entry` and `defaults`) and the flags of a command come to.

### KeyedLock

`entries`, `refs` and `owner` are the map, `lockEntry.refs` and
`lockEntry.mu`; `mine` is the entry a closure captured. `Reference` and
`Unref` are the two critical sections of `m.mu`, `Lock` and `Unlock` the
operations on the entry's own mutex in between and outside `m.mu`. Addresses
are allocated from those nobody refers to, as the garbage collector allows.

### DirLock

`linked` is the inode the lock file's name refers to, `flock` and `fd` are per
inode and per goroutine, `keyed` is the in-process lock in each process.
Workers stand for branch workers, tag workers, the alias and the pruners: all
take the same two locks in the same order. `Crash(p)` ends a process; the
kernel drops its descriptors and flocks. The removal in the cleanup goes by
name (`Unlink`), whichever inode the name has by then.

### Daemon

A thread is a goroutine that runs a gocron task, an HTTP handler or the SIGHUP
loop. `CheckDown`, `TryStart`, `AddSync`, `FinishSync` and `DoneSync` are the
steps of `RunGuardedSync`; `LoadConfig`, `BeginReload`, `RemoveJobs`,
`SwapConfig` and `ScheduleJobs` those of a reload; `Signal` to `HttpStopped`
the order of `Run`. `disk` is the config on disk; a config without
repositories stands for any that is refused. gocron is external: `Fire` starts
a registered job unless the same job still runs (singleton mode), and
`StopCron`, `CronStopped` and `CronTimeout` are its `Shutdown`.

### RefSync

`pc` and `who` say where the sync is and in which repository (the resolver's
or the directory's). `repo` keeps what `getRepoWithSharedCache` looks at: is
there a repository, does it borrow from this cache, has it an `origin`.
Commits of the ref are numbered in push order. Everything that goes wrong is
an action under `Trouble` and costs one of `MaxFaults`: a failed call, a
dropped error of `os.WriteFile`, a recoverable error with the recreation, a
failed state check, a cancellation, a crash that can leave refs, clone or
working tree half-written, and an edit by hand. `kind`, chosen initially, says
whether the ref is a branch or a tag. `cut` is history: it records that the
set-up of a repository ended where the code never repairs it (see "Known
behaviours outside the properties"); `BorrowedObjectsKept` and `Heals` are
about the other runs.

External: go-git. A clone of the cache has the cache as its `origin`, and has
the ref as a local branch only if the cache's HEAD is that branch. Whether a
clone brings the tags along is left open (`CloneOptions.Tags` is not set), and a
clone of a cache that is not empty succeeds unless a fault hits it: that the
HEAD of `cache.git` names a fetched branch is assumed, the code does not ensure
it. A fetch fails in a repository with an empty ref file, which the code takes
as recoverable (`RecreateBroken`).

### OpenVoxSync

`content` says which ref a directory has checked out, `link` where the
`production` symlink leads; `Resolve` follows it. The stages follow
`syncRepoOpenVox`; in a pool stage the workers interleave. The upstream is
looked at by `List` alone, so it may give any refs and default branch each
time. A worker in a directory may change it any number of times, through the
link or by removing it. A branch is reported as synced or up to date, and a tag
as fetched, only with the ref in place (`InPlace`). A tag is reported as up to
date (`TagUpToDate`, the variable `upToDate`) whatever is checked out, as long
as there is something: `isTagUpToDateLocal` looks at its ref alone, and which
tags a repository there has is left open. `Crash` and a cancellation may find
the directory in any of these states, and `Crash` the alias between the
removal of its old link and the new one (`LinkCut`). Commit ages are a choice: `Filter` and `PruneDir` may find any branch but the default one
stale. Other processes appear as lock timeouts. A branch called production, if
there is one, is taken to match the patterns.

`VisitContent`, `VisitInside` and `VisitReport` are the mapping to `RefVisit`:
what the ref's directory has, whether a worker is in it for the ref, and where
the `Result` has the ref. An up-to-date tag is mapped to no report, as in
`RefSync`: of its directory nothing is promised.

### RepoConfig

An entry is a record of the YAML's fields, with `Unset` for what is left out
and for the zero values the code takes for left out. `ApplyDefaults` and
`Canonical` are `applyDefaults` and the filling-in that `validateRepo` does,
`Valid` is what it then asks for, and `Effective` is the part of `SyncRepo`
that joins the result with the command's flags. A list of patterns is the set
of names it matches, so a checkout "that matches a pattern" is a member of it.

### StandardSync

`pc` follows `SyncRepo` of one repository: "open" to "remote" are
`ensureCloned`, "list" is the listing, "branches" and "setref" the loop of
`syncBranches` with `syncBranch`, "obsolete" and "stale" its pruning, "tags" and
"tagprune" are `syncTagsWrapper`, "checkout" and "fallback" `handleCheckout`.
`local` and `track` are the refs, `head` and `tree` what HEAD names and which
version the files have; moving a branch that is checked out moves `local` and
leaves `tree`. The result fields have the names of the code's, shortened.

A commit is a number, in push order, and is old once `aged` has reached it.
`IsStale` looks at the listed commit before the fetch, `ObsoleteDone` at the
local one at the pruning; an unset age makes the first always true and the
second always false. Between any two steps `World` may push, delete or move a
tag, change the default branch or let time pass, bounded by `MaxChanges`; a
configuration is edited between syncs. `Trouble` has the failures the code
handles, each at its place and costing one of `MaxFaults`, the cancellation of
`ctx`, and a killed process. A failure that was only logged, such as
`PruneFails`, leaves the rest of the loop to go on as the code does.

In the mapping to `RefVisit` the place of a ref is the local ref, "setref" is
the visit to a branch, and "tags" that to all tags. Of a branch that is
reported, only the listed commit or a newer one counts as being there.

External: go-git. A fetch brings the upstream's present commit, not the
listed one; the fetch of several tags fails as a whole if one is gone, with or
without the others written; a forced checkout and a hard reset give the tree of
the ref, or half of it if they fail or the process is killed in them
(`HalfCheckedOut`).

## Runs

| Run | Instance | Question |
|---|---|---|
| `KeyedLock` | 3 goroutines, 2 keys, 3 addresses | is the map of mutexes one lock per key, without leaks, and does every `Acquire` return |
| `DirLock` | 2 + 1 workers in 2 processes, one cleanup | one worker per process, held lock files are kept, nothing leaks, every attempt ends |
| `DaemonSafety` | 2 repositories, 1 task thread, 1 handler, SIGHUP, one edit | do the jobs match the config, is a shutdown clean |
| `DaemonOverlap` | 1 repository, 2 task threads, SIGHUP, fair | can a removed job and its replacement overlap, does `Run` return, is a repository polled for ever |
| `RefSync` | a branch or a tag, 2 pushes, 3 faults, fair | is a reported ref checked out, are borrowed objects kept, does every damage heal, is a visit what `RefVisit` has, can a visit go on for ever |
| `OpenVoxSync` | 2 branches, 1 tag with one branch's directory name, alias, 2 workers | branches and fetched tags that are reported in place, up-to-date tags' directories kept, pools as barriers, every ref reported once, alias, every ref visited as in `RefVisit`, no endless sync |
| `OpenVoxProduction` | branches main and production, alias, 2 workers, fair | is the production path a link or a directory, never both; does a sync end |
| `StandardSync` | 2 branches, 2 tags, 4 configurations, 2 commands, 1 push per ref, 2 changes, 1 fault, fair | is what a sync reports there, is every listed ref accounted for, is only pruned what is to be, do polls skip stale branches only, is every ref visited as in `RefVisit`, does a sync end, does the copy come back in sync |

Why the bounds are enough to be interesting. Three goroutines let two contend
while a third drops or recreates the entry, and an address is reused. In
`DirLock` each process has a worker, one has two, and four inodes always leave
a fresh one. In `Daemon` the second task thread is what lets a removed job
still run when its replacement fires, and there is one more job instance per
repository than threads. Three faults in `RefSync` are a fault, a fault in the
sync that repairs it, and one more. In `OpenVoxSync` there are more refs than
workers, and consecutive syncs see different upstreams. In `StandardSync` two
changes are a push and the ageing of what it pushed, a deletion between the
listing and a fetch, or an edit of the configuration and a command, and one
fault puts a failed sync between them. Its four configurations are: both
branches and one tag with stale pruning and a branch to check out; patterns
that leave one branch and one tag obsolete, with that tag as the checkout; an
explicit `prune: false` under defaults that prune; and an SSH repository
without tags or checkout. The two commands are a dry run and a stale pruning
without an age.

The bounds that are not in the code: `MaxVersion` (edits of the config,
pushes), `MaxChanges` (what the world does to a standard sync, and commands),
`MaxFaults`. Jobs, inodes and addresses are finite sets for TLC only.

### Violations

These runs check what a comment, a document or a test says, and TLC finds a
behaviour of the code that does otherwise.

| Run | What happens |
|---|---|
| `DirLockCleanerRace` | A worker opens the lock file, the cleanup locks and unlinks it, the worker locks the unlinked inode, and another process locks a new file: two workers in one directory. |
| `RefSyncTagUpToDate` | A tag whose ref is in the directory without being checked out (brought by the clone, or fetched before a failed checkout) is "up to date". |
| `OpenVoxSharedDir` | A new upstream production branch is synced through the alias into the default branch's directory. |
| `StandardZeroAge` | `gfetch sync --prune --prune-stale` with no age anywhere: the age is zero, every branch is skipped as stale however new, none is pruned, and the sync succeeds. |

`DirLockCleanerRace` needs the cleanup of one process and a worker of another;
within a process the in-process lock holds (`ImplementsProcessExclusion`).

### Known behaviours outside the properties

The models have these behaviours, or would with another instance, and a
property is limited because of them.

- Two cleanups: the second removes by name the file a worker has created and
  locked since the first removal. `HeldLockFileKept` is about one cleaner.
- A request past the `shuttingDown` check starts its sync after "all in-flight
  syncs stopped" is logged. `CleanStop` is about the return of `Run`.
- A crash between the alternates file and `CreateRemote` (or a dropped error
  of the former, or a killed clone of the resolver) leaves a repository
  without a usable `origin` that is accepted ever after: `cut` in `RefSync`.
- A branch and a tag of one name share a directory: the collision check
  compares names. The instances of `OpenVoxSync` have no such pair.
- A tag and a branch whose names sanitize to one directory name are no collision
  as long as no sync lists both. Listed by turns, the directory is checked out
  again only when the listed one is the branch, or the tag has to be fetched: a
  tag whose ref is still there from before is reported as up to date with the
  branch checked out. `ReportedInPlace` and `ImplementsVisits` promise nothing
  of what such a tag's directory has checked out; `UpToDateTagIsCheckedOut` is
  the run that refutes it.
- A failed or killed replacement of the alias can leave none until the next
  sync: the old link is removed first. The failure is only logged; the model
  records it in `err`, which `AliasFollowsDefault` excludes.
- After upstream drops its production branch the protected directory stays and
  the alias is never made. `AliasFollowsDefault` is checked without a branch
  of that name.
- A tag called production is synced through the alias like a branch of that
  name; `OwnDirs`, the hypothesis of two theorems, excludes both.
- When a new default branch fails to sync, the alias stays and pruning may
  remove the directory it leads to.
- A daemon request that looked up the repository before a reload dropped it
  starts its sync after the terminal 404, and two reloads can apply in the
  other order than they read the files. `JobsMatchConfig` is about the config
  that was applied last.
- Standard mode prunes nothing in a sync without a matched branch upstream,
  and no tag without a matched one: both functions return early. `InSync` asks
  for pruned branches as long as one matches.
- In standard mode a tag that was moved upstream is up to date for ever: only
  its presence is looked at. `Converges` asks no more of a tag.
- Any failure of the checkout, also a passing one, and a checkout tag that was
  just pruned, switch the tree to the default branch, and the sync succeeds.
  `DeployedInPlace` is about what the result says is checked out.
- A crash in `PlainInit` or before `CreateRemote` leaves something at
  `local_path` that every later sync opens and fails with: `Spoiled`.
- The help of `--stale-age` (`internal/cli/sync.go:83`) gives 6m and 1y as
  examples; 6m is six minutes, and 1y is refused.

## Fairness

- `KeyedLock`: weak fairness of the release, strong fairness of `Lock`:
  `sync.Mutex` hands the lock to a waiter in its starvation mode.
- `DirLock`: strong fairness of `FlockTimeout` is the deadline of
  `withOpenVoxLockTimeout`: once it passed, the next poll ends. Nothing is
  assumed of the cleanup, and of the work in the directory only that it ends.
- `Daemon`: goroutines run, the waits of `Run` are bounded by timeouts,
  `applyMu` is not withheld for ever, and gocron fires what is due. A sync may
  never return: no fairness is assumed at "sync", and `ReposPolled` counts a
  repository in which one is stuck as polled. It also excludes runs in which
  reloads never cease: each one puts the next fire one interval off.
- `RefSync`: weak fairness of the sync's steps: the daemon polls. Faults are
  bounded, so `Heals` says what follows once they stop.
- `OpenVoxSync`: weak fairness of the stages and of each worker.
- `StandardSync`: weak fairness of the sync's steps, `Poll` among them: the
  daemon polls, and a step that does not fail ends. None of the failures,
  commands and changes of the world is fair, and all are bounded.

## Proofs

| Module | Theorem | Statement |
|---|---|---|
| `KeyedLock_proofs` | `TypeCorrect`, `WaitersNotStranded`, `EntriesInUse`, `Refinement` | type invariant, `NoStrandedWaiter`, `NoIdleEntry`, `ImplementsExclusion` |
| `DirLock_proofs` | `TypeCorrect`, `NothingIsLeaked`, `ProcessRefinement` | type invariant, `NothingLeaked`, `ImplementsProcessExclusion`, with any cleaners |
| | `OneCleanerKeepsHeldFiles` | `HeldLockFileKept`, if there is at most one cleaner |
| | `LockFileExcludes` | `DirExclusion`, if there is no cleaner |
| `Daemon_proofs` | `TypeCorrect`, `GuardAndGroup`, `Refinement`, `JobsAreTheConfig`, `ShutdownIsClean` | type invariant, `GuardAndGroupExact`, `ImplementsExclusion`, `JobsMatchConfig`, `CleanStop` |
| `RefSync_proofs` | `TypeCorrect`, `ReportsCheckedOut`, `ObjectsKept`, `VisitRefinement`, `SyncBounded` | type invariant, `ReportedIsCheckedOut`, `BorrowedObjectsKept`, `ImplementsVisit`, `SyncIsBounded` |
| `OpenVoxSync_proofs` | `TypeCorrect`, `Barriers`, `RefsReported`, `SyncBounded` | type invariant, `PoolsAreBarriers`, `EveryRefReported`, `SyncIsBounded` |
| | `ReportedPlaces`, `AliasLeads`, `VisitsRefinement` | `ReportedInPlace`, `AliasFollowsDefault`, `ImplementsVisits`, if `OwnDirs` |
| `StandardSync_proofs` | `TypeCorrect`, `RefsAccounted`, `PrunesAsAsked`, `ReportedIsSynced`, `ReportedIsDeployed`, `PollsSkipStale`, `VisitsRefinement`, `SyncBounded` | type invariant, `EveryRefAccounted`, `PrunedAsAsked`, `SyncedInPlace`, `DeployedInPlace`, `PollSkipsStaleOnly`, `ImplementsVisits`, `SyncIsBounded` |

They hold for every value of the constants that satisfies the module's named
assumption: the sets of goroutines, threads, refs, directories and workers are
finite where they are counted, roles are disjoint, and the `No…` values are
outside their sets.

*KeyedLock.* `NoStrandedWaiter` is not inductive: that the last `Unref` may
drop the key follows from `RefsInv` (`refs` is the number of users) and from
`InjectiveInv` (no entry serves two keys). `OwnerInv` ties the mutex to the
goroutine in "held" and gives the refinement. `ForgetIsVain` shows that
`ForgetIfIdle` never changes anything.

*DirLock.* `KeyedInv` and `FlockInv` say who holds which lock at which place;
every step is an instance of a lemma for moving, closing or locking. The
conditions of the last two theorems are needed: with one cleaner
`DirLockCleanerRace` refutes `DirExclusion`, and with two `HeldLockFileKept`
fails as described above.

*Daemon.* `GuardInv` adds to the guard's contents that no two guarded threads
share a repository; all steps but `TryStart` and `FinishSync` are quiet.
`WgInv` counts threads. `JobInv` says how far the job table is off at each
place of a reload, and `applyMu` (in `TypeOK`) that there is one reload.
`StopInv` collects what each wait of `Run` has established.

*RefSync.* `FlowInv` says in which repository each step is, and that the cache
has at least the listed commit once the directory is looked at; it is needed
because the listing, the cache's fetch and the directory's fetch see different
upstreams. `RefInv` carries "fetched, then referenced, then checked out" over
the steps in between, so a crash anywhere leaves nothing reported.
`BorrowInv` adds that the resolver repository is never removed unless its
set-up was cut short: its removal would take the cache along.

*OpenVoxSync.* `StageInv` has the pools empty between the stages. `JobInv` and
`ReportInv` count a ref as queued, at a worker or reported, and once; that a
worker leaves only when the queue is drained needs `Workers # {}`, which the
code's count of at least one worker gives. `DirInv` says of a branch or a
fetched tag that it is in place from its report on, and of an up-to-date tag
only that its directory is there; it needs `OwnDirs`: no two
refs share a name and none has the directory of the alias. Then the collision
check leaves each ref its own directory. Without `OwnDirs` `OpenVoxSharedDir`
is a counterexample. `OwnDirs` allows a branch and a tag of different names in
one directory, which take turns there from one sync to the next.

*StandardSync.* The lemma `Settings` says what `opts` come to for any file and
flags; the properties about pruning and skipping rest on it and on `PlanInv`,
by which a sync keeps the options it was started with. `AccountInv` divides the
listed refs among the rest of the loop, the branch at hand and the result.
`PruneInv` says what a pruning loop still has to delete, and `PlaceInv` is
`SyncedInPlace` at every step: a branch is synced before the pruning judges it,
so it may go after it was reported, and only because its commit is old.

*The visits.* Each of the three refinements of `RefVisit` maps every step of a
sync to one step of the visit of each ref, or to none. In `RefSync` this needs
`VisitInv` (the directory has a repository where the sync relies on one, and a
reported ref is there) beside `FlowInv` and `RefInv`. In `OpenVoxSync` it needs
`JobInv` (one worker has a ref, and it is not reported yet), `StageInv` (no
visit outside the pools) and `DirInv`, hence `OwnDirs`: two refs listed
together in one directory disturb each other's report, and the collision check does not see a
branch and a tag of one name. In `StandardSync` it needs all of its invariants:
`PlaceInv` says that a reported ref is no older than listed, `AccountInv` that
it is not visited again, and `PruneInv` that only branches are pruned after
they were reported.

*Termination.* `SyncIsBounded` is the part of termination that is an action
property: each step of a sync lowers a measure that cannot fall for ever, the
stages left and then the work left in the stage. In `OpenVoxSync` the latter
counts jobs, workers by their state, and directories, with any interleaving of
the workers; in `StandardSync` the refs left in a loop; in `RefSync` a removal
and recreation happens once (`AttemptInv`: the retry is the last attempt, and
the resolver has none). What a visit does inside its directory is excepted in
`OpenVoxSync` and bounded in `RefSync`. That a step is taken at all is
fairness, and with it `SyncEnds`, `Heals` and `Converges` are TLC's.

Only model-checked: the liveness properties (`AcquireReturns`,
`LockAttemptEnds`, `ShutdownCompletes`, `ReposPolled`, `Heals`, `SyncEnds`,
`Converges`), since TLAPS has no fairness or `ENABLED` here. Every safety
property of a passing run has a theorem.

## Not modelled

- Reading and parsing configuration files, names, URLs and durations, and the
  partial result of `Validate`, which `Daemon` has as accepted or refused:
  string handling without state.
- Flag parsing and output of the command line; authentication, known hosts and
  telemetry, which keep no state that another part reads.
- Two syncs of one working copy in standard mode. The daemon's guard excludes
  them inside a process; nothing does between processes, and what go-git does
  then is not known.
- Which of the failed openvox syncs judge a commit that was not fetched: stale
  pruning is a free choice in `OpenVoxSync`.
- go-git, gocron, net/http, the kernel: external, by what the code expects.
- Legacy `<dir>.gfetch.lock` files: the cleanup removes them, nothing takes
  them any more.
- The second listing of `syncCache` after a ref vanished: its refs go to the
  cache only, while the directories still follow the first listing.
- Lock files under the resolver repository that is removed by a migration.
- The resolver lock: syncs of one repository are serialised by the guard
  inside a process, and it does not exist between processes.

## Plan

Done so far: the locks, the daemon, both kinds of sync, the effect of the
configuration on a sync, the abstract lock and the abstract visit with their
implementations, and proofs of all safety properties. Left:

1. `Config`: `Validate` over several repositories with partial results and
   `ParseDuration` against a reference definition; composed with the daemon's
   start-up and reload.
2. What callers of the daemon's API are told: a history of terminal 404s and
   acknowledged reloads beside `Daemon`.
3. Two processes syncing one `local_path`: `OpenVoxSync` over `DirLock`, with
   the abstract lock of each process in place of `IsOpen`, and what is left of
   `RefVisit` then.
4. Commit ages in `OpenVoxSync` in place of the free choice, as in
   `StandardSync`.
