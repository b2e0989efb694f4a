------------------------------- MODULE RefSync -------------------------------
(***************************************************************************)
(* One openvox sync of one ref into its directory (pkg/gsync/openvox.go,   *)
(* branch.go): the resolver repository <local_path>/.gfetch-meta lists the *)
(* upstream, the shared cache .gfetch-meta/cache.git is fetched, and the   *)
(* directory's own repository, which borrows the cache's objects, fetches  *)
(* the ref and checks it out.  Syncs follow one another for ever, and any  *)
(* of their steps can fail, be cancelled or be cut short by a crash.       *)
(*                                                                         *)
(* The commits of the ref are numbered in the order they were pushed.      *)
(* git's own work (clone, fetch, checkout) is external: the model keeps    *)
(* what the code reads back of it afterwards.                              *)
(***************************************************************************)
EXTENDS Integers

CONSTANTS MaxVersion,  \* bound on the pushes
          MaxFaults,   \* bound on everything that goes wrong
          NoRef, Broken, Other, NoCache, Empty

Versions == 0 .. MaxVersion

ASSUME RefSyncAssumption ==
    /\ MaxVersion \in Nat /\ MaxFaults \in Nat
    /\ {NoRef, Broken, Other, NoCache, Empty} \cap Int = {}
    /\ NoRef # Broken /\ NoCache # Empty

VARIABLES
    kind,       \* the ref is a branch or a tag
    up,         \* the ref's commit upstream
    cache,      \* the ref's commit in cache.git
    repo,       \* is there a repository, its alternates, its remote "origin"
    ref,        \* refs/heads/<ref> or refs/tags/<ref> in the directory
    track,      \* refs/remotes/origin/<ref> in the directory
    head,       \* HEAD is the ref
    tree,       \* the version checked out; Other: none, or not exactly one
    pc, who,    \* where the sync is, and in which repository
    attempt,    \* first try, the recreation after it, or the retry
    listed,     \* remoteHash: the commit the listing gave
    updated,
    cancelled,  \* ctx is done
    outcome,    \* what the last sync put into its Result for the ref
    faults,
    cut         \* history: the set-up of a repository was cut short

upstreamVars == <<up, cache>>
dirVars == <<ref, track, head, tree>>
syncVars == <<who, attempt, listed, updated>>
faultVars == <<faults, cut>>
vars == <<kind, upstreamVars, repo, dirVars, pc, syncVars, cancelled, outcome, faultVars>>

Gone == [git |-> FALSE, alt |-> FALSE, remote |-> "none"]
Cloned == [git |-> TRUE, alt |-> TRUE, remote |-> "cache"]
RefValues == Versions \cup {NoRef, Broken}

Places == {"idle", "open", "remove", "clone", "init", "alternates", "remote", "list",
           "cache", "start", "check", "fetch", "setref", "state", "checkout", "reset"}

TypeOK ==
    /\ kind \in {"branch", "tag"} /\ up \in Versions
    /\ cache \in Versions \cup {NoCache, Empty}
    /\ repo \in [{"resolver", "dir"} ->
                   [git : BOOLEAN, alt : BOOLEAN, remote : {"none", "url", "cache"}]]
    /\ ref \in RefValues /\ track \in RefValues
    /\ head \in BOOLEAN
    /\ tree \in Versions \cup {Other}
    /\ pc \in Places
    /\ who \in {"resolver", "dir"}
    /\ attempt \in {"first", "recreate", "retry"}
    /\ listed \in Versions \cup {NoRef}
    /\ updated \in BOOLEAN /\ cancelled \in BOOLEAN
    /\ outcome \in {"none", "synced", "uptodate", "failed", "skipped"}
    /\ faults \in 0 .. MaxFaults /\ cut \in BOOLEAN

Init ==
    /\ kind \in {"branch", "tag"} /\ up = 0 /\ cache = NoCache
    /\ repo = [w \in {"resolver", "dir"} |-> Gone]
    /\ ref = NoRef /\ track = NoRef /\ head = FALSE /\ tree = Other
    /\ pc = "idle" /\ who = "resolver" /\ attempt = "first"
    /\ listed = NoRef /\ updated = FALSE /\ cancelled = FALSE
    /\ outcome = "none" /\ faults = 0 /\ cut = FALSE

Fault ==
    /\ faults < MaxFaults /\ faults' = faults + 1
    /\ UNCHANGED kind

\* An error or a crash that ends a set-up at one of the steps in places: from
\* there on PlainOpen and the alternates can be fine without the remote.
Interrupt(places) == Fault /\ cut' = (cut \/ pc \in places)

\* A step of the sync that goes on to another one.
Move(from, to) ==
    /\ pc = from /\ pc' = to
    /\ UNCHANGED <<kind, up, cancelled, outcome, faultVars>>

\* The sync ends, having reported out for the ref.
Report(out) == pc' = "idle" /\ outcome' = out /\ UNCHANGED <<up, cancelled>>
End(out) == Report(out) /\ UNCHANGED <<kind, faultVars>>

EmptyDir == ref' = NoRef /\ track' = NoRef /\ head' = FALSE /\ tree' = Other

\* Where getRepoWithSharedCache returns to, in either repository.
Ready == IF who = "resolver" THEN "list" ELSE IF attempt = "recreate" THEN "start" ELSE "check"

\* The commit a fetch from the directory's remote brings.
Source == IF repo["dir"].remote = "url" THEN up ELSE cache
-----------------------------------------------------------------------------
(* getRepoWithSharedCache, for the resolver and for the directory.         *)

\* PlainInit of the cache, then PlainOpen; only a repository that borrows
\* from this cache is used, another one is removed.
Open ==
    /\ \/ repo[who].alt /\ Move("open", Ready)
       \/ repo[who].git /\ ~ repo[who].alt /\ Move("open", "remove")
       \/ ~ repo[who].git /\ Move("open", "clone")
    /\ cache' = IF cache = NoCache THEN Empty ELSE cache
    /\ UNCHANGED <<repo, dirVars, syncVars>>

\* os.RemoveAll(repoPath); the resolver's path holds the cache, too.
Remove ==
    /\ Move("remove", "clone")
    /\ repo' = [repo EXCEPT ![who] = Gone]
    /\ IF who = "resolver" THEN cache' = NoCache /\ UNCHANGED dirVars
                           ELSE EmptyDir /\ UNCHANGED cache
    /\ UNCHANGED syncVars

\* A clone has the cache as its origin, and the ref as a local branch only if
\* the cache's HEAD is that branch; it may bring the tags along.
ClonedRef ==
    /\ track' = IF kind = "branch" THEN cache ELSE NoRef
    /\ \/ ref' = NoRef /\ head' = FALSE /\ tree' = Other
       \/ kind = "branch" /\ ref' = cache /\ head' = TRUE /\ tree' = cache
       \/ kind = "tag" /\ ref' = cache /\ head' = FALSE /\ tree' = Other

Clone ==
    /\ cache \in Versions
    /\ Move("clone", "remote")
    /\ repo' = [repo EXCEPT ![who] = Cloned]
    /\ IF who = "dir" THEN ClonedRef ELSE UNCHANGED dirVars
    /\ UNCHANGED <<cache, syncVars>>

\* "remote repository is empty".
CloneEmpty ==
    /\ cache = Empty
    /\ Move("clone", "init")
    /\ UNCHANGED <<cache, repo, dirVars, syncVars>>

\* os.RemoveAll of .git and PlainInit.
InitRepo ==
    /\ Move("init", "alternates")
    /\ repo' = [repo EXCEPT ![who] = [Gone EXCEPT !.git = TRUE]]
    /\ UNCHANGED <<cache, dirVars, syncVars>>

\* A set-up that forgets the alternates file.
ForgetAlternates == UNCHANGED repo

AddAlternates == repo' = [repo EXCEPT ![who].alt = TRUE]

WriteAlternates ==
    /\ Move("alternates", "remote")
    /\ AddAlternates
    /\ UNCHANGED <<cache, dirVars, syncVars>>

\* CreateRemote, whose ErrRemoteExists is ignored.
CreateRemote ==
    /\ Move("remote", Ready)
    /\ repo' = [repo EXCEPT ![who].remote = IF @ = "none" THEN "url" ELSE @]
    /\ UNCHANGED <<cache, dirVars, syncVars>>
-----------------------------------------------------------------------------
(* syncRepoOpenVox up to the directory.                                    *)

\* A new sync, by the next poll or by a new process.
StartSync ==
    /\ pc = "idle" /\ pc' = "open"
    /\ who' = "resolver" /\ attempt' = "first"
    /\ listed' = NoRef /\ updated' = FALSE /\ cancelled' = FALSE
    /\ outcome' = "none"
    /\ UNCHANGED <<kind, upstreamVars, repo, dirVars, faultVars>>

\* Only "remote not found" is an error.
NoOrigin == repo["resolver"].remote = "none"

\* "remote not found" and "remote repository is empty".
NothingListed ==
    \/ repo["resolver"].remote = "none"
    \/ repo["resolver"].remote = "cache" /\ cache = Empty

ListRemote ==
    /\ Move("list", "cache")
    /\ ~ NothingListed
    /\ listed' = IF repo["resolver"].remote = "url" THEN up ELSE cache
    /\ UNCHANGED <<cache, repo, dirVars, who, attempt, updated>>

\* A cache that is filled once.
FillCache == cache' = IF cache \in Versions THEN cache ELSE up

FetchCache == cache' = up

\* SyncCentralCache fetches the listed refs from the URL, into the cache.
SyncCentralCache ==
    /\ Move("cache", "start")
    /\ FetchCache
    /\ who' = "dir"
    /\ UNCHANGED <<repo, dirVars, attempt, listed, updated>>
-----------------------------------------------------------------------------
(* syncOpenVoxBranchOnce and syncOpenVoxTagOnce.                           *)

StartOnce ==
    /\ Move("start", "open")
    /\ ~ cancelled
    /\ attempt' = IF attempt = "recreate" THEN "retry" ELSE attempt
    /\ UNCHANGED <<cache, repo, dirVars, who, listed, updated>>

\* A branch goes on to the check of the working tree; a tag is done.
UpToDate ==
    /\ pc = "check" /\ ref = listed
    /\ updated' = FALSE
    /\ IF kind = "branch" THEN Move("check", "state") ELSE End("uptodate")
    /\ UNCHANGED <<cache, repo, dirVars, who, attempt, listed>>

NotUpToDate ==
    /\ ref # listed
    /\ Move("check", "fetch")
    /\ UNCHANGED <<cache, repo, dirVars, syncVars>>

\* A fetch reads all refs of the directory; one without contents is an error.
CanFetch == repo["dir"].remote # "none" /\ Broken \notin {ref, track}

\* A branch is fetched into its remote-tracking ref.
FetchBranch ==
    /\ kind = "branch"
    /\ Move("fetch", "setref") /\ CanFetch
    /\ track' = Source
    /\ UNCHANGED <<cache, repo, ref, head, tree, syncVars>>

\* A tag is fetched into itself.
FetchTag ==
    /\ kind = "tag"
    /\ Move("fetch", "checkout") /\ CanFetch
    /\ ref' = Source
    /\ updated' = (ref # Source)
    /\ UNCHANGED <<cache, repo, track, head, tree, who, attempt, listed>>

\* syncBranch moves the local branch to the fetched commit.
SetReference ==
    /\ Move("setref", "state")
    /\ ref' = track
    /\ updated' = (ref # track)
    /\ UNCHANGED <<cache, repo, track, head, tree, who, attempt, listed>>

\* shouldCheckoutBranch that trusts the refs and does not look at the tree.
TrustTree == updated \/ ~ head

\* shouldCheckoutBranch: an update, another HEAD, or a tree that is not clean.
NeedsCheckout == updated \/ ~ head \/ tree # ref

CheckState ==
    /\ pc = "state"
    /\ IF NeedsCheckout THEN Move("state", "checkout") ELSE End("uptodate")
    /\ UNCHANGED <<cache, repo, dirVars, syncVars>>

\* wt.Checkout with Force.
Checkout ==
    /\ Move("checkout", "reset")
    /\ ~ cancelled
    /\ head' = TRUE /\ tree' = ref
    /\ UNCHANGED <<cache, repo, ref, track, syncVars>>

\* wt.Reset to the commit of the ref, then the ref is reported.
Reset ==
    /\ pc = "reset" /\ ~ cancelled
    /\ tree' = ref
    /\ End(IF updated THEN "synced" ELSE "uptodate")
    /\ UNCHANGED <<cache, repo, ref, track, head, syncVars>>

\* A recreation after every error, of the retry, too.
AnyTime == attempt \in {"first", "retry"}

OnFirst == attempt = "first"

\* recreateOpenVoxRepo removes the directory and sets it up again, once.
Recreate ==
    /\ OnFirst /\ attempt' = "recreate"
    /\ pc' = "remove"
    /\ UNCHANGED <<upstreamVars, repo, dirVars, who, listed, updated, cancelled, outcome>>

\* "ref file is empty", as a crash can leave it.
RecreateBroken ==
    /\ pc = "fetch" /\ Broken \in {ref, track}
    /\ Recreate
    /\ UNCHANGED <<kind, faultVars>>

\* No listing is possible.
NoRemote ==
    /\ pc = "list" /\ NothingListed
    /\ End("failed")
    /\ UNCHANGED <<cache, repo, dirVars, syncVars>>

\* A clone from a cache that was removed with the resolver.
NothingToClone ==
    /\ pc = "clone" /\ cache = NoCache
    /\ End("failed")
    /\ UNCHANGED <<cache, repo, dirVars, syncVars>>

\* ctx.Err() at the check before a step, or the error of a call that got ctx.
Skip ==
    /\ cancelled
    /\ pc \in {"list", "cache", "start", "fetch", "checkout", "reset"}
    /\ End("skipped")
    /\ UNCHANGED <<cache, repo, dirVars, syncVars>>
-----------------------------------------------------------------------------
(* What goes wrong.                                                        *)

\* The working tree is left as a failed or killed checkout leaves it.
MaybeTorn == tree' \in IF pc \in {"checkout", "reset"} THEN {tree, Other} ELSE {tree}

\* A call returns an error nobody repairs.
Fail ==
    /\ pc \notin {"idle", "remove", "alternates", "start", "check", "state"}
    /\ Interrupt({"remote"}) /\ Report("failed")
    /\ MaybeTorn
    /\ UNCHANGED <<cache, repo, ref, track, head, syncVars>>

\* The error of os.WriteFile is dropped.
AlternatesFail ==
    /\ pc = "alternates" /\ pc' = "remote" /\ Interrupt({"alternates"})
    /\ UNCHANGED <<upstreamVars, repo, dirVars, syncVars, cancelled, outcome>>

\* io.EOF, on any call on the directory's repository.
Recover ==
    /\ pc \in {"fetch", "setref", "state", "checkout", "reset"} \/ (pc = "clone" /\ who = "dir")
    /\ Recreate
    /\ Fault /\ UNCHANGED cut

\* The first state check of a branch fails otherwise: the checkout is forced.
StateUnknown ==
    /\ pc = "state" /\ pc' = "checkout" /\ Fault /\ UNCHANGED cut
    /\ UNCHANGED <<upstreamVars, repo, dirVars, syncVars, cancelled, outcome>>

\* Shutdown, or a sync timeout of the caller.
Cancel ==
    /\ pc # "idle" /\ ~ cancelled
    /\ cancelled' = TRUE /\ Fault /\ UNCHANGED cut
    /\ UNCHANGED <<upstreamVars, repo, dirVars, pc, syncVars, outcome>>

\* What a killed clone or removal leaves of a repository, refs aside.
Debris(r) ==
    CASE pc = "clone" -> {r, [Cloned EXCEPT !.alt = FALSE], Cloned}
      [] pc = "remove" -> {r, Gone}
      [] OTHER -> {r}

\* A killed process; a ref file being written can be left empty.
Crash ==
    /\ pc # "idle" /\ pc' = "idle"
    /\ Interrupt({"alternates", "remote"} \cup IF who = "resolver" THEN {"clone"} ELSE {})
    /\ \E left \in Debris(repo[who]) : repo' = [repo EXCEPT ![who] = left]
    /\ ref' \in IF pc = "setref" \/ (pc = "fetch" /\ kind = "tag") THEN {ref, Broken} ELSE {ref}
    /\ track' \in IF pc = "fetch" /\ kind = "branch" THEN {track, Broken} ELSE {track}
    /\ MaybeTorn
    /\ outcome' = "none"
    /\ UNCHANGED <<upstreamVars, head, syncVars, cancelled>>

\* Somebody edits the deployed files between two syncs.
EditByHand ==
    /\ pc = "idle" /\ repo["dir"].git
    /\ tree' = Other /\ outcome' = "none" /\ Fault /\ UNCHANGED cut
    /\ UNCHANGED <<upstreamVars, repo, ref, track, head, pc, syncVars, cancelled>>

Push ==
    /\ up < MaxVersion
    /\ up' = up + 1
    /\ UNCHANGED <<kind, cache, repo, dirVars, pc, syncVars, cancelled, outcome, faultVars>>

GetRepo ==
    \/ Open \/ Remove \/ Clone \/ CloneEmpty \/ NothingToClone \/ InitRepo
    \/ WriteAlternates \/ CreateRemote

Sync ==
    \/ GetRepo \/ StartSync \/ ListRemote \/ SyncCentralCache \/ StartOnce
    \/ UpToDate \/ NotUpToDate \/ FetchBranch \/ FetchTag \/ SetReference
    \/ CheckState \/ Checkout \/ Reset \/ NoRemote \/ Skip
    \/ RecreateBroken

Trouble ==
    \/ Fail \/ AlternatesFail \/ Recover \/ StateUnknown \/ Cancel \/ Crash \/ EditByHand

Next == Sync \/ Trouble \/ Push

Spec == Init /\ [][Next]_vars

\* The daemon polls, and a step that does not fail ends.
FairSpec == Spec /\ WF_vars(Sync)
-----------------------------------------------------------------------------
\* A branch reported as synced or up to date, and a tag reported as fetched,
\* is what the directory contains: HEAD is at the ref, the working tree is the
\* ref's commit, and that commit is no older than the one this sync listed
\* (configuration.md:95).
CheckedOut == head /\ tree = ref /\ listed <= ref

ReportedIsCheckedOut ==
    outcome = "synced" \/ (outcome = "uptodate" /\ kind = "branch") => CheckedOut

\* The same of a tag that is reported as up to date.
UpToDateTagIsCheckedOut == outcome = "uptodate" /\ kind = "tag" => CheckedOut

\* The directory borrows its objects: every commit its refs name is in the
\* cache, which no fetch moves back and no migration removes under it, unless
\* the set-up of a repository was cut short.
BorrowedObjectsKept ==
    ~ cut => \A v \in {ref, track} \cap Versions : cache \in Versions /\ v <= cache

\* The directory, a visit to it and its report, as RefVisit sees them.  The
\* resolver does not visit, and of an up-to-date tag nothing is promised.
VisitContent ==
    IF ~ repo["dir"].git THEN "absent"
    ELSE IF ref \in Versions /\ head /\ tree = ref THEN "ref" ELSE "other"

VisitInside == pc # "idle" /\ who = "dir"

VisitReport ==
    CASE outcome = "failed" -> "failed"
      [] outcome = "synced" \/ (outcome = "uptodate" /\ kind = "branch") -> "done"
      [] OTHER -> "none"

Visit == INSTANCE RefVisit
    WITH content <- VisitContent, inside <- VisitInside, report <- VisitReport, Prunable <- FALSE

\* A sync of a ref is a visit: whatever its steps leave behind when they fail or
\* are repeated, it ends in one report, and that the ref is in place is only
\* reported as the directory gets it.
ImplementsVisit == Visit!Spec

\* The visits a sync may still begin: to the resolver, a first one, one to
\* recreate the directory, and the retry.
VisitsLeft ==
    CASE who = "resolver" \/ (attempt = "first" /\ pc = "start") -> 3
      [] who = "dir" /\ attempt = "first" /\ pc # "start" -> 2
      [] who = "dir" /\ attempt = "recreate" -> 1
      [] who = "dir" /\ attempt = "retry" -> 0

\* The way through a visit, from its end.
PlacesLeft ==
    CASE pc = "open" -> 15      [] pc = "remove" -> 14  [] pc = "clone" -> 13 [] pc = "init" -> 12
      [] pc = "alternates" -> 11 [] pc = "remote" -> 10 [] pc = "list" -> 9   [] pc = "cache" -> 8
      [] pc = "check" -> 7      [] pc = "fetch" -> 6    [] pc = "setref" -> 5 [] pc = "state" -> 4
      [] pc = "checkout" -> 3   [] pc = "reset" -> 2    [] pc = "start" -> 1

StepsLeft == IF pc = "idle" THEN 0 ELSE 16 * VisitsLeft + PlacesLeft

\* A sync never goes round in a circle: whatever fails in it, it does at most 63
\* steps, as the directory is recreated once (openvox.go:920).
SyncIsBounded ==
    [][StepsLeft' < StepsLeft \/ StartSync \/ Cancel \/ EditByHand \/ Push]_vars

\* Whatever failed, was cancelled, killed or edited: once that stops, syncs
\* bring a branch's directory to the upstream commit, and it stays there,
\* unless the set-up of a repository was cut short.
Heals ==
    kind = "branch" => <>[](cut \/ (tree = up /\ head /\ outcome \notin {"failed", "skipped"}))
=============================================================================
