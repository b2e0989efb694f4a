---------------------------- MODULE StandardSync ----------------------------
(***************************************************************************)
(* The standard sync (pkg/gsync/syncer.go, branch.go, tag.go, prune.go,    *)
(* refs.go): one working copy has a local branch per matched branch of the *)
(* upstream, its tags, and one of them checked out.  A sync lists, fetches *)
(* the branches one after another, prunes obsolete and stale ones, fetches *)
(* and prunes tags, and checks out.  Syncs follow one another, by the      *)
(* daemon or from the command line, while the upstream changes between any *)
(* two of their steps, and the configuration between the syncs.            *)
(*                                                                         *)
(* A ref's commits are numbered in the order they were pushed.  Whether a  *)
(* commit is older than the stale age is up to time: the commits of b up   *)
(* to aged[b] are.  Branches and tags have different names.                *)
(***************************************************************************)
EXTENDS RepoConfig, FiniteSets

CONSTANTS BranchNames, TagNames,
          Files,       \* the configurations: an entry and the global defaults
          Commands,    \* the flags of gfetch sync, as sets
          MaxVersion,  \* bound on the pushes to a ref
          MaxChanges,  \* bound on what the world does: upstream, time, people
          MaxFaults,   \* bound on everything that goes wrong
          NoRef, Other

Names == BranchNames \cup TagNames
Versions == 0 .. MaxVersion

ASSUME StandardAssumption ==
    /\ BranchNames \cap TagNames = {} /\ NoRef \notin Names /\ IsFiniteSet(Names)
    /\ \A file \in Files : Valid(Loaded(file)) /\ ~ Loaded(file).openvox
    /\ \A file \in Files, f \in Flags : {file.entry[f], file.defaults[f]} \subseteq BOOLEAN \cup {Unset}
    /\ \A flags \in Commands : flags \subseteq {"prune", "prune_stale", "stale_age", "dry"}
    /\ MaxVersion \in Nat /\ MaxChanges \in Nat /\ MaxFaults \in Nat
    /\ {NoRef, Other} \cap Int = {}

VARIABLES
    up,         \* the refs upstream
    default,    \* the branch of upstream's HEAD
    aged,       \* the last commit of a branch that is old; -1 for none
    file,       \* the configuration
    repo,       \* local_path: nothing, no repository, without a remote, complete
    local,      \* refs/heads and refs/tags
    track,      \* refs/remotes/origin
    head, tree, \* the ref HEAD is at, and its version in the working tree
    pc,
    flags, opts,         \* the command's flags, and what they come to
    listed, dflt,        \* the listing: matched refs, default branch
    todo, cur,           \* the rest of a loop, and the branch being synced
    done, failed, skipped, pruned, deployed, err,  \* the Result
    cancelled,  \* ctx is done
    changes, faults

upstreamVars == <<up, default, aged>>
refVars == <<local, track>>
copyVars == <<refVars, head, tree>>
planVars == <<flags, opts, listed, dflt>>
refResults == <<done, failed, skipped, pruned>>
resultVars == <<refResults, deployed, err>>
worldVars == <<upstreamVars, file>>
vars == <<worldVars, repo, copyVars, pc, planVars, todo, cur, resultVars, cancelled, changes, faults>>

conf == Loaded(file)
Branches == Matched(conf, "branches") \cap BranchNames
Tags == Matched(conf, "tags") \cap TagNames
Found(ns) == {n \in ns : listed[n] # NoRef}
Targets == [Names -> Versions \cup {NoRef}]

\* Beyond the types: only matched refs are listed, and a step has what it works on.
TypeOK ==
    /\ up \in Targets /\ default \in BranchNames \cup {NoRef}
    /\ aged \in [BranchNames -> Versions \cup {-1}]
    /\ file \in Files
    /\ repo \in {"none", "stub", "bare", "ready"}
    /\ local \in Targets
    /\ track \in [BranchNames -> Versions \cup {NoRef}]
    /\ head \in Names \cup {NoRef} /\ tree \in Versions \cup {Other}
    /\ pc \in {"idle", "open", "init", "remote", "list", "branches", "setref", "obsolete", "stale",
               "tags", "tagprune", "checkout", "fallback", "ended"}
    /\ flags \subseteq {"prune", "prune_stale", "stale_age", "dry"}
    /\ opts \subseteq {"prune", "stale", "aged", "dry"}
    /\ listed \in Targets /\ dflt \in BranchNames \cup {NoRef}
    /\ todo \subseteq Names /\ cur \in BranchNames \cup {NoRef}
    /\ done \subseteq Names /\ failed \subseteq Names
    /\ skipped \subseteq BranchNames /\ pruned \subseteq Names
    /\ deployed \in Names \cup {NoRef} /\ err \in BOOLEAN /\ cancelled \in BOOLEAN
    /\ changes \in 0 .. MaxChanges /\ faults \in 0 .. MaxFaults
    /\ Found(Names) \subseteq Branches \cup Tags
    /\ pc = "setref" => cur # NoRef
    /\ pc = "fallback" => dflt # NoRef

NoTargets == [n \in Names |-> NoRef]

Init ==
    /\ up = [n \in Names |-> 0] /\ default \in BranchNames
    /\ aged = [b \in BranchNames |-> -1]
    /\ file \in Files /\ repo = "none"
    /\ local = NoTargets /\ track = [b \in BranchNames |-> NoRef]
    /\ head = NoRef /\ tree = Other
    /\ pc = "idle" /\ flags = {} /\ opts = {} /\ listed = NoTargets /\ dflt = NoRef
    /\ todo = {} /\ cur = NoRef
    /\ done = {} /\ failed = {} /\ skipped = {} /\ pruned = {} /\ deployed = NoRef /\ err = FALSE
    /\ cancelled = FALSE /\ changes = 0 /\ faults = 0

\* A step of the sync that goes on to another one.
Move(from, to) ==
    /\ pc = from /\ pc' = to
    /\ UNCHANGED <<worldVars, flags, opts, cancelled, changes, faults>>

\* Such a step that only decides.
Skip(from, to) == Move(from, to) /\ UNCHANGED <<repo, copyVars, listed, dflt, cur, resultVars>>

\* An error that ends the sync, or the last step of it.
GiveUp(from) ==
    /\ Move(from, "ended") /\ err' = TRUE
    /\ UNCHANGED <<repo, listed, dflt, todo, cur, refResults, deployed>>

\* What fails may have done so because ctx is done.
Fault ==
    /\ faults < MaxFaults /\ faults' = faults + 1
    /\ cancelled' \in {cancelled, TRUE}
    /\ UNCHANGED <<worldVars, flags, opts, changes>>
-----------------------------------------------------------------------------
(* SyncRepo up to the listing.                                             *)

\* Nothing of a sync outlives it but the working copy.
Forget ==
    /\ listed' = NoTargets /\ dflt' = NoRef /\ todo' = {} /\ cur' = NoRef
    /\ done' = {} /\ failed' = {} /\ skipped' = {} /\ pruned' = {} /\ deployed' = NoRef
    /\ err' = FALSE /\ cancelled' = FALSE

Begin(fs) ==
    /\ pc \in {"idle", "ended"} /\ pc' = "open"
    /\ flags' = fs /\ opts' = Effective(conf, fs)
    /\ Forget
    /\ UNCHANGED <<worldVars, repo, copyVars, faults>>

Poll == Begin({}) /\ UNCHANGED changes

\* gfetch sync, or a POST /sync, which has no flags.
Command ==
    /\ changes < MaxChanges /\ changes' = changes + 1
    /\ \E fs \in Commands : Begin(fs)

\* ensureCloned: whatever there is at local_path is opened.
Open ==
    /\ \/ repo = "none" /\ Skip("open", "init")
       \/ repo \in {"bare", "ready"} /\ Skip("open", "list")
    /\ UNCHANGED todo

\* PlainOpen of what is no repository, for ever.
OpenFails == repo = "stub" /\ GiveUp("open") /\ UNCHANGED copyVars

PlainInit ==
    /\ Move("init", "remote") /\ repo' = "bare"
    /\ UNCHANGED <<copyVars, listed, dflt, todo, cur, resultVars>>

CreateRemote ==
    /\ Move("remote", "list") /\ repo' = "ready"
    /\ UNCHANGED <<copyVars, listed, dflt, todo, cur, resultVars>>

\* A listing that forgets the patterns.
Everything(ns) == up

Matching(ns) == [n \in Names |-> IF n \in ns THEN up[n] ELSE NoRef]

\* listRemoteRefs and extractRemoteRefState.  Without a matched branch
\* syncBranches returns at once, and nothing is pruned.
List ==
    /\ repo = "ready" /\ up # NoTargets
    /\ listed' = Matching(Branches \cup Tags) /\ dflt' = default
    /\ todo' = {b \in Branches : up[b] # NoRef}
    /\ Move("list", IF todo' = {} THEN "tags" ELSE "branches")
    /\ UNCHANGED <<repo, copyVars, cur, resultVars>>

\* "remote not found", for ever, or "remote repository is empty".
ListFails ==
    /\ repo # "ready" \/ up = NoTargets
    /\ GiveUp("list") /\ UNCHANGED copyVars
-----------------------------------------------------------------------------
(* syncBranches.                                                           *)

Old(b, v) == v <= aged[b]

\* IsStale: every commit is older than an age of zero.
IsStale(b) == {"prune", "stale"} \subseteq opts /\ ("aged" \in opts => Old(b, listed[b]))

\* The commit of a branch that has moved since the listing may not be there to
\* look at; then the branch is synced.
ToSync(b) == ~ IsStale(b) \/ up[b] # listed[b]

\* A loop that comes to a ref again.
TakeAgain(b) == b \in todo /\ UNCHANGED todo

Take(b) == b \in todo /\ todo' = todo \ {b}

SkipStale(b) ==
    /\ Move("branches", "branches") /\ Take(b) /\ ~ cancelled
    /\ IsStale(b) /\ skipped' = skipped \cup {b}
    /\ UNCHANGED <<repo, copyVars, listed, dflt, cur, done, failed, pruned, deployed, err>>

\* syncBranch: the fetch into the remote-tracking ref.
FetchBranch(b) ==
    /\ Move("branches", "setref") /\ Take(b) /\ ~ cancelled
    /\ ToSync(b) /\ up[b] # NoRef
    /\ track' = [track EXCEPT ![b] = up[b]] /\ cur' = b
    /\ UNCHANGED <<repo, local, head, tree, listed, dflt, resultVars>>

\* A failure that is only logged.
BranchForgotten(b) ==
    /\ Move("branches", "branches") /\ Take(b) /\ ~ cancelled
    /\ ToSync(b) /\ up[b] = NoRef
    /\ UNCHANGED <<repo, copyVars, listed, dflt, cur, resultVars>>

\* Deleted upstream since the listing.
BranchGone(b) ==
    /\ Move("branches", "branches") /\ Take(b) /\ ~ cancelled
    /\ ToSync(b) /\ up[b] = NoRef
    /\ failed' = failed \cup {b}
    /\ UNCHANGED <<repo, copyVars, listed, dflt, cur, done, skipped, pruned, deployed, err>>

\* A local branch that is only created, never moved.
CreateOnly == local' = [local EXCEPT ![cur] = IF @ = NoRef THEN track[cur] ELSE @]

MoveBranch == local' = [local EXCEPT ![cur] = track[cur]]

\* ... and the local branch is moved there, or is there.
SetReference ==
    /\ Move("setref", "branches")
    /\ MoveBranch /\ done' = done \cup {cur} /\ cur' = NoRef
    /\ UNCHANGED <<repo, track, head, tree, listed, dflt, todo, failed, skipped, pruned, deployed, err>>

\* ctx.Err() in the loop: no branch is pruned.
BranchesCut ==
    /\ Skip("branches", "tags")
    /\ cancelled /\ todo # {} /\ todo' = {}

\* pruneBranches that forgets the checkout.
AnyBranch(bs) == bs

\* The branch to be checked out is not pruned.
NotCheckout(bs) == bs \ {conf.checkout}

LocalBranches == {b \in BranchNames : local[b] # NoRef}

\* findObsoleteBranches.
BranchesDone ==
    /\ Skip("branches", "obsolete")
    /\ todo = {}
    /\ todo' = IF "prune" \in opts THEN NotCheckout(LocalBranches \ Branches) ELSE {}

\* findStaleBranches: no branch is older than an age of zero, and what counts
\* is the commit of the local branch.
ObsoleteDone ==
    /\ todo = {}
    /\ IF "stale" \in opts
         THEN /\ Skip("obsolete", "stale")
              /\ todo' = IF "aged" \in opts
                           THEN NotCheckout({b \in LocalBranches \cap Branches : Old(b, local[b])})
                           ELSE {}
         ELSE Skip("obsolete", "tags") /\ UNCHANGED todo

StaleDone == Skip("stale", "tags") /\ todo = {} /\ UNCHANGED todo

\* deleteBranch: the local branch, then its remote-tracking ref.
PruneBranch(b) ==
    /\ Move(pc, pc) /\ pc \in {"obsolete", "stale"}
    /\ Take(b) /\ pruned' = pruned \cup {b}
    /\ IF "dry" \in opts
         THEN UNCHANGED refVars
         ELSE local' = [local EXCEPT ![b] = NoRef] /\ track' = [track EXCEPT ![b] = NoRef]
    /\ UNCHANGED <<repo, head, tree, listed, dflt, cur, done, failed, skipped, deployed, err>>
-----------------------------------------------------------------------------
(* syncTagsWrapper.                                                        *)

LocalTags == {t \in TagNames : local[t] # NoRef}
Missing == Found(Tags) \ LocalTags

\* No matched tag, or ctx done: obsolete tags are not looked for.
NoTags ==
    /\ Skip("tags", "checkout")
    /\ cancelled \/ Found(Tags) = {}
    /\ UNCHANGED todo

\* What handleObsoleteTags has to do.
TagsToPrune == IF "prune" \in opts THEN LocalTags \ Tags ELSE {}

\* One fetch of the missing tags; a tag that is there is up to date.
FetchTags ==
    /\ Move("tags", "tagprune")
    /\ ~ cancelled /\ Found(Tags) # {}
    /\ \A t \in Missing : up[t] # NoRef
    /\ local' = [n \in Names |-> IF n \in Missing THEN up[n] ELSE local[n]]
    /\ done' = done \cup Found(Tags)
    /\ todo' = TagsToPrune
    /\ UNCHANGED <<repo, track, head, tree, listed, dflt, cur, failed, skipped, pruned, deployed, err>>

TagsFailed ==
    /\ done' = done \cup (Found(Tags) \ Missing) /\ failed' = failed \cup Missing
    /\ err' = TRUE
    /\ UNCHANGED <<repo, track, head, tree, listed, dflt, todo, cur, skipped, pruned, deployed>>

\* One of them was deleted upstream since the listing.
TagGone ==
    /\ Move("tags", "checkout")
    /\ ~ cancelled /\ \E t \in Missing : up[t] = NoRef
    /\ TagsFailed /\ UNCHANGED local

PruneTag(t) ==
    /\ Move("tagprune", "tagprune")
    /\ Take(t) /\ pruned' = pruned \cup {t}
    /\ local' = IF "dry" \in opts THEN local ELSE [local EXCEPT ![t] = NoRef]
    /\ UNCHANGED <<repo, track, head, tree, listed, dflt, cur, done, failed, skipped, deployed, err>>

TagsDone == Skip("tagprune", "checkout") /\ todo = {} /\ UNCHANGED todo
-----------------------------------------------------------------------------
(* handleCheckout, which does not look at ctx.                             *)

NoCheckout == Skip("checkout", "ended") /\ conf.checkout = Unset /\ UNCHANGED todo

\* A checkout that moves HEAD and leaves the files of a ref that is checked out.
MoveHead(n) == head' = n /\ tree' = IF head = n THEN tree ELSE local[n]

\* checkoutRef: Checkout with Force, and a hard reset.
SetHead(n) == head' = n /\ tree' = local[n]

\* The name of a local branch or tag.
Resolved(n) == n \in Names /\ local[n] # NoRef

CheckOut(from, n) ==
    /\ Move(from, "ended")
    /\ Resolved(n)
    /\ SetHead(n) /\ deployed' = n
    /\ UNCHANGED <<repo, refVars, listed, dflt, todo, cur, refResults, err>>

Checkout == CheckOut("checkout", conf.checkout)

HasFallback == dflt \notin {NoRef, conf.checkout}

\* "not found as branch or tag".
CheckoutMissing ==
    /\ pc = "checkout" /\ conf.checkout \in Names /\ local[conf.checkout] = NoRef
    /\ \/ HasFallback /\ Skip("checkout", "fallback") /\ UNCHANGED todo
       \/ ~ HasFallback /\ GiveUp("checkout") /\ UNCHANGED copyVars

Fallback == CheckOut("fallback", dflt)

FallbackMissing == GiveUp("fallback") /\ local[dflt] = NoRef /\ UNCHANGED copyVars
-----------------------------------------------------------------------------
(* What goes wrong.                                                        *)

\* A call before the branches returns an error; PlainInit may have begun.
Fail ==
    /\ pc \in {"open", "init", "remote", "list"} /\ pc' = "ended" /\ Fault
    /\ err' = TRUE
    /\ repo' \in IF pc = "init" THEN {"none", "stub", "bare"} ELSE {repo}
    /\ UNCHANGED <<copyVars, listed, dflt, todo, cur, refResults, deployed>>

\* Not known to be stale.
StalenessUnknown(b) ==
    /\ pc = "branches" /\ pc' = "setref" /\ Fault /\ Take(b) /\ ~ cancelled
    /\ ~ ToSync(b)
    /\ track' = [track EXCEPT ![b] = up[b]] /\ cur' = b
    /\ UNCHANGED <<repo, local, head, tree, listed, dflt, resultVars>>

\* The fetch or the update of one branch fails.
BranchFails ==
    /\ Fault /\ pc' = "branches" /\ cur' = NoRef
    /\ \/ pc = "setref" /\ failed' = failed \cup {cur} /\ UNCHANGED todo
       \/ pc = "branches" /\ ~ cancelled /\ \E b \in todo : Take(b) /\ failed' = failed \cup {b}
    /\ UNCHANGED <<repo, copyVars, listed, dflt, done, skipped, pruned, deployed, err>>

\* A ref is not deleted, or not its remote-tracking ref; it is only logged.
PruneFails ==
    /\ Fault /\ pc \in {"obsolete", "stale", "tagprune"} /\ "dry" \notin opts
    /\ \E n \in todo : /\ todo' = todo \ {n}
                       /\ local' \in {local, IF n \in BranchNames THEN [local EXCEPT ![n] = NoRef] ELSE local}
    /\ UNCHANGED <<repo, track, head, tree, pc, listed, dflt, cur, resultVars>>

\* The local refs are not listed, and none is pruned.
LocalListFails ==
    /\ Fault /\ todo' = {}
    /\ \/ pc = "branches" /\ todo = {} /\ pc' = "obsolete" /\ UNCHANGED err
       \/ pc = "obsolete" /\ todo = {} /\ {"stale", "aged"} \subseteq opts /\ pc' = "tags" /\ UNCHANGED err
       \/ pc = "tagprune" /\ todo = TagsToPrune /\ pc' = "checkout" /\ err' = TRUE
    /\ UNCHANGED <<repo, copyVars, listed, dflt, cur, refResults, deployed>>

\* The fetch of the tags fails, and may have written some of them.
TagsFail ==
    /\ Fault /\ pc = "tags" /\ pc' = "checkout"
    /\ ~ cancelled /\ Missing # {}
    /\ \E ts \in SUBSET {t \in Missing : up[t] # NoRef} :
         local' = [n \in Names |-> IF n \in ts THEN up[n] ELSE local[n]]
    /\ TagsFailed

\* The ref that is being checked out, if it is there.
CheckingOut ==
    CASE pc = "checkout" /\ Resolved(conf.checkout) -> conf.checkout
      [] pc = "fallback" /\ Resolved(dflt) -> dflt
      [] OTHER -> NoRef

\* A checkout that gets half-way, after or before it has moved HEAD.
HalfCheckedOut ==
    /\ head' \in {head, CheckingOut}
    /\ tree' \in IF head' = head THEN {tree, Other} ELSE {Other}

CheckoutFails ==
    /\ Fault
    /\ CheckingOut # NoRef /\ HalfCheckedOut
    /\ \/ pc = "checkout" /\ HasFallback /\ pc' = "fallback" /\ UNCHANGED err
       \/ (pc = "fallback" \/ ~ HasFallback) /\ pc' = "ended" /\ err' = TRUE
    /\ UNCHANGED <<repo, refVars, listed, dflt, todo, cur, refResults, deployed>>

Cancel ==
    /\ pc \notin {"idle", "ended"} /\ ~ cancelled
    /\ cancelled' = TRUE
    /\ faults < MaxFaults /\ faults' = faults + 1
    /\ UNCHANGED <<worldVars, repo, copyVars, pc, planVars, todo, cur, resultVars, changes>>

\* A killed process.
Crash ==
    /\ pc \notin {"idle", "ended"} /\ pc' = "idle"
    /\ faults < MaxFaults /\ faults' = faults + 1
    /\ Forget /\ flags' = {} /\ opts' = {}
    /\ repo' \in IF pc = "init" THEN {"none", "stub", "bare"} ELSE {repo}
    /\ IF CheckingOut # NoRef THEN HalfCheckedOut ELSE UNCHANGED <<head, tree>>
    /\ UNCHANGED <<worldVars, refVars, changes>>
-----------------------------------------------------------------------------
(* The world.                                                              *)

Change ==
    /\ changes < MaxChanges /\ changes' = changes + 1
    /\ UNCHANGED <<repo, copyVars, pc, planVars, todo, cur, resultVars, cancelled, faults>>

\* A push, or a tag moved; a ref that comes back is new.
Push(n) ==
    /\ Change
    /\ up[n] # MaxVersion
    /\ up' = [up EXCEPT ![n] = IF @ = NoRef THEN MaxVersion ELSE @ + 1]
    /\ UNCHANGED <<default, aged, file>>

Delete(n) ==
    /\ Change /\ up[n] # NoRef
    /\ up' = [up EXCEPT ![n] = NoRef]
    /\ default' = IF default = n THEN NoRef ELSE default
    /\ UNCHANGED <<aged, file>>

SetDefault ==
    /\ Change
    /\ default' \in {b \in BranchNames : up[b] # NoRef} \ {default}
    /\ UNCHANGED <<up, aged, file>>

\* Time passes without a push.
Age(b) ==
    /\ Change
    /\ up[b] # NoRef /\ ~ Old(b, up[b])
    /\ aged' = [aged EXCEPT ![b] = up[b]]
    /\ UNCHANGED <<up, default, file>>

\* A sync holds on to the configuration it was started with.
Configure ==
    /\ pc \in {"idle", "ended"} /\ pc' = "idle"
    /\ changes < MaxChanges /\ changes' = changes + 1
    /\ Forget /\ flags' = {} /\ opts' = {}
    /\ file' \in Files \ {file}
    /\ UNCHANGED <<upstreamVars, repo, copyVars, faults>>

World ==
    \/ \E n \in Names : Push(n) \/ Delete(n)
    \/ SetDefault \/ Configure \/ \E b \in BranchNames : Age(b)

BranchStep(b) == SkipStale(b) \/ FetchBranch(b) \/ BranchGone(b) \/ PruneBranch(b)

Sync ==
    \/ Poll \/ Open \/ OpenFails \/ PlainInit \/ CreateRemote \/ List \/ ListFails
    \/ (\E b \in BranchNames : BranchStep(b)) \/ SetReference \/ BranchesCut \/ BranchesDone
    \/ ObsoleteDone \/ StaleDone
    \/ NoTags \/ FetchTags \/ TagGone \/ (\E t \in TagNames : PruneTag(t)) \/ TagsDone
    \/ NoCheckout \/ Checkout \/ CheckoutMissing \/ Fallback \/ FallbackMissing

Trouble ==
    \/ Fail \/ (\E b \in BranchNames : StalenessUnknown(b)) \/ BranchFails \/ PruneFails
    \/ LocalListFails \/ TagsFail \/ CheckoutFails \/ Cancel \/ Crash

Next == Sync \/ Command \/ Trouble \/ World

Spec == Init /\ [][Next]_vars

\* The daemon polls, and a step that does not fail ends.
FairSpec == Spec /\ WF_vars(Sync)
-----------------------------------------------------------------------------
\* Every ref reported as synced, fetched or up to date is there when the sync
\* ends, a branch no older than listed, whatever was pruned after it was
\* synced; it may be gone only as a stale branch (configuration.md:79).
SyncedInPlace ==
    pc = "ended" => \A n \in done :
        \/ local[n] # NoRef /\ (n \in BranchNames => local[n] >= listed[n])
        \/ local[n] = NoRef /\ n \in Branches /\ "stale" \in opts /\ Old(n, listed[n])

\* The ref reported as checked out is what the working copy has: HEAD, and its
\* files, no older than listed if it is a branch that was synced.
DeployedInPlace ==
    pc = "ended" /\ deployed # NoRef =>
        /\ head = deployed /\ tree = local[deployed]
        /\ deployed \in done \cap BranchNames => tree >= listed[deployed]

\* A sync that ends without an error or a cancellation has reported or skipped
\* every matched ref of the listing exactly once.
EveryRefAccounted ==
    pc = "ended" /\ ~ err /\ ~ cancelled =>
        /\ done \cup failed \cup skipped = Found(Names)
        /\ done \cap failed = {} /\ skipped \cap (done \cup failed) = {}

\* A branch is skipped as stale only if it is (configuration.md:78).
FreshNotSkipped == \A b \in skipped : Old(b, listed[b])

\* The daemon's syncs do so: a repository that prunes stale branches has an age.
PollSkipsStaleOnly == flags = {} => FreshNotSkipped

\* A ref goes only if it is to be pruned: the file, by itself or through its
\* defaults, or the command says so, it is no dry run, and the ref matches no
\* pattern or is an old branch; the branch in checkout never goes
\* (configuration.md:69, 70, 82).
Says(f) ==
    f \in flags \/ (IF file.entry[f] = Unset THEN file.defaults[f] ELSE file.entry[f]) = TRUE

PrunedAsAsked ==
    [][\A n \in Names : local[n] # NoRef /\ local'[n] = NoRef =>
          /\ Says("prune") /\ "dry" \notin flags
          /\ n \in BranchNames => n # file.entry["checkout"]
          /\ n \in Branches \cup Tags => n \in BranchNames /\ Says("prune_stale") /\ Old(n, local[n])]_vars

\* A ref, the visits to it and their report, as RefVisit sees them: syncBranch
\* visits a branch, syncTags all tags at once.  Of a branch that is reported
\* only the listed commit counts, or a newer one.
VisitContent(n) ==
    CASE local[n] = NoRef -> "absent"
      [] n \in done \cap BranchNames /\ local[n] # NoRef /\ local[n] < listed[n] -> "other"
      [] OTHER -> "ref"

VisitInside(n) == IF n \in TagNames THEN pc = "tags" ELSE pc = "setref" /\ cur = n

VisitReport(n) == IF n \in done THEN "done" ELSE IF n \in failed THEN "failed" ELSE "none"

Visit(n) == INSTANCE RefVisit
    WITH content <- VisitContent(n), inside <- VisitInside(n), report <- VisitReport(n),
         Prunable <- n \in BranchNames

\* For every ref of the one working copy a sync keeps what RefVisit promises:
\* what is done later in the sync for other refs, the pruning and the checkout
\* take no ref back that was reported, but for a branch pruned for its age.
ImplementsVisits ==
    /\ \A n \in Names : Visit(n)!Init
    /\ [][\A n \in Names : [Visit(n)!Next]_(Visit(n)!vars)]_vars

\* The steps of SyncRepo still to come, and the rest of the loop it is in.
StagesLeft ==
    CASE pc = "open" -> 10 [] pc = "init" -> 9 [] pc = "remote" -> 8 [] pc = "list" -> 7
      [] pc \in {"branches", "setref"} -> 6
      [] pc = "obsolete" -> 5 [] pc = "stale" -> 4 [] pc = "tags" -> 3 [] pc = "tagprune" -> 2
      [] pc = "checkout" -> 1 [] pc = "fallback" -> 0 [] pc \in {"ended", "idle"} -> -1

LoopLeft == 2 * Cardinality(todo) + (IF pc = "setref" THEN 1 ELSE 0)

\* A sync never goes round in a circle, whatever happens to the upstream and
\* whatever fails meanwhile: every step of it leaves less to do.
SyncIsBounded ==
    [][\/ StagesLeft' < StagesLeft
       \/ StagesLeft' = StagesLeft /\ LoopLeft' < LoopLeft
       \/ Poll \/ Command \/ World \/ Cancel]_vars

\* local_path cannot be used any more and nothing repairs it.
Spoiled == repo = "stub" \/ (repo = "bare" /\ pc # "remote")

FreshBranches == {b \in Branches : up[b] # NoRef /\ ~ Old(b, up[b])}

\* Once failures, people and the upstream come to rest, polls bring every
\* fresh matched branch and the matched tags, prune the branches that match no
\* pattern as long as some branch does, and keep the checkout current.
InSync ==
    /\ \A b \in FreshBranches : local[b] = up[b]
    /\ \A t \in Tags : up[t] # NoRef => local[t] # NoRef
    /\ conf.prune /\ (\E b \in Branches : up[b] # NoRef) =>
         \A b \in LocalBranches \ {conf.checkout} : b \in Branches /\ (conf.prune_stale => ~ Old(b, local[b]))
    /\ conf.checkout \in Names /\ local[conf.checkout] # NoRef /\ up # NoTargets =>
         head = conf.checkout /\ tree = local[head]

Converges == <>[](Spoiled \/ InSync)
=============================================================================
