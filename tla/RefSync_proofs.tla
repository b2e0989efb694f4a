---------------------------- MODULE RefSync_proofs ----------------------------
(***************************************************************************)
(* For any number of pushes and faults: what a sync of a ref reports is    *)
(* what its directory has checked out, the objects a directory borrows are *)
(* in the cache, the sync visits as RefVisit has it, and it has an end.    *)
(***************************************************************************)
EXTENDS RefSync, TLAPS

USE DEF upstreamVars, dirVars, syncVars, faultVars

Repos == [git : BOOLEAN, alt : BOOLEAN, remote : {"none", "url", "cache"}]
Pair == [{"resolver", "dir"} -> Repos]

\* The steps, those that fail last.
LEMMA NextCases ==
    ASSUME [Next]_vars
    PROVE  \/ Open \/ Remove \/ Clone \/ CloneEmpty \/ NothingToClone \/ InitRepo
           \/ WriteAlternates \/ CreateRemote
           \/ StartSync \/ ListRemote \/ SyncCentralCache \/ StartOnce
           \/ UpToDate \/ NotUpToDate \/ FetchBranch \/ FetchTag \/ SetReference
           \/ CheckState \/ Checkout \/ Reset \/ NoRemote \/ Skip \/ RecreateBroken
           \/ Fail \/ AlternatesFail \/ Recover \/ StateUnknown \/ Cancel \/ Crash \/ EditByHand
           \/ Push
           \/ UNCHANGED vars
BY DEF Next, Sync, GetRepo, Trouble

LEMMA Numbers ==
    /\ 0 \in Versions /\ Versions \subseteq Int /\ MaxVersion \in Nat /\ MaxFaults \in Nat
    /\ \A v \in {NoRef, Broken, Other, NoCache, Empty} : v \notin Versions /\ v \notin Int
BY RefSyncAssumption DEF RefSyncAssumption, Versions

LEMMA Faulted ==
    ASSUME TypeOK, Fault
    PROVE  faults' \in 0 .. MaxFaults /\ kind' = kind
BY Numbers DEF TypeOK, Fault

-----------------------------------------------------------------------------
(* Where a sync is: in which repository, and that its cache is filled      *)
(* before its directory is looked at, which borrows from this cache.       *)

FlowInv ==
    /\ pc \in {"init", "alternates", "list", "cache"} => who = "resolver"
    /\ pc \in {"start", "check", "fetch", "setref", "state", "checkout", "reset"} => who = "dir"
    /\ who = "resolver" /\ pc \in {"init", "alternates", "remote", "list", "cache"} => cache # NoCache
    /\ cache \in Versions => cache <= up
    /\ pc = "cache" => listed \in Versions /\ listed <= up
    /\ who = "dir" /\ pc # "idle" => cache \in Versions /\ listed \in Versions /\ listed <= cache
    /\ repo["dir"].remote # "url"
    /\ who = "dir" /\ pc = "remote" => repo["dir"].remote = "cache"

LEMMA RepoTypes ==
    /\ Gone \in Repos /\ Cloned \in Repos /\ [Cloned EXCEPT !.alt = FALSE] \in Repos
    /\ [Gone EXCEPT !.git = TRUE] \in Repos
    /\ \A r \in Repos : [r EXCEPT !.alt = TRUE] \in Repos /\ [r EXCEPT !.remote = "url"] \in Repos
BY DEF Gone, Cloned, Repos

LEMMA InitFlow == Init => TypeOK /\ FlowInv
<1> SUFFICES ASSUME Init PROVE TypeOK /\ FlowInv OBVIOUS
<1>1. repo = [w \in {"resolver", "dir"} |-> Gone] /\ pc = "idle" /\ cache = NoCache BY DEF Init
<1>2. repo \in Pair BY <1>1, RepoTypes DEF Pair
<1>3. repo["dir"].remote = "none" BY <1>1 DEF Gone
<1>4. faults \in 0 .. MaxFaults BY Numbers DEF Init
<1>5. TypeOK BY <1>2, <1>4, Numbers DEF Init, TypeOK, RefValues, Places, Pair, Repos
<1> QED BY <1>1, <1>3, <1>5, Numbers DEF FlowInv

\* What a step does to the repository it works on.
LEMMA RepoStep ==
    ASSUME TypeOK
    PROVE  /\ \A r \in Repos : [repo EXCEPT ![who] = r] \in Pair
           /\ [repo EXCEPT ![who].alt = TRUE] \in Pair
           /\ [repo EXCEPT ![who].remote = IF @ = "none" THEN "url" ELSE @] \in Pair
<1>1. repo \in Pair /\ who \in {"resolver", "dir"} BY DEF TypeOK, Pair, Repos
<1> QED BY <1>1 DEF Pair, Repos

\* A fetch from the directory's remote brings the commit in the cache.
LEMMA FetchesCache ==
    ASSUME TypeOK, FlowInv, pc = "fetch"
    PROVE  Source = cache /\ cache \in Versions /\ listed \in Versions /\ listed <= cache
BY DEF FlowInv, Source

LEMMA NextTypeOK == TypeOK /\ FlowInv /\ [Next]_vars => TypeOK'
<1> SUFFICES ASSUME TypeOK, FlowInv, [Next]_vars PROVE TypeOK' OBVIOUS
<1> USE Numbers DEF TypeOK, RefValues, Places
<1>1. CASE Open BY <1>1 DEF Open, Move, Ready
<1>2. CASE Remove
      <2>1. repo' \in Pair BY <1>2, RepoStep, RepoTypes DEF Remove
      <2>2. /\ ref' \in RefValues /\ track' \in RefValues /\ head' \in BOOLEAN
            /\ tree' \in Versions \cup {Other} /\ cache' \in {cache, NoCache}
            BY <1>2 DEF Remove, EmptyDir
      <2>3. /\ UNCHANGED <<kind, up, cancelled, outcome, faults, cut, who, attempt, listed, updated>>
            /\ pc' = "clone"
            BY <1>2 DEF Remove, Move
      <2> QED BY <2>1, <2>2, <2>3 DEF Pair, Repos
<1>3. CASE Clone
      <2>1. repo' \in Pair BY <1>3, RepoStep, RepoTypes DEF Clone
      <2>2. ref' \in RefValues /\ track' \in RefValues /\ head' \in BOOLEAN /\ tree' \in Versions \cup {Other}
            BY <1>3 DEF Clone, ClonedRef
      <2> QED BY <1>3, <2>1, <2>2 DEF Clone, Move, Pair, Repos
<1>4. CASE CloneEmpty \/ NothingToClone BY <1>4 DEF CloneEmpty, NothingToClone, Move, End, Report
<1>5. CASE InitRepo
      <2>1. repo' \in Pair BY <1>5, RepoStep, RepoTypes DEF InitRepo
      <2> QED BY <1>5, <2>1 DEF InitRepo, Move, Pair, Repos
<1>6. CASE WriteAlternates
      <2>1. repo' \in Pair BY <1>6, RepoStep DEF WriteAlternates, AddAlternates
      <2> QED BY <1>6, <2>1 DEF WriteAlternates, Move, Pair, Repos
<1>7. CASE CreateRemote
      <2>1. repo' \in Pair BY <1>7, RepoStep DEF CreateRemote
      <2> QED BY <1>7, <2>1 DEF CreateRemote, Move, Ready, Pair, Repos
<1>8. CASE StartSync BY <1>8 DEF StartSync
<1>9. CASE ListRemote
      <2>1. listed' \in Versions
            <3>1. cache # NoCache BY <1>9 DEF ListRemote, Move, FlowInv
            <3> QED BY <1>9, <3>1 DEF ListRemote, NothingListed
      <2> QED BY <1>9, <2>1 DEF ListRemote, Move
<1>10. CASE SyncCentralCache BY <1>10 DEF SyncCentralCache, FetchCache, Move
<1>11. CASE StartOnce BY <1>11 DEF StartOnce, Move
<1>12. CASE UpToDate
       <2>1. /\ UNCHANGED <<kind, up, cancelled, faults, cut, cache, repo, ref, track, head, tree, who,
                            attempt, listed>>
             /\ updated' = FALSE
             BY <1>12 DEF UpToDate, Move, End, Report
       <2>2. pc' \in {"state", "idle"} BY <1>12 DEF UpToDate, Move, End, Report
       <2>3. outcome' = outcome \/ outcome' = "uptodate" BY <1>12 DEF UpToDate, Move, End, Report
       <2>4. outcome' \in {"none", "synced", "uptodate", "failed", "skipped"} BY <2>3
       <2>5. updated' \in BOOLEAN /\ cancelled' \in BOOLEAN /\ cut' \in BOOLEAN /\ head' \in BOOLEAN BY <2>1
       <2> QED BY <2>1, <2>2, <2>4, <2>5
<1>13. CASE NotUpToDate BY <1>13 DEF NotUpToDate, Move
<1>14. CASE FetchBranch
       <2>1. track' = cache /\ cache \in Versions BY <1>14, FetchesCache DEF FetchBranch, Move
       <2> QED BY <1>14, <2>1 DEF FetchBranch, Move
<1>15. CASE FetchTag
       <2>1. ref' = cache /\ cache \in Versions BY <1>15, FetchesCache DEF FetchTag, Move
       <2> QED BY <1>15, <2>1 DEF FetchTag, Move
<1>16. CASE SetReference BY <1>16 DEF SetReference, Move
<1>17. CASE CheckState BY <1>17 DEF CheckState, Move, End, Report
<1>18. CASE Checkout BY <1>18 DEF Checkout, Move
<1>19. CASE Reset BY <1>19 DEF Reset, End, Report
<1>20. CASE NoRemote \/ Skip BY <1>20 DEF NoRemote, Skip, End, Report
<1>21. CASE RecreateBroken BY <1>21 DEF RecreateBroken, Recreate
<1>22. CASE Fail BY <1>22, Faulted DEF Fail, Interrupt, Report, MaybeTorn
<1>23. CASE AlternatesFail BY <1>23, Faulted DEF AlternatesFail, Interrupt
<1>24. CASE Recover BY <1>24, Faulted DEF Recover, Recreate
<1>25. CASE StateUnknown BY <1>25, Faulted DEF StateUnknown
<1>26. CASE Cancel BY <1>26, Faulted DEF Cancel
<1>27. CASE Crash
       <2>1. repo[who] \in Repos BY DEF Repos
       <2>a. Debris(repo[who]) \subseteq Repos BY <2>1, RepoTypes DEF Debris
       <2>b. PICK left \in Debris(repo[who]) : repo' = [repo EXCEPT ![who] = left] BY <1>27 DEF Crash
       <2>2. repo' \in Pair BY <2>a, <2>b, RepoStep
       <2>3. ref' \in RefValues /\ track' \in RefValues /\ tree' \in Versions \cup {Other}
             BY <1>27 DEF Crash, MaybeTorn
       <2> QED BY <1>27, <2>2, <2>3, Faulted DEF Crash, Interrupt, Pair, Repos
<1>28. CASE EditByHand BY <1>28, Faulted DEF EditByHand
<1>29. CASE Push BY <1>29 DEF Push, Versions
<1>30. CASE UNCHANGED vars BY <1>30 DEF vars
<1> QED BY <1>1, <1>2, <1>3, <1>4, <1>5, <1>6, <1>7, <1>8, <1>9, <1>10, <1>11, <1>12, <1>13, <1>14,
           <1>15, <1>16, <1>17, <1>18, <1>19, <1>20, <1>21, <1>22, <1>23, <1>24, <1>25, <1>26, <1>27,
           <1>28, <1>29, <1>30, NextCases

\* A step that ends the sync.
LEMMA FlowEnds ==
    ASSUME TypeOK, FlowInv, pc' = "idle", UNCHANGED <<cache, up>>, repo'["dir"].remote # "url"
    PROVE  FlowInv'
BY DEF FlowInv

\* A step within one repository that neither sets it up nor touches the cache.
LEMMA FlowGoesOn ==
    ASSUME TypeOK, FlowInv, UNCHANGED <<cache, up, repo, who, listed>>, pc # "idle",
           pc' = pc \/ pc' = "clone" \/ pc' = "remove"
           \/ (who = "dir" /\ pc' \notin {"init", "alternates", "list", "cache", "remote"})
    PROVE  FlowInv'
BY DEF FlowInv

LEMMA NextFlowInv == TypeOK /\ FlowInv /\ [Next]_vars => FlowInv'
<1> SUFFICES ASSUME TypeOK, FlowInv, [Next]_vars PROVE FlowInv' OBVIOUS
<1>a. /\ who \in {"resolver", "dir"} /\ up \in Versions /\ up \in Int
      /\ cache \in Versions \cup {NoCache, Empty}
      /\ \A v \in Versions : v \in Int /\ v <= v
      /\ repo["dir"].remote # "url"
      /\ NoCache \notin Versions /\ Empty \notin Versions /\ NoCache # Empty
      BY Numbers, RefSyncAssumption DEF TypeOK, FlowInv, RefSyncAssumption
<1>1. CASE Open
      <2>1. /\ UNCHANGED <<up, repo, who, listed>> /\ pc = "open"
            /\ cache' = IF cache = NoCache THEN Empty ELSE cache
            BY <1>1 DEF Open, Move
      <2>2. pc' \in {Ready, "remove", "clone"} BY <1>1 DEF Open, Move
      <2>3. cache' # NoCache BY <2>1, <1>a
      <2>4. who = "resolver" => pc' \in {"list", "remove", "clone"} BY <2>2 DEF Ready
      <2>5. who = "dir" => pc' \in {"start", "check", "remove", "clone"} /\ cache' = cache
            BY <1>a, <2>1, <2>2 DEF Ready, FlowInv
      <2>6. cache' \in Versions => cache' <= up BY <1>a, <2>1 DEF FlowInv
      <2> QED BY <1>a, <2>1, <2>3, <2>4, <2>5, <2>6 DEF FlowInv
<1>2. CASE Remove
      <2>1. UNCHANGED <<up, who, listed>> /\ pc = "remove" /\ pc' = "clone" BY <1>2 DEF Remove, Move
      <2>2. \/ cache' = NoCache /\ who = "resolver"
            \/ cache' = cache
            BY <1>2 DEF Remove
      <2>3. repo'["dir"].remote # "url" BY <1>2, <1>a DEF Remove, Gone, TypeOK
      <2> QED BY <1>a, <2>1, <2>2, <2>3 DEF FlowInv
<1>3. CASE Clone
      <2>1. UNCHANGED <<up, cache, who, listed>> /\ cache \in Versions /\ pc = "clone" /\ pc' = "remote"
            BY <1>3 DEF Clone, Move
      <2>2. /\ repo'["dir"].remote # "url"
            /\ who = "dir" => repo'["dir"].remote = "cache"
            <3>1. repo' = [repo EXCEPT ![who] = Cloned] BY <1>3 DEF Clone
            <3>2. Cloned.remote = "cache" BY DEF Cloned
            <3>3. repo'["dir"] = IF who = "dir" THEN Cloned ELSE repo["dir"] BY <3>1 DEF TypeOK
            <3> QED BY <1>a, <3>2, <3>3
      <2> QED BY <1>a, <2>1, <2>2 DEF FlowInv
<1>4. CASE CloneEmpty
      <2>1. UNCHANGED <<up, cache, who, listed, repo>> /\ cache = Empty /\ pc = "clone" /\ pc' = "init"
            BY <1>4 DEF CloneEmpty, Move
      <2> QED BY <1>a, <2>1 DEF FlowInv
<1>5. CASE InitRepo \/ WriteAlternates
      <2>1. UNCHANGED <<up, cache, who, listed>> /\ pc \in {"init", "alternates"} /\ pc' \in {"alternates", "remote"}
            BY <1>5 DEF InitRepo, WriteAlternates, Move
      <2>2. who = "resolver" /\ cache # NoCache BY <2>1 DEF FlowInv
      <2>3. repo'["dir"] = repo["dir"]
            BY <1>5, <2>2 DEF InitRepo, WriteAlternates, AddAlternates, TypeOK
      <2> QED BY <1>a, <2>1, <2>2, <2>3 DEF FlowInv
<1>6. CASE CreateRemote
      <2>1. UNCHANGED <<up, cache, who, listed>> /\ pc = "remote" /\ pc' = Ready BY <1>6 DEF CreateRemote, Move
      <2>2. repo'["dir"].remote = repo["dir"].remote
            <3>1. CASE who = "dir"
                  <4>1. repo["dir"].remote = "cache" BY <2>1, <3>1 DEF FlowInv
                  <4> QED BY <1>6, <3>1, <4>1 DEF CreateRemote, TypeOK
            <3>2. CASE who = "resolver" BY <1>6, <3>2 DEF CreateRemote, TypeOK
            <3> QED BY <1>a, <3>1, <3>2
      <2> QED BY <1>a, <2>1, <2>2 DEF FlowInv, Ready
<1>7. CASE StartSync
      <2>1. UNCHANGED <<up, cache, repo>> /\ who' = "resolver" /\ pc' = "open" BY <1>7 DEF StartSync
      <2> QED BY <1>a, <2>1 DEF FlowInv
<1>8. CASE ListRemote
      <2>1. UNCHANGED <<up, cache, repo, who>> /\ pc = "list" /\ pc' = "cache" BY <1>8 DEF ListRemote, Move
      <2>2. cache # NoCache /\ who = "resolver" BY <2>1 DEF FlowInv
      <2>3. listed' \in Versions /\ listed' <= up
            <3>1. repo["resolver"].remote \in {"none", "url", "cache"} BY DEF TypeOK
            <3>2. \/ repo["resolver"].remote = "url" /\ listed' = up
                  \/ repo["resolver"].remote = "cache" /\ cache # Empty /\ listed' = cache
                  BY <1>8, <3>1 DEF ListRemote, NothingListed
            <3> QED BY <1>a, <2>2, <3>2 DEF FlowInv
      <2> QED BY <1>a, <2>1, <2>2, <2>3 DEF FlowInv
<1>9. CASE SyncCentralCache
      <2>1. /\ UNCHANGED <<up, repo, listed>> /\ pc = "cache" /\ pc' = "start" /\ who' = "dir" /\ cache' = up
            BY <1>9 DEF SyncCentralCache, Move, FetchCache
      <2> QED BY <1>a, <2>1 DEF FlowInv
<1>10. CASE StartOnce \/ NotUpToDate \/ FetchBranch \/ FetchTag \/ SetReference \/ Checkout
       <2>1. /\ UNCHANGED <<up, cache, repo, who, listed>>
             /\ pc \in {"start", "check", "fetch", "setref", "state", "checkout", "reset"}
             /\ pc' \in {"open", "fetch", "setref", "state", "checkout", "reset"}
             BY <1>10 DEF StartOnce, NotUpToDate, FetchBranch, FetchTag, SetReference, Checkout, Move
       <2> QED BY <2>1, FlowGoesOn DEF FlowInv
<1>11. CASE UpToDate \/ CheckState
       <2>1. /\ UNCHANGED <<up, cache, repo, who, listed>> /\ pc \in {"check", "state"}
             /\ pc' \in {"state", "checkout", "idle"}
             BY <1>11 DEF UpToDate, CheckState, Move, End, Report
       <2> QED BY <1>a, <2>1, FlowGoesOn, FlowEnds DEF FlowInv
<1>12. CASE Reset \/ NoRemote \/ NothingToClone \/ Skip \/ Fail
       <2>1. UNCHANGED <<up, cache, repo, who, listed>> /\ pc' = "idle"
             BY <1>12 DEF Reset, NoRemote, NothingToClone, Skip, Fail, End, Report
       <2> QED BY <1>a, <2>1, FlowEnds
<1>13. CASE RecreateBroken \/ Recover
       <2>1. UNCHANGED <<up, cache, repo, who, listed>> /\ pc' = "remove" /\ pc # "idle"
             BY <1>13 DEF RecreateBroken, Recover, Recreate
       <2> QED BY <2>1, FlowGoesOn
<1>14. CASE AlternatesFail
       <2>1. UNCHANGED <<up, cache, repo, who, listed>> /\ pc = "alternates" /\ pc' = "remote"
             BY <1>14 DEF AlternatesFail
       <2> QED BY <1>a, <2>1 DEF FlowInv
<1>15. CASE StateUnknown \/ Cancel
       <2>1. /\ UNCHANGED <<up, cache, repo, who, listed>> /\ pc # "idle"
             /\ pc' = pc \/ (pc = "state" /\ pc' = "checkout")
             BY <1>15 DEF StateUnknown, Cancel
       <2> QED BY <2>1, FlowGoesOn DEF FlowInv
<1>16. CASE Crash
       <2>1. UNCHANGED <<up, cache>> /\ pc' = "idle" BY <1>16 DEF Crash
       <2>2. PICK left \in Debris(repo[who]) : repo' = [repo EXCEPT ![who] = left] BY <1>16 DEF Crash
       <2>3. left = repo[who] \/ left.remote \in {"none", "cache"} BY <2>2 DEF Debris, Gone, Cloned
       <2>4. repo'["dir"].remote # "url" BY <1>a, <2>2, <2>3 DEF TypeOK
       <2> QED BY <2>1, <2>4, FlowEnds
<1>17. CASE EditByHand
       <2>1. UNCHANGED <<up, cache, repo, who, listed>> /\ pc' = "idle" BY <1>17 DEF EditByHand
       <2> QED BY <1>a, <2>1, FlowEnds
<1>18. CASE Push
       <2>1. UNCHANGED <<cache, repo, who, listed, pc>> /\ up' = up + 1 BY <1>18 DEF Push
       <2>2. ASSUME NEW v \in Versions, v <= up PROVE v <= up'
             <3>1. v \in Int /\ up \in Int BY <1>a
             <3>2. up' = up + 1 BY <2>1
             <3> QED BY <2>2, <3>1, <3>2
       <2>3. cache \in Versions => cache <= up' BY <2>2 DEF FlowInv
       <2>4. pc = "cache" => listed \in Versions /\ listed <= up' BY <2>2 DEF FlowInv
       <2> QED BY <2>1, <2>3, <2>4 DEF FlowInv
<1>19. CASE UNCHANGED vars BY <1>19 DEF vars, FlowInv
<1> QED BY <1>1, <1>2, <1>3, <1>4, <1>5, <1>6, <1>7, <1>8, <1>9, <1>10, <1>11, <1>12, <1>13, <1>14,
           <1>15, <1>16, <1>17, <1>18, <1>19, NextCases

LEMMA FlowCorrect == Spec => [](TypeOK /\ FlowInv)
BY InitFlow, NextTypeOK, NextFlowInv, PTL DEF Spec

\* The variables keep their types.
THEOREM TypeCorrect == Spec => []TypeOK
BY FlowCorrect, PTL

-----------------------------------------------------------------------------
(* What is reported is checked out.                                        *)

\* The commit a sync fetches or finds is no older than the listed one.
RefInv ==
    /\ outcome \in {"synced", "uptodate"} => pc = "idle"
    /\ pc = "setref" => track \in Versions /\ listed <= track
    /\ pc \in {"state", "checkout", "reset"} => ref \in Versions /\ listed <= ref
    /\ pc = "reset" => head
    /\ ReportedIsCheckedOut

\* A step that reports nothing and leads to no place where refs matter.
LEMMA RefElsewhere ==
    ASSUME outcome' \notin {"synced", "uptodate"},
           pc' \notin {"setref", "state", "checkout", "reset"}
    PROVE  RefInv'
BY DEF RefInv, ReportedIsCheckedOut

\* Nor does a sync that is not over report anything.
LEMMA NotReported == ASSUME RefInv, pc # "idle" PROVE outcome \notin {"synced", "uptodate"}
BY DEF RefInv

LEMMA NextRefInv == TypeOK /\ FlowInv /\ RefInv /\ [Next]_vars => RefInv'
<1> SUFFICES ASSUME TypeOK, FlowInv, RefInv, [Next]_vars PROVE RefInv' OBVIOUS
<1>1. CASE \/ Open \/ Remove \/ Clone \/ CloneEmpty \/ InitRepo \/ WriteAlternates \/ CreateRemote
           \/ ListRemote \/ SyncCentralCache \/ StartOnce \/ NotUpToDate
      <2>1. UNCHANGED outcome /\ pc # "idle"
            BY <1>1 DEF Open, Remove, Clone, CloneEmpty, InitRepo, WriteAlternates, CreateRemote, ListRemote,
                 SyncCentralCache, StartOnce, NotUpToDate, Move
      <2>2. pc' \in {"open", "remove", "clone", "init", "alternates", "remote", "list", "cache", "start",
                     "check", "fetch"}
            BY <1>1 DEF Open, Remove, Clone, CloneEmpty, InitRepo, WriteAlternates, CreateRemote, ListRemote,
                 SyncCentralCache, StartOnce, NotUpToDate, Move, Ready
      <2> QED BY <2>1, <2>2, NotReported, RefElsewhere
<1>2. CASE StartSync \/ EditByHand \/ Crash \/ Fail \/ Skip \/ NoRemote \/ NothingToClone
      <2>1. outcome' \in {"none", "failed", "skipped"} /\ pc' \in {"open", "idle"}
            BY <1>2 DEF StartSync, EditByHand, Crash, Fail, Skip, NoRemote, NothingToClone, End, Report
      <2> QED BY <2>1, RefElsewhere
<1>3. CASE RecreateBroken \/ Recover \/ AlternatesFail
      <2>1. UNCHANGED outcome /\ pc # "idle" /\ pc' \in {"remove", "remote"}
            BY <1>3 DEF RecreateBroken, Recover, Recreate, AlternatesFail
      <2> QED BY <2>1, NotReported, RefElsewhere
<1>4. CASE UpToDate
      <2>1. /\ UNCHANGED <<kind, ref, listed>> /\ pc = "check" /\ ref = listed
            /\ \/ pc' = "state" /\ outcome' = outcome
               \/ kind = "tag" /\ pc' = "idle" /\ outcome' = "uptodate"
            BY <1>4 DEF UpToDate, Move, End, Report, TypeOK
      <2>2. listed \in Versions BY <2>1 DEF FlowInv
      <2>4. listed <= listed BY <2>2, Numbers
      <2>3. outcome \notin {"synced", "uptodate"} BY <2>1, NotReported
      <2> QED BY <2>1, <2>2, <2>3, <2>4 DEF RefInv, ReportedIsCheckedOut
<1>5. CASE FetchBranch
      <2>1. UNCHANGED <<outcome, listed>> /\ pc = "fetch" /\ pc' = "setref" /\ track' = Source
            BY <1>5 DEF FetchBranch, Move
      <2>2. track' \in Versions /\ listed <= track' BY <2>1, FetchesCache
      <2>3. outcome \notin {"synced", "uptodate"} BY <2>1, NotReported
      <2> QED BY <2>1, <2>2, <2>3 DEF RefInv, ReportedIsCheckedOut
<1>6. CASE FetchTag
      <2>1. UNCHANGED <<outcome, listed>> /\ pc = "fetch" /\ pc' = "checkout" /\ ref' = Source
            BY <1>6 DEF FetchTag, Move
      <2>2. ref' \in Versions /\ listed <= ref' BY <2>1, FetchesCache
      <2>3. outcome \notin {"synced", "uptodate"} BY <2>1, NotReported
      <2> QED BY <2>1, <2>2, <2>3 DEF RefInv, ReportedIsCheckedOut
<1>7. CASE SetReference
      <2>1. UNCHANGED <<outcome, listed>> /\ pc = "setref" /\ pc' = "state" /\ ref' = track
            BY <1>7 DEF SetReference, Move
      <2>2. outcome \notin {"synced", "uptodate"} BY <2>1, NotReported
      <2> QED BY <2>1, <2>2 DEF RefInv, ReportedIsCheckedOut
<1>8. CASE CheckState
      <2>1. UNCHANGED <<kind, ref, head, tree, listed>> /\ pc = "state" /\ ref \in Versions /\ listed <= ref
            BY <1>8 DEF CheckState, Move, End, Report, RefInv
      <2>2. CASE NeedsCheckout
            <3>1. pc' = "checkout" /\ outcome' = outcome BY <1>8, <2>2 DEF CheckState, Move
            <3>2. outcome \notin {"synced", "uptodate"} BY <2>1, NotReported
            <3> QED BY <2>1, <3>1, <3>2 DEF RefInv, ReportedIsCheckedOut
      <2>3. CASE ~ NeedsCheckout
            <3>1. pc' = "idle" /\ head /\ tree = ref BY <1>8, <2>3 DEF CheckState, NeedsCheckout, End, Report
            <3> QED BY <2>1, <3>1 DEF RefInv, ReportedIsCheckedOut, CheckedOut
      <2> QED BY <2>2, <2>3
<1>9. CASE Checkout
      <2>1. UNCHANGED <<outcome, ref, listed>> /\ pc = "checkout" /\ pc' = "reset" /\ head'
            BY <1>9 DEF Checkout, Move
      <2>2. outcome \notin {"synced", "uptodate"} BY <2>1, NotReported
      <2> QED BY <2>1, <2>2 DEF RefInv, ReportedIsCheckedOut
<1>10. CASE Reset
       <2>1. UNCHANGED <<ref, listed, head>> /\ pc = "reset" /\ pc' = "idle" /\ tree' = ref
             BY <1>10 DEF Reset, End, Report
       <2> QED BY <2>1 DEF RefInv, ReportedIsCheckedOut, CheckedOut
<1>11. CASE StateUnknown \/ Cancel
       <2>1. /\ UNCHANGED <<outcome, ref, track, head, listed>> /\ pc # "idle"
             /\ pc' = pc \/ (pc = "state" /\ pc' = "checkout")
             BY <1>11 DEF StateUnknown, Cancel
       <2>2. outcome \notin {"synced", "uptodate"} BY <2>1, NotReported
       <2> QED BY <2>1, <2>2 DEF RefInv, ReportedIsCheckedOut
<1>12. CASE Push \/ UNCHANGED vars
       <2>1. UNCHANGED <<kind, outcome, ref, track, head, tree, listed, pc>> BY <1>12 DEF Push, vars
       <2> QED BY <2>1 DEF RefInv, ReportedIsCheckedOut, CheckedOut
<1> QED BY <1>1, <1>2, <1>3, <1>4, <1>5, <1>6, <1>7, <1>8, <1>9, <1>10, <1>11, <1>12, NextCases

\* A branch a sync reports, and a tag it reports as fetched, is what the
\* directory has checked out, whatever failed in it or before it.
THEOREM ReportsCheckedOut == Spec => []ReportedIsCheckedOut
<1>1. Init => RefInv BY DEF Init, RefInv, ReportedIsCheckedOut
<1>2. RefInv => ReportedIsCheckedOut BY DEF RefInv
<1> QED BY <1>1, <1>2, NextRefInv, FlowCorrect, PTL DEF Spec

-----------------------------------------------------------------------------
(* Borrowed objects.                                                       *)

Borrowed == \A v \in {ref, track} \cap Versions : cache \in Versions /\ v <= cache

\* The resolver, whose removal takes the cache along, is never removed.
BorrowInv ==
    ~ cut => /\ repo["resolver"].git => repo["resolver"].alt \/ pc = "alternates"
             /\ pc = "remove" => who = "dir"
             /\ Borrowed

\* A step that leaves the refs, the cache and the resolver alone.
LEMMA BorrowKept ==
    ASSUME BorrowInv, UNCHANGED <<cache, ref, track>>, repo'["resolver"] = repo["resolver"],
           ~ cut' => ~ cut /\ pc # "alternates" /\ (pc' = "remove" => who' = "dir")
    PROVE  BorrowInv'
BY DEF BorrowInv, Borrowed

LEMMA NextBorrowInv == TypeOK /\ FlowInv /\ BorrowInv /\ [Next]_vars => BorrowInv'
<1> SUFFICES ASSUME TypeOK, FlowInv, BorrowInv, [Next]_vars PROVE BorrowInv' OBVIOUS
<1>a. who \in {"resolver", "dir"} /\ NoCache \notin Versions /\ Empty \notin Versions
      BY Numbers DEF TypeOK
<1>1. CASE Open
      <2>1. UNCHANGED <<repo, who, ref, track, cut>> /\ pc = "open" BY <1>1 DEF Open, Move
      <2>2. cache' = IF cache = NoCache THEN Empty ELSE cache BY <1>1 DEF Open
      <2>3. ~ cut => Borrowed' BY <1>a, <2>1, <2>2 DEF BorrowInv, Borrowed
      <2>4. pc' = "remove" => repo[who].git /\ ~ repo[who].alt BY <1>1 DEF Open, Move, Ready
      <2> QED BY <1>a, <2>1, <2>3, <2>4 DEF BorrowInv
<1>2. CASE Remove
      <2>1. UNCHANGED <<who, cut>> /\ pc = "remove" /\ pc' = "clone" BY <1>2 DEF Remove, Move
      <2>2. SUFFICES ASSUME ~ cut PROVE BorrowInv' BY <2>1 DEF BorrowInv
      <2>3. who = "dir" BY <2>1, <2>2 DEF BorrowInv
      <2>4. ref' = NoRef /\ track' = NoRef BY <1>2, <2>3 DEF Remove, EmptyDir
      <2>5. repo'["resolver"] = repo["resolver"] BY <1>2, <2>3 DEF Remove, TypeOK
      <2> QED BY <2>1, <2>2, <2>4, <2>5, Numbers DEF BorrowInv, Borrowed
<1>3. CASE Clone
      <2>1. UNCHANGED <<who, cut, cache>> /\ pc' = "remote" /\ cache \in Versions /\ pc = "clone"
            BY <1>3 DEF Clone, Move
      <2>2. ref' \in {ref, cache, NoRef} /\ track' \in {track, cache, NoRef} BY <1>3 DEF Clone, ClonedRef
      <2>3. cache <= cache BY <2>1, Numbers
      <2>4. repo'["resolver"] = repo["resolver"] \/ repo'["resolver"].alt
            BY <1>3, <1>a DEF Clone, Cloned, TypeOK
      <2> QED BY <2>1, <2>2, <2>3, <2>4, Numbers DEF BorrowInv, Borrowed
<1>4. CASE InitRepo \/ WriteAlternates
      <2>1. /\ UNCHANGED <<who, cut, cache, ref, track>>
            /\ \/ pc = "init" /\ pc' = "alternates"
               \/ pc = "alternates" /\ pc' = "remote" /\ WriteAlternates
            BY <1>4 DEF InitRepo, WriteAlternates, Move
      <2>2. who = "resolver" BY <2>1 DEF FlowInv
      <2>3. WriteAlternates => repo'["resolver"].alt
            BY <2>2 DEF WriteAlternates, AddAlternates, TypeOK
      <2> QED BY <2>1, <2>3 DEF BorrowInv, Borrowed
<1>5. CASE CreateRemote
      <2>1. UNCHANGED <<who, cut, cache, ref, track>> /\ pc = "remote" /\ pc' # "remove"
            BY <1>5 DEF CreateRemote, Move, Ready
      <2>2. repo'["resolver"].git = repo["resolver"].git /\ repo'["resolver"].alt = repo["resolver"].alt
            BY <1>5, <1>a DEF CreateRemote, TypeOK
      <2> QED BY <2>1, <2>2 DEF BorrowInv, Borrowed
<1>6. CASE CloneEmpty \/ NothingToClone \/ ListRemote \/ StartOnce \/ NotUpToDate \/ Checkout
      <2>1. /\ UNCHANGED <<cache, ref, track, repo, cut>> /\ pc # "alternates" /\ pc' # "remove"
            BY <1>6 DEF CloneEmpty, NothingToClone, ListRemote, StartOnce, NotUpToDate, Checkout, Move, End,
                 Report
      <2> QED BY <2>1, BorrowKept
<1>7. CASE UpToDate \/ CheckState \/ Reset \/ NoRemote \/ Skip \/ StartSync
      <2>1. /\ UNCHANGED <<cache, ref, track, repo, cut>> /\ pc # "alternates" /\ pc' # "remove"
            BY <1>7 DEF UpToDate, CheckState, Reset, NoRemote, Skip, StartSync, Move, End, Report
      <2> QED BY <2>1, BorrowKept
<1>8. CASE SyncCentralCache
      <2>1. UNCHANGED <<repo, ref, track, cut>> /\ pc = "cache" /\ pc' = "start" /\ cache' = up
            BY <1>8 DEF SyncCentralCache, Move, FetchCache
      <2>2. up \in Versions /\ (cache \in Versions => cache <= up) BY DEF TypeOK, FlowInv
      <2>3. ~ cut => Borrowed'
            <3> SUFFICES ASSUME ~ cut, NEW v \in {ref, track} \cap Versions PROVE v <= up
                BY <2>1, <2>2 DEF Borrowed
            <3>1. cache \in Versions /\ v <= cache BY DEF BorrowInv, Borrowed
            <3>2. v \in Int /\ cache \in Int /\ up \in Int BY <2>2, <3>1, Numbers
            <3>3. cache <= up BY <2>2, <3>1
            <3> QED BY <3>1, <3>2, <3>3
      <2> QED BY <2>1, <2>3 DEF BorrowInv
<1>9. CASE FetchBranch \/ FetchTag \/ SetReference
      <2>1. UNCHANGED <<cache, repo, cut>> /\ pc \in {"fetch", "setref"} /\ pc' \in {"setref", "checkout", "state"}
            BY <1>9 DEF FetchBranch, FetchTag, SetReference, Move
      <2>2. pc = "fetch" => Source = cache /\ cache \in Versions BY FetchesCache
      <2>3. ref' \in {ref, track, cache} /\ track' \in {track, cache}
            BY <1>9, <2>2 DEF FetchBranch, FetchTag, SetReference, Move
      <2>4. cache \in Versions => cache <= cache BY Numbers
      <2> QED BY <2>1, <2>3, <2>4 DEF BorrowInv, Borrowed
<1>10. CASE RecreateBroken \/ Recover
       <2>1. /\ UNCHANGED <<cache, ref, track, repo, cut, who>> /\ pc' = "remove" /\ pc # "alternates"
             BY <1>10 DEF RecreateBroken, Recover, Recreate
       <2>2. who = "dir" BY <1>10 DEF RecreateBroken, Recover, FlowInv
       <2> QED BY <2>1, <2>2, BorrowKept
<1>11. CASE Fail
       <2>1. UNCHANGED <<cache, ref, track, repo>> /\ (~ cut' => ~ cut) /\ pc # "alternates" /\ pc' = "idle"
             BY <1>11 DEF Fail, Interrupt, Report
       <2> QED BY <2>1, BorrowKept
<1>12. CASE AlternatesFail
       <2>1. cut' BY <1>12 DEF AlternatesFail, Interrupt
       <2> QED BY <2>1 DEF BorrowInv
<1>13. CASE StateUnknown \/ Cancel
       <2>1. /\ UNCHANGED <<cache, ref, track, repo, cut, who>>
             /\ pc' = pc \/ (pc = "state" /\ pc' = "checkout")
             BY <1>13 DEF StateUnknown, Cancel
       <2> QED BY <2>1 DEF BorrowInv, Borrowed
<1>14. CASE Crash
       <2>1. UNCHANGED cache /\ ref' \in {ref, Broken} /\ track' \in {track, Broken} /\ pc' = "idle"
             BY <1>14 DEF Crash
       <2>2. ~ cut' => ~ cut /\ pc # "alternates" /\ ~ (who = "resolver" /\ pc = "clone")
             BY <1>14 DEF Crash, Interrupt
       <2>3. SUFFICES ASSUME ~ cut' PROVE BorrowInv' BY DEF BorrowInv
       <2>4. ~ cut /\ pc # "alternates" /\ ~ (who = "resolver" /\ pc = "clone") BY <2>2, <2>3
       <2>5. PICK left \in Debris(repo[who]) : repo' = [repo EXCEPT ![who] = left] BY <1>14 DEF Crash
       <2>6. repo'["resolver"] = repo["resolver"] \/ ~ repo'["resolver"].git
             <3>1. CASE who = "dir" BY <2>5, <3>1 DEF TypeOK
             <3>2. CASE who = "resolver"
                   <4>1. left \in {repo[who], Gone} BY <2>4, <2>5, <3>2 DEF Debris
                   <4> QED BY <2>5, <3>2, <4>1 DEF TypeOK, Gone
             <3> QED BY <1>a, <3>1, <3>2
       <2>7. Borrowed' BY <2>1, <2>4, Numbers DEF BorrowInv, Borrowed
       <2> QED BY <2>1, <2>4, <2>6, <2>7 DEF BorrowInv
<1>15. CASE EditByHand \/ Push \/ UNCHANGED vars
       <2>1. UNCHANGED <<cache, ref, track, repo, cut, who, pc>> BY <1>15 DEF EditByHand, Push, vars
       <2> QED BY <2>1 DEF BorrowInv, Borrowed
<1> QED BY <1>1, <1>2, <1>3, <1>4, <1>5, <1>6, <1>7, <1>8, <1>9, <1>10, <1>11, <1>12, <1>13, <1>14,
           <1>15, NextCases

\* No directory is left with a ref whose objects the cache has lost, unless
\* the set-up of a repository was cut short.
THEOREM ObjectsKept == Spec => []BorrowedObjectsKept
<1>1. Init => BorrowInv BY Numbers DEF Init, BorrowInv, Borrowed, Gone
<1>2. BorrowInv => BorrowedObjectsKept BY DEF BorrowInv, Borrowed, BorrowedObjectsKept
<1> QED BY <1>1, <1>2, NextBorrowInv, FlowCorrect, PTL DEF Spec

-----------------------------------------------------------------------------
(* The visits: RefVisit is implemented.                                    *)

\* A sync reports when it ends, and a directory has a repository where the
\* sync relies on one.
VisitInv ==
    /\ pc # "idle" => outcome = "none"
    /\ repo["dir"].alt => repo["dir"].git
    /\ who = "dir" /\ pc \in {"remote", "check", "fetch", "setref", "state", "checkout", "reset"} =>
         repo["dir"].git
    /\ VisitReport = "done" => VisitContent = "ref"

LEMMA VisitTypes ==
    /\ VisitContent \in Visit!Contents
    /\ VisitInside \in BOOLEAN
    /\ VisitReport \in {"none", "done", "failed"}
BY DEF VisitContent, VisitInside, VisitReport, Visit!Contents

LEMMA RepoSteps ==
    ASSUME [Next]_vars
    PROVE  UNCHANGED repo \/ Remove \/ InitRepo \/ WriteAlternates \/ Clone \/ CreateRemote \/ Crash
BY NextCases
DEF Open, CloneEmpty, NothingToClone, StartSync, ListRemote, SyncCentralCache, StartOnce, UpToDate,
    NotUpToDate, FetchBranch, FetchTag, SetReference, CheckState, Checkout, Reset, NoRemote, Skip,
    RecreateBroken, Recreate, Fail, AlternatesFail, Recover, StateUnknown, Cancel, EditByHand, Push, vars

\* What the steps do to the repository of the directory.
LEMMA DirRepo ==
    ASSUME TypeOK, FlowInv, VisitInv, [Next]_vars
    PROVE  /\ repo'["dir"].alt => repo'["dir"].git
           /\ \/ repo'["dir"].git
              \/ repo'["dir"] = repo["dir"]
              \/ pc = "remove"
              \/ Crash
<1>a. who \in {"resolver", "dir"} /\ repo \in Pair BY DEF TypeOK, Pair, Repos
<1>1. CASE Remove \/ InitRepo \/ WriteAlternates
      <2>1. CASE who = "resolver"
            BY <1>1, <1>a, <2>1 DEF Remove, InitRepo, WriteAlternates, AddAlternates, VisitInv, Pair
      <2>2. CASE who = "dir"
            <3>1. Remove BY <1>1, <2>2 DEF InitRepo, WriteAlternates, Move, FlowInv
            <3>2. repo'["dir"] = Gone /\ pc = "remove" BY <1>a, <2>2, <3>1 DEF Remove, Move, Pair
            <3> QED BY <3>2 DEF Gone
      <2> QED BY <1>a, <2>1, <2>2
<1>2. CASE Clone BY <1>2, <1>a DEF Clone, Cloned, VisitInv, Pair
<1>3. CASE CreateRemote
      <2>1. repo'["dir"].alt = repo["dir"].alt /\ repo'["dir"].git = repo["dir"].git
            BY <1>3, <1>a DEF CreateRemote, Pair, Repos
      <2>2. repo'["dir"] = repo["dir"] \/ (who = "dir" /\ pc = "remote")
            BY <1>3, <1>a DEF CreateRemote, Move, Pair
      <2> QED BY <2>1, <2>2 DEF VisitInv
<1>4. CASE Crash
      <2>1. PICK left \in Debris(repo[who]) : repo' = [repo EXCEPT ![who] = left] BY <1>4 DEF Crash
      <2>2. who = "dir" /\ left.alt => left.git BY <2>1 DEF Debris, Gone, Cloned, VisitInv
      <2> QED BY <1>4, <1>a, <2>1, <2>2 DEF Pair, VisitInv
<1>5. CASE UNCHANGED repo BY <1>5 DEF VisitInv
<1>6. UNCHANGED repo \/ Remove \/ InitRepo \/ WriteAlternates \/ Clone \/ CreateRemote \/ Crash
      BY RepoSteps
<1> QED BY <1>1, <1>2, <1>3, <1>4, <1>5, <1>6

\* Where the sync goes to the directory's repository is there.
LEMMA GitThere ==
    ASSUME TypeOK, FlowInv, VisitInv, [Next]_vars, who' = "dir",
           pc' \in {"remote", "check", "fetch", "setref", "state", "checkout", "reset"}
    PROVE  repo'["dir"].git
<1>1. CASE Open
      <2>1. UNCHANGED <<repo, who>> /\ (pc' = "check" => repo[who].alt)
            BY <1>1 DEF Open, Move, Ready
      <2>2. pc' = "check" BY <1>1 DEF Open, Move, Ready
      <2> QED BY <2>1, <2>2 DEF VisitInv
<1>2. CASE Clone
      <2>1. who = "dir" /\ repo' = [repo EXCEPT !["dir"] = Cloned] BY <1>2 DEF Clone
      <2> QED BY <2>1 DEF Cloned, TypeOK
<1>3. CASE CreateRemote
      <2>1. who = "dir" /\ pc = "remote" BY <1>3 DEF CreateRemote, Move
      <2>2. repo'["dir"].git = repo["dir"].git BY <1>3, <2>1 DEF CreateRemote, TypeOK
      <2> QED BY <2>1, <2>2 DEF VisitInv
<1>4. CASE ~ Open /\ ~ Clone /\ ~ CreateRemote
      <2>1. /\ UNCHANGED <<repo, who>>
            /\ pc \in {"remote", "check", "fetch", "setref", "state", "checkout", "reset"}
            BY <1>4, NextCases
            DEF Remove, CloneEmpty, NothingToClone, InitRepo, WriteAlternates, StartSync, ListRemote,
                SyncCentralCache, StartOnce, UpToDate, NotUpToDate, FetchBranch, FetchTag, SetReference,
                CheckState, Checkout, Reset, NoRemote, Skip, RecreateBroken, Recreate, Fail,
                AlternatesFail, Recover, StateUnknown, Cancel, Crash, EditByHand, Push, vars, Move, End,
                Report, FlowInv
      <2> QED BY <2>1 DEF VisitInv
<1> QED BY <1>1, <1>2, <1>3, <1>4

\* A sync that goes on reports nothing, and a report stands until the next one
\* or an edit.
LEMMA ReportSteps ==
    ASSUME TypeOK, FlowInv, VisitInv, [Next]_vars
    PROVE  /\ pc' # "idle" => outcome' = "none"
           /\ VisitReport' = "done" => CheckState \/ Reset \/ UNCHANGED Visit!vars
<1>1. CASE Push \/ UNCHANGED vars
      <2>1. UNCHANGED <<kind, pc, who, outcome, repo, ref, head, tree>> BY <1>1 DEF Push, vars
      <2>2. UNCHANGED Visit!vars BY <2>1 DEF Visit!vars, VisitContent, VisitInside, VisitReport
      <2> QED BY <2>1, <2>2 DEF VisitInv
<1>2. CASE ~ Push /\ ~ UNCHANGED vars
      <2>1. \/ pc' # "idle" /\ outcome' = "none"
            \/ pc' # "idle" /\ outcome' = outcome /\ pc # "idle"
            \/ pc' = "idle" /\ outcome' \in {"none", "failed", "skipped"}
            \/ pc' = "idle" /\ outcome' = "uptodate" /\ kind' # "branch"
            \/ CheckState \/ Reset
            BY <1>2, NextCases
            DEF Open, Remove, Clone, CloneEmpty, NothingToClone, InitRepo, WriteAlternates, CreateRemote,
                StartSync, ListRemote, SyncCentralCache, StartOnce, UpToDate, NotUpToDate, FetchBranch,
                FetchTag, SetReference, Checkout, NoRemote, Skip, RecreateBroken, Recreate, Fail,
                AlternatesFail, Recover, StateUnknown, Cancel, Crash, EditByHand, Move, End, Report,
                Ready, Places
      <2>2. CheckState \/ Reset => pc' = "idle" \/ (outcome' = outcome /\ pc # "idle")
            BY DEF CheckState, Reset, Move, End, Report
      <2> QED BY <2>1, <2>2 DEF VisitInv, VisitReport
<1> QED BY <1>1, <1>2

LEMMA NextVisitInv == TypeOK /\ FlowInv /\ RefInv /\ VisitInv /\ [Next]_vars => VisitInv'
<1> SUFFICES ASSUME TypeOK, FlowInv, RefInv, VisitInv, [Next]_vars PROVE VisitInv' OBVIOUS
<1>1. pc' # "idle" => outcome' = "none" BY ReportSteps
<1>2. repo'["dir"].alt => repo'["dir"].git BY DirRepo
<1>3. who' = "dir" /\ pc' \in {"remote", "check", "fetch", "setref", "state", "checkout", "reset"} =>
        repo'["dir"].git
      BY GitThere
<1>4. ASSUME VisitReport' = "done" PROVE VisitContent' = "ref"
      <2>1. CASE CheckState \/ Reset
            <3>1. /\ UNCHANGED <<repo, ref, who>> /\ pc \in {"state", "reset"} /\ ref \in Versions
                  BY <2>1 DEF CheckState, Reset, Move, End, Report, RefInv
            <3>2. repo["dir"].git BY <3>1 DEF FlowInv, VisitInv
            <3>3. RefInv' BY NextRefInv
            <3>4. outcome' = "synced" \/ (outcome' = "uptodate" /\ kind' = "branch")
                  BY <1>4 DEF VisitReport
            <3>5. head' /\ tree' = ref' BY <3>3, <3>4 DEF RefInv, ReportedIsCheckedOut, CheckedOut
            <3> QED BY <3>1, <3>2, <3>5 DEF VisitContent
      <2>2. CASE UNCHANGED Visit!vars BY <1>4, <2>2 DEF Visit!vars, VisitInv
      <2> QED BY <1>4, <2>1, <2>2, ReportSteps
<1> QED BY <1>1, <1>2, <1>3, <1>4 DEF VisitInv

\* From outside a visit.
LEMMA OutsideSteps ==
    ASSUME TypeOK, FlowInv, VisitInv, [Next]_vars, ~ VisitInside
    PROVE  [Visit!Next]_(Visit!vars)
<1> USE DEF Visit!Next, Visit!vars
<1>1. CASE pc = "idle"
      <2>1. StartSync \/ EditByHand \/ Push \/ UNCHANGED vars
            BY <1>1, NextCases
            DEF Open, Remove, Clone, CloneEmpty, NothingToClone, InitRepo, WriteAlternates, CreateRemote,
                ListRemote, SyncCentralCache, StartOnce, UpToDate, NotUpToDate, FetchBranch, FetchTag,
                SetReference, CheckState, Checkout, Reset, NoRemote, Skip, RecreateBroken, Fail,
                AlternatesFail, Recover, StateUnknown, Cancel, Crash, Move, Interrupt
      <2>2. CASE StartSync
            <3>1. VisitContent' = VisitContent BY <2>2 DEF StartSync, VisitContent
            <3>2. ~ VisitInside' /\ VisitReport' = "none" BY <2>2 DEF StartSync, VisitInside, VisitReport
            <3> QED BY <3>1, <3>2, VisitTypes DEF Visit!Forget, VisitInside
      <2>3. CASE EditByHand
            <3>1. VisitContent' = "other" BY <2>3, Numbers DEF EditByHand, VisitContent
            <3>2. ~ VisitInside' /\ VisitReport' = "none" BY <2>3 DEF EditByHand, VisitInside, VisitReport
            <3> QED BY <3>1, <3>2 DEF Visit!Disturb, VisitInside
      <2>4. CASE Push \/ UNCHANGED vars
            BY <2>4 DEF Push, vars, VisitContent, VisitInside, VisitReport
      <2> QED BY <2>1, <2>2, <2>3, <2>4
<1>2. CASE pc # "idle"
      <2>1. who = "resolver" /\ VisitReport = "none"
            BY <1>2 DEF VisitInside, VisitInv, VisitReport, TypeOK
      <2>2. UNCHANGED <<ref, head, tree>>
            BY <1>2, <2>1, NextCases
            DEF Open, Remove, Clone, CloneEmpty, NothingToClone, InitRepo, WriteAlternates, CreateRemote,
                StartSync, ListRemote, SyncCentralCache, StartOnce, UpToDate, NotUpToDate, FetchBranch,
                FetchTag, SetReference, CheckState, Checkout, Reset, NoRemote, Skip, RecreateBroken,
                Recreate, Fail, AlternatesFail, Recover, StateUnknown, Cancel, Crash, EditByHand, Push, vars,
                Move, MaybeTorn, FlowInv
      <2>3. repo'["dir"] = repo["dir"]
            <3>1. UNCHANGED repo \/ Remove \/ InitRepo \/ WriteAlternates \/ Clone \/ CreateRemote \/ Crash
                  BY RepoSteps
            <3> QED BY <2>1, <3>1
                DEF Remove, InitRepo, WriteAlternates, AddAlternates, Clone, CreateRemote, Crash, TypeOK
      <2>4. VisitContent' = VisitContent BY <2>2, <2>3 DEF VisitContent
      <2>5. CASE pc' # "idle"
            <3>1. VisitReport' = "none" BY <2>5, ReportSteps DEF VisitReport
            <3> QED BY <2>1, <2>4, <3>1, VisitTypes DEF Visit!Enter, VisitInside
      <2>6. CASE pc' = "idle"
            <3>1. ~ VisitInside' BY <2>6 DEF VisitInside
            <3>2. VisitReport' # "done"
                  BY <1>2, <2>1, <2>6, ReportSteps
                  DEF Visit!vars, CheckState, Reset, Move, FlowInv
            <3>3. VisitReport' \in {"none", "failed"} BY <3>2, VisitTypes DEF VisitReport
            <3> QED BY <2>1, <2>4, <3>1, <3>3 DEF Visit!Refuse, VisitInside
      <2> QED BY <2>5, <2>6
<1> QED BY <1>1, <1>2

\* A visit goes on, or it ends with its report.
LEMMA InsideSteps ==
    ASSUME TypeOK, FlowInv, VisitInv, VisitInv', [Next]_vars, VisitInside
    PROVE  [Visit!Next]_(Visit!vars)
<1> USE DEF Visit!Next, Visit!vars
<1>1. pc # "idle" /\ who = "dir" /\ VisitReport = "none" BY DEF VisitInside, VisitInv, VisitReport
<1>2. VisitContent' \in Visit!Contents BY DEF VisitContent, Visit!Contents
<1>3. VisitReport' \in {"none", "done", "failed"} BY DEF VisitReport
<1>4. CASE pc' = "idle"
      <2>1. ~ VisitInside' BY <1>4 DEF VisitInside
      <2>2. VisitReport' = "done" => VisitContent' = "ref" BY DEF VisitInv
      <2> QED BY <1>2, <1>3, <2>1, <2>2 DEF Visit!Succeed, Visit!GiveUp
<1>5. CASE pc' # "idle"
      <2>1. who' = "dir"
            BY <1>1, <1>5, NextCases
            DEF Open, Remove, Clone, CloneEmpty, NothingToClone, InitRepo, WriteAlternates, CreateRemote,
                StartSync, ListRemote, SyncCentralCache, StartOnce, UpToDate, NotUpToDate, FetchBranch,
                FetchTag, SetReference, CheckState, Checkout, Reset, NoRemote, Skip, RecreateBroken,
                Recreate, Fail, AlternatesFail, Recover, StateUnknown, Cancel, Crash, EditByHand, Push, vars
      <2>2. VisitInside' BY <1>5, <2>1 DEF VisitInside
      <2>3. VisitReport' = "none" BY <1>5, ReportSteps DEF VisitReport
      <2> QED BY <1>1, <1>2, <2>2, <2>3, VisitTypes DEF Visit!Touch
<1> QED BY <1>4, <1>5

\* However a sync of a ref fails, retries or is cut short, it is a visit that
\* reports the ref as done only as it leaves it in place.
THEOREM VisitRefinement == Spec => ImplementsVisit
<1>1. Init => VisitInv /\ Visit!Init
      BY DEF Init, VisitInv, Visit!Init, VisitContent, VisitInside, VisitReport, Gone
<1>2. Init => RefInv BY DEF Init, RefInv, ReportedIsCheckedOut
<1>3. TypeOK /\ FlowInv /\ RefInv /\ VisitInv /\ [Next]_vars => [Visit!Next]_(Visit!vars)
      BY NextVisitInv, OutsideSteps, InsideSteps
<1> QED BY <1>1, <1>2, <1>3, NextRefInv, NextVisitInv, FlowCorrect, PTL
        DEF Spec, ImplementsVisit, Visit!Spec

\* What a ref is reported as stands until it is visited again, in any sync
\* that is made of such visits.
LEMMA DoneStands == Visit!Spec => []Visit!DoneIsThere
<1> DEFINE AbstractInv == Visit!DoneIsThere /\ (VisitInside => VisitReport = "none")
<1>1. Visit!Init => AbstractInv BY DEF Visit!Init, Visit!DoneIsThere
<1>2. AbstractInv /\ [Visit!Next]_(Visit!vars) => AbstractInv'
      BY DEF Visit!DoneIsThere, Visit!Next, Visit!vars, Visit!Enter, Visit!Touch, Visit!Succeed,
             Visit!GiveUp, Visit!Refuse, Visit!Forget, Visit!Disturb, Visit!Prune
<1> QED BY <1>1, <1>2, PTL DEF Visit!Spec

-----------------------------------------------------------------------------
(* A sync comes to an end.                                                 *)

\* The resolver is never recreated, and the retry is the last visit.
AttemptInv ==
    /\ who = "resolver" /\ pc # "idle" => attempt = "first"
    /\ pc = "start" => attempt \in {"first", "recreate"}

LEMMA NextAttemptInv == TypeOK /\ FlowInv /\ AttemptInv /\ [Next]_vars => AttemptInv'
<1> SUFFICES ASSUME TypeOK, FlowInv, AttemptInv, [Next]_vars PROVE AttemptInv' OBVIOUS
<1>1. CASE StartSync BY <1>1 DEF StartSync, AttemptInv
<1>2. CASE SyncCentralCache BY <1>2 DEF SyncCentralCache, Move, AttemptInv, FlowInv
<1>3. CASE StartOnce
      BY <1>3 DEF StartOnce, Move, AttemptInv, FlowInv
<1>4. CASE RecreateBroken \/ Recover
      BY <1>4 DEF RecreateBroken, Recover, Recreate, AttemptInv, FlowInv
<1>5. CASE Open \/ CreateRemote
      BY <1>5 DEF Open, CreateRemote, Move, Ready, AttemptInv
<1>6. CASE ~ (StartSync \/ SyncCentralCache \/ StartOnce \/ RecreateBroken \/ Recover \/ Open \/ CreateRemote)
      <2>1. UNCHANGED <<who, attempt>> /\ (pc' = "idle" \/ (pc # "idle" /\ (pc' = pc \/ pc' # "start")))
            BY <1>6, NextCases
            DEF Remove, Clone, CloneEmpty, NothingToClone, InitRepo, WriteAlternates, ListRemote, UpToDate,
                NotUpToDate, FetchBranch, FetchTag, SetReference, CheckState, Checkout, Reset, NoRemote,
                Skip, Fail, AlternatesFail, StateUnknown, Cancel, Crash, EditByHand, Push, vars, Move, End,
                Report
      <2> QED BY <2>1 DEF AttemptInv
<1> QED BY <1>1, <1>2, <1>3, <1>4, <1>5, <1>6

LEMMA LeftTypes ==
    ASSUME TypeOK
    PROVE  VisitsLeft \in 0 .. 3 /\ (pc # "idle" => PlacesLeft \in 1 .. 15)
<1>1. VisitsLeft \in 0 .. 3 BY DEF TypeOK, VisitsLeft
<1>2. pc # "idle" => PlacesLeft \in 1 .. 15 BY DEF TypeOK, Places, PlacesLeft
<1> QED BY <1>1, <1>2

\* Within a visit, from one to the next, and out of the last one.
LEMMA LeftFewer ==
    ASSUME TypeOK, TypeOK', pc # "idle",
           \/ pc' = "idle"
           \/ pc' # "idle" /\ VisitsLeft' = VisitsLeft /\ PlacesLeft' < PlacesLeft
           \/ pc' # "idle" /\ VisitsLeft' < VisitsLeft
    PROVE  StepsLeft' < StepsLeft
<1>1. VisitsLeft \in 0 .. 3 /\ PlacesLeft \in 1 .. 15 BY LeftTypes
<1>2. VisitsLeft' \in 0 .. 3 /\ (pc' # "idle" => PlacesLeft' \in 1 .. 15)
      <2>1. VisitsLeft' \in 0 .. 3 BY DEF TypeOK, VisitsLeft
      <2>2. pc' # "idle" => PlacesLeft' \in 1 .. 15 BY DEF TypeOK, Places, PlacesLeft
      <2> QED BY <2>1, <2>2
<1> DEFINE m == VisitsLeft
           n == PlacesLeft
<1>3. StepsLeft = 16 * m + n /\ StepsLeft' = IF pc' = "idle" THEN 0 ELSE 16 * m' + n' BY DEF StepsLeft
<1> HIDE DEF m, n
<1> QED BY <1>1, <1>2, <1>3 DEF m, n

LEMMA StepsGoDown ==
    ASSUME TypeOK, FlowInv, AttemptInv, [Next]_vars
    PROVE  \/ StepsLeft' < StepsLeft
           \/ StartSync \/ Cancel \/ EditByHand \/ Push \/ UNCHANGED vars
<1>a. TypeOK' BY NextTypeOK
<1>b. ASSUME UNCHANGED <<who, attempt>>, pc \notin {"idle", "start"}, pc' \notin {"idle", "start"},
             PlacesLeft' < PlacesLeft
      PROVE  StepsLeft' < StepsLeft
      <2>1. VisitsLeft' = VisitsLeft BY <1>b DEF VisitsLeft
      <2> QED BY <1>a, <1>b, <2>1, LeftFewer
<1>1. CASE Open \/ CreateRemote
      <2>1. UNCHANGED <<who, attempt>> /\ pc \in {"open", "remote"}
            /\ \/ pc = "open" /\ pc' \in {"remove", "clone", "list", "check"}
               \/ pc = "remote" /\ pc' \in {"list", "check"}
               \/ pc' = "start" /\ who = "dir" /\ attempt = "recreate"
            BY <1>1 DEF Open, CreateRemote, Move, Ready, TypeOK
      <2>2. CASE pc' = "start"
            <3>1. VisitsLeft' = VisitsLeft /\ PlacesLeft' < PlacesLeft
                  BY <2>1, <2>2 DEF VisitsLeft, PlacesLeft
            <3> QED BY <1>a, <2>1, <2>2, <3>1, LeftFewer
      <2>3. CASE pc' # "start"
            <3>1. PlacesLeft' < PlacesLeft BY <2>1, <2>3 DEF PlacesLeft
            <3> QED BY <1>b, <2>1, <2>3, <3>1
      <2> QED BY <2>2, <2>3
<1>2. CASE SyncCentralCache
      <2>1. pc = "cache" /\ pc' = "start" /\ who' = "dir" /\ attempt' = attempt
            /\ who = "resolver" /\ attempt = "first"
            BY <1>2 DEF SyncCentralCache, Move, FlowInv, AttemptInv
      <2>2. VisitsLeft' = VisitsLeft /\ PlacesLeft' < PlacesLeft BY <2>1 DEF VisitsLeft, PlacesLeft
      <2> QED BY <1>a, <2>1, <2>2, LeftFewer
<1>3. CASE StartOnce
      <2>1. /\ pc = "start" /\ pc' = "open" /\ who = "dir" /\ who' = "dir"
            /\ \/ attempt = "first" /\ attempt' = "first"
               \/ attempt = "recreate" /\ attempt' = "retry"
            BY <1>3 DEF StartOnce, Move, FlowInv, AttemptInv
      <2>2. VisitsLeft' < VisitsLeft BY <2>1 DEF VisitsLeft
      <2> QED BY <1>a, <2>1, <2>2, LeftFewer
<1>4. CASE RecreateBroken \/ Recover
      <2>1. /\ who = "dir" /\ who' = "dir" /\ attempt = "first" /\ attempt' = "recreate"
            /\ pc \notin {"idle", "start"} /\ pc' = "remove"
            BY <1>4 DEF RecreateBroken, Recover, Recreate, OnFirst, FlowInv
      <2>2. VisitsLeft' < VisitsLeft BY <2>1 DEF VisitsLeft
      <2> QED BY <1>a, <2>1, <2>2, LeftFewer
<1>5. CASE \/ Remove \/ Clone \/ CloneEmpty \/ InitRepo \/ WriteAlternates \/ ListRemote \/ NotUpToDate
           \/ FetchBranch \/ FetchTag \/ SetReference \/ Checkout \/ AlternatesFail \/ StateUnknown
      <2>1. /\ UNCHANGED <<who, attempt>>
            /\ \/ pc = "remove" /\ pc' = "clone"
               \/ pc = "clone" /\ pc' \in {"remote", "init"}
               \/ pc = "init" /\ pc' = "alternates"
               \/ pc = "alternates" /\ pc' = "remote"
               \/ pc = "list" /\ pc' = "cache"
               \/ pc = "check" /\ pc' = "fetch"
               \/ pc = "fetch" /\ pc' \in {"setref", "checkout"}
               \/ pc = "setref" /\ pc' = "state"
               \/ pc = "state" /\ pc' = "checkout"
               \/ pc = "checkout" /\ pc' = "reset"
            BY <1>5
            DEF Remove, Clone, CloneEmpty, InitRepo, WriteAlternates, ListRemote, NotUpToDate, FetchBranch,
                FetchTag, SetReference, Checkout, AlternatesFail, StateUnknown, Move
      <2>2. PlacesLeft' < PlacesLeft BY <2>1 DEF PlacesLeft
      <2> QED BY <1>b, <2>1, <2>2
<1>6. CASE UpToDate \/ CheckState
      <2>1. /\ UNCHANGED <<who, attempt>> /\ pc \in {"check", "state"}
            /\ \/ pc = "check" /\ pc' = "state"
               \/ pc = "state" /\ pc' = "checkout"
               \/ pc' = "idle"
            BY <1>6 DEF UpToDate, CheckState, Move, End, Report
      <2>2. CASE pc' = "idle" BY <1>a, <2>1, <2>2, LeftFewer
      <2>3. CASE pc' # "idle"
            <3>1. PlacesLeft' < PlacesLeft BY <2>1, <2>3 DEF PlacesLeft
            <3> QED BY <1>b, <2>1, <2>3, <3>1
      <2> QED BY <2>2, <2>3
<1>7. CASE NothingToClone \/ Reset \/ NoRemote \/ Skip \/ Fail \/ Crash
      <2>1. pc # "idle" /\ pc' = "idle"
            BY <1>7 DEF NothingToClone, Reset, NoRemote, Skip, Fail, Crash, End, Report
      <2> QED BY <1>a, <2>1, LeftFewer
<1> QED BY <1>1, <1>2, <1>3, <1>4, <1>5, <1>6, <1>7, NextCases

\* A sync of a ref ends within a bounded number of steps of its own, whatever
\* fails in it and how often.
THEOREM SyncBounded == Spec => SyncIsBounded
<1>1. Init => AttemptInv BY DEF Init, AttemptInv
<1>2. TypeOK /\ FlowInv /\ AttemptInv /\ [Next]_vars =>
        [StepsLeft' < StepsLeft \/ StartSync \/ Cancel \/ EditByHand \/ Push]_vars
      BY StepsGoDown
<1> QED BY <1>1, <1>2, NextAttemptInv, FlowCorrect, PTL DEF Spec, SyncIsBounded
=============================================================================
