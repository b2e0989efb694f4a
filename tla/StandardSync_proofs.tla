-------------------------- MODULE StandardSync_proofs --------------------------
(***************************************************************************)
(* For any branches, tags, configurations and commands: what a standard    *)
(* sync reports is in the working copy when it ends, every listed ref is   *)
(* accounted for, polls skip only stale branches, refs go only if they are *)
(* to be pruned, each ref is visited as RefVisit has it, and a sync ends.  *)
(***************************************************************************)
EXTENDS StandardSync, FiniteSetTheorems, TLAPS

USE DEF upstreamVars, refVars, copyVars, planVars, refResults, resultVars, worldVars

\* The steps, those of a loop by their branch or tag.
LEMMA NextCases ==
    ASSUME [Next]_vars
    PROVE  \/ \E fs \in Commands \cup {{}} : Begin(fs) /\ changes' \in {changes, changes + 1}
                                             /\ (changes' # changes => changes < MaxChanges)
           \/ Open \/ OpenFails \/ PlainInit \/ CreateRemote \/ List \/ ListFails
           \/ \E b \in BranchNames : SkipStale(b) \/ FetchBranch(b) \/ BranchGone(b) \/ PruneBranch(b)
           \/ SetReference \/ BranchesCut \/ BranchesDone \/ ObsoleteDone \/ StaleDone
           \/ NoTags \/ FetchTags \/ TagGone \/ TagsDone
           \/ \E t \in TagNames : PruneTag(t)
           \/ NoCheckout \/ Checkout \/ CheckoutMissing \/ Fallback \/ FallbackMissing
           \/ Fail \/ BranchFails \/ PruneFails \/ LocalListFails \/ TagsFail \/ CheckoutFails
           \/ \E b \in BranchNames : StalenessUnknown(b)
           \/ Cancel \/ Crash
           \/ World
           \/ UNCHANGED vars
<1> USE StandardAssumption DEF StandardAssumption
<1>1. Poll => Begin({}) /\ changes' = changes BY DEF Poll
<1>2. Command => changes < MaxChanges /\ changes' = changes + 1 /\ \E fs \in Commands : Begin(fs)
      BY DEF Command
<1> QED BY <1>1, <1>2 DEF Next, Sync, Trouble, BranchStep

-----------------------------------------------------------------------------
\* What a step leaves alone when it does not touch the configuration.
LEMMA FileKept ==
    ASSUME UNCHANGED file
    PROVE  conf' = conf /\ Branches' = Branches /\ Tags' = Tags
BY DEF conf, Branches, Tags

LEMMA InitTypeOK == Init => TypeOK
<1> SUFFICES ASSUME Init PROVE TypeOK OBVIOUS
<1>1. 0 \in Versions /\ 0 \in 0 .. MaxChanges /\ 0 \in 0 .. MaxFaults
      BY StandardAssumption DEF Versions, StandardAssumption
<1>2. Found(Names) = {} BY DEF Init, Found, NoTargets
<1>3. up \in Targets /\ local \in Targets /\ listed \in Targets
      BY <1>1 DEF Init, Targets, NoTargets
<1>4. /\ aged \in [BranchNames -> Versions \cup {-1}]
      /\ track \in [BranchNames -> Versions \cup {NoRef}]
      BY <1>1 DEF Init
<1> QED BY <1>1, <1>2, <1>3, <1>4 DEF Init, TypeOK

\* A sync starts, or nothing of it is left, with an empty listing.
LEMMA ForgetTypes ==
    ASSUME Forget
    PROVE  /\ listed' \in Targets /\ Found(Names)' = {}
           /\ dflt' = NoRef /\ todo' = {} /\ cur' = NoRef
           /\ done' = {} /\ failed' = {} /\ skipped' = {} /\ pruned' = {} /\ deployed' = NoRef
           /\ err' = FALSE /\ cancelled' = FALSE
BY DEF Forget, NoTargets, Targets, Found

LEMMA CheckoutAt == CheckingOut # NoRef => pc \in {"checkout", "fallback"}
BY DEF CheckingOut

\* What a checkout leaves that gets half-way.
LEMMA HalfWay ==
    ASSUME TypeOK, CheckingOut # NoRef, HalfCheckedOut
    PROVE  head' \in Names \cup {NoRef} /\ tree' \in Versions \cup {Other}
<1>1. CheckingOut \in Names BY DEF CheckingOut, Resolved
<1> QED BY <1>1 DEF HalfCheckedOut, TypeOK

LEMMA NextTypeOK == TypeOK /\ [Next]_vars => TypeOK'
<1> SUFFICES ASSUME TypeOK, [Next]_vars PROVE TypeOK' OBVIOUS
<1> DEFINE Tracks == [BranchNames -> Versions \cup {NoRef}]
<1>a. BranchNames \subseteq Names /\ TagNames \subseteq Names BY DEF Names
<1>b. ASSUME UNCHANGED <<file, listed>> PROVE (Found(Names) \subseteq Branches \cup Tags)'
      BY <1>b, FileKept DEF Found, TypeOK
<1>c. /\ changes \in 0 .. MaxChanges /\ (changes < MaxChanges => changes + 1 \in 0 .. MaxChanges)
      /\ faults \in 0 .. MaxFaults /\ (faults < MaxFaults => faults + 1 \in 0 .. MaxFaults)
      BY StandardAssumption DEF StandardAssumption, TypeOK
<1>d. NoRef \notin BranchNames BY StandardAssumption DEF StandardAssumption, Names
<1> USE <1>a, <1>c, <1>d DEF TypeOK, Take, Move, Skip, GiveUp, Fault, Change
<1>1. ASSUME NEW fs \in Commands \cup {{}}, Begin(fs), changes' \in {changes, changes + 1},
             changes' # changes => changes < MaxChanges
      PROVE  TypeOK'
      <2>1. flags' \subseteq {"prune", "prune_stale", "stale_age", "dry"}
            BY <1>1, StandardAssumption DEF StandardAssumption, Begin
      <2>2. opts' \subseteq {"prune", "stale", "aged", "dry"} BY <1>1 DEF Begin, Effective
      <2> QED BY <1>1, <2>1, <2>2, ForgetTypes DEF Begin
<1>2. CASE Open \/ OpenFails \/ PlainInit \/ CreateRemote
      BY <1>2, <1>b DEF Open, OpenFails, PlainInit, CreateRemote
<1>3. CASE List
      <2>1. UNCHANGED file BY <1>3 DEF List
      <2>2. (Found(Names) \subseteq Branches \cup Tags)'
            BY <1>3, <2>1, FileKept DEF List, Matching, Found
      <2>3. todo' \subseteq Names BY <1>3 DEF List, Branches
      <2>4. listed' \in Targets BY <1>3 DEF List, Matching, Targets
      <2> QED BY <1>3, <2>2, <2>3, <2>4 DEF List
<1>4. CASE ListFails BY <1>4, <1>b DEF ListFails
<1>5. ASSUME NEW b \in BranchNames, SkipStale(b) \/ BranchGone(b) PROVE TypeOK'
      <2>1. CASE SkipStale(b) BY <2>1, <1>b DEF SkipStale
      <2>2. CASE BranchGone(b) BY <2>2, <1>b DEF BranchGone
      <2> QED BY <1>5, <2>1, <2>2
<1>6. ASSUME NEW b \in BranchNames, FetchBranch(b) PROVE TypeOK'
      <2>1. track' \in Tracks BY <1>6 DEF FetchBranch, Targets
      <2> QED BY <1>6, <1>b, <2>1 DEF FetchBranch
<1>7. ASSUME NEW b \in BranchNames, PruneBranch(b) PROVE TypeOK'
      <2>1. local' \in Targets /\ track' \in Tracks BY <1>7 DEF PruneBranch, Targets
      <2> QED BY <1>7, <1>b, <2>1 DEF PruneBranch
<1>8. CASE SetReference
      <2>1. local' \in Targets BY <1>8 DEF SetReference, MoveBranch, Targets
      <2> QED BY <1>8, <1>b, <2>1 DEF SetReference
<1>9. CASE BranchesCut \/ BranchesDone \/ ObsoleteDone \/ StaleDone
      <2>1. todo' \subseteq Names
            BY <1>9 DEF BranchesCut, BranchesDone, ObsoleteDone, StaleDone, LocalBranches, NotCheckout
      <2>2. pc' \in {"tags", "obsolete", "stale"}
            BY <1>9 DEF BranchesCut, BranchesDone, ObsoleteDone, StaleDone
      <2>3. UNCHANGED <<worldVars, repo, copyVars, planVars, cur, resultVars, cancelled, changes, faults>>
            BY <1>9 DEF BranchesCut, BranchesDone, ObsoleteDone, StaleDone
      <2> QED BY <2>1, <2>2, <2>3, <1>b
<1>10. CASE NoTags \/ TagsDone BY <1>10, <1>b DEF NoTags, TagsDone
<1>11. CASE FetchTags
      <2>1. local' \in Targets BY <1>11 DEF FetchTags, Targets
      <2>2. done' \subseteq Names BY <1>11 DEF FetchTags, Found, Tags
      <2>3. todo' \subseteq Names BY <1>11 DEF FetchTags, TagsToPrune, LocalTags
      <2> QED BY <1>11, <1>b, <2>1, <2>2, <2>3 DEF FetchTags
<1>12. CASE TagGone \/ TagsFail
      <2>1. TagsFailed /\ UNCHANGED <<worldVars, flags, opts, changes>> /\ pc' = "checkout"
            BY <1>12 DEF TagGone, TagsFail
      <2>2. done' \subseteq Names /\ failed' \subseteq Names
            BY <2>1 DEF TagsFailed, Missing, Found, Tags
      <2>3. local' \in Targets BY <1>12 DEF TagGone, TagsFail, Targets
      <2>4. faults' \in 0 .. MaxFaults /\ cancelled' \in BOOLEAN BY <1>12 DEF TagGone, TagsFail
      <2> QED BY <2>1, <2>2, <2>3, <2>4, <1>b DEF TagsFailed
<1>13. ASSUME NEW t \in TagNames, PruneTag(t) PROVE TypeOK'
      <2>1. local' \in Targets BY <1>13 DEF PruneTag, Targets
      <2> QED BY <1>13, <1>b, <2>1 DEF PruneTag
<1>14. CASE NoCheckout \/ CheckoutMissing \/ FallbackMissing
      <2>1. /\ UNCHANGED <<worldVars, repo, copyVars, planVars, todo, cur, refResults, deployed>>
            /\ UNCHANGED <<cancelled, changes, faults>>
            BY <1>14 DEF NoCheckout, CheckoutMissing, FallbackMissing
      <2>2. pc' \in {"fallback", "ended"} /\ (pc' = "fallback" => dflt # NoRef) /\ err' \in BOOLEAN
            BY <1>14 DEF NoCheckout, CheckoutMissing, HasFallback, FallbackMissing
      <2> QED BY <2>1, <2>2, <1>b
<1>15. CASE Checkout \/ Fallback
      <2>1. PICK n \in Names : CheckOut("checkout", n) \/ CheckOut("fallback", n)
            BY <1>15 DEF Checkout, Fallback, CheckOut, Resolved
      <2>2. local[n] \in Versions BY <2>1 DEF CheckOut, Resolved, Targets
      <2>3. /\ UNCHANGED <<worldVars, repo, refVars, planVars, todo, cur, refResults, err>>
            /\ UNCHANGED <<cancelled, changes, faults>> /\ pc' = "ended"
            BY <2>1 DEF CheckOut
      <2>4. head' = n /\ tree' \in Versions /\ deployed' = n BY <2>1, <2>2 DEF CheckOut, SetHead
      <2> QED BY <2>3, <2>4, <1>b
<1>16. CASE Fail
      <2>1. /\ UNCHANGED <<worldVars, copyVars, planVars, todo, cur, refResults, deployed, changes>>
            /\ pc' = "ended" /\ err' = TRUE
            BY <1>16 DEF Fail
      <2>2. repo' \in {"none", "stub", "bare", "ready"} BY <1>16 DEF Fail
      <2>3. faults' \in 0 .. MaxFaults /\ cancelled' \in BOOLEAN BY <1>16 DEF Fail
      <2> QED BY <2>1, <2>2, <2>3, <1>b
<1>17. CASE BranchFails
      <2>1. /\ UNCHANGED <<worldVars, repo, copyVars, planVars, done, skipped, pruned, deployed, err, changes>>
            /\ pc' = "branches" /\ cur' = NoRef
            BY <1>17 DEF BranchFails
      <2>2. failed' \subseteq Names /\ todo' \subseteq Names BY <1>17 DEF BranchFails
      <2>3. faults' \in 0 .. MaxFaults /\ cancelled' \in BOOLEAN BY <1>17 DEF BranchFails
      <2> QED BY <2>1, <2>2, <2>3, <1>b
<1>18. CASE PruneFails
      <2>1. local' \in Targets /\ todo' \subseteq todo BY <1>18 DEF PruneFails, Targets
      <2>2. UNCHANGED <<worldVars, repo, track, head, tree, pc, planVars, cur, resultVars, changes>>
            BY <1>18 DEF PruneFails
      <2>3. faults' \in 0 .. MaxFaults /\ cancelled' \in BOOLEAN BY <1>18 DEF PruneFails
      <2> QED BY <2>1, <2>2, <2>3, <1>b
<1>19. CASE LocalListFails
      <2>1. pc' \in {"obsolete", "tags", "checkout"} /\ err' \in BOOLEAN BY <1>19 DEF LocalListFails
      <2>2. /\ UNCHANGED <<worldVars, repo, copyVars, planVars, cur, refResults, deployed, changes>>
            /\ faults' \in 0 .. MaxFaults /\ cancelled' \in BOOLEAN /\ todo' = {}
            BY <1>19 DEF LocalListFails
      <2> QED BY <2>1, <2>2, <1>b
<1>20. CASE CheckoutFails
      <2>1. head' \in Names \cup {NoRef} BY <1>20, HalfWay DEF CheckoutFails, TypeOK
      <2>2. tree' \in Versions \cup {Other} BY <1>20, HalfWay DEF CheckoutFails, TypeOK
      <2>3. pc' \in {"fallback", "ended"} /\ (pc' = "fallback" => dflt # NoRef) /\ err' \in BOOLEAN
            BY <1>20 DEF CheckoutFails, HasFallback
      <2>4. /\ UNCHANGED <<worldVars, repo, refVars, planVars, todo, cur, refResults, deployed, changes>>
            /\ faults' \in 0 .. MaxFaults /\ cancelled' \in BOOLEAN
            BY <1>20 DEF CheckoutFails
      <2> QED BY <2>1, <2>2, <2>3, <2>4, <1>b
<1>21. ASSUME NEW b \in BranchNames, StalenessUnknown(b) PROVE TypeOK'
      <2>1. track' \in Tracks BY <1>21 DEF StalenessUnknown, Targets
      <2>2. /\ UNCHANGED <<worldVars, repo, local, head, tree, planVars, resultVars, changes>>
            /\ pc' = "setref" /\ cur' = b /\ todo' \subseteq Names
            BY <1>21 DEF StalenessUnknown
      <2>3. faults' \in 0 .. MaxFaults /\ cancelled' \in BOOLEAN BY <1>21 DEF StalenessUnknown
      <2> QED BY <1>b, <2>1, <2>2, <2>3
<1>22. CASE Cancel
      <2>1. UNCHANGED <<worldVars, repo, copyVars, pc, planVars, todo, cur, resultVars, changes>>
            BY <1>22 DEF Cancel
      <2>2. faults' \in 0 .. MaxFaults /\ cancelled' \in BOOLEAN BY <1>22 DEF Cancel
      <2> QED BY <2>1, <2>2, <1>b
<1>23. CASE Crash
      <2>1. UNCHANGED <<worldVars, refVars, changes>> /\ Forget /\ pc' = "idle"
            /\ flags' = {} /\ opts' = {}
            BY <1>23 DEF Crash
      <2>2. /\ repo' \in {"none", "stub", "bare", "ready"}
            /\ head' \in Names \cup {NoRef} /\ tree' \in Versions \cup {Other}
            BY <1>23, HalfWay DEF Crash, TypeOK
      <2>3. faults' \in 0 .. MaxFaults BY <1>23 DEF Crash
      <2> QED BY <2>1, <2>2, <2>3, ForgetTypes
<1>24. CASE World
      <2>1. ASSUME NEW n \in Names, Push(n) PROVE TypeOK'
            <3>1. up[n] # NoRef => up[n] + 1 \in Versions
                  BY <2>1, StandardAssumption DEF Push, Targets, Versions, StandardAssumption
            <3>2. MaxVersion \in Versions BY StandardAssumption DEF StandardAssumption, Versions
            <3>3. up' \in Targets BY <2>1, <3>1, <3>2 DEF Push, Targets
            <3> QED BY <2>1, <1>b, <3>3 DEF Push
      <2>2. ASSUME NEW n \in Names, Delete(n) PROVE TypeOK'
            <3>1. up' \in Targets BY <2>2 DEF Delete, Targets
            <3> QED BY <2>2, <1>b, <3>1 DEF Delete
      <2>3. CASE SetDefault BY <2>3, <1>b DEF SetDefault
      <2>4. ASSUME NEW b \in BranchNames, Age(b) PROVE TypeOK'
            <3>1. aged' \in [BranchNames -> Versions \cup {-1}] BY <2>4 DEF Age, Targets
            <3> QED BY <2>4, <1>b, <3>1 DEF Age
      <2>5. CASE Configure BY <2>5, ForgetTypes DEF Configure
      <2> QED BY <1>24, <2>1, <2>2, <2>3, <2>4, <2>5 DEF World
<1>25. CASE UNCHANGED vars BY <1>25, <1>b DEF vars
<1> HIDE DEF TypeOK
<1> QED BY <1>1, <1>2, <1>3, <1>4, <1>5, <1>6, <1>7, <1>8, <1>9, <1>10, <1>11, <1>12, <1>13, <1>14,
           <1>15, <1>16, <1>17, <1>18, <1>19, <1>20, <1>21, <1>22, <1>23, <1>24, <1>25, NextCases

\* The variables keep their types; only matched refs are listed, and a step
\* has the branch it works on.
THEOREM TypeCorrect == Spec => []TypeOK
BY InitTypeOK, NextTypeOK, PTL DEF Spec

-----------------------------------------------------------------------------
(* What is reported.                                                       *)

Accounted == done \cup failed \cup skipped

\* The branches the loop has not dealt with yet.
Pending == todo \cup (IF pc = "setref" THEN {cur} ELSE {})

\* The loop over the branches takes each listed one once, and only a
\* cancellation cuts it short; the tags are dealt with together.
AccountInv ==
    /\ done \cap failed = {} /\ skipped \cap (done \cup failed) = {}
    /\ Accounted \subseteq Found(Names)
    /\ pc \in {"idle", "open", "init", "remote", "list"} => Found(Names) = {}
    /\ pc \in {"branches", "setref"} =>
         Accounted \cup Pending = Found(BranchNames) /\ Accounted \cap Pending = {}
    /\ pc = "setref" => cur \notin todo
    /\ pc \in {"obsolete", "stale", "tags"} =>
         Accounted \subseteq Found(BranchNames) /\ (cancelled \/ Accounted = Found(BranchNames))
    /\ pc \in {"tagprune", "checkout", "fallback", "ended"} =>
         cancelled \/ err \/ Accounted = Found(Names)

LEMMA FoundKept ==
    ASSUME UNCHANGED listed
    PROVE  Found(Names)' = Found(Names) /\ Found(BranchNames)' = Found(BranchNames)
           /\ Found(TagNames)' = Found(TagNames)
BY DEF Found

\* Listed names are branches or tags, and the listed tags the matched ones.
LEMMA FoundParts ==
    ASSUME TypeOK
    PROVE  /\ Found(Names) = Found(BranchNames) \cup Found(TagNames)
           /\ Found(TagNames) = Found(Tags)
           /\ Found(BranchNames) \cap Found(TagNames) = {}
BY StandardAssumption DEF Found, Names, Tags, Branches, TypeOK, StandardAssumption

\* A step that reports nothing, in the loop or outside of it.
LEMMA AccountKept ==
    ASSUME AccountInv, UNCHANGED <<listed, done, failed, skipped>>,
           cancelled => cancelled', err => err',
           \/ UNCHANGED <<pc, todo, cur>>
           \/ \E at \in {{"obsolete", "stale", "tags"}, {"tagprune", "checkout", "fallback", "ended"}} :
                pc \in at /\ pc' \in at
    PROVE  AccountInv'
BY FoundKept DEF AccountInv, Accounted, Pending

\* A step of the loop that reports a branch.
LEMMA AccountBranch ==
    ASSUME AccountInv, UNCHANGED listed, pc \in {"branches", "setref"}, pc' = "branches",
           NEW b \in Pending, todo' = Pending \ {b},
           \/ done' = done \cup {b} /\ UNCHANGED <<failed, skipped>>
           \/ failed' = failed \cup {b} /\ UNCHANGED <<done, skipped>>
           \/ skipped' = skipped \cup {b} /\ UNCHANGED <<done, failed>>
    PROVE  AccountInv'
<1>1. Accounted' = Accounted \cup {b} /\ Pending' = Pending \ {b} BY DEF Accounted, Pending
<1>2. /\ Accounted \cup Pending = Found(BranchNames) /\ Accounted \cap Pending = {}
      /\ Accounted \subseteq Found(Names)
      BY DEF AccountInv
<1>3. b \in Found(Names) BY <1>2 DEF Found, Names
<1>4. done' \cap failed' = {} /\ skipped' \cap (done' \cup failed') = {}
      BY <1>2 DEF AccountInv, Accounted
<1> QED BY <1>1, <1>2, <1>3, <1>4, FoundKept DEF AccountInv

LEMMA NextAccountInv == TypeOK /\ AccountInv /\ [Next]_vars => AccountInv'
<1> SUFFICES ASSUME TypeOK, AccountInv, [Next]_vars PROVE AccountInv' OBVIOUS
<1> USE DEF Take, Move, Skip, GiveUp, Fault, Change
<1>1. ASSUME NEW fs \in Commands \cup {{}}, Begin(fs) PROVE AccountInv'
      BY <1>1, ForgetTypes DEF Begin, AccountInv, Accounted
<1>2. CASE Open \/ OpenFails \/ PlainInit \/ CreateRemote \/ ListFails \/ Fail
      <2>1. UNCHANGED <<listed, todo, cur, refResults>> /\ (cancelled' = cancelled \/ cancelled')
            BY <1>2 DEF Open, OpenFails, PlainInit, CreateRemote, ListFails, Fail
      <2>2. pc \in {"open", "init", "remote", "list"}
            /\ (pc' \in {"init", "remote", "list"} \/ pc' = "ended")
            BY <1>2 DEF Open, OpenFails, PlainInit, CreateRemote, ListFails, Fail
      <2> QED BY <2>1, <2>2, FoundKept DEF AccountInv, Accounted
<1>3. CASE List
      <2>1. UNCHANGED file /\ Accounted = {} /\ Accounted' = {} BY <1>3 DEF List, AccountInv, Accounted
      <2>2. Found(BranchNames)' = todo'
            BY <1>3, <2>1, FileKept, StandardAssumption
               DEF List, Matching, Found, Names, Branches, Tags, StandardAssumption
      <2>3. pc' = IF todo' = {} THEN "tags" ELSE "branches" BY <1>3 DEF List
      <2>4. UNCHANGED <<done, failed, skipped>> BY <1>3 DEF List
      <2> QED BY <2>1, <2>2, <2>3, <2>4 DEF AccountInv, Accounted, Pending
<1>4. ASSUME NEW b \in BranchNames, SkipStale(b) PROVE AccountInv'
      BY <1>4, AccountBranch DEF SkipStale, Pending
<1>5. ASSUME NEW b \in BranchNames, FetchBranch(b) \/ StalenessUnknown(b) PROVE AccountInv'
      <2>1. /\ pc = "branches" /\ pc' = "setref" /\ b \in todo /\ cur' = b /\ todo' = todo \ {b}
            /\ UNCHANGED <<listed, done, failed, skipped>>
            BY <1>5 DEF FetchBranch, StalenessUnknown
      <2> QED BY <2>1, FoundKept DEF AccountInv, Accounted, Pending
<1>6. ASSUME NEW b \in BranchNames, BranchGone(b) PROVE AccountInv'
      BY <1>6, AccountBranch DEF BranchGone, Pending
<1>7. CASE SetReference
      <2>1. pc = "setref" /\ cur \notin todo BY <1>7 DEF SetReference, AccountInv
      <2> QED BY <1>7, <2>1, AccountBranch DEF SetReference, Pending
<1>8. CASE BranchFails
      <2>1. CASE pc = "setref"
            <3>1. cur \notin todo BY <2>1 DEF AccountInv
            <3> QED BY <1>8, <2>1, <3>1, AccountBranch DEF BranchFails, Pending
      <2>2. CASE pc = "branches" BY <1>8, <2>2, AccountBranch DEF BranchFails, Pending
      <2> QED BY <1>8, <2>1, <2>2 DEF BranchFails
<1>9. CASE BranchesCut \/ BranchesDone \/ ObsoleteDone \/ StaleDone
      <2>1. UNCHANGED <<listed, done, failed, skipped, cancelled>>
            BY <1>9 DEF BranchesCut, BranchesDone, ObsoleteDone, StaleDone
      <2>2. /\ pc' \in {"obsolete", "stale", "tags"}
            /\ pc \in {"obsolete", "stale"} \/ (pc = "branches" /\ (cancelled \/ todo = {}))
            BY <1>9 DEF BranchesCut, BranchesDone, ObsoleteDone, StaleDone
      <2> QED BY <2>1, <2>2, FoundKept DEF AccountInv, Accounted, Pending
<1>10. ASSUME NEW b \in BranchNames, PruneBranch(b) PROVE AccountInv'
      BY <1>10, AccountKept DEF PruneBranch
<1>11. ASSUME NEW t \in TagNames, PruneTag(t) PROVE AccountInv'
      BY <1>11, AccountKept DEF PruneTag
<1>12. CASE PruneFails
      <2>1. UNCHANGED <<pc, listed, done, failed, skipped, err>> /\ pc \in {"obsolete", "stale", "tagprune"}
            BY <1>12 DEF PruneFails
      <2>2. cancelled => cancelled' BY <1>12 DEF PruneFails
      <2> QED BY <2>1, <2>2, AccountKept
<1>13. CASE LocalListFails
      <2>1. UNCHANGED <<listed, done, failed, skipped>> BY <1>13 DEF LocalListFails
      <2>a. cancelled => cancelled' BY <1>13 DEF LocalListFails
      <2>b. err => err' BY <1>13 DEF LocalListFails
      <2>2. CASE pc = "branches"
            <3>1. todo = {} /\ pc' = "obsolete" BY <1>13, <2>2 DEF LocalListFails
            <3> QED BY <2>1, <2>2, <2>a, <3>1, FoundKept DEF AccountInv, Accounted, Pending
      <2>3. CASE pc # "branches"
            <3>1. \/ pc = "obsolete" /\ pc' = "tags"
                  \/ pc = "tagprune" /\ pc' = "checkout"
                  BY <1>13, <2>3 DEF LocalListFails
            <3> QED BY <2>1, <2>a, <2>b, <3>1, AccountKept
      <2> QED BY <2>2, <2>3
<1>14. CASE NoTags
      <2>1. /\ UNCHANGED <<listed, done, failed, skipped, cancelled>> /\ pc = "tags" /\ pc' = "checkout"
            /\ cancelled \/ Found(Tags) = {}
            BY <1>14 DEF NoTags
      <2> QED BY <2>1, FoundKept, FoundParts DEF AccountInv, Accounted
<1>15. CASE FetchTags
      <2>1. /\ UNCHANGED <<listed, failed, skipped, cancelled>> /\ done' = done \cup Found(Tags)
            /\ pc = "tags" /\ pc' = "tagprune"
            BY <1>15 DEF FetchTags
      <2> QED BY <2>1, FoundKept, FoundParts DEF AccountInv, Accounted
<1>16. CASE TagGone \/ TagsFail
      <2>1. Missing \subseteq Found(Tags) BY DEF Missing
      <2>2. /\ UNCHANGED <<listed, skipped>> /\ err'
            /\ done' = done \cup (Found(Tags) \ Missing) /\ failed' = failed \cup Missing
            /\ pc = "tags" /\ pc' = "checkout"
            BY <1>16 DEF TagGone, TagsFail, TagsFailed
      <2> QED BY <2>1, <2>2, FoundKept, FoundParts DEF AccountInv, Accounted
<1>17. CASE TagsDone BY <1>17, AccountKept DEF TagsDone
<1>18. CASE NoCheckout \/ CheckoutMissing \/ FallbackMissing
      BY <1>18, AccountKept DEF NoCheckout, CheckoutMissing, FallbackMissing
<1>19. CASE Checkout \/ Fallback BY <1>19, AccountKept DEF Checkout, Fallback, CheckOut
<1>20. CASE CheckoutFails
      <2>1. UNCHANGED <<listed, done, failed, skipped>> BY <1>20 DEF CheckoutFails
      <2>2. cancelled => cancelled' BY <1>20 DEF CheckoutFails
      <2>3. err => err' BY <1>20 DEF CheckoutFails
      <2>4. pc \in {"checkout", "fallback"} /\ pc' \in {"fallback", "ended"}
            BY <1>20, CheckoutAt DEF CheckoutFails
      <2> QED BY <2>1, <2>2, <2>3, <2>4, AccountKept
<1>21. CASE Cancel BY <1>21, AccountKept DEF Cancel
<1>22. CASE Crash BY <1>22, ForgetTypes DEF Crash, AccountInv, Accounted
<1>23. CASE World
      <2>1. CASE Configure BY <2>1, ForgetTypes DEF Configure, AccountInv, Accounted
      <2>2. CASE ~ Configure
            <3>1. Change BY <1>23, <2>2 DEF World, Push, Delete, SetDefault, Age
            <3> QED BY <3>1, AccountKept
      <2> QED BY <2>1, <2>2
<1>24. CASE UNCHANGED vars BY <1>24, AccountKept DEF vars
<1> QED BY <1>1, <1>2, <1>3, <1>4, <1>5, <1>6, <1>7, <1>8, <1>9, <1>10, <1>11, <1>12, <1>13, <1>14,
           <1>15, <1>16, <1>17, <1>18, <1>19, <1>20, <1>21, <1>22, <1>23, <1>24, NextCases

\* A sync that ends by itself has reported or skipped every listed ref once.
THEOREM RefsAccounted == Spec => []EveryRefAccounted
<1>1. Init => AccountInv BY DEF Init, AccountInv, Accounted, Found, NoTargets
<1>2. AccountInv => EveryRefAccounted BY DEF AccountInv, Accounted, EveryRefAccounted
<1> QED BY <1>1, <1>2, NextAccountInv, TypeCorrect, PTL DEF Spec

-----------------------------------------------------------------------------
(* What the options come to.                                               *)

LEMMA Completed ==
    ASSUME NEW f \in {"prune", "prune_stale"}, file \in Files
    PROVE  /\ conf[f] \in BOOLEAN
           /\ conf[f] = TRUE => (IF file.entry[f] = Unset THEN file.defaults[f] ELSE file.entry[f]) = TRUE
<1>1. f \in Fields /\ f \in Flags /\ f \notin OwnFields /\ f \notin {"poll_interval", "stale_age"}
      BY DEF Fields, Flags, OwnFields
<1>2. {file.entry[f], file.defaults[f]} \subseteq BOOLEAN \cup {Unset}
      BY <1>1, StandardAssumption DEF StandardAssumption
<1>3. conf[f] = IF ApplyDefaults(file.entry, file.defaults)[f] = Unset THEN FALSE
                ELSE ApplyDefaults(file.entry, file.defaults)[f]
      BY <1>1 DEF conf, Loaded, Canonical
<1>4. ApplyDefaults(file.entry, file.defaults)[f] =
        IF file.entry[f] = Unset THEN file.defaults[f] ELSE file.entry[f]
      BY <1>1 DEF ApplyDefaults
<1> QED BY <1>2, <1>3, <1>4, UnsetAssumption DEF UnsetAssumption

LEMMA Settings ==
    ASSUME file \in Files, opts = Effective(conf, flags)
    PROVE  /\ "prune" \in opts => Says("prune")
           /\ "stale" \in opts => Says("prune") /\ Says("prune_stale")
           /\ conf.checkout = file.entry["checkout"]
           /\ "dry" \in flags => "dry" \in opts
           /\ flags = {} /\ "stale" \in opts => "aged" \in opts
<1>1. /\ "prune" \in opts => conf.prune \/ "prune" \in flags
      /\ "stale" \in opts => /\ conf.prune \/ "prune" \in flags
                             /\ conf.prune_stale \/ "prune_stale" \in flags
      /\ "dry" \in flags => "dry" \in opts
      /\ conf.stale_age # Unset => "aged" \in opts
      BY DEF Effective
<1>2. /\ conf.prune = conf["prune"] /\ conf.prune_stale = conf["prune_stale"]
      /\ (conf.prune => Says("prune")) /\ (conf.prune_stale => Says("prune_stale"))
      BY Completed DEF Says
<1>3. conf.checkout = file.entry["checkout"]
      BY DEF conf, Loaded, Canonical, ApplyDefaults, Fields, Flags, OwnFields
<1>4. conf.prune_stale = TRUE => conf.stale_age # Unset
      BY UnsetAssumption DEF conf, Loaded, Canonical, Fields, Flags, UnsetAssumption
<1> QED BY <1>1, <1>2, <1>3, <1>4, Completed DEF Says

-----------------------------------------------------------------------------
(* What a sync knows: its options are those of the configuration it was    *)
(* started with, a branch upstream is no older than it was listed, and the *)
(* commit fetched for one is there and no older either.                    *)

PlanInv ==
    /\ pc # "idle" => opts = Effective(conf, flags)
    /\ pc \in {"idle", "open", "init", "remote", "list"} => done = {} /\ skipped = {}
    /\ \A n \in Names : listed[n] # NoRef /\ up[n] # NoRef => up[n] >= listed[n]
    /\ pc = "setref" => track[cur] # NoRef /\ track[cur] >= listed[cur]

\* A step within a sync, before or after the update of a branch.
LEMMA PlanKept ==
    ASSUME PlanInv, UNCHANGED <<file, flags, opts, listed, up>>, pc # "idle",
           pc' # "setref",
           \/ UNCHANGED <<done, skipped>> /\ pc' \notin {"idle", "open"}
              /\ (pc' \in {"init", "remote", "list"} => pc \in {"open", "init", "remote", "list"})
           \/ pc' \notin {"idle", "open", "init", "remote", "list"}
    PROVE  PlanInv'
BY FileKept DEF PlanInv

\* A step of the world leaves a sync what it knows.
LEMMA PushGrows ==
    ASSUME TypeOK, PlanInv, NEW n \in Names, Push(n) \/ Delete(n)
    PROVE  \A m \in Names : listed[m] # NoRef /\ up'[m] # NoRef => up'[m] >= listed[m]
<1> SUFFICES ASSUME NEW m \in Names, listed[m] # NoRef, up'[m] # NoRef PROVE up'[m] >= listed[m]
    OBVIOUS
<1>1. /\ listed[m] \in 0 .. MaxVersion /\ (up[m] \in 0 .. MaxVersion \/ up[m] = NoRef)
      /\ MaxVersion \in Nat
      BY StandardAssumption DEF TypeOK, Targets, Versions, StandardAssumption
<1>2. up[m] # NoRef => up[m] >= listed[m] BY DEF PlanInv
<1>3. up \in [Names -> Versions \cup {NoRef}] BY DEF TypeOK, Targets
<1>4. CASE Push(n)
      <2>1. up'[m] = IF m = n THEN IF up[m] = NoRef THEN MaxVersion ELSE up[m] + 1 ELSE up[m]
            BY <1>3, <1>4 DEF Push
      <2> QED BY <1>1, <1>2, <2>1
<1>5. CASE Delete(n)
      <2>1. up'[m] = IF m = n THEN NoRef ELSE up[m] BY <1>3, <1>5 DEF Delete
      <2> QED BY <1>2, <2>1
<1> QED BY <1>4, <1>5

LEMMA NextPlanInv == TypeOK /\ AccountInv /\ PlanInv /\ [Next]_vars => PlanInv'
<1> SUFFICES ASSUME TypeOK, AccountInv, PlanInv, [Next]_vars PROVE PlanInv' OBVIOUS
<1> USE DEF Take, Move, Skip, GiveUp, Fault, Change
<1>1. ASSUME NEW fs \in Commands \cup {{}}, Begin(fs) PROVE PlanInv'
      <2>1. UNCHANGED <<file, up>> /\ pc' = "open" /\ opts' = Effective(conf, flags') /\ Forget
            BY <1>1 DEF Begin
      <2> QED BY <2>1, FileKept DEF PlanInv, Forget, NoTargets
<1>2. CASE Open \/ OpenFails \/ PlainInit \/ CreateRemote \/ ListFails \/ Fail
      <2>1. UNCHANGED <<file, flags, opts, listed, up, done, skipped>>
            BY <1>2 DEF Open, OpenFails, PlainInit, CreateRemote, ListFails, Fail
      <2>2. pc \in {"open", "init", "remote", "list"} /\ pc' \in {"init", "remote", "list", "ended"}
            BY <1>2 DEF Open, OpenFails, PlainInit, CreateRemote, ListFails, Fail
      <2> QED BY <2>1, <2>2, PlanKept
<1>3. CASE List
      <2>1. UNCHANGED <<file, flags, opts, up, done, skipped>> /\ pc = "list" /\ pc' \in {"tags", "branches"}
            BY <1>3 DEF List
      <2>2. \A n \in Names : listed'[n] # NoRef => listed'[n] = up[n] BY <1>3 DEF List, Matching
      <2>3. \A n \in Names : up[n] # NoRef => up[n] >= up[n]
            BY StandardAssumption DEF TypeOK, Targets, Versions, StandardAssumption
      <2> QED BY <2>1, <2>2, <2>3, FileKept DEF PlanInv
<1>4. ASSUME NEW b \in BranchNames, FetchBranch(b) \/ StalenessUnknown(b) PROVE PlanInv'
      <2>1. /\ UNCHANGED <<file, flags, opts, up, listed, done, skipped>> /\ pc = "branches" /\ pc' = "setref"
            /\ cur' = b /\ b \in todo /\ track' = [track EXCEPT ![b] = up[b]]
            BY <1>4 DEF FetchBranch, StalenessUnknown
      <2>2. b \in Names /\ listed[b] # NoRef
            BY <2>1 DEF AccountInv, Pending, Found, Names
      <2>3. up[b] # NoRef BY <1>4, <2>2 DEF FetchBranch, StalenessUnknown, ToSync
      <2>4. track'[b] = up[b] BY <2>1 DEF TypeOK
      <2> QED BY <2>1, <2>2, <2>3, <2>4, FileKept DEF PlanInv
<1>5. ASSUME NEW b \in BranchNames, SkipStale(b) \/ BranchGone(b) PROVE PlanInv'
      BY <1>5, PlanKept DEF SkipStale, BranchGone
<1>6. ASSUME NEW b \in BranchNames, PruneBranch(b) PROVE PlanInv'
      BY <1>6, PlanKept DEF PruneBranch
<1>7. ASSUME NEW t \in TagNames, PruneTag(t) PROVE PlanInv'
      BY <1>7, PlanKept DEF PruneTag
<1>8. CASE SetReference BY <1>8, PlanKept DEF SetReference
<1>9. CASE BranchesCut \/ BranchesDone \/ ObsoleteDone \/ StaleDone
      <2>1. UNCHANGED <<file, flags, opts, up, listed>> /\ pc # "idle" /\ pc' \in {"tags", "obsolete", "stale"}
            BY <1>9 DEF BranchesCut, BranchesDone, ObsoleteDone, StaleDone
      <2> QED BY <2>1, PlanKept
<1>10. CASE NoTags \/ FetchTags \/ TagGone \/ TagsDone \/ TagsFail
      <2>1. UNCHANGED <<file, flags, opts, up, listed>> /\ pc # "idle" /\ pc' \in {"tagprune", "checkout"}
            BY <1>10 DEF NoTags, FetchTags, TagGone, TagsDone, TagsFail, TagsFailed
      <2> QED BY <2>1, PlanKept
<1>11. CASE NoCheckout \/ Checkout \/ CheckoutMissing \/ Fallback \/ FallbackMissing
      <2>1. UNCHANGED <<file, flags, opts, up, listed>> /\ pc # "idle" /\ pc' \in {"fallback", "ended"}
            BY <1>11 DEF NoCheckout, Checkout, CheckoutMissing, Fallback, FallbackMissing, CheckOut
      <2> QED BY <2>1, PlanKept
<1>12. CASE CheckoutFails
      <2>1. UNCHANGED <<file, flags, opts, up, listed>> /\ pc # "idle" /\ pc' \in {"fallback", "ended"}
            BY <1>12, CheckoutAt DEF CheckoutFails
      <2> QED BY <2>1, PlanKept
<1>13. CASE BranchFails \/ PruneFails \/ LocalListFails
      <2>1. /\ UNCHANGED <<file, flags, opts, up, listed>> /\ pc # "idle"
            /\ pc' \in {"branches", "obsolete", "stale", "tagprune", "tags", "checkout"}
            BY <1>13 DEF BranchFails, PruneFails, LocalListFails
      <2> QED BY <2>1, PlanKept
<1>14. CASE Cancel BY <1>14, FileKept DEF Cancel, PlanInv
<1>15. CASE Crash BY <1>15 DEF Crash, Forget, NoTargets, PlanInv
<1>16. CASE World
      <2>1. CASE Configure BY <2>1 DEF Configure, Forget, NoTargets, PlanInv
      <2>2. ASSUME NEW n \in Names, Push(n) \/ Delete(n) PROVE PlanInv'
            <3>1. UNCHANGED <<file, flags, opts, pc, listed, done, skipped, track, cur>>
                  BY <2>2 DEF Push, Delete
            <3> QED BY <2>2, <3>1, PushGrows, FileKept DEF PlanInv
      <2>3. ASSUME NEW b \in BranchNames, SetDefault \/ Age(b) PROVE PlanInv'
            BY <2>3, FileKept DEF SetDefault, Age, PlanInv
      <2>4. CASE SetDefault BY <2>4, FileKept DEF SetDefault, PlanInv
      <2> QED BY <1>16, <2>1, <2>2, <2>3, <2>4 DEF World
<1>17. CASE UNCHANGED vars BY <1>17, FileKept DEF vars, PlanInv
<1> QED BY <1>1, <1>2, <1>3, <1>4, <1>5, <1>6, <1>7, <1>8, <1>9, <1>10, <1>11, <1>12, <1>13, <1>14,
           <1>15, <1>16, <1>17, NextCases

-----------------------------------------------------------------------------
(* What is to be pruned.                                                   *)

OldBranch(b) == b \in Branches /\ local[b] # NoRef /\ Old(b, local[b])

PruneInv ==
    /\ pc \in {"obsolete", "stale", "tagprune"} /\ todo # {} => "prune" \in opts
    /\ pc = "obsolete" => todo \subseteq BranchNames \ (Branches \cup {conf.checkout})
    /\ pc = "stale" => "stale" \in opts /\ \A b \in todo : OldBranch(b) /\ b # conf.checkout
    /\ pc = "tagprune" => todo \subseteq TagNames \ Tags

\* Commits only get older.
LEMMA AgeGrows ==
    ASSUME TypeOK, NEW b \in BranchNames, Age(b), NEW a \in BranchNames, NEW v \in Versions, Old(a, v)
    PROVE  Old(a, v)'
<1>1. /\ aged[b] \in Int /\ aged[a] \in Int
      /\ up[b] # NoRef => up[b] \in Int
      /\ v \in Int
      BY StandardAssumption
         DEF TypeOK, Targets, Versions, StandardAssumption, Names
<1>2. aged'[a] = IF a = b THEN up[b] ELSE aged[a] BY DEF Age, TypeOK
<1> QED BY <1>1, <1>2 DEF Age, Old

LEMMA NextPruneInv == TypeOK /\ PlanInv /\ PruneInv /\ [Next]_vars => PruneInv'
<1> SUFFICES ASSUME TypeOK, PlanInv, PruneInv, [Next]_vars PROVE PruneInv' OBVIOUS
<1> USE DEF Take, Move, Skip, GiveUp, Fault, Change
<1>a. ASSUME pc' \notin {"obsolete", "stale", "tagprune"} PROVE PruneInv' BY <1>a DEF PruneInv
<1>b. ASSUME UNCHANGED <<pc, file, opts, local, todo, aged>> PROVE PruneInv'
      BY <1>b, FileKept DEF PruneInv, OldBranch, Old
<1>1. ASSUME NEW fs \in Commands \cup {{}}, Begin(fs) PROVE PruneInv' BY <1>1, <1>a DEF Begin
<1>2. CASE Open \/ OpenFails \/ PlainInit \/ CreateRemote \/ ListFails \/ Fail
      BY <1>2, <1>a DEF Open, OpenFails, PlainInit, CreateRemote, ListFails, Fail
<1>3. CASE List
      <2>1. pc' \in {"branches", "tags"} BY <1>3 DEF List
      <2> QED BY <2>1, <1>a
<1>4. ASSUME NEW b \in BranchNames,
             SkipStale(b) \/ FetchBranch(b) \/ BranchGone(b) \/ StalenessUnknown(b)
      PROVE  PruneInv'
      <2>1. pc' \in {"branches", "setref"}
            BY <1>4 DEF SkipStale, FetchBranch, BranchGone, StalenessUnknown
      <2> QED BY <2>1, <1>a
<1>5. CASE SetReference \/ BranchesCut \/ StaleDone \/ BranchFails
      <2>1. pc' \in {"branches", "tags"} BY <1>5 DEF SetReference, BranchesCut, StaleDone, BranchFails
      <2> QED BY <2>1, <1>a
<1>6. CASE BranchesDone
      <2>1. UNCHANGED <<file, opts>> /\ pc' = "obsolete" BY <1>6 DEF BranchesDone
      <2>2. /\ todo' # {} => "prune" \in opts
            /\ todo' \subseteq BranchNames \ (Branches \cup {conf.checkout})
            BY <1>6 DEF BranchesDone, LocalBranches, NotCheckout
      <2> QED BY <2>1, <2>2, FileKept DEF PruneInv
<1>7. CASE ObsoleteDone
      <2>1. UNCHANGED <<file, opts, local, aged>> /\ pc # "idle" BY <1>7 DEF ObsoleteDone
      <2>2. CASE pc' = "stale"
            <3>1. "stale" \in opts BY <1>7, <2>2 DEF ObsoleteDone
            <3>a. opts = Effective(conf, flags) BY <2>1 DEF PlanInv
            <3>2. "prune" \in opts BY <3>1, <3>a DEF Effective
            <3>3. \A b \in todo' : OldBranch(b) /\ b # conf.checkout
                  BY <1>7, <2>2 DEF ObsoleteDone, LocalBranches, NotCheckout, OldBranch
            <3>4. \A b \in todo' : OldBranch(b)' /\ b # conf.checkout'
                  BY <2>1, <3>3, FileKept DEF OldBranch, Old
            <3> QED BY <2>1, <2>2, <3>1, <3>2, <3>4 DEF PruneInv
      <2>3. CASE pc' = "tags" BY <2>3, <1>a
      <2> QED BY <1>7, <2>2, <2>3 DEF ObsoleteDone
<1>8. ASSUME NEW b \in BranchNames, PruneBranch(b) PROVE PruneInv'
      <2>1. /\ UNCHANGED <<pc, file, opts, aged>> /\ pc \in {"obsolete", "stale"}
            /\ b \in todo /\ todo' = todo \ {b}
            BY <1>8 DEF PruneBranch
      <2>2. \A a \in todo' : local'[a] = local[a]
            BY <1>8, <2>1 DEF PruneBranch, TypeOK, Targets
      <2> QED BY <2>1, <2>2, FileKept DEF PruneInv, OldBranch, Old
<1>9. ASSUME NEW t \in TagNames, PruneTag(t) PROVE PruneInv'
      <2>1. UNCHANGED <<pc, file, opts>> /\ pc = "tagprune" /\ t \in todo /\ todo' = todo \ {t}
            BY <1>9 DEF PruneTag
      <2> QED BY <2>1, FileKept DEF PruneInv
<1>10. CASE PruneFails
      <2>1. UNCHANGED <<pc, file, opts, aged>> /\ pc \in {"obsolete", "stale", "tagprune"}
            BY <1>10 DEF PruneFails
      <2>2. PICK n \in todo : /\ todo' = todo \ {n}
                              /\ local' \in {local, IF n \in BranchNames THEN [local EXCEPT ![n] = NoRef] ELSE local}
            BY <1>10 DEF PruneFails
      <2>3. \A a \in todo' : local'[a] = local[a] BY <2>2 DEF TypeOK, Targets
      <2> QED BY <2>1, <2>2, <2>3, FileKept DEF PruneInv, OldBranch, Old
<1>11. CASE NoTags \/ TagGone \/ TagsDone \/ TagsFail
      <2>1. pc' = "checkout" BY <1>11 DEF NoTags, TagGone, TagsDone, TagsFail
      <2> QED BY <2>1, <1>a
<1>12. CASE FetchTags
      <2>1. UNCHANGED <<file, opts>> /\ pc' = "tagprune" BY <1>12 DEF FetchTags
      <2>2. /\ todo' # {} => "prune" \in opts
            /\ todo' \subseteq TagNames \ Tags
            BY <1>12 DEF FetchTags, TagsToPrune, LocalTags
      <2> QED BY <2>1, <2>2, FileKept DEF PruneInv
<1>13. CASE NoCheckout \/ Checkout \/ CheckoutMissing \/ Fallback \/ FallbackMissing \/ CheckoutFails
      <2>1. pc' \in {"fallback", "ended"}
            BY <1>13 DEF NoCheckout, Checkout, CheckoutMissing, Fallback, FallbackMissing, CheckOut, CheckoutFails
      <2> QED BY <2>1, <1>a
<1>14. CASE LocalListFails
      <2>1. UNCHANGED file /\ todo' = {} /\ pc' \in {"obsolete", "tags", "checkout"}
            BY <1>14 DEF LocalListFails
      <2> QED BY <2>1 DEF PruneInv
<1>15. CASE Cancel BY <1>15, <1>b DEF Cancel
<1>16. CASE Crash BY <1>16, <1>a DEF Crash
<1>17. CASE World
      <2>1. CASE Configure BY <2>1, <1>a DEF Configure
      <2>2. ASSUME NEW n \in Names, Push(n) \/ Delete(n) PROVE PruneInv' BY <2>2, <1>b DEF Push, Delete
      <2>3. CASE SetDefault BY <2>3, <1>b DEF SetDefault
      <2>4. ASSUME NEW b \in BranchNames, Age(b) PROVE PruneInv'
            <3>1. UNCHANGED <<pc, file, opts, local, todo>> BY <2>4 DEF Age
            <3>2. ASSUME NEW a, OldBranch(a) PROVE OldBranch(a)'
                  <4>1. a \in BranchNames /\ local[a] \in Versions
                        BY <3>2 DEF OldBranch, Branches, TypeOK, Targets, Names
                  <4> QED BY <2>4, <3>1, <3>2, <4>1, AgeGrows, FileKept DEF OldBranch
            <3> QED BY <3>1, <3>2, FileKept DEF PruneInv
      <2> QED BY <1>17, <2>1, <2>2, <2>3, <2>4 DEF World
<1>18. CASE UNCHANGED vars BY <1>18, <1>b DEF vars
<1> QED BY <1>1, <1>2, <1>3, <1>4, <1>5, <1>6, <1>7, <1>8, <1>9, <1>10, <1>11, <1>12, <1>13, <1>14,
           <1>15, <1>16, <1>17, <1>18, NextCases

\* The configuration, or a command, asks for what a step removes.
LEMMA RemovedAsAsked ==
    ASSUME TypeOK, PlanInv, PruneInv, [Next]_vars,
           NEW n \in Names, local[n] # NoRef, local'[n] = NoRef
    PROVE  /\ Says("prune") /\ "dry" \notin flags
           /\ n \in BranchNames => n # file.entry["checkout"]
           /\ n \in Branches \cup Tags => n \in BranchNames /\ Says("prune_stale") /\ Old(n, local[n])
<1> USE DEF Take, Move, Skip, GiveUp, Fault, Change
<1>a. BranchNames \cap TagNames = {} BY StandardAssumption DEF StandardAssumption
<1> DEFINE Removing == pc \in {"obsolete", "stale", "tagprune"} /\ n \in todo /\ "dry" \notin opts
<1>1. Removing
      <2>1. CASE UNCHANGED local BY <2>1
      <2>2. CASE SetReference
            <3>1. cur \in BranchNames /\ track[cur] # NoRef
                  BY <2>2 DEF SetReference, PlanInv, TypeOK
            <3> QED BY <2>2, <3>1 DEF SetReference, MoveBranch, TypeOK, Targets
      <2>3. CASE FetchTags \/ TagsFail
            <3>1. (local'[n] = up[n] /\ up[n] # NoRef) \/ local'[n] = local[n]
                  BY <2>3 DEF FetchTags, TagsFail
            <3> QED BY <3>1
      <2>4. ASSUME NEW b \in BranchNames, PruneBranch(b) PROVE Removing
            BY <2>4 DEF PruneBranch, TypeOK, Targets
      <2>5. ASSUME NEW t \in TagNames, PruneTag(t) PROVE Removing
            BY <2>5 DEF PruneTag, TypeOK, Targets
      <2>6. CASE PruneFails BY <2>6 DEF PruneFails, TypeOK, Targets
      <2>7. ASSUME NEW b \in BranchNames,
                   SkipStale(b) \/ FetchBranch(b) \/ BranchGone(b) \/ StalenessUnknown(b)
            PROVE  Removing
            BY <2>7, <2>1 DEF SkipStale, FetchBranch, BranchGone, StalenessUnknown
      <2>8. ASSUME NEW fs \in Commands \cup {{}}, Begin(fs) PROVE Removing BY <2>8, <2>1 DEF Begin
      <2>9. CASE \/ Open \/ OpenFails \/ PlainInit \/ CreateRemote \/ List \/ ListFails \/ Fail
                 \/ BranchesCut \/ BranchesDone \/ ObsoleteDone \/ StaleDone \/ NoTags \/ TagGone \/ TagsDone
            BY <2>9, <2>1 DEF Open, OpenFails, PlainInit, CreateRemote, List, ListFails, Fail, BranchesCut,
                 BranchesDone, ObsoleteDone, StaleDone, NoTags, TagGone, TagsDone
      <2>10. CASE \/ NoCheckout \/ Checkout \/ CheckoutMissing \/ Fallback \/ FallbackMissing
                  \/ BranchFails \/ LocalListFails \/ CheckoutFails \/ Cancel \/ Crash \/ World
             <3>1. UNCHANGED local
                   BY <2>10 DEF NoCheckout, Checkout, CheckoutMissing, Fallback, FallbackMissing, CheckOut,
                        BranchFails, LocalListFails, CheckoutFails, Cancel, Crash, World, Push, Delete,
                        SetDefault, Age, Configure
             <3> QED BY <3>1
      <2>11. CASE UNCHANGED vars BY <2>11 DEF vars
      <2> HIDE DEF Removing
      <2> QED BY <2>1, <2>2, <2>3, <2>4, <2>5, <2>6, <2>7, <2>8, <2>9, <2>10, <2>11, NextCases
<1>2. file \in Files /\ opts = Effective(conf, flags) BY <1>1 DEF TypeOK, PlanInv
<1>3. "prune" \in opts BY <1>1 DEF PruneInv
<1>4. Says("prune") /\ "dry" \notin flags BY <1>1, <1>2, <1>3, Settings
<1>5. CASE pc = "obsolete"
      <2>1. n \in BranchNames \ (Branches \cup {conf.checkout}) BY <1>1, <1>5 DEF PruneInv
      <2> QED BY <1>2, <1>4, <1>a, <2>1, Settings DEF Tags
<1>6. CASE pc = "stale"
      <2>1. "stale" \in opts /\ OldBranch(n) /\ n # conf.checkout BY <1>1, <1>6 DEF PruneInv
      <2> QED BY <1>2, <1>4, <2>1, Settings DEF OldBranch, Branches
<1>7. CASE pc = "tagprune"
      <2>1. n \in TagNames \ Tags BY <1>1, <1>7 DEF PruneInv
      <2> QED BY <1>4, <1>a, <2>1 DEF Branches
<1> QED BY <1>1, <1>5, <1>6, <1>7

LEMMA InvInit == Init => TypeOK /\ AccountInv /\ PlanInv /\ PruneInv
<1>1. Init => AccountInv BY DEF Init, AccountInv, Accounted, Found, NoTargets
<1>2. Init => PlanInv BY DEF Init, PlanInv, NoTargets
<1>3. Init => PruneInv BY DEF Init, PruneInv
<1> QED BY <1>1, <1>2, <1>3, InitTypeOK

LEMMA StepsCorrect == Spec => [](TypeOK /\ AccountInv /\ PlanInv /\ PruneInv)
BY InvInit, NextTypeOK, NextAccountInv, NextPlanInv, NextPruneInv, PTL DEF Spec

\* Nothing is removed that the file or the command does not want pruned, in
\* any configuration: no matched tag, no fresh matched branch, never the
\* branch in checkout, and nothing by a dry run.
THEOREM PrunesAsAsked == Spec => PrunedAsAsked
<1>1. TypeOK /\ PlanInv /\ PruneInv /\ [Next]_vars =>
        [\A n \in Names : local[n] # NoRef /\ local'[n] = NoRef =>
            /\ Says("prune") /\ "dry" \notin flags
            /\ n \in BranchNames => n # file.entry["checkout"]
            /\ n \in Branches \cup Tags => n \in BranchNames /\ Says("prune_stale") /\ Old(n, local[n])]_vars
      BY RemovedAsAsked
<1> QED BY <1>1, StepsCorrect, PTL DEF Spec, PrunedAsAsked

-----------------------------------------------------------------------------
(* What is reported is there.                                              *)

InPlace(n) ==
    \/ local[n] # NoRef /\ (n \in BranchNames => local[n] >= listed[n])
    \/ local[n] = NoRef /\ n \in Branches /\ "stale" \in opts /\ Old(n, listed[n])

\* At any time, not only at the end; and what is checked out is the last step.
PlaceInv ==
    /\ \A n \in done : InPlace(n)
    /\ flags = {} => \A b \in skipped : Old(b, listed[b])
    /\ deployed # NoRef => /\ pc = "ended" /\ head = deployed
                           /\ tree = local[deployed] /\ tree # NoRef

\* A step that reports no ref and removes none.
LEMMA PlaceKept ==
    ASSUME PlaceInv, UNCHANGED <<file, flags, opts, listed, aged, done, skipped>>,
           \A n \in done : local'[n] = local[n],
           deployed' = NoRef
    PROVE  PlaceInv'
BY FileKept DEF PlaceInv, InPlace, Old

\* A branch removed as stale after it was synced was listed as stale.
LEMMA RemovedInPlace ==
    ASSUME TypeOK, AccountInv, PruneInv, PlaceInv,
           pc \in {"obsolete", "stale", "tagprune"}, NEW n \in todo, n \in done,
           UNCHANGED <<file, opts, listed, aged>>, local'[n] = NoRef
    PROVE  InPlace(n)'
<1>1. n \in Branches \cup Tags BY DEF AccountInv, Accounted, TypeOK
<1>2. BranchNames \cap TagNames = {} BY StandardAssumption DEF StandardAssumption
<1>3. pc = "stale" BY <1>1, <1>2 DEF PruneInv, Branches, Tags
<1>4. "stale" \in opts /\ n \in Branches /\ local[n] # NoRef /\ Old(n, local[n])
      BY <1>3 DEF PruneInv, OldBranch
<1>5. n \in BranchNames /\ n \in Found(Names) BY <1>4 DEF Branches, AccountInv, Accounted
<1>6. local[n] >= listed[n] BY <1>4, <1>5 DEF PlaceInv, InPlace
<1>7. local[n] \in Int /\ listed[n] \in Int /\ aged[n] \in Int
      BY <1>4, <1>5, StandardAssumption DEF Found, Names, TypeOK, Targets, Versions, StandardAssumption
<1>8. Old(n, listed[n]) BY <1>4, <1>6, <1>7 DEF Old
<1> QED BY <1>4, <1>8, FileKept DEF InPlace, Old

\* A step of the pruning, of one ref.
LEMMA PlacePruned ==
    ASSUME TypeOK, AccountInv, PruneInv, PlaceInv,
           pc \in {"obsolete", "stale", "tagprune"}, NEW n \in todo,
           UNCHANGED <<file, flags, opts, listed, aged, done, skipped>>, deployed' = NoRef,
           local' = local \/ local' = [local EXCEPT ![n] = NoRef]
    PROVE  PlaceInv'
<1>1. ASSUME NEW m \in done PROVE InPlace(m)'
      <2>1. CASE local'[m] = local[m]
            <3>1. InPlace(m) BY DEF PlaceInv
            <3> QED BY <2>1, <3>1, FileKept DEF InPlace, Old
      <2>2. CASE m = n /\ local'[n] = NoRef BY <2>2, RemovedInPlace
      <2> QED BY <2>1, <2>2 DEF TypeOK, Targets
<1> QED BY <1>1 DEF PlaceInv, Old

LEMMA NextPlaceInv == TypeOK /\ AccountInv /\ PlanInv /\ PruneInv /\ PlaceInv /\ [Next]_vars => PlaceInv'
<1> SUFFICES ASSUME TypeOK, AccountInv, PlanInv, PruneInv, PlaceInv, [Next]_vars PROVE PlaceInv' OBVIOUS
<1> USE DEF Take, Move, Skip, GiveUp, Fault, Change
<1>a. pc # "ended" => deployed = NoRef BY DEF PlaceInv
<1>1. ASSUME NEW fs \in Commands \cup {{}}, Begin(fs) PROVE PlaceInv'
      BY <1>1 DEF Begin, Forget, PlaceInv
<1>2. CASE Open \/ OpenFails \/ PlainInit \/ CreateRemote \/ ListFails \/ Fail
      <2>1. UNCHANGED <<file, flags, opts, listed, aged, done, skipped, local, deployed>> /\ pc # "ended"
            BY <1>2 DEF Open, OpenFails, PlainInit, CreateRemote, ListFails, Fail
      <2> QED BY <2>1, <1>a, PlaceKept
<1>3. CASE List
      <2>1. UNCHANGED <<done, skipped, deployed>> /\ pc = "list" BY <1>3 DEF List
      <2>2. done = {} /\ skipped = {} BY <2>1 DEF PlanInv
      <2> QED BY <2>1, <2>2, <1>a DEF PlaceInv
<1>4. ASSUME NEW b \in BranchNames, SkipStale(b) PROVE PlaceInv'
      <2>1. /\ UNCHANGED <<file, flags, opts, listed, aged, done, local, deployed>> /\ pc = "branches"
            /\ IsStale(b) /\ skipped' = skipped \cup {b}
            BY <1>4 DEF SkipStale
      <2>2. file \in Files /\ opts = Effective(conf, flags) BY <2>1 DEF PlanInv, TypeOK
      <2>3. flags = {} => Old(b, listed[b]) BY <2>1, <2>2, Settings DEF IsStale
      <2> QED BY <2>1, <2>3, <1>a, FileKept DEF PlaceInv, InPlace, Old
<1>5. ASSUME NEW b \in BranchNames, FetchBranch(b) \/ BranchGone(b) \/ StalenessUnknown(b) PROVE PlaceInv'
      <2>1. /\ UNCHANGED <<file, flags, opts, listed, aged, done, skipped, local, deployed>>
            /\ pc = "branches"
            BY <1>5 DEF FetchBranch, BranchGone, StalenessUnknown
      <2> QED BY <2>1, <1>a, PlaceKept
<1>6. CASE SetReference
      <2>1. PICK c \in BranchNames :
              /\ c = cur /\ done' = done \cup {c} /\ local' = [local EXCEPT ![c] = track[c]]
              /\ track[c] # NoRef /\ track[c] >= listed[c]
            BY <1>6 DEF SetReference, MoveBranch, PlanInv, TypeOK
      <2>2. UNCHANGED <<file, flags, opts, listed, aged, skipped, deployed>> /\ pc # "ended"
            BY <1>6 DEF SetReference
      <2>3. local'[c] = track[c] BY <2>1 DEF TypeOK, Targets, Names
      <2>4. ASSUME NEW m \in done', m # c PROVE InPlace(m)'
            <3>1. InPlace(m) BY <2>1, <2>4 DEF PlaceInv
            <3>2. local'[m] = local[m] BY <2>1, <2>4 DEF TypeOK, Targets
            <3> QED BY <2>2, <3>1, <3>2, FileKept DEF InPlace, Old
      <2>5. InPlace(c)' BY <2>1, <2>2, <2>3 DEF InPlace
      <2> QED BY <2>2, <2>4, <2>5, <1>a DEF PlaceInv, Old
<1>7. CASE BranchesCut \/ BranchesDone \/ ObsoleteDone \/ StaleDone
      <2>1. /\ UNCHANGED <<file, flags, opts, listed, aged, done, skipped, local, deployed>>
            /\ pc # "ended"
            BY <1>7 DEF BranchesCut, BranchesDone, ObsoleteDone, StaleDone
      <2> QED BY <2>1, <1>a, PlaceKept
<1>8. ASSUME NEW b \in BranchNames, PruneBranch(b) PROVE PlaceInv'
      <2>1. /\ UNCHANGED <<file, flags, opts, listed, aged, done, skipped, deployed>>
            /\ pc \in {"obsolete", "stale"} /\ b \in todo
            /\ local' = local \/ local' = [local EXCEPT ![b] = NoRef]
            BY <1>8 DEF PruneBranch
      <2> QED BY <2>1, <1>a, PlacePruned
<1>9. ASSUME NEW t \in TagNames, PruneTag(t) PROVE PlaceInv'
      <2>1. /\ UNCHANGED <<file, flags, opts, listed, aged, done, skipped, deployed>>
            /\ pc = "tagprune" /\ t \in todo
            /\ local' = local \/ local' = [local EXCEPT ![t] = NoRef]
            BY <1>9 DEF PruneTag
      <2> QED BY <2>1, <1>a, PlacePruned
<1>10. CASE PruneFails
      <2>1. /\ UNCHANGED <<file, flags, opts, listed, aged, done, skipped, deployed>>
            /\ pc \in {"obsolete", "stale", "tagprune"}
            BY <1>10 DEF PruneFails
      <2>2. PICK n \in todo : local' = local \/ local' = [local EXCEPT ![n] = NoRef]
            BY <1>10 DEF PruneFails
      <2> QED BY <2>1, <2>2, <1>a, PlacePruned
<1>11. CASE NoTags \/ TagsDone
      <2>1. /\ UNCHANGED <<file, flags, opts, listed, aged, done, skipped, local, deployed>>
            /\ pc # "ended"
            BY <1>11 DEF NoTags, TagsDone
      <2> QED BY <2>1, <1>a, PlaceKept
<1>12. CASE FetchTags \/ TagGone \/ TagsFail
      <2>1. /\ UNCHANGED <<file, flags, opts, listed, aged, skipped, deployed>> /\ pc = "tags"
            BY <1>12 DEF FetchTags, TagGone, TagsFail, TagsFailed
      <2>2. \A m \in Names : local'[m] = local[m] \/ (m \in Missing /\ local'[m] = up[m] /\ up[m] # NoRef)
            BY <1>12 DEF FetchTags, TagGone, TagsFail
      <2>3. ASSUME NEW m \in done' PROVE InPlace(m)'
            <3>1. m \in done \/ m \in Found(Tags) BY <1>12 DEF FetchTags, TagGone, TagsFail, TagsFailed
            <3>2. m \in Names /\ (m \in Tags => m \notin BranchNames)
                  BY <3>1, StandardAssumption DEF TypeOK, Found, Tags, Names, StandardAssumption
            <3>3. CASE m \in done /\ local'[m] = local[m]
                  <4>1. InPlace(m) BY <3>3 DEF PlaceInv
                  <4> QED BY <2>1, <3>3, <4>1, FileKept DEF InPlace, Old
            <3>4. CASE m \in Found(Tags) \/ m \in Missing
                  <4>1. m \in Found(Tags) /\ m \in Tags BY <3>4 DEF Missing, Found
                  <4>2. local'[m] # NoRef
                        <5>1. CASE m \in Missing
                              <6>1. m \notin done => local'[m] # NoRef
                                    <7>1. CASE FetchTags BY <3>2, <5>1, <7>1 DEF FetchTags
                                    <7>2. CASE TagGone \/ TagsFail
                                          <8>1. done' = done \cup (Found(Tags) \ Missing)
                                                BY <7>2 DEF TagGone, TagsFail, TagsFailed
                                          <8> QED BY <2>3, <5>1, <8>1
                                    <7> QED BY <1>12, <7>1, <7>2
                              <6>2. m \notin done
                                    <7>1. local[m] = NoRef BY <5>1, <4>1 DEF Missing, LocalTags, Tags
                                    <7>2. m \notin Branches BY <3>2, <4>1 DEF Branches
                                    <7> QED BY <7>1, <7>2 DEF PlaceInv, InPlace
                              <6> QED BY <6>1, <6>2
                        <5>2. CASE m \notin Missing
                              <6>1. local[m] # NoRef BY <4>1, <5>2 DEF Missing, LocalTags, Tags
                              <6> QED BY <2>2, <3>2, <5>2, <6>1
                        <5> QED BY <5>1, <5>2
                  <4> QED BY <3>2, <4>1, <4>2 DEF InPlace
            <3> QED BY <2>2, <3>1, <3>2, <3>3, <3>4
      <2> QED BY <2>1, <2>3, <1>a DEF PlaceInv, Old
<1>13. CASE NoCheckout \/ CheckoutMissing \/ FallbackMissing
      <2>1. /\ UNCHANGED <<file, flags, opts, listed, aged, done, skipped, local, deployed>>
            /\ pc # "ended"
            BY <1>13 DEF NoCheckout, CheckoutMissing, FallbackMissing
      <2> QED BY <2>1, <1>a, PlaceKept
<1>14. CASE Checkout \/ Fallback
      <2>1. /\ UNCHANGED <<file, flags, opts, listed, aged, done, skipped, local>> /\ pc' = "ended"
            /\ deployed' # NoRef => /\ head' = deployed' /\ tree' = local[deployed']
                                    /\ local[deployed'] # NoRef
            BY <1>14 DEF Checkout, Fallback, CheckOut, Resolved, SetHead
      <2>2. \A n \in done : InPlace(n)' BY <2>1, FileKept DEF PlaceInv, InPlace, Old
      <2> QED BY <2>1, <2>2 DEF PlaceInv, Old
<1>15. CASE BranchFails \/ LocalListFails
      <2>1. /\ UNCHANGED <<file, flags, opts, listed, aged, done, skipped, local, deployed>>
            /\ pc # "ended"
            BY <1>15 DEF BranchFails, LocalListFails
      <2> QED BY <2>1, <1>a, PlaceKept
<1>16. CASE CheckoutFails
      <2>1. /\ UNCHANGED <<file, flags, opts, listed, aged, done, skipped, local, deployed>>
            /\ pc # "ended"
            BY <1>16, CheckoutAt DEF CheckoutFails
      <2> QED BY <2>1, <1>a, PlaceKept
<1>17. CASE Cancel
      <2>1. /\ UNCHANGED <<file, flags, opts, listed, aged, done, skipped, local, deployed>>
            /\ pc # "ended"
            BY <1>17 DEF Cancel
      <2> QED BY <2>1, <1>a, PlaceKept
<1>18. CASE Crash BY <1>18 DEF Crash, Forget, PlaceInv
<1>19. CASE World
      <2>1. CASE Configure BY <2>1 DEF Configure, Forget, PlaceInv
      <2>2. ASSUME NEW n \in Names, Push(n) \/ Delete(n) PROVE PlaceInv'
            BY <2>2, FileKept DEF Push, Delete, PlaceInv, InPlace, Old
      <2>3. CASE SetDefault BY <2>3, FileKept DEF SetDefault, PlaceInv, InPlace, Old
      <2>4. ASSUME NEW b \in BranchNames, Age(b) PROVE PlaceInv'
            <3>1. UNCHANGED <<file, flags, opts, listed, pc, local, done, skipped, deployed, head, tree>>
                  BY <2>4 DEF Age
            <3>2. ASSUME NEW n \in BranchNames, n \in Found(Names), Old(n, listed[n])
                  PROVE  Old(n, listed[n])'
                  <4>1. listed[n] \in Versions BY <3>2 DEF Found, TypeOK, Targets
                  <4> QED BY <2>4, <3>1, <3>2, <4>1, AgeGrows DEF Old
            <3>3. ASSUME NEW n \in done PROVE InPlace(n)'
                  <4>1. InPlace(n) /\ n \in Found(Names) BY DEF PlaceInv, AccountInv, Accounted
                  <4> QED BY <3>1, <3>2, <4>1, FileKept DEF InPlace, Branches
            <3>4. ASSUME NEW b1 \in skipped PROVE b1 \in BranchNames /\ b1 \in Found(Names)
                  BY DEF AccountInv, Accounted, TypeOK
            <3> QED BY <3>1, <3>2, <3>3, <3>4 DEF PlaceInv
      <2> QED BY <1>19, <2>1, <2>2, <2>3, <2>4 DEF World
<1>20. CASE UNCHANGED vars BY <1>20, FileKept DEF vars, PlaceInv, InPlace, Old
<1> QED BY <1>1, <1>2, <1>3, <1>4, <1>5, <1>6, <1>7, <1>8, <1>9, <1>10, <1>11, <1>12, <1>13, <1>14,
           <1>15, <1>16, <1>17, <1>18, <1>19, <1>20, NextCases

LEMMA Placed == Spec => [](TypeOK /\ PlaceInv)
<1>1. Init => PlaceInv BY DEF Init, PlaceInv
<1> QED BY <1>1, NextPlaceInv, StepsCorrect, PTL DEF Spec

\* What a sync reports as synced is in the working copy when it ends.
THEOREM ReportedIsSynced == Spec => []SyncedInPlace
<1>1. PlaceInv => SyncedInPlace BY DEF PlaceInv, InPlace, SyncedInPlace
<1> QED BY <1>1, Placed, PTL

\* What it reports as checked out is there as well, in HEAD and in the files.
THEOREM ReportedIsDeployed == Spec => []DeployedInPlace
<1>1. PlaceInv => DeployedInPlace BY DEF PlaceInv, InPlace, DeployedInPlace
<1> QED BY <1>1, Placed, PTL

\* The daemon's syncs skip no branch that is not stale, in any configuration
\* that is accepted.
THEOREM PollsSkipStale == Spec => []PollSkipsStaleOnly
<1>1. PlaceInv => PollSkipsStaleOnly BY DEF PlaceInv, PollSkipsStaleOnly, FreshNotSkipped
<1> QED BY <1>1, Placed, PTL
-----------------------------------------------------------------------------
(* What RefVisit promises of every ref.                                    *)

VisitInv == TypeOK /\ AccountInv /\ PlanInv /\ PruneInv /\ PlaceInv

\* While the report of a branch stands its commit is not too old to count.
LEMMA VisitContents ==
    VisitInv => \A n \in Names : VisitContent(n) = IF local[n] = NoRef THEN "absent" ELSE "ref"
<1> SUFFICES ASSUME VisitInv, NEW n \in Names, n \in done \cap BranchNames, local[n] # NoRef
             PROVE  ~ local[n] < listed[n]
    BY DEF VisitContent
<1>1. n \in Found(Names) BY DEF VisitInv, AccountInv, Accounted
<1>2. local[n] \in Int /\ listed[n] \in Int
      BY <1>1, StandardAssumption DEF VisitInv, TypeOK, Targets, Versions, Found, StandardAssumption
<1>3. local[n] >= listed[n] BY DEF VisitInv, PlaceInv, InPlace
<1> QED BY <1>2, <1>3

LEMMA NextVisitContents ==
    VisitInv' => (\A n \in Names : VisitContent(n) = IF local[n] = NoRef THEN "absent" ELSE "ref")'
BY VisitContents, PTL

\* What the steps of a visit come to.
Kept(n) ==
    /\ local'[n] = local[n] /\ VisitInside(n)' = VisitInside(n)
    /\ VisitReport(n)' = VisitReport(n)

Entered(n) ==
    /\ ~ VisitInside(n) /\ VisitInside(n)'
    /\ local'[n] = local[n] /\ VisitReport(n) = "none" /\ VisitReport(n)' = "none"

Left(n) ==
    /\ VisitInside(n) /\ ~ VisitInside(n)'
    /\ VisitReport(n)' = "done" => local'[n] # NoRef

Refused(n) ==
    /\ ~ VisitInside(n) /\ ~ VisitInside(n)' /\ local'[n] = local[n]
    /\ VisitReport(n) = "none" /\ VisitReport(n)' = "failed"

Forgotten(n) ==
    ~ VisitInside(n) /\ ~ VisitInside(n)' /\ local'[n] = local[n] /\ VisitReport(n)' = "none"

Removed(n) ==
    /\ ~ VisitInside(n) /\ ~ VisitInside(n)' /\ local'[n] = NoRef
    /\ VisitReport(n)' = VisitReport(n) /\ (VisitReport(n) = "done" => n \in BranchNames)

LEMMA VisitMoves ==
    ASSUME VisitInv, VisitInv', NEW n \in Names,
           Kept(n) \/ Entered(n) \/ Left(n) \/ Refused(n) \/ Forgotten(n) \/ Removed(n)
    PROVE  [Visit(n)!Next]_(Visit(n)!vars)
<1>1. /\ VisitContent(n) = IF local[n] = NoRef THEN "absent" ELSE "ref"
      /\ VisitContent(n)' = IF local'[n] = NoRef THEN "absent" ELSE "ref"
      BY VisitContents, NextVisitContents
<1>2. /\ VisitContent(n)' \in Visit(n)!Contents
      /\ local'[n] = local[n] => VisitContent(n)' = VisitContent(n)
      BY <1>1 DEF Visit!Contents
<1>a. VisitInside(n) \in BOOLEAN /\ VisitInside(n)' \in BOOLEAN BY DEF VisitInside
<1>3. CASE Kept(n) BY <1>2, <1>3 DEF Kept, Visit!vars
<1>4. CASE Entered(n) BY <1>2, <1>4 DEF Entered, Visit!Next, Visit!Enter
<1>5. CASE Left(n)
      <2>1. VisitReport(n)' \in {"done", "failed", "none"} BY DEF VisitReport
      <2>2. CASE VisitReport(n)' = "done"
            BY <1>1, <1>5, <2>2 DEF Left, Visit!Next, Visit!Succeed
      <2>3. CASE VisitReport(n)' # "done"
            BY <1>2, <1>5, <2>1, <2>3 DEF Left, Visit!Next, Visit!GiveUp
      <2> QED BY <2>2, <2>3
<1>6. CASE Refused(n) BY <1>a, <1>2, <1>6 DEF Refused, Visit!Next, Visit!Refuse
<1>7. CASE Forgotten(n) BY <1>a, <1>2, <1>7 DEF Forgotten, Visit!Next, Visit!Forget
<1>8. CASE Removed(n) BY <1>a, <1>1, <1>8 DEF Removed, Visit!Next, Visit!Prune
<1> QED BY <1>3, <1>4, <1>5, <1>6, <1>7, <1>8

\* A ref that is still to be dealt with is not reported.
LEMMA NotReported ==
    ASSUME TypeOK, AccountInv, NEW n \in Names,
           \/ pc \in {"branches", "setref"} /\ n \in Pending
           \/ pc \in {"list", "branches", "obsolete", "stale", "tags"} /\ n \in TagNames
    PROVE  n \notin done /\ n \notin failed /\ VisitReport(n) = "none"
<1>1. CASE pc \in {"branches", "setref"} /\ n \in Pending
      BY <1>1 DEF AccountInv, Accounted, VisitReport
<1>2. CASE pc \in {"list", "branches", "obsolete", "stale", "tags"} /\ n \in TagNames
      <2>1. Accounted \subseteq BranchNames BY <1>2 DEF AccountInv, Found
      <2> QED BY <1>2, <2>1, StandardAssumption DEF StandardAssumption, Accounted, VisitReport
<1> QED BY <1>1, <1>2

\* A step that is not about refs, or is about others.
LEMMA NotVisited ==
    ASSUME NEW n \in Names, local'[n] = local[n],
           n \in done' <=> n \in done, n \in failed' <=> n \in failed,
           VisitInside(n)' = VisitInside(n)
    PROVE  Kept(n)
BY DEF Kept, VisitReport

\* The steps of the branch loop.
LEMMA BranchVisits ==
    ASSUME VisitInv, VisitInv', NEW n \in Names, NEW b \in BranchNames,
           FetchBranch(b) \/ StalenessUnknown(b) \/ SkipStale(b) \/ BranchGone(b)
    PROVE  Kept(n) \/ Entered(n) \/ Refused(n)
<1> USE DEF Move, Take, Fault
<1>a. TypeOK /\ AccountInv /\ BranchNames \cap TagNames = {} /\ b \in Names
      BY StandardAssumption DEF VisitInv, StandardAssumption, Names
<1>b. b \in todo /\ pc = "branches" BY DEF FetchBranch, StalenessUnknown, SkipStale, BranchGone
<1>c. ~ VisitInside(n) BY <1>b DEF VisitInside
<1>d. b \notin done /\ b \notin failed /\ VisitReport(b) = "none"
      BY <1>a, <1>b, NotReported DEF Pending
<1>1. CASE FetchBranch(b) \/ StalenessUnknown(b)
      <2>1. pc' = "setref" /\ cur' = b /\ UNCHANGED <<local, done, failed>>
            BY <1>1 DEF FetchBranch, StalenessUnknown
      <2>2. VisitReport(n)' = VisitReport(n) BY <2>1 DEF VisitReport
      <2>3. CASE n = b
            <3>1. VisitInside(n)' BY <1>a, <2>1, <2>3 DEF VisitInside
            <3> QED BY <1>c, <1>d, <2>1, <2>2, <2>3, <3>1 DEF Entered
      <2>4. CASE n # b
            <3>1. ~ VisitInside(n)' BY <2>1, <2>4 DEF VisitInside
            <3> QED BY <1>c, <2>1, <2>2, <3>1 DEF Kept, VisitInside
      <2> QED BY <2>3, <2>4
<1>2. CASE SkipStale(b)
      BY <1>2, NotVisited DEF SkipStale, VisitInside
<1>3. CASE BranchGone(b)
      <2>1. pc' = "branches" /\ failed' = failed \cup {b} /\ UNCHANGED <<local, done>>
            BY <1>3 DEF BranchGone
      <2>2. ~ VisitInside(n)' BY <2>1 DEF VisitInside
      <2>3. CASE n = b BY <1>c, <1>d, <2>1, <2>2, <2>3 DEF Refused, VisitReport
      <2>4. CASE n # b
            BY <1>b, <2>1, <2>4, NotVisited DEF VisitInside
      <2> QED BY <2>3, <2>4
<1> QED BY <1>1, <1>2, <1>3

\* The end of a branch's visit, or a failure before it.
LEMMA ReferenceVisits ==
    ASSUME VisitInv, VisitInv', NEW n \in Names, SetReference \/ BranchFails
    PROVE  Kept(n) \/ Left(n) \/ Refused(n)
<1> USE DEF Move, Take, Fault
<1>a. TypeOK /\ AccountInv /\ PlanInv /\ BranchNames \cap TagNames = {} /\ NoRef \notin Names
      BY StandardAssumption DEF VisitInv, StandardAssumption
<1>b. pc' = "branches" BY DEF SetReference, BranchFails
<1>c. ~ VisitInside(n)' BY <1>b DEF VisitInside
<1>1. CASE pc = "setref"
      <2>1. cur \in BranchNames /\ cur \in Names BY <1>1, <1>a DEF TypeOK, Names
      <2>2. cur \notin done /\ cur \notin failed BY <1>1, <1>a, <2>1, NotReported DEF Pending
      <2>3. VisitInside(n) <=> n = cur BY <1>1, <1>a, <2>1 DEF VisitInside
      <2>4. CASE SetReference
            <3>1. local' = [local EXCEPT ![cur] = track[cur]] /\ done' = done \cup {cur} /\ UNCHANGED failed
                  BY <2>4 DEF SetReference, MoveBranch
            <3>2. CASE n = cur
                  <4>1. local'[n] = track[cur] /\ track[cur] # NoRef
                        BY <1>1, <1>a, <2>1, <3>1, <3>2 DEF TypeOK, Targets, PlanInv
                  <4> QED BY <1>c, <2>3, <3>2, <4>1 DEF Left
            <3>3. CASE n # cur
                  <4>1. local'[n] = local[n] BY <1>a, <3>1, <3>3 DEF TypeOK, Targets
                  <4> QED BY <1>c, <2>3, <3>1, <3>3, <4>1 DEF Kept, VisitReport, VisitInside
            <3> QED BY <3>2, <3>3
      <2>5. CASE BranchFails
            <3>1. failed' = failed \cup {cur} /\ UNCHANGED <<local, done>> BY <1>1, <2>5 DEF BranchFails
            <3>2. CASE n = cur BY <1>c, <2>2, <2>3, <3>1, <3>2 DEF Left, VisitReport
            <3>3. CASE n # cur BY <1>c, <2>3, <3>1, <3>3 DEF Kept, VisitReport, VisitInside
            <3> QED BY <3>2, <3>3
      <2> QED BY <2>4, <2>5
<1>2. CASE pc # "setref"
      <2>1. PICK b \in todo : failed' = failed \cup {b} BY <1>2 DEF SetReference, BranchFails
      <2>2. pc = "branches" /\ UNCHANGED <<local, done>> BY <1>2 DEF SetReference, BranchFails
      <2>3. ~ VisitInside(n) BY <2>2 DEF VisitInside
      <2>4. CASE n = b
            <3>1. n \notin done /\ VisitReport(n) = "none" BY <1>a, <2>2, <2>4, NotReported DEF Pending
            <3> QED BY <1>c, <2>1, <2>2, <2>3, <2>4, <3>1 DEF Refused, VisitReport
      <2>5. CASE n # b BY <1>b, <2>1, <2>2, <2>5, NotVisited DEF VisitInside
      <2> QED BY <2>4, <2>5
<1> QED BY <1>1, <1>2

\* A step of the pruning: a tag that goes was not reported.
LEMMA PruneVisits ==
    ASSUME VisitInv, VisitInv', NEW n \in Names, NEW m \in Names,
           (PruneFails /\ m \in todo /\ local' \in {local, [local EXCEPT ![m] = NoRef]})
             \/ (m \in BranchNames /\ PruneBranch(m)) \/ (m \in TagNames /\ PruneTag(m))
    PROVE  Kept(n) \/ Removed(n)
<1> USE DEF Move, Take, Fault
<1>1. /\ pc \in {"obsolete", "stale", "tagprune"} /\ pc' = pc /\ m \in todo
      /\ UNCHANGED <<cur, done, failed>>
      BY DEF PruneFails, PruneBranch, PruneTag
<1>2. local' \in {local, [local EXCEPT ![m] = NoRef]} BY DEF PruneBranch, PruneTag
<1>3. ~ VisitInside(n) /\ ~ VisitInside(n)' /\ VisitReport(n)' = VisitReport(n)
      BY <1>1 DEF VisitInside, VisitReport
<1>4. VisitInside(n)' = VisitInside(n) BY <1>1 DEF VisitInside
<1>5. CASE local'[n] = local[n] BY <1>3, <1>4, <1>5 DEF Kept
<1>6. CASE local'[n] # local[n]
      <2>1. n = m /\ local'[n] = NoRef BY <1>2, <1>6 DEF VisitInv, TypeOK, Targets
      <2>2. CASE n \in done
            <3>1. n \in Branches \cup Tags BY <2>2 DEF VisitInv, AccountInv, Accounted, TypeOK
            <3>2. n \in todo BY <1>1, <2>1
            <3>3. n \in BranchNames
                  BY <1>1, <3>1, <3>2 DEF VisitInv, PruneInv, Branches, OldBranch
            <3> QED BY <1>3, <2>1, <3>3 DEF Removed
      <2>3. CASE n \notin done BY <1>3, <2>1, <2>3 DEF Removed, VisitReport
      <2> QED BY <2>2, <2>3
<1> QED BY <1>5, <1>6

\* The way to the tags begins a visit of each tag.
LEMMA TagsVisited ==
    ASSUME VisitInv, VisitInv', NEW n \in Names,
           List \/ BranchesCut \/ BranchesDone \/ ObsoleteDone \/ StaleDone \/ LocalListFails
    PROVE  Kept(n) \/ Entered(n)
<1> USE DEF Move, Skip, Fault
<1>1. UNCHANGED <<local, done, failed, cur>>
      BY DEF List, BranchesCut, BranchesDone, ObsoleteDone, StaleDone, LocalListFails
<1>2. \/ pc \in {"list", "branches", "obsolete", "stale"} /\ pc' \in {"branches", "obsolete", "stale", "tags"}
      \/ pc = "tagprune" /\ pc' = "checkout"
      BY DEF List, BranchesCut, BranchesDone, ObsoleteDone, StaleDone, LocalListFails
<1>3. ~ VisitInside(n) BY <1>2 DEF VisitInside
<1>4. VisitReport(n)' = VisitReport(n) BY <1>1 DEF VisitReport
<1>5. CASE pc' = "tags" /\ n \in TagNames
      <2>1. VisitReport(n) = "none" BY <1>2, <1>5, NotReported DEF VisitInv
      <2>2. VisitInside(n)' BY <1>5 DEF VisitInside
      <2> QED BY <1>1, <1>3, <1>4, <2>1, <2>2 DEF Entered
<1>6. CASE pc' # "tags" \/ n \notin TagNames
      BY <1>1, <1>2, <1>4, <1>6 DEF Kept, VisitInside
<1> QED BY <1>5, <1>6

\* The fetch of the tags, or none, ends all of these visits.
LEMMA TagVisits ==
    ASSUME VisitInv, VisitInv', NEW n \in Names, NoTags \/ FetchTags \/ TagGone \/ TagsFail
    PROVE  Kept(n) \/ Left(n)
<1> USE DEF Move, Skip, Fault
<1>a. /\ TypeOK /\ AccountInv /\ BranchNames \cap TagNames = {}
      /\ Missing \subseteq Found(Tags) /\ Found(Tags) \subseteq TagNames
      BY StandardAssumption DEF VisitInv, StandardAssumption, Missing, Found, Tags
<1>1. pc = "tags" /\ pc' \in {"tagprune", "checkout"} /\ UNCHANGED cur
      BY DEF NoTags, FetchTags, TagGone, TagsFail, TagsFailed
<1>2. \A m \in Names \ Missing : local'[m] = local[m]
      BY DEF NoTags, FetchTags, TagGone, TagsFail
<1>3. CASE n \notin TagNames
      <2>1. ~ VisitInside(n) /\ ~ VisitInside(n)' /\ VisitInside(n)' = VisitInside(n)
            BY <1>1, <1>3 DEF VisitInside
      <2>2. n \in done' <=> n \in done
            BY <1>a, <1>3 DEF NoTags, FetchTags, TagGone, TagsFail, TagsFailed
      <2>3. n \in failed' <=> n \in failed
            BY <1>a, <1>3 DEF NoTags, FetchTags, TagGone, TagsFail, TagsFailed
      <2>4. local'[n] = local[n] BY <1>a, <1>2, <1>3
      <2> QED BY <2>1, <2>2, <2>3, <2>4, NotVisited
<1>4. CASE n \in TagNames
      <2>1. VisitInside(n) /\ ~ VisitInside(n)' BY <1>1, <1>4 DEF VisitInside
      <2>2. n \notin done BY <1>a, <1>1, <1>4, NotReported
      <2>3. ASSUME n \in done' PROVE local'[n] # NoRef
            <3>1. n \in Found(Tags) /\ (FetchTags \/ n \notin Missing)
                  BY <2>2, <2>3 DEF NoTags, FetchTags, TagGone, TagsFail, TagsFailed
            <3>2. CASE n \in Missing
                  <4>1. local'[n] = up[n] /\ up[n] # NoRef BY <3>1, <3>2 DEF FetchTags
                  <4> QED BY <4>1
            <3>3. CASE n \notin Missing
                  <4>1. local[n] # NoRef BY <1>a, <3>1, <3>3 DEF Missing, LocalTags
                  <4> QED BY <1>2, <3>3, <4>1
            <3> QED BY <3>2, <3>3
      <2> QED BY <2>1, <2>3 DEF Left, VisitReport
<1> QED BY <1>3, <1>4

\* What is known of all refs is forgotten.
LEMMA ForgetVisits ==
    ASSUME NEW n \in Names, Forget, UNCHANGED local, pc' \in {"idle", "open"}
    PROVE  Left(n) \/ Forgotten(n)
<1>1. ~ VisitInside(n)' BY DEF VisitInside
<1>2. VisitReport(n)' = "none" BY DEF Forget, VisitReport
<1> QED BY <1>1, <1>2 DEF Left, Forgotten

\* The steps before and after the refs, and those of the world.
LEMMA QuietVisits ==
    ASSUME NEW n \in Names,
           \/ Open \/ OpenFails \/ PlainInit \/ CreateRemote \/ ListFails \/ Fail \/ TagsDone
           \/ NoCheckout \/ Checkout \/ CheckoutMissing \/ Fallback \/ FallbackMissing
           \/ CheckoutFails \/ Cancel \/ (World /\ ~ Configure) \/ UNCHANGED vars
    PROVE  Kept(n)
<1> USE DEF Move, Skip, GiveUp, Fault, Change
<1>1. CASE Open \/ OpenFails \/ PlainInit \/ CreateRemote \/ ListFails \/ Fail
      <2>1. UNCHANGED <<local, done, failed, cur>> /\ {pc, pc'} \cap {"tags", "setref"} = {}
            BY <1>1 DEF Open, OpenFails, PlainInit, CreateRemote, ListFails, Fail
      <2> QED BY <2>1 DEF Kept, VisitInside, VisitReport
<1>2. CASE \/ TagsDone \/ NoCheckout \/ Checkout \/ CheckoutMissing \/ Fallback \/ FallbackMissing
           \/ CheckoutFails
      <2>1. UNCHANGED <<local, done, failed, cur>> /\ {pc, pc'} \cap {"tags", "setref"} = {}
            BY <1>2, CheckoutAt DEF TagsDone, NoCheckout, Checkout, CheckOut, CheckoutMissing, Fallback,
                                    FallbackMissing, CheckoutFails
      <2> QED BY <2>1 DEF Kept, VisitInside, VisitReport
<1>3. CASE Cancel \/ (World /\ ~ Configure) \/ UNCHANGED vars
      <2>1. UNCHANGED <<local, done, failed, cur, pc>>
            BY <1>3 DEF Cancel, World, Push, Delete, SetDefault, Age, vars
      <2> QED BY <2>1 DEF Kept, VisitInside, VisitReport
<1> QED BY <1>1, <1>2, <1>3

\* The sync of all refs in one working copy is, for each of them, one visit
\* after another, and none of its other steps, the pruning and the checkout
\* among them, breaks what the visits promise.
THEOREM VisitsRefinement == Spec => ImplementsVisits
<1>1. Init => \A n \in Names : Visit(n)!Init
      <2> SUFFICES ASSUME Init, NEW n \in Names PROVE Visit(n)!Init OBVIOUS
      <2>1. VisitContent(n) = "absent" /\ ~ VisitInside(n) /\ VisitReport(n) = "none"
            BY DEF Init, NoTargets, VisitContent, VisitInside, VisitReport
      <2> QED BY <2>1 DEF Visit!Init
<1>2. VisitInv /\ VisitInv' /\ [Next]_vars => \A n \in Names : [Visit(n)!Next]_(Visit(n)!vars)
      <2> SUFFICES ASSUME VisitInv, VisitInv', [Next]_vars, NEW n \in Names
                   PROVE  Kept(n) \/ Entered(n) \/ Left(n) \/ Refused(n) \/ Forgotten(n) \/ Removed(n)
          BY VisitMoves
      <2>a. BranchNames \subseteq Names /\ TagNames \subseteq Names BY DEF Names
      <2>1. CASE (\E fs \in Commands \cup {{}} : Begin(fs)) \/ Configure \/ Crash
            BY <2>1, ForgetVisits DEF Begin, Configure, Crash
      <2>2. CASE \E b \in BranchNames : FetchBranch(b) \/ StalenessUnknown(b) \/ SkipStale(b) \/ BranchGone(b)
            BY <2>2, BranchVisits
      <2>3. CASE SetReference \/ BranchFails BY <2>3, ReferenceVisits
      <2>4. CASE (\E b \in BranchNames : PruneBranch(b)) \/ (\E t \in TagNames : PruneTag(t))
            BY <2>4, <2>a, PruneVisits
      <2>5. CASE PruneFails
            <3>1. PICK m \in todo : local' \in {local, [local EXCEPT ![m] = NoRef]} BY <2>5 DEF PruneFails
            <3>2. m \in Names BY DEF VisitInv, TypeOK
            <3> QED BY <2>5, <3>1, <3>2, PruneVisits
      <2>6. CASE List \/ BranchesCut \/ BranchesDone \/ ObsoleteDone \/ StaleDone \/ LocalListFails
            BY <2>6, TagsVisited
      <2>7. CASE NoTags \/ FetchTags \/ TagGone \/ TagsFail BY <2>7, TagVisits
      <2>8. CASE \/ Open \/ OpenFails \/ PlainInit \/ CreateRemote \/ ListFails \/ Fail \/ TagsDone
                 \/ NoCheckout \/ Checkout \/ CheckoutMissing \/ Fallback \/ FallbackMissing
                 \/ CheckoutFails \/ Cancel \/ (World /\ ~ Configure) \/ UNCHANGED vars
            BY <2>8, QuietVisits
      <2> QED BY <2>1, <2>2, <2>3, <2>4, <2>5, <2>6, <2>7, <2>8, NextCases
<1>3. Spec => []VisitInv BY StepsCorrect, Placed, PTL DEF VisitInv
<1> QED BY <1>1, <1>2, <1>3, PTL DEF Spec, ImplementsVisits

-----------------------------------------------------------------------------
(* A sync comes to an end.                                                 *)

LEMMA LoopTypes == ASSUME TypeOK PROVE IsFiniteSet(todo) /\ Cardinality(todo) \in Nat
<1>1. todo \subseteq Names /\ IsFiniteSet(Names)
      BY StandardAssumption DEF StandardAssumption, TypeOK
<1>2. IsFiniteSet(todo) BY <1>1, FS_Subset
<1> QED BY <1>2, FS_CardinalityType

\* A loop goes on to its next ref, and may do the rest of its body later.
LEMMA LoopGoesOn ==
    ASSUME TypeOK, NEW n \in todo, todo' = todo \ {n}, pc # "setref",
           pc' = pc \/ (pc = "branches" /\ pc' = "setref")
    PROVE  StagesLeft' = StagesLeft /\ LoopLeft' < LoopLeft
<1>1. Cardinality(todo') = Cardinality(todo) - 1 BY LoopTypes, FS_RemoveElement
<1>2. Cardinality(todo) \in Nat BY LoopTypes
<1>3. LoopLeft = 2 * Cardinality(todo) /\ LoopLeft' \in {2 * Cardinality(todo'), 2 * Cardinality(todo') + 1}
      BY <1>1, <1>2 DEF LoopLeft
<1>4. StagesLeft' = StagesLeft BY DEF StagesLeft
<1> QED BY <1>1, <1>2, <1>3, <1>4

\* One branch has been brought, or has failed.
LEMMA BodyGoesOn ==
    ASSUME TypeOK, UNCHANGED todo, pc = "setref", pc' = "branches"
    PROVE  StagesLeft' = StagesLeft /\ LoopLeft' < LoopLeft
<1>1. Cardinality(todo) \in Nat BY LoopTypes
<1>2. LoopLeft = 2 * Cardinality(todo) + 1 BY DEF LoopLeft
<1>3. LoopLeft' = 2 * Cardinality(todo)
      <2>1. LoopLeft' = 2 * Cardinality(todo') + 0 BY DEF LoopLeft
      <2> QED BY <1>1, <2>1
<1>4. StagesLeft' = StagesLeft BY DEF StagesLeft
<1> QED BY <1>1, <1>2, <1>3, <1>4

\* The steps from which the sync goes on to a later one.
Onward ==
    \/ pc = "open" /\ pc' \in {"init", "list"}
    \/ pc = "init" /\ pc' = "remote"
    \/ pc = "remote" /\ pc' = "list"
    \/ pc = "list" /\ pc' \in {"branches", "tags"}
    \/ pc = "branches" /\ pc' \in {"obsolete", "tags"}
    \/ pc = "obsolete" /\ pc' \in {"stale", "tags"}
    \/ pc = "stale" /\ pc' = "tags"
    \/ pc = "tags" /\ pc' \in {"tagprune", "checkout"}
    \/ pc = "tagprune" /\ pc' = "checkout"
    \/ pc = "checkout" /\ pc' = "fallback"
    \/ pc \notin {"idle", "ended"} /\ pc' \in {"idle", "ended"}

LEMMA OnwardLeavesLess == ASSUME TypeOK, Onward PROVE StagesLeft' < StagesLeft
BY DEF TypeOK, Onward, StagesLeft

\* However the upstream changes and whatever fails meanwhile, a sync has an
\* end: none of its steps can be repeated for ever.
THEOREM SyncBounded == Spec => SyncIsBounded
<1>1. ASSUME TypeOK, [Next]_vars
      PROVE  [\/ StagesLeft' < StagesLeft
              \/ StagesLeft' = StagesLeft /\ LoopLeft' < LoopLeft
              \/ Poll \/ Command \/ World \/ Cancel]_vars
      <2> DEFINE Less == StagesLeft' = StagesLeft /\ LoopLeft' < LoopLeft
      <2> USE DEF Move, Skip, GiveUp
      <2>1. CASE Open \/ OpenFails \/ PlainInit \/ CreateRemote \/ List \/ ListFails
            <3>1. Onward BY <2>1 DEF Onward, Open, OpenFails, PlainInit, CreateRemote, List, ListFails
            <3> QED BY <1>1, <3>1, OnwardLeavesLess
      <2>2. CASE \/ BranchesCut \/ BranchesDone \/ ObsoleteDone \/ StaleDone
                 \/ NoTags \/ FetchTags \/ TagGone \/ TagsDone
            <3>1. Onward
                  BY <2>2 DEF Onward, BranchesCut, BranchesDone, ObsoleteDone, StaleDone, NoTags,
                              FetchTags, TagGone, TagsDone
            <3> QED BY <1>1, <3>1, OnwardLeavesLess
      <2>3. CASE NoCheckout \/ Checkout \/ CheckoutMissing \/ Fallback \/ FallbackMissing
            <3>1. Onward
                  BY <2>3 DEF Onward, NoCheckout, Checkout, CheckoutMissing, CheckOut, Fallback,
                              FallbackMissing
            <3> QED BY <1>1, <3>1, OnwardLeavesLess
      <2>4. CASE Fail \/ LocalListFails \/ TagsFail \/ CheckoutFails \/ Crash
            <3>1. Onward
                  BY <2>4, CheckoutAt DEF Onward, Fail, LocalListFails, TagsFail, CheckoutFails, Crash
            <3> QED BY <1>1, <3>1, OnwardLeavesLess
      <2>5. ASSUME NEW b \in BranchNames, BranchStep(b) \/ StalenessUnknown(b) PROVE Less
            <3>1. /\ b \in todo /\ todo' = todo \ {b} /\ pc # "setref"
                  /\ pc' = pc \/ (pc = "branches" /\ pc' = "setref")
                  BY <2>5 DEF BranchStep, SkipStale, FetchBranch, BranchGone, PruneBranch,
                              StalenessUnknown, Take
            <3> QED BY <1>1, <3>1, LoopGoesOn
      <2>6. ASSUME NEW t \in TagNames, PruneTag(t) PROVE Less
            <3>1. t \in todo /\ todo' = todo \ {t} /\ pc # "setref" /\ pc' = pc
                  BY <2>6 DEF PruneTag, Take
            <3> QED BY <1>1, <3>1, LoopGoesOn
      <2>7. CASE PruneFails
            <3>1. PICK n \in todo : todo' = todo \ {n} BY <2>7 DEF PruneFails
            <3>2. pc # "setref" /\ pc' = pc BY <2>7 DEF PruneFails
            <3> QED BY <1>1, <3>1, <3>2, LoopGoesOn
      <2>8. CASE SetReference
            <3>1. UNCHANGED todo /\ pc = "setref" /\ pc' = "branches" BY <2>8 DEF SetReference
            <3> QED BY <1>1, <3>1, BodyGoesOn
      <2>9. CASE BranchFails
            <3>1. CASE pc = "setref" /\ UNCHANGED todo /\ pc' = "branches" BY <1>1, <3>1, BodyGoesOn
            <3>2. ASSUME NEW b \in todo, todo' = todo \ {b}, pc = "branches", pc' = "branches" PROVE Less
                  BY <1>1, <3>2, LoopGoesOn
            <3> QED BY <2>9, <3>1, <3>2 DEF BranchFails, Take
      <2> QED BY <1>1, <2>1, <2>2, <2>3, <2>4, <2>5, <2>6, <2>7, <2>8, <2>9 DEF Next, Sync, Trouble
<1> QED BY <1>1, TypeCorrect, PTL DEF SyncIsBounded, Spec
=============================================================================
