--------------------------- MODULE KeyedLock_proofs ---------------------------
(***************************************************************************)
(* For any finite set of goroutines, and any keys and entry addresses,     *)
(* KeyedLock is type correct, strands no waiter, leaks no entry and        *)
(* implements Exclusion.                                                   *)
(***************************************************************************)
EXTENDS KeyedLock, FiniteSetTheorems, TLAPS

\* A goroutine has an entry and a key exactly while it is inside Acquire or
\* holds the lock.
IdleInv ==
    \A g \in Goroutines :
        /\ pc[g] = "idle" <=> mine[g] = NoEntry
        /\ pc[g] = "idle" <=> key[g] = NoKey

\* No entry serves two keys.
InjectiveInv ==
    \A k1, k2 \in Keys : entries[k1] # NoEntry /\ entries[k1] = entries[k2] => k1 = k2

\* refs counts the users of an entry, whether or not the map still has it.
RefsInv == \A e \in Entries : refs[e] = Cardinality(Users(e))

\* An entry of the map has a user.
UsedInv == \A k \in Keys : entries[k] # NoEntry => Users(entries[k]) # {}

\* A mutex is owned by the goroutine that uses its entry and is past Lock.
OwnerInv ==
    /\ \A g \in Goroutines : pc[g] = "held" => owner[mine[g]] = g
    /\ \A e \in Entries : owner[e] # NoOwner => mine[owner[e]] = e /\ pc[owner[e]] = "held"

IInv ==
    /\ TypeOK
    /\ IdleInv
    /\ NoStrandedWaiter
    /\ InjectiveInv
    /\ RefsInv
    /\ UsedInv
    /\ OwnerInv

-----------------------------------------------------------------------------
\* The users of an entry are finitely many, so refs is a number.
LEMMA UsersFinite ==
    ASSUME NEW e
    PROVE  IsFiniteSet(Users(e)) /\ Cardinality(Users(e)) \in Nat
<1>1. Users(e) \subseteq Goroutines BY DEF Users
<1>2. IsFiniteSet(Users(e)) BY <1>1, KeyedLockAssumption, FS_Subset DEF KeyedLockAssumption
<1> QED BY <1>2, FS_CardinalityType

\* A goroutine outside Acquire that captures e adds one to the users of e and
\* leaves the users of the other entries alone.
LEMMA UsersAfterReference ==
    ASSUME TypeOK, NEW g \in Goroutines, mine[g] = NoEntry, NEW e \in Entries,
           mine' = [mine EXCEPT ![g] = e]
    PROVE  /\ Users(e)' = Users(e) \cup {g}
           /\ Cardinality(Users(e)') = Cardinality(Users(e)) + 1
           /\ \A f \in Entries \ {e} : Users(f)' = Users(f)
<1>1. e # NoEntry BY KeyedLockAssumption DEF KeyedLockAssumption
<1>2. g \notin Users(e) BY <1>1 DEF Users
<1>3. Users(e)' = Users(e) \cup {g} BY DEF Users, TypeOK
<1>4. Cardinality(Users(e)') = Cardinality(Users(e)) + 1
      BY <1>2, <1>3, UsersFinite, FS_AddElement
<1>5. \A f \in Entries \ {e} : Users(f)' = Users(f)
      BY KeyedLockAssumption DEF Users, TypeOK, KeyedLockAssumption
<1> QED BY <1>3, <1>4, <1>5

\* Dropping a reference is the converse.
LEMMA UsersAfterUnref ==
    ASSUME TypeOK, NEW g \in Goroutines, NEW e \in Entries, mine[g] = e,
           mine' = [mine EXCEPT ![g] = NoEntry]
    PROVE  /\ Users(e)' = Users(e) \ {g}
           /\ Cardinality(Users(e)') = Cardinality(Users(e)) - 1
           /\ \A f \in Entries \ {e} : Users(f)' = Users(f)
<1>1. \A f \in Entries : Users(f)' = Users(f) \ {g}
      BY KeyedLockAssumption DEF Users, TypeOK, KeyedLockAssumption
<1>2. \A f \in Entries \ {e} : g \notin Users(f) BY DEF Users
<1>3. g \in Users(e) BY DEF Users
<1>4. Cardinality(Users(e)') = Cardinality(Users(e)) - 1
      BY <1>1, <1>3, UsersFinite, FS_RemoveElement
<1> QED BY <1>1, <1>2, <1>4

-----------------------------------------------------------------------------
LEMMA InitIInv == Init => IInv
<1> SUFFICES ASSUME Init PROVE IInv OBVIOUS
<1>1. TypeOK BY KeyedLockAssumption DEF Init, TypeOK, KeyedLockAssumption
<1>2. \A e \in Entries : Users(e) = {}
      BY KeyedLockAssumption DEF Init, Users, KeyedLockAssumption
<1>3. RefsInv BY <1>2, FS_EmptySet DEF Init, RefsInv
<1>4. IdleInv /\ NoStrandedWaiter /\ InjectiveInv /\ UsedInv /\ OwnerInv
      BY DEF Init, IdleInv, NoStrandedWaiter, InjectiveInv, UsedInv, OwnerInv
<1> QED BY <1>1, <1>3, <1>4 DEF IInv

LEMMA ReferenceIInv ==
    ASSUME IInv, NEW g \in Goroutines, NEW k \in Keys, Reference(g, k)
    PROVE  IInv'
<1> USE DEF IInv
<1>1. PICK e \in IF entries[k] = NoEntry THEN Fresh ELSE {entries[k]} :
         /\ CountReference(e, k)
         /\ owner' = [owner EXCEPT ![e] = IF entries[k] = NoEntry THEN NoOwner ELSE @]
         /\ entries' = [entries EXCEPT ![k] = e]
         /\ mine' = [mine EXCEPT ![g] = e]
      BY DEF Reference
<1>2. key' = [key EXCEPT ![g] = k] /\ pc' = [pc EXCEPT ![g] = "lock"] /\ pc[g] = "idle"
      BY DEF Reference
<1>3. e \in Entries /\ e # NoEntry
      BY KeyedLockAssumption DEF KeyedLockAssumption, Fresh, TypeOK
<1>4. mine[g] = NoEntry BY <1>2 DEF IdleInv
<1>5. /\ Users(e)' = Users(e) \cup {g}
      /\ Cardinality(Users(e)') = Cardinality(Users(e)) + 1
      /\ \A f \in Entries \ {e} : Users(f)' = Users(f)
      BY <1>1, <1>3, <1>4, UsersAfterReference
<1>6. refs'[e] = refs[e] + 1 /\ \A f \in Entries \ {e} : refs'[f] = refs[f]
      <2>1. CASE entries[k] = NoEntry
            <3>1. Users(e) = {} BY <1>1, <2>1 DEF Fresh
            <3>2. refs[e] = 0 BY <1>3, <3>1, FS_EmptySet DEF RefsInv
            <3> QED BY <1>1, <1>3, <2>1, <3>2 DEF CountReference, TypeOK
      <2>2. CASE entries[k] # NoEntry
            BY <1>1, <1>3, <2>2 DEF CountReference, TypeOK
      <2> QED BY <2>1, <2>2
<1>7. \A f \in Entries : owner'[f] = owner[f]
      <2>1. CASE entries[k] = NoEntry
            <3>1. Users(e) = {} BY <1>1, <2>1 DEF Fresh
            <3>2. owner[e] = NoOwner
                  BY <1>3, <3>1 DEF OwnerInv, Users, TypeOK
            <3> QED BY <1>1, <1>3, <2>1, <3>2 DEF TypeOK
      <2>2. CASE entries[k] # NoEntry BY <1>1, <1>3, <2>2 DEF TypeOK
      <2> QED BY <2>1, <2>2
<1>8. TypeOK'
      <2>1. refs' \in [Entries -> Nat]
            BY <1>1, <1>3, <1>6 DEF TypeOK, CountReference
      <2>2. owner' = owner BY <1>1, <1>3, <1>7 DEF TypeOK
      <2> QED BY <1>1, <1>2, <1>3, <2>1, <2>2 DEF TypeOK
<1>9. IdleInv'
      BY <1>1, <1>2, <1>3, KeyedLockAssumption DEF IdleInv, TypeOK, KeyedLockAssumption
<1>10. NoStrandedWaiter'
      <2>1. SUFFICES ASSUME NEW h \in Goroutines, mine'[h] # NoEntry
                     PROVE  entries'[key'[h]] = mine'[h]
            BY DEF NoStrandedWaiter
      <2>2. CASE h = g BY <1>1, <1>2, <2>2 DEF TypeOK
      <2>3. CASE h # g
            <3>1. mine[h] # NoEntry /\ mine'[h] = mine[h] /\ key'[h] = key[h]
                  BY <1>1, <1>2, <2>1, <2>3 DEF TypeOK
            <3>2. entries[key[h]] = mine[h] /\ key[h] \in Keys
                  BY <3>1 DEF NoStrandedWaiter, IdleInv, TypeOK
            <3>3. CASE entries[k] = NoEntry
                  BY <1>1, <3>1, <3>2, <3>3 DEF TypeOK
            <3>4. CASE entries[k] # NoEntry
                  BY <1>1, <3>1, <3>2, <3>4 DEF TypeOK
            <3> QED BY <3>3, <3>4
      <2> QED BY <2>2, <2>3
<1>11. InjectiveInv'
      <2>1. CASE entries[k] = NoEntry
            <3>1. \A k1 \in Keys : entries[k1] # e BY <1>1, <2>1 DEF Fresh
            <3> QED BY <1>1, <3>1 DEF InjectiveInv, TypeOK
      <2>2. CASE entries[k] # NoEntry
            <3>1. entries' = entries BY <1>1, <2>2 DEF TypeOK
            <3> QED BY <3>1 DEF InjectiveInv
      <2> QED BY <2>1, <2>2
<1>12. RefsInv' BY <1>5, <1>6 DEF RefsInv
<1>13. UsedInv'
      <2>1. SUFFICES ASSUME NEW k1 \in Keys, entries'[k1] # NoEntry
                     PROVE  Users(entries[k1])' # {}
            BY DEF UsedInv
      <2>2. CASE entries'[k1] = e BY <1>5, <2>2 DEF Users
      <2>3. CASE entries'[k1] # e
            <3>1. entries'[k1] = entries[k1] /\ entries[k1] \in Entries
                  BY <1>1, <2>1, <2>3 DEF TypeOK
            <3>2. Users(entries[k1]) # {} BY <2>1, <3>1 DEF UsedInv
            <3> QED BY <1>4, <1>1, <2>1, <2>3, <3>1, <3>2 DEF Users, TypeOK
      <2> QED BY <2>2, <2>3
<1>14. OwnerInv'
      BY <1>1, <1>2, <1>4, <1>7, <1>8, KeyedLockAssumption
      DEF OwnerInv, IdleInv, TypeOK, KeyedLockAssumption
<1> QED BY <1>8, <1>9, <1>10, <1>11, <1>12, <1>13, <1>14

LEMMA LockIInv ==
    ASSUME IInv, NEW g \in Goroutines, Lock(g)
    PROVE  IInv'
<1> USE DEF IInv, Lock
<1>1. mine[g] \in Entries /\ mine[g] # NoEntry
      BY KeyedLockAssumption DEF IdleInv, TypeOK, KeyedLockAssumption
<1>2. TypeOK' BY <1>1 DEF TypeOK
<1>3. IdleInv' BY DEF IdleInv, TypeOK
<1>4. NoStrandedWaiter' /\ InjectiveInv' BY DEF NoStrandedWaiter, InjectiveInv
<1>5. RefsInv' /\ UsedInv' BY DEF RefsInv, UsedInv, Users
<1>6. OwnerInv' BY <1>1, KeyedLockAssumption DEF OwnerInv, TypeOK, KeyedLockAssumption
<1> QED BY <1>2, <1>3, <1>4, <1>5, <1>6

LEMMA UnlockIInv ==
    ASSUME IInv, NEW g \in Goroutines, Unlock(g)
    PROVE  IInv'
<1> USE DEF IInv, Unlock, FreeMutex
<1>1. mine[g] \in Entries /\ mine[g] # NoEntry
      BY KeyedLockAssumption DEF IdleInv, TypeOK, KeyedLockAssumption
<1>2. TypeOK' BY <1>1 DEF TypeOK
<1>3. IdleInv' BY DEF IdleInv, TypeOK
<1>4. NoStrandedWaiter' /\ InjectiveInv' BY DEF NoStrandedWaiter, InjectiveInv
<1>5. RefsInv' /\ UsedInv' BY DEF RefsInv, UsedInv, Users
<1>6. OwnerInv' BY <1>1, KeyedLockAssumption DEF OwnerInv, TypeOK, KeyedLockAssumption
<1> QED BY <1>2, <1>3, <1>4, <1>5, <1>6

LEMMA UnrefIInv ==
    ASSUME IInv, NEW g \in Goroutines, Unref(g)
    PROVE  IInv'
<1> USE DEF IInv
<1>1. /\ mine[g] \in Entries /\ key[g] \in Keys
      /\ mine[g] # NoEntry /\ entries[key[g]] = mine[g]
      BY KeyedLockAssumption
      DEF Unref, IdleInv, TypeOK, KeyedLockAssumption, NoStrandedWaiter
<1>2. PICK e \in Entries, k \in Keys : e = mine[g] /\ k = key[g]
      BY <1>1
<1>3. /\ pc[g] = "unref"
      /\ refs' = [refs EXCEPT ![e] = @ - 1]
      /\ entries' = [entries EXCEPT ![k] = IF refs[e] = 1 THEN NoEntry ELSE @]
      /\ mine' = [mine EXCEPT ![g] = NoEntry]
      /\ key' = [key EXCEPT ![g] = NoKey]
      /\ pc' = [pc EXCEPT ![g] = "idle"]
      /\ UNCHANGED owner
      BY <1>2 DEF Unref, DropIfLast
<1>4. e # NoEntry /\ entries[k] = e BY <1>1, <1>2
<1>5. /\ Users(e)' = Users(e) \ {g}
      /\ Cardinality(Users(e)') = Cardinality(Users(e)) - 1
      /\ \A f \in Entries \ {e} : Users(f)' = Users(f)
      BY <1>2, <1>3, UsersAfterUnref
<1>6. Cardinality(Users(e)) \in Nat /\ refs[e] = Cardinality(Users(e)) /\ g \in Users(e)
      BY <1>2, UsersFinite DEF RefsInv, Users
\* The last user is recognised by its count.
<1>7. refs[e] = 1 <=> Users(e) = {g}
      <2>1. IsFiniteSet(Users(e) \ {g}) /\ Cardinality(Users(e) \ {g}) = refs[e] - 1
            BY <1>6, UsersFinite, FS_RemoveElement
      <2>2. Cardinality(Users(e) \ {g}) = 0 <=> Users(e) \ {g} = {}
            BY <2>1, FS_EmptySet
      <2> QED BY <1>6, <2>1, <2>2
<1>8. TypeOK'
      <2>1. Cardinality(Users(e)') \in Nat BY UsersFinite, <1>5, FS_RemoveElement, FS_CardinalityType
      <2>2. refs[e] - 1 \in Nat BY <1>5, <1>6, <2>1
      <2> QED BY <1>3, <2>2 DEF TypeOK
<1>9. IdleInv' BY <1>3 DEF IdleInv, TypeOK
<1>10. NoStrandedWaiter'
      <2>1. SUFFICES ASSUME NEW h \in Goroutines, mine'[h] # NoEntry
                     PROVE  entries'[key'[h]] = mine'[h]
            BY DEF NoStrandedWaiter
      <2>2. h # g /\ mine'[h] = mine[h] /\ key'[h] = key[h]
            BY <1>3, <2>1 DEF TypeOK
      <2>3. entries[key[h]] = mine[h] /\ key[h] \in Keys
            BY <2>1, <2>2 DEF NoStrandedWaiter, IdleInv, TypeOK
      <2>4. CASE refs[e] = 1
            <3>1. mine[h] # e BY <1>7, <2>2, <2>4 DEF Users
            <3>2. key[h] # k BY <1>4, <2>3, <3>1
            <3> QED BY <1>3, <2>2, <2>3, <3>2 DEF TypeOK
      <2>5. CASE refs[e] # 1
            BY <1>3, <2>2, <2>3, <2>5 DEF TypeOK
      <2> QED BY <2>4, <2>5
<1>11. InjectiveInv' BY <1>3 DEF InjectiveInv, TypeOK
<1>12. RefsInv' BY <1>3, <1>5, <1>6 DEF RefsInv, TypeOK
<1>13. UsedInv'
      <2>1. SUFFICES ASSUME NEW k1 \in Keys, entries'[k1] # NoEntry
                     PROVE  Users(entries[k1])' # {}
            BY DEF UsedInv
      <2>2. entries'[k1] = entries[k1] /\ entries[k1] \in Entries
            BY <1>3, <2>1 DEF TypeOK
      <2>3. CASE entries[k1] = e
            <3>1. k1 = k BY <1>4, <2>3 DEF InjectiveInv
            <3>2. refs[e] # 1 BY <1>3, <2>1, <3>1 DEF TypeOK
            <3>3. Users(e) \ {g} # {} BY <1>6, <1>7, <3>2
            <3> QED BY <1>5, <2>2, <2>3, <3>3 DEF Users
      <2>4. CASE entries[k1] # e
            BY <1>5, <2>1, <2>2, <2>4 DEF UsedInv, Users
      <2> QED BY <2>3, <2>4
<1>14. OwnerInv' BY <1>2, <1>3 DEF OwnerInv, TypeOK
<1> QED BY <1>8, <1>9, <1>10, <1>11, <1>12, <1>13, <1>14

\* No entry of the map is idle, so ForgetIfIdle changes nothing.
LEMMA ForgetIsVain ==
    ASSUME IInv, NEW k \in Keys, ForgetIfIdle(k)
    PROVE  UNCHANGED vars
<1>1. entries[k] \in Entries /\ Users(entries[k]) # {}
      BY DEF ForgetIfIdle, IInv, TypeOK, UsedInv
<1>2. refs[entries[k]] # 0
      BY <1>1, UsersFinite, FS_EmptySet DEF IInv, RefsInv
<1>3. entries' = entries BY <1>2 DEF ForgetIfIdle, IInv, TypeOK
<1> QED BY <1>3 DEF ForgetIfIdle, vars

LEMMA StutterIInv == IInv /\ UNCHANGED vars => IInv'
BY DEF IInv, vars, TypeOK, IdleInv, NoStrandedWaiter, InjectiveInv, RefsInv, UsedInv, OwnerInv, Users

\* The inductive invariant holds in every reachable state.
THEOREM Invariance == Spec => []IInv
<1>1. Init => IInv BY InitIInv
<1>2. IInv /\ [Next]_vars => IInv'
      <2>1. SUFFICES ASSUME IInv, [Next]_vars PROVE IInv' OBVIOUS
      <2>2. CASE \E g \in Goroutines : Step(g)
            BY <2>1, <2>2, ReferenceIInv, LockIInv, UnlockIInv, UnrefIInv DEF Step
      <2>3. CASE \E k \in Keys : ForgetIfIdle(k)
            BY <2>1, <2>3, ForgetIsVain, StutterIInv
      <2>4. CASE UNCHANGED vars BY <2>1, <2>4, StutterIInv
      <2> QED BY <2>1, <2>2, <2>3, <2>4 DEF Next
<1> QED BY <1>1, <1>2, PTL DEF Spec

\* The variables keep their types; in particular refs never goes negative.
THEOREM TypeCorrect == Spec => []TypeOK
<1>1. IInv => TypeOK BY DEF IInv
<1> QED BY <1>1, Invariance, PTL

\* Whoever waits for a key waits on the mutex the map has for it.
THEOREM WaitersNotStranded == Spec => []NoStrandedWaiter
<1>1. IInv => NoStrandedWaiter BY DEF IInv
<1> QED BY <1>1, Invariance, PTL

\* Every entry of the map is in use and counts its users.
THEOREM EntriesInUse == Spec => []NoIdleEntry
<1>1. IInv => NoIdleEntry
      <2> SUFFICES ASSUME IInv, NEW k \in Keys, entries[k] # NoEntry
                   PROVE  /\ refs[entries[k]] > 0
                          /\ refs[entries[k]] = Cardinality(Users(entries[k]))
          BY DEF NoIdleEntry
      <2>1. entries[k] \in Entries /\ Users(entries[k]) # {}
            BY DEF IInv, TypeOK, UsedInv
      <2>2. refs[entries[k]] = Cardinality(Users(entries[k])) BY <2>1 DEF IInv, RefsInv
      <2>3. Cardinality(Users(entries[k])) \in Nat \ {0}
            BY <2>1, UsersFinite, FS_EmptySet
      <2> QED BY <2>2, <2>3
<1> QED BY <1>1, Invariance, PTL

-----------------------------------------------------------------------------
\* A goroutine that gets the mutex is alone past Acquire for its key.
LEMMA LockEnters ==
    ASSUME IInv, NEW g \in Goroutines, Lock(g)
    PROVE  Abstract!Enter(g, key[g]) /\ key[g] \in Keys
<1> USE DEF IInv, Lock
<1>1. key[g] \in Keys /\ mine[g] \in Entries /\ entries[key[g]] = mine[g]
      BY KeyedLockAssumption
      DEF IdleInv, TypeOK, NoStrandedWaiter, KeyedLockAssumption
<1>2. Inside[g] = NoKey BY DEF Inside
<1>3. \A h \in Goroutines : Inside[h] # key[g]
      <2> SUFFICES ASSUME NEW h \in Goroutines, Inside[h] = key[g] PROVE FALSE OBVIOUS
      <2>1. pc[h] = "held" /\ key[h] = key[g]
            BY <1>1, KeyedLockAssumption DEF Inside, KeyedLockAssumption
      <2>2. mine[h] = mine[g] BY <1>1, <2>1 DEF NoStrandedWaiter, IdleInv, TypeOK
      <2>3. owner[mine[g]] = h BY <2>1, <2>2 DEF OwnerInv
      <2> QED BY <2>3, KeyedLockAssumption DEF KeyedLockAssumption
<1>4. Inside' = [Inside EXCEPT ![g] = key[g]] BY DEF Inside, TypeOK
<1> QED BY <1>1, <1>2, <1>3, <1>4 DEF Abstract!Enter

\* The keyed lock implements the abstract lock.
THEOREM Refinement == Spec => ImplementsExclusion
<1>1. Init => Abstract!Init BY DEF Init, Inside, Abstract!Init
<1>2. IInv /\ [Next]_vars => [Abstract!Next]_Inside
      <2> SUFFICES ASSUME IInv, [Next]_vars PROVE [Abstract!Next]_Inside OBVIOUS
      <2>1. ASSUME NEW g \in Goroutines, NEW k \in Keys, Reference(g, k)
            PROVE  UNCHANGED Inside
            BY <2>1 DEF IInv, TypeOK, Reference, Inside
      <2>2. ASSUME NEW g \in Goroutines, Lock(g) PROVE Abstract!Next
            BY <2>2, LockEnters DEF Abstract!Next
      <2>3. ASSUME NEW g \in Goroutines, Unlock(g) PROVE Abstract!Next
            <3>1. Inside[g] # NoKey
                  BY <2>3, KeyedLockAssumption
                  DEF Unlock, Inside, IInv, IdleInv, TypeOK, KeyedLockAssumption
            <3>2. Inside' = [Inside EXCEPT ![g] = NoKey]
                  BY <2>3 DEF Unlock, Inside, IInv, TypeOK
            <3> QED BY <3>1, <3>2 DEF Abstract!Next, Abstract!Leave
      <2>4. ASSUME NEW g \in Goroutines, Unref(g) PROVE UNCHANGED Inside
            BY <2>4 DEF IInv, TypeOK, Unref, Inside
      <2>5. CASE \E k \in Keys : ForgetIfIdle(k) BY <2>5 DEF ForgetIfIdle, Inside
      <2>6. CASE UNCHANGED vars BY <2>6 DEF vars, Inside
      <2> QED BY <2>1, <2>2, <2>3, <2>4, <2>5, <2>6 DEF Next, Step
<1> QED BY <1>1, <1>2, Invariance, PTL DEF Spec, ImplementsExclusion, Abstract!Spec
=============================================================================
