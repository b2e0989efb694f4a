------------------------------ MODULE KeyedLock ------------------------------
(***************************************************************************)
(* keyedLockManager (pkg/gsync/openvox.go): one mutex per key, created by  *)
(* the first goroutine that asks for the key and dropped from the map by   *)
(* the last one that releases it.  The hazard is in the life cycle of an   *)
(* entry: a goroutine keeps the entry it looked up across the unlock of    *)
(* m.mu, so an entry dropped too early gives one key two mutexes, and one  *)
(* dropped too late leaks.                                                 *)
(*                                                                         *)
(* Each action is one critical section of m.mu, or one operation on an     *)
(* entry's own mutex; nothing else is shared.                              *)
(***************************************************************************)
EXTENDS Integers, FiniteSets

CONSTANTS Goroutines,  \* callers of Acquire
          Keys,        \* directory, resolver or cache paths
          Entries,     \* addresses a *lockEntry can have
          NoEntry, NoKey, NoOwner

ASSUME KeyedLockAssumption ==
    /\ IsFiniteSet(Goroutines)
    /\ NoEntry \notin Entries
    /\ NoKey \notin Keys
    /\ NoOwner \notin Goroutines

VARIABLES
    entries,  \* m.entries: key -> entry, NoEntry when the key is absent
    refs,     \* entry.refs
    owner,    \* who holds entry.mu
    pc,       \* where a goroutine is in Acquire and its release closure
    key,      \* Acquire's argument
    mine      \* the entry captured by Acquire and its closure

vars == <<entries, refs, owner, pc, key, mine>>

TypeOK ==
    /\ entries \in [Keys -> Entries \cup {NoEntry}]
    /\ refs \in [Entries -> Nat]
    /\ owner \in [Entries -> Goroutines \cup {NoOwner}]
    /\ pc \in [Goroutines -> {"idle", "lock", "held", "unref"}]
    /\ key \in [Goroutines -> Keys \cup {NoKey}]
    /\ mine \in [Goroutines -> Entries \cup {NoEntry}]

Init ==
    /\ entries = [k \in Keys |-> NoEntry]
    /\ refs = [e \in Entries |-> 0]
    /\ owner = [e \in Entries |-> NoOwner]
    /\ pc = [g \in Goroutines |-> "idle"]
    /\ key = [g \in Goroutines |-> NoKey]
    /\ mine = [g \in Goroutines |-> NoEntry]

\* The goroutines that captured e and have not dropped their reference.
Users(e) == {g \in Goroutines : mine[g] = e}

\* Addresses the allocator may return: no key and no goroutine refers to them.
Fresh ==
    {e \in Entries : Users(e) = {} /\ \A k \in Keys : entries[k] # e}
-----------------------------------------------------------------------------
\* entry.refs++, the increment forgotten for an entry that already exists.
CountNoWaiters(e, k) ==
    refs' = [refs EXCEPT ![e] = IF entries[k] = NoEntry THEN 1 ELSE @]

\* entry.refs++ of an entry found in the map or allocated as &lockEntry{}.
CountReference(e, k) ==
    refs' = [refs EXCEPT ![e] = IF entries[k] = NoEntry THEN 1 ELSE @ + 1]

\* The first critical section of Acquire: look the key up or create its entry.
Reference(g, k) ==
    /\ pc[g] = "idle"
    /\ \E e \in IF entries[k] = NoEntry THEN Fresh ELSE {entries[k]} :
         /\ CountReference(e, k)
         /\ owner' = [owner EXCEPT ![e] = IF entries[k] = NoEntry THEN NoOwner ELSE @]
         /\ entries' = [entries EXCEPT ![k] = e]
         /\ mine' = [mine EXCEPT ![g] = e]
    /\ key' = [key EXCEPT ![g] = k]
    /\ pc' = [pc EXCEPT ![g] = "lock"]

\* entry.mu.Lock(), which parks the goroutine until the mutex is free.
Lock(g) ==
    /\ pc[g] = "lock"
    /\ owner[mine[g]] = NoOwner
    /\ owner' = [owner EXCEPT ![mine[g]] = g]
    /\ pc' = [pc EXCEPT ![g] = "held"]
    /\ UNCHANGED <<entries, refs, key, mine>>

\* The release closure without the unlock.
KeepMutex(g) == UNCHANGED owner

\* entry.mu.Unlock() of the release closure.
FreeMutex(g) == owner' = [owner EXCEPT ![mine[g]] = NoOwner]

Unlock(g) ==
    /\ pc[g] = "held"
    /\ FreeMutex(g)
    /\ pc' = [pc EXCEPT ![g] = "unref"]
    /\ UNCHANGED <<entries, refs, key, mine>>

\* Dropping the key whoever else still waits for its entry.
DropAlways(g) == entries' = [entries EXCEPT ![key[g]] = NoEntry]

\* Never dropping the key.
DropNever(g) == UNCHANGED entries

\* if entry.refs == 0 { delete(m.entries, key) }, after the decrement.
DropIfLast(g) ==
    entries' = [entries EXCEPT ![key[g]] = IF refs[mine[g]] = 1 THEN NoEntry ELSE @]

\* The critical section of the release closure.
Unref(g) ==
    /\ pc[g] = "unref"
    /\ refs' = [refs EXCEPT ![mine[g]] = @ - 1]
    /\ DropIfLast(g)
    /\ mine' = [mine EXCEPT ![g] = NoEntry]
    /\ key' = [key EXCEPT ![g] = NoKey]
    /\ pc' = [pc EXCEPT ![g] = "idle"]
    /\ UNCHANGED owner

\* Called by the lock-file cleanup for the directory it removed a file of.
ForgetIfIdle(k) ==
    /\ entries[k] # NoEntry
    /\ entries' = [entries EXCEPT ![k] = IF refs[@] = 0 THEN NoEntry ELSE @]
    /\ UNCHANGED <<refs, owner, pc, key, mine>>

Step(g) == (\E k \in Keys : Reference(g, k)) \/ Lock(g) \/ Unlock(g) \/ Unref(g)

Next == (\E g \in Goroutines : Step(g)) \/ (\E k \in Keys : ForgetIfIdle(k))

\* sync.Mutex hands the lock to a waiter after at most 1ms of contention
\* (starvation mode), hence SF on Lock; the work done under the lock ends.
Fairness ==
    \A g \in Goroutines : SF_vars(Lock(g)) /\ WF_vars(Unlock(g)) /\ WF_vars(Unref(g))

Spec == Init /\ [][Next]_vars
FairSpec == Spec /\ Fairness
-----------------------------------------------------------------------------
\* Where each goroutine is, as the abstract lock sees it.
Inside == [g \in Goroutines |-> IF pc[g] = "held" THEN key[g] ELSE NoKey]

Abstract == INSTANCE Exclusion
    WITH Actors <- Goroutines, Resources <- Keys, Nowhere <- NoKey, inside <- Inside

\* Between Acquire(key) and its release no other goroutine is past
\* Acquire(key): the map of entries implements one lock per key.
ImplementsExclusion == Abstract!Spec

\* Every goroutine that holds or waits for a key uses the entry the map has
\* for that key now: nobody is left behind on an entry the map dropped.
NoStrandedWaiter ==
    \A g \in Goroutines : mine[g] # NoEntry => entries[key[g]] = mine[g]

\* The map has no entry nobody uses, and refs counts the users exactly: keys
\* do not accumulate over the life of the daemon, and ForgetIfIdle has
\* nothing to forget.
NoIdleEntry ==
    \A k \in Keys : entries[k] # NoEntry =>
        /\ refs[entries[k]] > 0
        /\ refs[entries[k]] = Cardinality(Users(entries[k]))

\* A goroutine that asked for a key gets it, although it cannot give up.
AcquireReturns ==
    \A g \in Goroutines : pc[g] = "lock" ~> pc[g] = "held"
=============================================================================
