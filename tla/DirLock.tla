------------------------------- MODULE DirLock -------------------------------
(***************************************************************************)
(* The locks around one per-ref directory (pkg/gsync/openvox.go): every    *)
(* worker and pruner takes the directory's in-process lock, then a flock   *)
(* on <local_path>/.gfetch-meta/locks/<dir>.lock, which also excludes the  *)
(* other gfetch processes (a daemon and a `gfetch sync` beside it).  The   *)
(* orphan cleanup at the end of a sync unlinks lock files whose directory  *)
(* is gone, and takes only the flock to do so.                             *)
(*                                                                         *)
(* A flock belongs to the inode that was opened, not to the name, so the   *)
(* name and the inodes are modelled apart.  The in-process lock is the     *)
(* abstract lock that KeyedLock implements.                                *)
(***************************************************************************)
EXTENDS Integers, FiniteSets

CONSTANTS Procs,     \* operating system processes running gfetch
          Actors,    \* goroutines that want the directory or clean up
          Cleaners,  \* the goroutines that run the orphan cleanup
          ProcOf,    \* the process of each actor
          Inodes,    \* inodes the file system can give the lock file
          NoInode, NoActor, NoProc

Workers == Actors \ Cleaners

ASSUME DirLockAssumption ==
    /\ Cleaners \subseteq Actors
    /\ ProcOf \in [Actors -> Procs]
    /\ NoInode \notin Inodes
    /\ NoActor \notin Actors
    /\ NoProc \notin Procs

VARIABLES
    linked,  \* the inode the lock file's name refers to
    flock,   \* flock[i]: whose descriptor holds the flock on i
    fd,      \* the inode an actor has open
    keyed,   \* keyed[p]: who holds the directory's in-process lock in p
    pc,      \* where an actor is
    dir      \* the per-ref directory exists

vars == <<linked, flock, fd, keyed, pc, dir>>

Opened == {"wait", "poll", "inside", "tryflock", "flocked", "unlinked"}
Holding == {"inside", "flocked", "unlinked"}
Keyed == {"keyed", "wait", "poll", "inside", "closed"}

\* An actor has a descriptor exactly where the code has the file open.
TypeOK ==
    /\ linked \in Inodes \cup {NoInode}
    /\ flock \in [Inodes -> Actors \cup {NoActor}]
    /\ fd \in [Actors -> Inodes \cup {NoInode}]
    /\ keyed \in [Procs -> Actors \cup {NoActor}]
    /\ pc \in [Actors -> {"idle", "want", "listed", "orphan"} \cup Opened \cup Keyed]
    /\ dir \in BOOLEAN
    /\ \A a \in Actors : fd[a] # NoInode <=> pc[a] \in Opened

Init ==
    /\ linked = NoInode
    /\ flock = [i \in Inodes |-> NoActor]
    /\ fd = [a \in Actors |-> NoInode]
    /\ keyed = [p \in Procs |-> NoActor]
    /\ pc = [a \in Actors |-> "idle"]
    /\ dir \in BOOLEAN

Goto(a, at) == pc' = [pc EXCEPT ![a] = at]

\* close(2); it drops the flock of the descriptor, if it has one.
Close(a) ==
    /\ fd' = [fd EXCEPT ![a] = NoInode]
    /\ flock' = [i \in Inodes |-> IF flock[i] = a THEN NoActor ELSE flock[i]]

\* A worker that returns without releasing the in-process lock.
KeepKeyed(a) == UNCHANGED keyed

FreeKeyed(a) == keyed' = [keyed EXCEPT ![ProcOf[a]] = NoActor]
-----------------------------------------------------------------------------
(* A worker: sync of a branch or tag directory, or prune of a stale one.   *)

Want(a) ==
    /\ pc[a] = "idle"
    /\ Goto(a, "want")
    /\ UNCHANGED <<linked, flock, fd, keyed, dir>>

\* A worker that skips the in-process lock.
NoKeyedLock(a) == keyed' = [keyed EXCEPT ![ProcOf[a]] = a]

\* entry.mu.Lock() of the directory's key.
TakeKeyed(a) ==
    /\ keyed[ProcOf[a]] = NoActor
    /\ keyed' = [keyed EXCEPT ![ProcOf[a]] = a]

AcquireDirLock(a) ==
    /\ pc[a] = "want"
    /\ TakeKeyed(a)
    /\ Goto(a, "keyed")
    /\ UNCHANGED <<linked, flock, fd, dir>>

\* os.OpenFile without os.O_CREATE.
OpenExisting(a) ==
    /\ fd' = [fd EXCEPT ![a] = linked]
    /\ UNCHANGED linked

\* os.OpenFile(O_CREATE) opens the name's inode, or a new one nobody has open.
OpenOrCreate(a) ==
    \E i \in IF linked = NoInode THEN {j \in Inodes : \A b \in Actors : fd[b] # j}
                                 ELSE {linked} :
        /\ linked' = i
        /\ fd' = [fd EXCEPT ![a] = i]

OpenLockFile(a) ==
    /\ pc[a] = "keyed"
    /\ OpenOrCreate(a)
    /\ Goto(a, "wait")
    /\ UNCHANGED <<flock, keyed, dir>>

\* MkdirAll or OpenFile failed: the sync of this directory is given up.
OpenFails(a) ==
    /\ pc[a] = "keyed"
    /\ Goto(a, "closed")
    /\ UNCHANGED <<linked, flock, fd, keyed, dir>>

\* flock(2) that does not look whether the lock is shared already.
FlockShared(a) == flock' = [flock EXCEPT ![fd[a]] = a]

\* flock(LOCK_EX | LOCK_NB) on the open descriptor succeeds.
FlockNB(a) ==
    /\ flock[fd[a]] = NoActor
    /\ flock' = [flock EXCEPT ![fd[a]] = a]

Flock(a) ==
    /\ pc[a] = "wait"
    /\ FlockNB(a)
    /\ Goto(a, "inside")
    /\ UNCHANGED <<linked, fd, keyed, dir>>

FlockBusy(a) ==
    /\ pc[a] = "wait"
    /\ flock[fd[a]] # NoActor
    /\ Goto(a, "poll")
    /\ UNCHANGED <<linked, flock, fd, keyed, dir>>

\* time.After(lockPollDelay).
PollAgain(a) ==
    /\ pc[a] = "poll"
    /\ Goto(a, "wait")
    /\ UNCHANGED <<linked, flock, fd, keyed, dir>>

\* The waiter returns its error without closing the descriptor.
LeaveOpen(a) == UNCHANGED <<fd, flock>>

\* ctx.Done() after lockAcquireTimeout, or flock(2) failed with another error.
GiveUpClose(a) == Close(a)

FlockTimeout(a) ==
    /\ pc[a] = "poll"
    /\ GiveUpClose(a)
    /\ Goto(a, "closed")
    /\ UNCHANGED <<linked, keyed, dir>>

FlockFails(a) ==
    /\ pc[a] = "wait"
    /\ GiveUpClose(a)
    /\ Goto(a, "closed")
    /\ UNCHANGED <<linked, keyed, dir>>

\* What the lock is for: the directory is created, updated or removed.
Work(a) ==
    /\ pc[a] = "inside"
    /\ dir' = ~dir
    /\ UNCHANGED <<linked, flock, fd, keyed, pc>>

\* processLock.Release().
Release(a) ==
    /\ pc[a] = "inside"
    /\ Close(a)
    /\ Goto(a, "closed")
    /\ UNCHANGED <<linked, keyed, dir>>

\* releaseDirLock(), deferred first and therefore run last.
ReleaseDirLock(a) ==
    /\ pc[a] = "closed"
    /\ FreeKeyed(a)
    /\ Goto(a, "idle")
    /\ UNCHANGED <<linked, flock, fd, dir>>
-----------------------------------------------------------------------------
(* The cleanup of orphan lock files, for this directory's file.            *)

\* os.ReadDir saw the name.
ListLockFile(c) ==
    /\ pc[c] = "idle"
    /\ linked # NoInode
    /\ Goto(c, "listed")
    /\ UNCHANGED <<linked, flock, fd, keyed, dir>>

\* os.Stat of the directory: only a missing one makes the file an orphan.
StatDir(c) ==
    /\ pc[c] = "listed"
    /\ Goto(c, IF dir THEN "idle" ELSE "orphan")
    /\ UNCHANGED <<linked, flock, fd, keyed, dir>>

\* os.OpenFile without O_CREATE.
TryOpen(c) ==
    /\ pc[c] = "orphan"
    /\ fd' = [fd EXCEPT ![c] = linked]
    /\ Goto(c, IF linked = NoInode THEN "idle" ELSE "tryflock")
    /\ UNCHANGED <<linked, flock, keyed, dir>>

TryFlock(c) ==
    /\ pc[c] = "tryflock"
    /\ FlockNB(c)
    /\ Goto(c, "flocked")
    /\ UNCHANGED <<linked, fd, keyed, dir>>

\* EWOULDBLOCK: the lock is in use and the file stays.
SkipInUse(c) ==
    /\ pc[c] = "tryflock"
    /\ flock[fd[c]] # NoActor
    /\ Close(c)
    /\ Goto(c, "idle")
    /\ UNCHANGED <<linked, keyed, dir>>

\* os.Remove(lockPath) removes the name, whichever inode it has by now.
Unlink(c) ==
    /\ pc[c] = "flocked"
    /\ linked' = NoInode
    /\ Goto(c, "unlinked")
    /\ UNCHANGED <<flock, fd, keyed, dir>>

\* Release() after the removal, or after a removal that failed.
ReleaseOrphan(c) ==
    /\ pc[c] \in {"flocked", "unlinked"}
    /\ Close(c)
    /\ Goto(c, "idle")
    /\ UNCHANGED <<linked, keyed, dir>>
-----------------------------------------------------------------------------
\* A process dies: the kernel closes its descriptors, its memory is gone.
Crash(p) ==
    LET Dead == {a \in Actors : ProcOf[a] = p}
    IN  /\ fd' = [a \in Actors |-> IF a \in Dead THEN NoInode ELSE fd[a]]
        /\ flock' = [i \in Inodes |-> IF flock[i] \in Dead THEN NoActor ELSE flock[i]]
        /\ pc' = [a \in Actors |-> IF a \in Dead THEN "idle" ELSE pc[a]]
        /\ keyed' = [keyed EXCEPT ![p] = NoActor]
        /\ UNCHANGED <<linked, dir>>

Give(a) == FlockTimeout(a) \/ FlockFails(a) \/ OpenFails(a)

WorkerStep(a) ==
    \/ Want(a) \/ AcquireDirLock(a) \/ OpenLockFile(a) \/ Flock(a) \/ FlockBusy(a)
    \/ PollAgain(a) \/ Give(a) \/ Work(a) \/ Release(a) \/ ReleaseDirLock(a)

CleanerStep(c) ==
    \/ ListLockFile(c) \/ StatDir(c) \/ TryOpen(c) \/ TryFlock(c) \/ SkipInUse(c)
    \/ Unlink(c) \/ ReleaseOrphan(c)

Next ==
    \/ \E a \in Workers : WorkerStep(a)
    \/ \E c \in Cleaners : CleanerStep(c)
    \/ \E p \in Procs : Crash(p)

\* SF on AcquireDirLock is AcquireReturns of KeyedLock.  SF on FlockTimeout is
\* the deadline of withOpenVoxLockTimeout: once it has passed, the next poll
\* finds ctx.Done() ready.  Nothing is assumed of the cleanup.
Fairness ==
    \A a \in Workers :
        /\ SF_vars(AcquireDirLock(a)) /\ SF_vars(FlockTimeout(a))
        /\ WF_vars(OpenLockFile(a) \/ OpenFails(a))
        /\ WF_vars(Flock(a) \/ FlockBusy(a)) /\ WF_vars(PollAgain(a) \/ FlockTimeout(a))
        /\ WF_vars(Release(a)) /\ WF_vars(ReleaseDirLock(a))

Spec == Init /\ [][Next]_vars
FairSpec == Spec /\ Fairness
-----------------------------------------------------------------------------
InProcess == [a \in Actors |-> IF pc[a] = "inside" THEN ProcOf[a] ELSE NoProc]

PerProcess == INSTANCE Exclusion
    WITH Actors <- Actors, Resources <- Procs, Nowhere <- NoProc, inside <- InProcess

\* Within one process the directory has one worker at a time, whatever the
\* cleanup and the other processes do: a step enters a process nobody is in.
ImplementsProcessExclusion == PerProcess!Spec

\* The lock file excludes the other processes as well: one worker at a time
\* in the directory, over all processes.
DirExclusion ==
    \A a, b \in Workers : pc[a] = "inside" /\ pc[b] = "inside" => a = b

\* The cleanup never unlinks a lock file somebody else holds.
HeldLockFileKept ==
    [][\A i \in Inodes : linked = i /\ linked' # i => flock[i] \notin Workers]_vars

\* An actor that is done has nothing left: no descriptor, flock or lock.
NothingLeaked ==
    \A a \in Actors : pc[a] = "idle" =>
        /\ fd[a] = NoInode
        /\ \A i \in Inodes : flock[i] # a
        /\ keyed[ProcOf[a]] # a

\* A goroutine that wants the directory gets it or gives up, so that a sync
\* of the whole repository ends although another process keeps the lock.
LockAttemptEnds ==
    \A a \in Workers : pc[a] = "want" ~> pc[a] \in {"inside", "idle"}
=============================================================================
