---------------------------- MODULE DirLock_proofs ----------------------------
(***************************************************************************)
(* For any processes, goroutines and inodes: DirLock leaks nothing and     *)
(* excludes within a process; without the orphan cleanup it excludes over  *)
(* all processes; and with one cleaner no held lock file is unlinked.      *)
(***************************************************************************)
EXTENDS DirLock, TLAPS

\* Between AcquireDirLock and ReleaseDirLock a goroutine, and only it, holds
\* the in-process lock.
KeyedInv ==
    /\ \A a \in Actors : pc[a] \in Keyed => keyed[ProcOf[a]] = a
    /\ \A p \in Procs : keyed[p] # NoActor =>
           ProcOf[keyed[p]] = p /\ pc[keyed[p]] \in Keyed

\* A flock is held on the inode its holder has open, in the steps that need it.
FlockInv ==
    /\ \A a \in Actors : pc[a] \in Holding => flock[fd[a]] = a
    /\ \A i \in Inodes : flock[i] # NoActor =>
           fd[flock[i]] = i /\ pc[flock[i]] \in Holding

\* Only workers go through the worker's steps, and cleaners through theirs.
RoleInv ==
    /\ \A a \in Workers : pc[a] \in {"idle", "want"} \cup Keyed
    /\ \A c \in Cleaners :
           pc[c] \in {"idle", "listed", "orphan", "tryflock", "flocked", "unlinked"}

IInv == TypeOK /\ KeyedInv /\ FlockInv /\ RoleInv

\* Nobody has the file open or holds a lock at the start.
LEMMA InitIInv == Init => IInv
BY DirLockAssumption
   DEF Init, IInv, TypeOK, KeyedInv, FlockInv, RoleInv, Opened, Holding, Keyed, Workers,
       DirLockAssumption

LEMMA StutterIInv == IInv /\ UNCHANGED vars => IInv'
BY DEF IInv, vars, TypeOK, KeyedInv, FlockInv, RoleInv

\* A step that moves one actor and touches neither descriptors nor locks.
LEMMA MoveIInv ==
    ASSUME IInv, NEW a \in Actors, NEW at, Goto(a, at),
           UNCHANGED <<flock, fd, keyed>>, linked' \in Inodes \cup {NoInode}, dir' \in BOOLEAN,
           at \in {"idle", "want", "listed", "orphan"} \cup Opened \cup Keyed,
           at \in Opened <=> pc[a] \in Opened,
           at \in Keyed <=> pc[a] \in Keyed,
           at \in Holding <=> pc[a] \in Holding,
           a \in Workers => at \in {"idle", "want"} \cup Keyed,
           a \in Cleaners => at \in {"idle", "listed", "orphan", "tryflock", "flocked", "unlinked"}
    PROVE  IInv'
<1> USE DEF IInv, Goto
<1>1. TypeOK' BY DEF TypeOK
<1>2. KeyedInv' BY DEF KeyedInv, TypeOK
<1>3. FlockInv' BY DEF FlockInv, TypeOK
<1>4. RoleInv' BY DEF RoleInv, TypeOK, Workers
<1> QED BY <1>1, <1>2, <1>3, <1>4

\* A step that closes the actor's descriptor and goes to a place without one.
LEMMA CloseIInv ==
    ASSUME IInv, NEW a \in Actors, NEW at, Goto(a, at), Close(a),
           UNCHANGED <<linked, keyed, dir>>,
           \/ a \in Workers /\ pc[a] \in Keyed /\ at = "closed"
           \/ a \in Cleaners /\ at = "idle"
    PROVE  IInv'
<1> USE DEF IInv, Goto, Close
<1>1. at \notin Opened /\ at \notin Holding BY DEF Opened, Holding
<1>2. TypeOK' BY <1>1 DEF TypeOK, Keyed
<1>3. KeyedInv' BY DEF KeyedInv, TypeOK, RoleInv, Keyed
<1>4. FlockInv'
      <2>1. ASSUME NEW b \in Actors, pc'[b] \in Holding PROVE flock'[fd'[b]] = b
            <3>1. b # a /\ pc[b] \in Holding BY <1>1, <2>1 DEF TypeOK
            <3>2. fd[b] \in Inodes BY <3>1 DEF TypeOK, Holding, Opened
            <3>3. fd'[b] = fd[b] /\ flock[fd[b]] = b BY <3>1 DEF FlockInv, TypeOK
            <3> QED BY <3>1, <3>2, <3>3
      <2>2. ASSUME NEW i \in Inodes, flock'[i] # NoActor
            PROVE  fd'[flock'[i]] = i /\ pc'[flock'[i]] \in Holding
            <3>1. flock'[i] = flock[i] /\ flock[i] # a /\ flock[i] \in Actors
                  BY <2>2 DEF TypeOK
            <3>2. fd[flock[i]] = i /\ pc[flock[i]] \in Holding
                  BY <2>2, <3>1 DEF FlockInv
            <3> QED BY <3>1, <3>2 DEF TypeOK
      <2> QED BY <2>1, <2>2 DEF FlockInv
<1>5. RoleInv' BY DEF RoleInv, TypeOK, Workers, Keyed
<1> QED BY <1>2, <1>3, <1>4, <1>5

\* A step that gets the flock on the inode the actor has open.
LEMMA FlockNBIInv ==
    ASSUME IInv, NEW a \in Actors, NEW at, Goto(a, at), FlockNB(a),
           UNCHANGED <<linked, fd, keyed, dir>>,
           \/ a \in Workers /\ pc[a] = "wait" /\ at = "inside"
           \/ a \in Cleaners /\ pc[a] = "tryflock" /\ at = "flocked"
    PROVE  IInv'
<1> USE DEF IInv, Goto, FlockNB
<1>1. fd[a] \in Inodes /\ fd[a] # NoInode BY DEF TypeOK, Opened
<1>2. TypeOK' BY <1>1 DEF TypeOK, Opened, Keyed
<1>3. KeyedInv' BY DEF KeyedInv, TypeOK, Keyed
<1>4. FlockInv'
      <2>1. pc[a] \notin Holding BY DEF Holding
      <2>2. \A b \in Actors \ {a} : pc[b] \in Holding => fd[b] # fd[a]
            BY DirLockAssumption DEF FlockInv, DirLockAssumption
      <2> QED BY <1>1, <2>1, <2>2, DirLockAssumption
          DEF FlockInv, TypeOK, Holding, DirLockAssumption
<1>5. RoleInv' BY DEF RoleInv, TypeOK, Workers, Keyed
<1> QED BY <1>2, <1>3, <1>4, <1>5

LEMMA AcquireIInv ==
    ASSUME IInv, NEW a \in Workers, AcquireDirLock(a)
    PROVE  IInv'
<1> USE DEF IInv, AcquireDirLock, TakeKeyed, Goto
<1>1. a \in Actors /\ ProcOf[a] \in Procs BY DirLockAssumption DEF DirLockAssumption, Workers
<1>2. TypeOK' BY <1>1 DEF TypeOK, Opened, Keyed
<1>3. KeyedInv'
      BY <1>1, DirLockAssumption DEF KeyedInv, TypeOK, Keyed, DirLockAssumption
<1>4. FlockInv' BY <1>1 DEF FlockInv, TypeOK, Holding
<1>5. RoleInv' BY DEF RoleInv, TypeOK, Workers, Keyed
<1> QED BY <1>2, <1>3, <1>4, <1>5

LEMMA OpenIInv ==
    ASSUME IInv, NEW a \in Workers, OpenLockFile(a)
    PROVE  IInv'
<1> USE DEF IInv, OpenLockFile, OpenOrCreate, Goto
<1>1. a \in Actors BY DEF Workers
<1>2. PICK i \in Inodes : linked' = i /\ fd' = [fd EXCEPT ![a] = i]
      BY DEF TypeOK
<1>3. i # NoInode BY DirLockAssumption DEF DirLockAssumption
<1>4. fd[a] = NoInode BY <1>1 DEF TypeOK, Opened
<1>5. TypeOK' BY <1>1, <1>2, <1>3 DEF TypeOK, Opened, Keyed
<1>6. KeyedInv' BY <1>1 DEF KeyedInv, TypeOK, Keyed
<1>7. FlockInv' BY <1>1, <1>2, <1>4 DEF FlockInv, TypeOK, Holding
<1>8. RoleInv' BY DEF RoleInv, TypeOK, Workers, Keyed
<1> QED BY <1>5, <1>6, <1>7, <1>8

LEMMA ReleaseDirIInv ==
    ASSUME IInv, NEW a \in Workers, ReleaseDirLock(a)
    PROVE  IInv'
<1> USE DEF IInv, ReleaseDirLock, FreeKeyed, Goto
<1>1. a \in Actors /\ ProcOf[a] \in Procs BY DirLockAssumption DEF DirLockAssumption, Workers
<1>2. keyed[ProcOf[a]] = a BY <1>1 DEF KeyedInv, Keyed
<1>3. TypeOK' BY <1>1 DEF TypeOK, Opened, Keyed
<1>4. KeyedInv' BY <1>1, <1>2 DEF KeyedInv, TypeOK, Keyed
<1>5. FlockInv' BY <1>1 DEF FlockInv, TypeOK, Holding
<1>6. RoleInv' BY DEF RoleInv, TypeOK, Workers, Keyed
<1> QED BY <1>3, <1>4, <1>5, <1>6

LEMMA TryOpenIInv ==
    ASSUME IInv, NEW c \in Cleaners, TryOpen(c)
    PROVE  IInv'
<1> USE DEF IInv, TryOpen, Goto
<1>1. c \in Actors BY DirLockAssumption DEF DirLockAssumption
<1>2. TypeOK' BY <1>1 DEF TypeOK, Opened, Keyed
<1>3. KeyedInv' BY <1>1 DEF KeyedInv, TypeOK, Keyed
<1>4. FlockInv' BY <1>1 DEF FlockInv, TypeOK, Holding
<1>5. RoleInv' BY DEF RoleInv, TypeOK, Workers, Keyed
<1> QED BY <1>2, <1>3, <1>4, <1>5

LEMMA CrashIInv ==
    ASSUME IInv, NEW p \in Procs, Crash(p)
    PROVE  IInv'
<1> USE DEF IInv, Crash
<1>1. TypeOK' BY DEF TypeOK, Opened, Keyed
<1>2. KeyedInv'
      BY DirLockAssumption DEF KeyedInv, TypeOK, Keyed, DirLockAssumption
<1>3. FlockInv'
      <2> DEFINE Dead == {a \in Actors : ProcOf[a] = p}
      <2>1. ASSUME NEW b \in Actors, pc'[b] \in Holding PROVE flock'[fd'[b]] = b
            <3>1. b \notin Dead /\ pc[b] \in Holding BY <2>1 DEF TypeOK, Holding
            <3>2. fd[b] \in Inodes BY <3>1 DEF TypeOK, Holding, Opened
            <3>3. fd'[b] = fd[b] /\ flock[fd[b]] = b BY <3>1 DEF FlockInv, TypeOK
            <3> QED BY <3>1, <3>2, <3>3
      <2>2. ASSUME NEW i \in Inodes, flock'[i] # NoActor
            PROVE  fd'[flock'[i]] = i /\ pc'[flock'[i]] \in Holding
            <3>1. flock'[i] = flock[i] /\ flock[i] \notin Dead /\ flock[i] \in Actors
                  BY <2>2 DEF TypeOK
            <3>2. fd[flock[i]] = i /\ pc[flock[i]] \in Holding
                  BY <2>2, <3>1 DEF FlockInv
            <3> QED BY <3>1, <3>2 DEF TypeOK
      <2> QED BY <2>1, <2>2 DEF FlockInv
<1>4. RoleInv'
      BY DirLockAssumption DEF RoleInv, TypeOK, Workers, DirLockAssumption
<1> QED BY <1>1, <1>2, <1>3, <1>4

LEMMA NextIInv == IInv /\ [Next]_vars => IInv'
<1> SUFFICES ASSUME IInv, [Next]_vars PROVE IInv' OBVIOUS
<1> USE DEF IInv
<1>1. ASSUME NEW a \in Workers, WorkerStep(a) PROVE IInv'
      <2>0. a \in Actors /\ a \notin Cleaners BY DEF Workers
      <2>1. CASE Want(a) \/ OpenFails(a) \/ FlockBusy(a) \/ PollAgain(a)
            BY <2>0, <2>1, MoveIInv
            DEF Want, OpenFails, FlockBusy, PollAgain, Opened, Keyed, Holding, TypeOK
      <2>2. CASE AcquireDirLock(a) BY <2>2, AcquireIInv
      <2>3. CASE OpenLockFile(a) BY <2>3, OpenIInv
      <2>4. CASE Flock(a) BY <2>0, <2>4, FlockNBIInv DEF Flock
      <2>5. CASE FlockTimeout(a) \/ FlockFails(a) \/ Release(a)
            BY <2>0, <2>5, CloseIInv
            DEF FlockTimeout, FlockFails, Release, GiveUpClose, Keyed
      <2>6. CASE Work(a)
            BY <2>6 DEF Work, TypeOK, KeyedInv, FlockInv, RoleInv
      <2>7. CASE ReleaseDirLock(a) BY <2>7, ReleaseDirIInv
      <2> QED BY <1>1, <2>1, <2>2, <2>3, <2>4, <2>5, <2>6, <2>7 DEF WorkerStep, Give
<1>2. ASSUME NEW c \in Cleaners, CleanerStep(c) PROVE IInv'
      <2>0. c \in Actors /\ c \notin Workers
            BY DirLockAssumption DEF Workers, DirLockAssumption
      <2>1. CASE ListLockFile(c) \/ StatDir(c) \/ Unlink(c)
            BY <2>0, <2>1, MoveIInv
            DEF ListLockFile, StatDir, Unlink, Opened, Keyed, Holding, TypeOK
      <2>2. CASE TryOpen(c) BY <2>2, TryOpenIInv
      <2>3. CASE TryFlock(c) BY <2>0, <2>3, FlockNBIInv DEF TryFlock
      <2>4. CASE SkipInUse(c) \/ ReleaseOrphan(c)
            BY <2>0, <2>4, CloseIInv DEF SkipInUse, ReleaseOrphan
      <2> QED BY <1>2, <2>1, <2>2, <2>3, <2>4 DEF CleanerStep
<1>3. ASSUME NEW p \in Procs, Crash(p) PROVE IInv' BY <1>3, CrashIInv
<1>4. CASE UNCHANGED vars BY <1>4, StutterIInv
<1> QED BY <1>1, <1>2, <1>3, <1>4 DEF Next

\* The inductive invariant holds in every reachable state.
THEOREM Invariance == Spec => []IInv
BY InitIInv, NextIInv, PTL DEF Spec

\* Types, and a descriptor exactly where the code has the file open.
THEOREM TypeCorrect == Spec => []TypeOK
<1>1. IInv => TypeOK BY DEF IInv
<1> QED BY <1>1, Invariance, PTL

\* A goroutine that is done, timed out, failed or died keeps nothing.
THEOREM NothingIsLeaked == Spec => []NothingLeaked
<1>1. IInv => NothingLeaked
      BY DirLockAssumption
      DEF IInv, NothingLeaked, TypeOK, KeyedInv, FlockInv, Opened, Holding, Keyed,
          DirLockAssumption
<1> QED BY <1>1, Invariance, PTL

-----------------------------------------------------------------------------
\* A step that gets the flock enters a process that nobody is in.
LEMMA FlockEnters ==
    ASSUME IInv, NEW a \in Workers, Flock(a)
    PROVE  PerProcess!Next
<1> USE DEF IInv, Flock, Goto
<1>1. a \in Actors /\ ProcOf[a] \in Procs /\ ProcOf[a] # NoProc
      BY DirLockAssumption DEF DirLockAssumption, Workers
<1>2. keyed[ProcOf[a]] = a BY <1>1 DEF KeyedInv, Keyed
<1>3. \A b \in Actors : InProcess[b] # ProcOf[a]
      BY <1>1, <1>2 DEF InProcess, KeyedInv, Keyed
<1>4. InProcess' = [InProcess EXCEPT ![a] = ProcOf[a]]
      BY <1>1 DEF InProcess, TypeOK
<1>5. InProcess[a] = NoProc BY <1>1 DEF InProcess
<1> QED BY <1>1, <1>3, <1>4, <1>5 DEF PerProcess!Next, PerProcess!Enter

\* A crash makes at most one goroutine leave its process, because at most one
\* was in.
LEMMA CrashLeaves ==
    ASSUME IInv, NEW p \in Procs, Crash(p)
    PROVE  [PerProcess!Next]_InProcess
<1> USE DEF IInv, Crash
<1>1. CASE \E a \in Actors : ProcOf[a] = p /\ pc[a] = "inside"
      <2>1. PICK a \in Actors : ProcOf[a] = p /\ pc[a] = "inside" BY <1>1
      <2>2. \A b \in Actors \ {a} : ProcOf[b] = p => pc[b] # "inside"
            BY <2>1 DEF KeyedInv, Keyed
      <2>3. InProcess[a] # NoProc
            BY <2>1, DirLockAssumption DEF InProcess, DirLockAssumption
      <2>4. InProcess' = [InProcess EXCEPT ![a] = NoProc]
            BY <2>1, <2>2 DEF InProcess, TypeOK
      <2> QED BY <2>1, <2>3, <2>4 DEF PerProcess!Next, PerProcess!Leave
<1>2. CASE ~ \E a \in Actors : ProcOf[a] = p /\ pc[a] = "inside"
      BY <1>2 DEF InProcess, TypeOK
<1> QED BY <1>1, <1>2

\* Within each process the directory is an exclusive resource, also while
\* other processes clean up, time out and crash.
THEOREM ProcessRefinement == Spec => ImplementsProcessExclusion
<1>1. Init => PerProcess!Init BY DEF Init, InProcess, PerProcess!Init
<1>2. IInv /\ [Next]_vars => [PerProcess!Next]_InProcess
      <2> SUFFICES ASSUME IInv, [Next]_vars PROVE [PerProcess!Next]_InProcess OBVIOUS
      <2>1. ASSUME NEW a \in Workers, WorkerStep(a) PROVE [PerProcess!Next]_InProcess
            <3>0. a \in Actors BY DEF Workers
            <3>1. CASE Flock(a) BY <3>1, FlockEnters
            <3>2. CASE Release(a)
                  <4>1. InProcess[a] # NoProc
                        BY <3>0, <3>2, DirLockAssumption
                        DEF Release, InProcess, DirLockAssumption
                  <4>2. InProcess' = [InProcess EXCEPT ![a] = NoProc]
                        BY <3>0, <3>2 DEF Release, Goto, InProcess, IInv, TypeOK
                  <4> QED BY <3>0, <4>1, <4>2 DEF PerProcess!Next, PerProcess!Leave
            <3>3. CASE Work(a) BY <3>3 DEF Work, InProcess
            <3>4. CASE \/ Want(a) \/ AcquireDirLock(a) \/ OpenLockFile(a) \/ FlockBusy(a)
                       \/ PollAgain(a) \/ Give(a) \/ ReleaseDirLock(a)
                  BY <3>0, <3>4
                  DEF IInv, TypeOK, InProcess, Goto, Want, AcquireDirLock, OpenLockFile, FlockBusy,
                      PollAgain, Give, FlockTimeout, FlockFails, OpenFails, ReleaseDirLock
            <3> QED BY <2>1, <3>1, <3>2, <3>3, <3>4 DEF WorkerStep
      <2>2. ASSUME NEW c \in Cleaners, CleanerStep(c) PROVE UNCHANGED InProcess
            <3>1. c \in Actors BY DirLockAssumption DEF DirLockAssumption
            <3>2. pc[c] # "inside"  BY DEF IInv, RoleInv
            <3> QED BY <2>2, <3>1, <3>2
                DEF IInv, TypeOK, InProcess, Goto, CleanerStep, ListLockFile, StatDir, TryOpen,
                    TryFlock, SkipInUse, Unlink, ReleaseOrphan
      <2>3. ASSUME NEW p \in Procs, Crash(p) PROVE [PerProcess!Next]_InProcess
            BY <2>3, CrashLeaves
      <2>4. CASE UNCHANGED vars BY <2>4 DEF vars, InProcess
      <2> QED BY <2>1, <2>2, <2>3, <2>4 DEF Next
<1> QED BY <1>1, <1>2, Invariance, PTL DEF Spec, ImplementsProcessExclusion, PerProcess!Spec

-----------------------------------------------------------------------------
\* With at most one cleaner, what it has open and what the workers have open
\* is the file of the name, except for workers it left behind.
CleanerInv ==
    \A c \in Cleaners : pc[c] \in {"tryflock", "flocked"} => fd[c] = linked

\* Without cleaners every descriptor is on the file of the name.
OneInodeInv == \A a \in Actors : fd[a] # NoInode => fd[a] = linked

\* With at most one cleaner no lock file is unlinked while a worker holds it.
THEOREM OneCleanerKeepsHeldFiles ==
    ASSUME \A c, d \in Cleaners : c = d
    PROVE  Spec => HeldLockFileKept
<1>1. Init => CleanerInv
      BY DirLockAssumption DEF Init, CleanerInv, DirLockAssumption
<1>2. IInv /\ CleanerInv /\ [Next]_vars => CleanerInv'
      <2> SUFFICES ASSUME IInv, CleanerInv, [Next]_vars, NEW c \in Cleaners,
                          pc'[c] \in {"tryflock", "flocked"}
                   PROVE  fd'[c] = linked'
          BY DEF CleanerInv
      <2>0. c \in Actors /\ c \notin Workers
            BY DirLockAssumption DEF DirLockAssumption, Workers
      <2>1. ASSUME NEW a \in Workers, WorkerStep(a) PROVE fd'[c] = linked'
            <3>1. a \in Actors /\ a # c BY <2>0 DEF Workers
            <3>2. pc'[c] = pc[c] /\ fd'[c] = fd[c]
                  BY <2>0, <2>1, <3>1
                  DEF IInv, TypeOK, WorkerStep, Goto, Want, AcquireDirLock, OpenLockFile, OpenOrCreate,
                      Flock, FlockBusy, PollAgain, Give, FlockTimeout, FlockFails, OpenFails,
                      GiveUpClose, Close, Work, Release, ReleaseDirLock
            <3>3. fd[c] = linked /\ fd[c] # NoInode
                  BY <2>0, <3>2 DEF CleanerInv, IInv, TypeOK, Opened
            <3>4. linked' = linked
                  BY <2>1, <3>3
                  DEF WorkerStep, Want, AcquireDirLock, OpenLockFile, OpenOrCreate,
                      Flock, FlockBusy, PollAgain, Give, FlockTimeout, FlockFails, OpenFails,
                      Work, Release, ReleaseDirLock
            <3> QED BY <3>2, <3>3, <3>4
      <2>2. ASSUME CleanerStep(c) PROVE fd'[c] = linked'
            BY <2>0, <2>2
            DEF IInv, TypeOK, CleanerInv, Goto, CleanerStep, ListLockFile, StatDir, TryOpen,
                TryFlock, FlockNB, SkipInUse, Unlink, ReleaseOrphan, Close
      <2>3. ASSUME NEW p \in Procs, Crash(p) PROVE fd'[c] = linked'
            BY <2>0, <2>3 DEF Crash, CleanerInv
      <2>4. CASE UNCHANGED vars BY <2>4 DEF vars, CleanerInv
      <2> QED BY <2>1, <2>2, <2>3, <2>4 DEF Next
<1>3. IInv /\ CleanerInv /\ [Next]_vars =>
        [\A i \in Inodes : linked = i /\ linked' # i => flock[i] \notin Workers]_vars
      <2> SUFFICES ASSUME IInv, CleanerInv, Next, NEW i \in Inodes, linked = i, linked' # i
                   PROVE  flock[i] \notin Workers
          OBVIOUS
      <2>1. i # NoInode BY DirLockAssumption DEF DirLockAssumption
      <2>2. \E c \in Cleaners : Unlink(c)
            BY <2>1
            DEF Next, WorkerStep, Want, AcquireDirLock, OpenLockFile, OpenOrCreate,
                Flock, FlockBusy, PollAgain, Give, FlockTimeout, FlockFails, OpenFails,
                Work, Release, ReleaseDirLock, CleanerStep, ListLockFile, StatDir, TryOpen,
                TryFlock, SkipInUse, ReleaseOrphan, Crash
      <2>3. PICK c \in Cleaners : Unlink(c) BY <2>2
      <2>4. c \in Actors /\ c \notin Workers
            BY DirLockAssumption DEF DirLockAssumption, Workers
      <2>5. fd[c] = i /\ flock[fd[c]] = c
            BY <2>3, <2>4 DEF Unlink, CleanerInv, IInv, FlockInv, Holding
      <2> QED BY <2>4, <2>5
<1> QED BY <1>1, <1>2, <1>3, Invariance, PTL DEF Spec, HeldLockFileKept

\* Without the cleanup the lock file keeps every worker but one out of the
\* directory, over all processes.
THEOREM LockFileExcludes ==
    ASSUME Cleaners = {}
    PROVE  Spec => []DirExclusion
<1>1. Init => OneInodeInv BY DEF Init, OneInodeInv
<1>2. IInv /\ OneInodeInv /\ [Next]_vars => OneInodeInv'
      <2> SUFFICES ASSUME IInv, OneInodeInv, [Next]_vars PROVE OneInodeInv' OBVIOUS
      <2>1. ASSUME NEW a \in Workers, OpenLockFile(a) PROVE OneInodeInv'
            <3>1. a \in Actors BY DEF Workers
            <3>2. CASE linked = NoInode
                  <4>1. \A b \in Actors : fd[b] = NoInode BY <3>2 DEF OneInodeInv
                  <4> QED BY <2>1, <3>1, <4>1
                      DEF IInv, TypeOK, OpenLockFile, OpenOrCreate, OneInodeInv
            <3>3. CASE linked # NoInode
                  BY <2>1, <3>1, <3>3 DEF IInv, TypeOK, OpenLockFile, OpenOrCreate, OneInodeInv
            <3> QED BY <3>2, <3>3
      <2>2. ASSUME NEW a \in Workers, WorkerStep(a), ~ OpenLockFile(a) PROVE OneInodeInv'
            BY <2>2
            DEF IInv, TypeOK, OneInodeInv, WorkerStep, Want, AcquireDirLock, Flock, FlockBusy,
                PollAgain, Give, FlockTimeout, FlockFails, OpenFails, GiveUpClose, Close,
                Work, Release, ReleaseDirLock
      <2>3. ASSUME NEW p \in Procs, Crash(p) PROVE OneInodeInv'
            BY <2>3 DEF Crash, OneInodeInv
      <2>4. CASE UNCHANGED vars BY <2>4 DEF vars, OneInodeInv
      <2> QED BY <2>1, <2>2, <2>3, <2>4 DEF Next
<1>3. IInv /\ OneInodeInv => DirExclusion
      BY DEF IInv, TypeOK, OneInodeInv, FlockInv, DirExclusion, Workers, Opened, Holding
<1> QED BY <1>1, <1>2, <1>3, Invariance, PTL DEF Spec
=============================================================================
