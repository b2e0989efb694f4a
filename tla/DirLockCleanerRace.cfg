SPECIFICATION Spec
CONSTANTS
    p1 = p1
    p2 = p2
    w1 = w1
    w2 = w2
    w3 = w3
    c1 = c1
    i1 = i1
    i2 = i2
    i3 = i3
    i4 = i4
    NoInode = NoInode
    NoActor = NoActor
    NoProc = NoProc
    Procs <- MCProcs
    Actors <- MCActors
    Cleaners <- MCCleaners
    ProcOf <- MCProcOf
    Inodes <- MCInodes
INVARIANTS DirExclusion
