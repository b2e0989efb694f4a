------------------------------ MODULE MCDirLock ------------------------------
(* Two processes.  Two workers of p1 contend in process, a worker of p2 from *)
(* outside, and the cleanup of p2 unlinks the file.  At most one worker per  *)
(* process and the cleaner have the file open, so four inodes always leave a *)
(* fresh one.                                                                *)
EXTENDS DirLock

CONSTANTS p1, p2, w1, w2, w3, c1, i1, i2, i3, i4

MCProcs == {p1, p2}
MCActors == {w1, w2, w3, c1}
MCCleaners == {c1}
MCProcOf == [a \in MCActors |-> IF a \in {w1, w2} THEN p1 ELSE p2]
MCInodes == {i1, i2, i3, i4}
=============================================================================
