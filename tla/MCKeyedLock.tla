----------------------------- MODULE MCKeyedLock -----------------------------
(* Three goroutines over two keys.  Two goroutines can contend for a key     *)
(* while the third drops or creates it; three entry addresses are as many    *)
(* as can be in use, so a freed address is handed out again.                 *)
EXTENDS KeyedLock

CONSTANTS g1, g2, g3, k1, k2, e1, e2, e3

MCGoroutines == {g1, g2, g3}
MCKeys == {k1, k2}
MCEntries == {e1, e2, e3}
=============================================================================
