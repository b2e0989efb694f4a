------------------------------ MODULE MCRefSync ------------------------------
(* Up to two pushes and three faults: enough for a fault in the sync that    *)
(* repairs what an earlier fault broke, with a push between any two steps.   *)
EXTENDS RefSync
=============================================================================
