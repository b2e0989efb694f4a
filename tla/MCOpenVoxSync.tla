----------------------------- MODULE MCOpenVoxSync -----------------------------
(* Two workers.  Either two branches and a tag whose name sanitizes to the   *)
(* directory of a branch, or a default branch and one called production.     *)
EXTENDS OpenVoxSync, TLC

CONSTANTS main, dev, prod, tag, w1, w2, nMain, nDev, nProd, nTag

MCBranches == {main, dev}
MCBranchesProd == {main, prod}
MCTags == {tag}
NoTags == {}
MCDirs == {nMain, nDev, nProd}
MCNames == (main :> nMain) @@ (dev :> nDev) @@ (prod :> nProd) @@ (tag :> nTag)
MCDirOf == [n \in {NameOf[r] : r \in Refs} |-> IF n = nTag THEN nDev ELSE n]
TwoWorkers == {w1, w2}
OneWorker == {w1}

WorkerSymmetry == Permutations(Workers)
=============================================================================
