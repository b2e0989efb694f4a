------------------------------- MODULE MCDaemon -------------------------------
(* One or two repositories.  Two gocron threads: the second runs the job a   *)
(* reload installs while the first still runs the job it removed.  Two HTTP  *)
(* threads: a request overtakes another.  One instance per repository more   *)
(* than gocron threads leaves a fresh job however many removed ones run on.  *)
EXTENDS Daemon, TLC

CONSTANTS r1, r2, c1, c2, h1, h2, hup, n1, n2, n3

OneRepo == {r1}
TwoRepos == {r1, r2}
NoCron == {}
OneCron == {c1}
TwoCron == {c1, c2}
NoHttp == {}
OneHttp == {h1}
TwoHttp == {h1, h2}
TwoInstances == {n1, n2}
ThreeInstances == {n1, n2, n3}

InstanceSymmetry == Permutations(Instances)
=============================================================================
