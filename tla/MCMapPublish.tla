---------------------------- MODULE MCMapPublish ----------------------------
(* Instances of MapPublish for TLC: two decisions about one map.           *)
EXTENDS MapPublish, TLC

CONSTANTS m, d1, d2

OneMap == {m}
TwoDecisions == {d1, d2}
AboutOneMap == d1 :> m @@ d2 :> m

ProcSymmetry == Permutations(Procs)
=============================================================================
