---------------------------- MODULE MCTaskLifecycle ----------------------------
(* Small instances of TaskLifecycle. *)
EXTENDS TaskLifecycle, TLC

CONSTANTS p1, p2

OneProc == {p1}
TwoProcs == {p1, p2}
ProcSymmetry == Permutations(TwoProcs)
=============================================================================
