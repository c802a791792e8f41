----------------------------- MODULE MCGraphTask -----------------------------
(* Small graphs for GraphTask. *)
EXTENDS GraphTask, TLC

CONSTANTS p1, p2

OneProc  == {p1}
TwoProcs == {p1, p2}
ProcSymmetry == Permutations(TwoProcs)

\* A read and an action feed the report.
Small     == {"r", "a", "f"}
SmallKind == ("r" :> "read") @@ ("a" :> "action") @@ ("f" :> "report")
SmallDeps == ("r" :> {}) @@ ("a" :> {}) @@ ("f" :> {"r", "a"})

\* A read, then a delivery.
Chain     == {"r", "d"}
ChainKind == ("r" :> "read") @@ ("d" :> "deliver")
ChainDeps == ("r" :> {}) @@ ("d" :> {"r"})
=============================================================================
