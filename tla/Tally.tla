-------------------------------- MODULE Tally --------------------------------
(***************************************************************************)
(* Loops over a slice that the runtime writes in many places, as recursive *)
(* functions of the position reached: adding up token estimates, and       *)
(* filtering.                                                              *)
(***************************************************************************)
EXTENDS Integers, Sequences

\* The sum of the numbers of s.
SumOf(s) ==
  LET sum[n \in 0..Len(s)] == IF n = 0 THEN 0 ELSE sum[n - 1] + s[n]
  IN sum[Len(s)]

\* The elements of s at the positions in K, in their order.
KeepAt(s, K) ==
  LET kept[n \in 0..Len(s)] ==
        IF n = 0 THEN <<>> ELSE IF n \in K THEN Append(kept[n - 1], s[n]) ELSE kept[n - 1]
  IN kept[Len(s)]
=============================================================================
