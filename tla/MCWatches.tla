----------------------------- MODULE MCWatches -----------------------------
EXTENDS Watches, TLC

CONSTANTS p1, p2

MCPaths == {p1, p2}

(* Both paths share the bucket of the one-bucket table; after the growth   *)
(* to three buckets (loadlimit is 1, then 2) they are apart.               *)
MCHashOf == (p1 :> 4) @@ (p2 :> 5)
MCPrimes == <<1, 3>>

(* Watchers are only compared for equality. *)
MCSymmetry == Permutations(Watchers)
=============================================================================
