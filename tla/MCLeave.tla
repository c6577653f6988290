------------------------------ MODULE MCLeave ------------------------------
(***************************************************************************)
(* Instances of Leave for TLC: one employee whose requests use the quota   *)
(* up, and two employees whose requests share the index.                   *)
(***************************************************************************)
EXTENDS Leave, TLC

CONSTANTS ann, bob, h1, h2

One == {ann}
Two == {ann, bob}
AnnFirst == (ann :> 1) @@ (bob :> 2)
AnnOnly  == (ann :> 1)

Both == Permutations({h1, h2})
=============================================================================
