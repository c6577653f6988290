---------------------------- MODULE MCLifecycle ----------------------------
(***************************************************************************)
(* Instances of Lifecycle for TLC.                                         *)
(***************************************************************************)
EXTENDS Lifecycle, TLC

CONSTANTS ann, bob, r1, r2

Pair  == {ann, bob}
Slots == Permutations({ann, bob}) \cup Permutations({r1, r2})
=============================================================================
