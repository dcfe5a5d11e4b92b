---------------------------- MODULE MCPromotion ----------------------------
(***************************************************************************)
(* Instances of Promotion for TLC.                                         *)
(***************************************************************************)
EXTENDS Promotion, TLC

\* Promotions differ in nothing but their name, nor do seconds; there is no
\* liveness property.
Symmetry == Permutations(Promotions) \cup Permutations(Seconds)
=============================================================================
