---------------------------- MODULE MCProvision ----------------------------
(* Two declared files, which are alike.                                     *)
EXTENDS Provision, TLC

MCSymmetry == Permutations(Declared)
=============================================================================
