----------------------------- MODULE MCRepeater -----------------------------
(* Model-checking instance of Repeater.                                    *)
EXTENDS Repeater, TLC

Symmetry == Permutations(Id)
=============================================================================
