----------------------------- MODULE MCNodeTable -----------------------------
(* TLC instance of MeshNodeTable: no identity is special.                  *)
EXTENDS MeshNodeTable

Symmetry == Permutations(Id)
=============================================================================
