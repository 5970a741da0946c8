------------------------------- MODULE MCMesh -------------------------------
(* TLC instances of MeshLoRaLite.                                          *)
EXTENDS MeshLoRaLite, TLC

Symmetry == Permutations(Node)
=============================================================================
