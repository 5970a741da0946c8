------------------------------ MODULE MCConfig ------------------------------
(* TLC instances of MeshConfig: the arguments typed at the CLI.  A cfg     *)
(* cannot write a negative number.                                         *)
EXTENDS MeshConfig

NegativeAndBoundaryTtl == {-1, 0, 10, 11}
=============================================================================
