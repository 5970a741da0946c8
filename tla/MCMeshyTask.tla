---------------------------- MODULE MCMeshyTask -----------------------------
(* Model-checking instance of MeshyTask.                                   *)
EXTENDS MeshyTask

CONSTANTS n0, n1

\* Frames of another node, and our own.
MCFrame == {<<n1, 1>>, <<n1, 2>>}
MCOwn == <<n0, 1>>
=============================================================================
