--------------------------- MODULE MCControlPlane ---------------------------
(* ControlPlane for TLC; the bounds are the constants each .cfg gives.     *)
EXTENDS ControlPlaneProps, TLC

\* Runs are interchangeable (not for liveness).
RunSymmetry == Permutations(Runs)
=============================================================================
