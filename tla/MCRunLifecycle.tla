--------------------------- MODULE MCRunLifecycle ---------------------------
(* Instances of RunLifecycle for TLC.                                      *)
EXTENDS RunLifecycle, TLC

(* Processes are interchangeable in every safety property.                 *)
Symmetry == Permutations(Workers)
=============================================================================
