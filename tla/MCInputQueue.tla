---------------------------- MODULE MCInputQueue ----------------------------
(* InputQueue for model checking: inputs and texts are interchangeable.    *)
EXTENDS InputQueue, TLC

Symmetry == Permutations(Inputs) \cup Permutations(Texts)
=============================================================================
