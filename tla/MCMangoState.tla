---------------------------- MODULE MCMangoState ----------------------------
(* Instances of MangoState for TLC. *)
EXTENDS MangoState, TLC

(* The outputs of the start are alike, and so are the names. *)
Symmetric == Permutations(AtStart) \cup Permutations(Names)
=============================================================================
