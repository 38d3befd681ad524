--------------------------- MODULE MCControlClient ---------------------------
(* Instances of ControlClient for TLC: processes of a kind are               *)
(* interchangeable.                                                          *)
EXTENDS ControlClient, TLC

Symmetric == Permutations(Daemons) \cup Permutations(Probes)
=============================================================================
