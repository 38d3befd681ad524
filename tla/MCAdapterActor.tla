-------------------------- MODULE MCAdapterActor --------------------------
(* Instances of AdapterActor for TLC: clients and values are interchangeable. *)
EXTENDS AdapterActor, TLC

Symmetric == Permutations(Clients) \cup Permutations(Values) 
=============================================================================
