---------------------------- MODULE MCDaemonLock ----------------------------
(* Instances of DaemonLock for TLC: processes of a kind are interchangeable. *)
EXTENDS DaemonLock, TLC

Symmetric == Permutations(Daemons) \cup Permutations(Probes)
=============================================================================
