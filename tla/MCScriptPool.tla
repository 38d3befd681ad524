---------------------------- MODULE MCScriptPool ----------------------------
(* Instances of ScriptPool for TLC. *)
EXTENDS ScriptPool, TLC
=============================================================================
