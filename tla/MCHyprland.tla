----------------------------- MODULE MCHyprland -----------------------------
(* An instance of HyprlandAdapter for TLC. *)
EXTENDS HyprlandAdapter

(* Two watches of one event, one on a transition and one without conditions; *)
(* one on a state; one that is disabled; one on an event without a state.    *)
SomeWatches ==
  <<[event |-> "workspace_change", prev |-> [id |-> "2"], curr |-> [id |-> "1"],
     exec |-> "home", enabled |-> TRUE],
    [event |-> "window_state_change", prev |-> Nothing, curr |-> [fullscreen |-> "true"],
     exec |-> "dim", enabled |-> TRUE],
    [event |-> "focus_change", prev |-> Nothing, curr |-> Nothing,
     exec |-> "border", enabled |-> FALSE],
    [event |-> "window_close", prev |-> [address |-> "kitty"], curr |-> Nothing,
     exec |-> "tidy", enabled |-> TRUE],
    [event |-> "workspace_change", prev |-> Nothing, curr |-> Nothing,
     exec |-> "log", enabled |-> TRUE]>>

SomeLines ==
  {[name |-> "workspacev2", data |-> Malformed],
   [name |-> "closewindow", data |-> [address |-> "kitty"]],
   NotText}

(* "workspacev2>>12,web" cut after its first digit and comma. *)
SomeCuts == {[name |-> "workspacev2", data |-> [id |-> "1", name |-> ""]]}
=============================================================================
