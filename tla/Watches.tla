------------------------------ MODULE Watches ------------------------------
(***************************************************************************)
(* The watches of a configuration (middlesox/src/config.rs) and how the    *)
(* controller picks those that an event triggers (handle_event in          *)
(* middlesox/src/controller.rs).                                           *)
(*                                                                         *)
(* A watch is a record [event, prev, curr, exec, enabled].  Conditions and *)
(* states are functions from keys to values; an absent state and a watch   *)
(* without conditions are the function with no keys.                       *)
(***************************************************************************)
EXTENDS Naturals, Sequences, FiniteSets

CONSTANT Config   \* the watches, a sequence

ASSUME ConfigAssumption == Len(Config) \in Nat /\ DOMAIN Config = 1..Len(Config)

Nothing == <<>>

(* The places of the enabled watches of an event. *)
WatchesForEvent(name) == {i \in DOMAIN Config : Config[i].enabled /\ Config[i].event = name}

(* What the adapter is asked to report. *)
SubscribedEvents == {Config[i].event : i \in {j \in DOMAIN Config : Config[j].enabled}}

Meets(conditions, state) ==
  \A k \in DOMAIN conditions : k \in DOMAIN state /\ state[k] = conditions[k]

Matches(w, prev, curr) == Meets(w.prev, prev) /\ Meets(w.curr, curr)

HasConditions(w) == DOMAIN w.prev # {} \/ DOMAIN w.curr # {}

(* A watch without conditions always runs. *)
ShouldRun(w, event) == HasConditions(w) => Matches(w, event.prev, event.curr)

(* The scripts of the watches at some places, in the order of the places. *)
ScriptsAt ==
  [places \in SUBSET DOMAIN Config |->
     LET Nth(n) == CHOOSE i \in places : Cardinality({j \in places : j < i}) = n - 1
     IN  [n \in 1..Cardinality(places) |-> Config[Nth(n)].exec]]

(* The scripts that handle_event starts. *)
Triggered(event) == ScriptsAt[{i \in WatchesForEvent(event.name) : ShouldRun(Config[i], event)}]
=============================================================================
