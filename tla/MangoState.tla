----------------------------- MODULE MangoState -----------------------------
(***************************************************************************)
(* The picture that the mangowc adapter keeps of the compositor's outputs  *)
(* (mangowc/src/lib.rs: WaylandState, its Dispatch implementations and the *)
(* start of run_wayland_loop), and the compositor at the other end of the  *)
(* Wayland connection, as far as the adapter can see it.                   *)
(*                                                                         *)
(* Both directions of the connection are queues.  The Wayland thread takes *)
(* one message at a time: updates of an output are collected in `pending', *)
(* a frame message commits them and emits an event for what changed, but   *)
(* `active' moves the focus at once.  An output is known by a provisional  *)
(* name until its own arrives.  Outputs come and go.                       *)
(***************************************************************************)
EXTENDS Naturals, Sequences, FiniteSets

CONSTANTS
  Ids,         \* registry names of outputs; the compositor uses each once
  NoId,        \* focused_output_id: None
  Names,       \* connector names; a returning output has its old name
  NoName,      \* the empty name
  AtStart,     \* the outputs that exist when the adapter connects
  NTags,       \* the compositor's number of tags
  Fields,      \* what an output has besides tags: "title", "layout", ...
  Values,      \* values of a field
  Default,     \* the value of a field in OutputState::default()
  Subscribed,  \* the facts whose changes are subscribed to, "output" for focus
  MaxChanges   \* bounds what happens to the compositor's own state

ASSUME OutputsAssumption == /\ NoId \notin Ids /\ NoName \notin Names
                            /\ AtStart \subseteq Ids /\ IsFiniteSet(AtStart)
ASSUME FieldsAssumption  == /\ IsFiniteSet(Fields) /\ "title" \in Fields /\ "tags" \notin Fields
                            /\ Default \in Values
ASSUME CountsAssumption  == NTags \in Nat /\ MaxChanges \in Nat

VARIABLES
  phase,        \* run_wayland_loop: first roundtrip, second, loop, or failed
  manager,      \* zdwl_ipc_manager_v2 is bound
  outputs,      \* id -> name and whether its IPC object exists
  deferred,     \* pending_outputs: found before the manager was
  tagCount,     \* global.tag_count
  committed,    \* state.outputs: name -> state
  pending,      \* name -> state, not committed yet
  focusedName,  \* state.focused_output
  focusedId,    \* focused_output_id
  wire,         \* messages from the compositor that are not dispatched yet
  requests,     \* requests the compositor has not handled yet
  plugged,      \* compositor: id -> name of the outputs that exist
  truth,        \* compositor: the facts of each output
  active,       \* compositor: the active output
  bound,        \* compositor: outputs with an IPC object
  unused,       \* compositor: ids that no output has had
  changes,      \* counts the compositor's changes
  told,         \* what a subscriber knows from events: name -> facts
  toldFocus,    \* ... and of the focus: the output, and its title
  missed,       \* facts whose last change no event has told
  framed        \* outputs that a frame has been dispatched of

client   == <<phase, manager, outputs, deferred, tagCount, committed, pending,
              focusedName, focusedId>>
server   == <<plugged, truth, active, bound, unused, changes>>
observer == <<told, toldFocus, missed, framed>>
vars     == <<client, wire, requests, server, observer>>

-----------------------------------------------------------------------------
With(f, x, v) == [y \in DOMAIN f \cup {x} |-> IF y = x THEN v ELSE f[y]]
Without(f, x) == [y \in DOMAIN f \ {x} |-> f[y]]

Tags  == 0..(NTags - 1)
Facts == Fields \cup {"tags"}

FactValues(f) == IF f = "tags" THEN SUBSET Tags ELSE Values
NoFacts       == [f \in Facts |-> IF f = "tags" THEN {} ELSE Default]

(* What the compositor gives a new output: its first tag. *)
NewOutput == [NoFacts EXCEPT !["tags"] = Tags \cap {0}]

(* format!("output-{}", id) *)
Provisional(id) == <<"output", id>>
AllNames        == Names \cup {Provisional(id) : id \in Ids}

(* No connector is called that, and the empty name is nobody's. *)
ASSUME NamesAssumption == \A id \in Ids : Provisional(id) \notin Names \cup {NoName}

(* OutputState: how many entries tag_info has, active_tags and the fields. *)
Blank(n)     == [ntags |-> n, facts |-> NoFacts]
FactSets     == {g \in [Facts -> (SUBSET Tags) \cup Values] : \A f \in Facts : g[f] \in FactValues(f)}
OutputStates == [ntags : Nat, facts : FactSets]

-----------------------------------------------------------------------------
(* Messages.  A status is what the compositor sends of an output whenever   *)
(* something about it changes: everything, then a frame.                    *)

Msg(kind, id)        == [kind |-> kind, id |-> id]
NameMsg(id, n)       == [kind |-> "name", id |-> id, name |-> n]
Update(id, f, value) == [kind |-> "field", id |-> id, field |-> f, value |-> value]
TagMsg(id, t, on)    == [kind |-> "tag", id |-> id, tag |-> t, on |-> on]
ActiveMsg(id, on)    == [kind |-> "active", id |-> id, on |-> on]

FieldOrder == CHOOSE s \in [1..Cardinality(Fields) -> Fields] :
                \A f \in Fields : \E i \in DOMAIN s : s[i] = f

StatusOf(id, facts, isActive) ==
  <<ActiveMsg(id, isActive)>>
    \o [i \in 1..NTags |-> TagMsg(id, i - 1, i - 1 \in facts["tags"])]
    \o [i \in 1..Cardinality(Fields) |-> Update(id, FieldOrder[i], facts[FieldOrder[i]])]
    \o <<Msg("frame", id)>>

(* The status of id, if the adapter has an IPC object for it. *)
Status(id, facts, isActive) ==
  IF id \in bound THEN StatusOf(id, facts, isActive) ELSE <<>>

(* The registry announces the outputs, and the manager (NoId) if this is a   *)
(* dwl-like compositor, in some order; then the first roundtrip is done.     *)
Announcements(globals) ==
  {Append([i \in DOMAIN order |->
             Msg(IF order[i] = NoId THEN "manager" ELSE "output", order[i])],
          Msg("done", NoId)) :
     order \in {s \in [1..Cardinality(globals) -> globals] :
                  \A i, j \in DOMAIN s : s[i] = s[j] => i = j}}

Init ==
  /\ phase = "globals"
  /\ manager = FALSE
  /\ outputs = <<>>
  /\ deferred = <<>>
  /\ tagCount = 0
  /\ committed = <<>>
  /\ pending = <<>>
  /\ focusedName = NoName
  /\ focusedId = NoId
  /\ requests = <<>>
  /\ plugged \in [AtStart -> Names]
  /\ \A i, j \in AtStart : plugged[i] = plugged[j] => i = j
  /\ truth = [id \in Ids |-> NewOutput]
  /\ active \in IF AtStart = {} THEN {NoId} ELSE AtStart
  /\ bound = {}
  /\ unused = Ids \ AtStart
  /\ changes = 0
  /\ told = [n \in AllNames |-> NoFacts]
  /\ toldFocus = [output |-> NoName, title |-> Default]
  /\ missed = {}
  /\ framed = {}
  /\ \E globals \in {AtStart, AtStart \cup {NoId}} : wire \in Announcements(globals)

-----------------------------------------------------------------------------
(* The compositor. *)

MayChange == changes < MaxChanges /\ changes' = changes + 1

Plug(id) ==
  /\ MayChange
  /\ id \in unused
  /\ unused' = unused \ {id}
  /\ \E n \in Names \ {plugged[i] : i \in DOMAIN plugged} : plugged' = With(plugged, id, n)
  /\ active' = IF active = NoId THEN id ELSE active
  /\ wire' = Append(wire, Msg("output", id))
  /\ UNCHANGED <<truth, bound, requests, client, observer>>

(* When the active output goes, another one becomes active, if there is one. *)
(* A last status of the output that goes may still follow.                   *)
Unplug(id) ==
  /\ MayChange
  /\ id \in DOMAIN plugged
  /\ plugged' = Without(plugged, id)
  /\ bound' = bound \ {id}
  /\ active' \in IF active # id THEN {active}
                ELSE IF DOMAIN plugged = {id} THEN {NoId} ELSE DOMAIN plugged \ {id}
  /\ \E last \in {<<>>, Status(id, truth[id], FALSE)} :
       wire' = wire \o <<Msg("removed", id)>> \o last
                 \o (IF active' \in {active, NoId} THEN <<>> ELSE Status(active', truth[active'], TRUE))
  /\ UNCHANGED <<truth, unused, requests, client, observer>>

SetFact(id, f, value) ==
  /\ truth' = [truth EXCEPT ![id][f] = value]
  /\ wire' = wire \o Status(id, truth'[id], active = id)

(* A window, a tag or a layout changes without the adapter. *)
Change(id) ==
  /\ MayChange
  /\ id \in DOMAIN plugged
  /\ \E f \in Facts : \E value \in FactValues(f) \ {truth[id][f]} : SetFact(id, f, value)
  /\ UNCHANGED <<plugged, active, bound, unused, requests, client, observer>>

Focus(id) ==
  /\ MayChange
  /\ id \in DOMAIN plugged \ {active}
  /\ active' = id
  /\ wire' = wire \o Status(active, truth[active], FALSE) \o Status(id, truth[id], TRUE)
  /\ UNCHANGED <<plugged, truth, bound, unused, requests, client, observer>>

(* A request about an output that is gone has no effect. *)
HandleRequest ==
  /\ requests # <<>>
  /\ requests' = Tail(requests)
  /\ LET r == Head(requests)
     IN \/ /\ r.kind = "sync"
           /\ wire' = Append(wire, Msg("done", NoId))
           /\ UNCHANGED <<truth, bound>>
        \/ /\ r.kind = "bind_manager"
           /\ wire' = Append(wire, Msg("tags", NoId))
           /\ UNCHANGED <<truth, bound>>
        \/ /\ r.kind = "bind_output"
           /\ wire' = IF r.id \in DOMAIN plugged THEN Append(wire, NameMsg(r.id, plugged[r.id])) ELSE wire
           /\ UNCHANGED <<truth, bound>>
        \/ /\ r.kind = "get_output"
           /\ r.id \in DOMAIN plugged
           /\ bound' = bound \cup {r.id}
           /\ wire' = wire \o StatusOf(r.id, truth[r.id], active = r.id)
           /\ UNCHANGED truth
        \/ /\ r.kind = "set"
           /\ r.id \in bound
           /\ SetFact(r.id, r.fact, r.value)
           /\ UNCHANGED bound
        \/ /\ r.kind \in {"get_output", "set"}
           /\ r.id \notin DOMAIN plugged
           /\ UNCHANGED <<wire, truth, bound>>
  /\ UNCHANGED <<plugged, active, unused, changes, client, observer>>

-----------------------------------------------------------------------------
(* The Wayland thread: requests, and the messages it dispatches. *)

Request(kind, id)     == [kind |-> kind, id |-> id]
SetRequest(id, f, v)  == [kind |-> "set", id |-> id, fact |-> f, value |-> v]

Arrived(kind) == wire # <<>> /\ Head(wire).kind = kind /\ phase # "failed"
Message        == Head(wire)
Dispatched  == wire' = Tail(wire)

(* The name of the output that the message is about. *)
NameOf == outputs[Message.id].name

(* The end of a roundtrip. *)
OnDone ==
  /\ Arrived("done")
  /\ Dispatched
  /\ \/ /\ phase = "globals"
        /\ ~manager
        /\ phase' = "failed"
        /\ UNCHANGED requests
     \/ /\ phase = "globals"
        /\ manager
        /\ phase' = "state"
        /\ requests' = Append(requests, Request("sync", NoId))
     \/ /\ phase = "state"
        /\ phase' = "ready"
        /\ UNCHANGED requests
  /\ UNCHANGED <<manager, outputs, deferred, tagCount, committed, pending, focusedName,
                 focusedId, server, observer>>

(* A mutant of OnManager: the outputs found so far get their IPC object with  *)
(* their name (OnName), and not at once.                                      *)
OnManagerBindingLater ==
  /\ Arrived("manager")
  /\ Dispatched
  /\ manager' = TRUE
  /\ requests' = Append(requests, Request("bind_manager", NoId))
  /\ deferred' = <<>>
  /\ UNCHANGED <<phase, outputs, tagCount, committed, pending, focusedName, focusedId, server, observer>>

(* bind_pending_outputs: every output found so far gets its IPC object, and  *)
(* its provisional name (again).                                             *)
OnManager ==
  /\ Arrived("manager")
  /\ Dispatched
  /\ manager' = TRUE
  /\ requests' = Append(requests, Request("bind_manager", NoId))
                   \o [i \in DOMAIN deferred |-> Request("get_output", deferred[i])]
  /\ outputs' = [id \in DOMAIN outputs \cup {deferred[i] : i \in DOMAIN deferred} |->
                   IF \E i \in DOMAIN deferred : deferred[i] = id
                   THEN [name |-> Provisional(id), ipc |-> TRUE] ELSE outputs[id]]
  /\ deferred' = <<>>
  /\ UNCHANGED <<phase, tagCount, committed, pending, focusedName, focusedId, server, observer>>

OnOutput ==
  /\ Arrived("output")
  /\ Dispatched
  /\ LET id == Message.id
     IN /\ outputs' = With(outputs, id, [name |-> Provisional(id), ipc |-> manager])
        /\ requests' = requests
             \o (IF manager THEN <<Request("bind_output", id), Request("get_output", id)>>
                            ELSE <<Request("bind_output", id)>>)
        /\ deferred' = IF manager THEN deferred ELSE Append(deferred, id)
  /\ UNCHANGED <<phase, manager, tagCount, committed, pending, focusedName, focusedId,
                 server, observer>>

(* No event tells that an output goes: what a subscriber knows of it stays,   *)
(* and is wrong of an output that returns, with its facts at their defaults.  *)
Unannounced(n) ==
  /\ missed' = {x \in missed : x[1] # n}
                 \cup {<<n, f>> : f \in {g \in Facts \cap Subscribed : told[n][g] # NoFacts[g]}}
                 \cup {x \in {<<NoName, "title">>} : n = focusedName /\ toldFocus.title # Default}
  /\ UNCHANGED <<told, toldFocus, framed>>

(* A mutant of OnRemoved: the state of the output stays. *)
OnRemovedKeepingItsState ==
  /\ Arrived("removed")
  /\ Dispatched
  /\ Message.id \in DOMAIN outputs
  /\ outputs' = Without(outputs, Message.id)
  /\ Unannounced(NameOf)
  /\ UNCHANGED <<phase, manager, deferred, tagCount, committed, pending, focusedName,
                 focusedId, requests, server>>

(* GlobalRemove: `pending' and the focus stay as they are. *)
OnRemoved ==
  /\ Arrived("removed")
  /\ Dispatched
  /\ Message.id \in DOMAIN outputs
  /\ outputs' = Without(outputs, Message.id)
  /\ committed' = Without(committed, NameOf)
  /\ Unannounced(NameOf)
  /\ UNCHANGED <<phase, manager, deferred, tagCount, pending, focusedName, focusedId,
                 requests, server>>

(* What is known under the old name is known under the new one. *)
Renamed(f, old, new) ==
  IF old # new /\ old \in DOMAIN f THEN With(Without(f, old), new, f[old]) ELSE f

OnName ==
  /\ Arrived("name")
  /\ Dispatched
  /\ LET id    == Message.id
         new   == Message.name
         known == id \in DOMAIN outputs
         old   == IF known THEN outputs[id].name ELSE new
         moved == Renamed(committed, old, new)
     IN /\ outputs' = IF known THEN [outputs EXCEPT ![id] = [name |-> new, ipc |-> @.ipc \/ manager]]
                               ELSE outputs
        /\ requests' = IF known /\ manager /\ ~outputs[id].ipc
                       THEN Append(requests, Request("get_output", id)) ELSE requests
        /\ pending' = Renamed(pending, old, new)
        /\ committed' = IF new \in DOMAIN moved THEN moved ELSE With(moved, new, Blank(tagCount))
        /\ focusedName' = IF focusedName = NoName THEN new ELSE focusedName
        /\ focusedId' = IF focusedName = NoName THEN id ELSE focusedId
  /\ UNCHANGED <<phase, manager, deferred, tagCount, server, observer>>

OnTags ==
  /\ Arrived("tags")
  /\ Dispatched
  /\ tagCount' = NTags
  /\ committed' = [n \in DOMAIN committed |-> [committed[n] EXCEPT !.ntags = NTags]]
  /\ UNCHANGED <<phase, manager, outputs, deferred, pending, focusedName, focusedId,
                 requests, server, observer>>

(* The state that an update goes to. *)
PendingState(n) ==
  IF n \in DOMAIN pending THEN pending[n]
  ELSE IF n \in DOMAIN committed THEN committed[n] ELSE Blank(0)

IPCKinds == {"active", "tag", "field", "frame"}

(* A message of an output that was removed is dropped. *)
OnStale ==
  /\ \E k \in IPCKinds : Arrived(k)
  /\ Message.id \notin DOMAIN outputs
  /\ Dispatched
  /\ UNCHANGED <<client, requests, server, observer>>

Ipc(kind) ==
  /\ Arrived(kind)
  /\ Message.id \in DOMAIN outputs
  /\ Dispatched
  /\ UNCHANGED <<phase, manager, outputs, deferred, tagCount, requests, server>>

TitleOf(n) == IF n \in DOMAIN committed THEN committed[n].facts["title"] ELSE Default

(* output_focus: the new output and its title; lost if the channel is full. *)
TellFocus(n) ==
  /\ \/ /\ toldFocus' = [output |-> n, title |-> TitleOf(n)]
        /\ missed' = missed \ {<<NoName, "output">>, <<NoName, "title">>}
     \/ /\ missed' = missed \cup {<<NoName, "output">>, <<NoName, "title">>}
        /\ UNCHANGED toldFocus
  /\ UNCHANGED <<told, framed>>

(* A mutant of OnActive: the focus moves by name only. *)
OnActiveByNameOnly ==
  /\ Ipc("active")
  /\ pending' = With(pending, NameOf, PendingState(NameOf))
  /\ IF Message.on /\ focusedName # NameOf
     THEN /\ focusedName' = NameOf
          /\ IF "output" \in Subscribed THEN TellFocus(NameOf) ELSE UNCHANGED observer
     ELSE UNCHANGED <<focusedName, observer>>
  /\ UNCHANGED <<committed, focusedId>>

OnActive ==
  /\ Ipc("active")
  /\ pending' = With(pending, NameOf, PendingState(NameOf))
  /\ focusedId' = IF Message.on THEN Message.id ELSE focusedId
  /\ IF Message.on /\ focusedName # NameOf
     THEN /\ focusedName' = NameOf
          /\ IF "output" \in Subscribed THEN TellFocus(NameOf) ELSE UNCHANGED observer
     ELSE UNCHANGED <<focusedName, observer>>
  /\ UNCHANGED committed

(* A mutant of OnTag: tags are counted from one, as they are in tag_info_json. *)
OnTagFromOne ==
  /\ Ipc("tag")
  /\ LET p == PendingState(NameOf)
         t == p.facts["tags"]
     IN pending' = With(pending, NameOf,
          IF Message.tag >= p.ntags THEN p
          ELSE [p EXCEPT !.facts["tags"] =
                  IF Message.on THEN t \cup {Message.tag + 1} ELSE t \ {Message.tag + 1}])
  /\ UNCHANGED <<committed, focusedName, focusedId, observer>>

OnTag ==
  /\ Ipc("tag")
  /\ LET p == PendingState(NameOf)
         t == p.facts["tags"]
     IN pending' = With(pending, NameOf,
          IF Message.tag >= p.ntags THEN p
          ELSE [p EXCEPT !.facts["tags"] = IF Message.on THEN t \cup {Message.tag} ELSE t \ {Message.tag}])
  /\ UNCHANGED <<committed, focusedName, focusedId, observer>>

OnField ==
  /\ Ipc("field")
  /\ pending' = With(pending, NameOf,
       [PendingState(NameOf) EXCEPT !.facts[Message.field] = Message.value])
  /\ UNCHANGED <<committed, focusedName, focusedId, observer>>

(* A mutant of Emitted: the title of any output is announced. *)
EmittedOfAnyOutput(n) ==
  IF n \notin DOMAIN committed THEN {}
  ELSE {f \in Facts \cap Subscribed : committed[n].facts[f] # PendingState(n).facts[f]}

(* The events a frame of output n emits: one for each fact that changed, the *)
(* title's only for the focused output.                                      *)
Emitted(n) ==
  IF n \notin DOMAIN committed THEN {}
  ELSE {f \in Facts \cap Subscribed :
          /\ committed[n].facts[f] # PendingState(n).facts[f]
          /\ f = "title" => n = focusedName}

(* The title's event does not name its output. *)
Topic(n, f) == IF f = "title" THEN <<NoName, "title">> ELSE <<n, f>>

(* Each event that is not lost on a full channel tells its fact. *)
TellFacts(n, new) ==
  \E lost \in SUBSET Emitted(n) :
    LET heard == Emitted(n) \ lost
    IN /\ told' = [told EXCEPT ![n] = [f \in Facts |-> IF f \in heard THEN new[f] ELSE @[f]]]
       /\ toldFocus' = IF "title" \in heard THEN [toldFocus EXCEPT !.title = new["title"]]
                       ELSE toldFocus
       /\ missed' = (missed \ {Topic(n, f) : f \in heard}) \cup {Topic(n, f) : f \in lost}

OnFrame ==
  /\ Ipc("frame")
  /\ TellFacts(NameOf, PendingState(NameOf).facts)
  /\ committed' = With(committed, NameOf, PendingState(NameOf))
  /\ pending' = Without(pending, NameOf)
  /\ framed' = framed \cup {Message.id}
  /\ UNCHANGED <<focusedName, focusedId>>

(* SetTags and SetLayout, on the output that has the focus; an error, which  *)
(* changes nothing, if that one is gone.                                     *)
ServeSet ==
  /\ MayChange
  /\ phase = "ready"
  /\ focusedId \in DOMAIN outputs
  /\ outputs[focusedId].ipc
  /\ \E f \in Facts \cap {"tags", "layout"} : \E value \in FactValues(f) :
       requests' = Append(requests, SetRequest(focusedId, f, value))
  /\ UNCHANGED <<client, wire, plugged, truth, active, bound, unused, observer>>

(* GetState, and get of a fact: of the output that has the focus, or an error. *)
GetFact(f) == IF focusedName \in DOMAIN committed THEN committed[focusedName].facts[f] ELSE NoName

Next ==
  \/ \E id \in Ids : Plug(id) \/ Unplug(id) \/ Change(id) \/ Focus(id)
  \/ HandleRequest
  \/ OnDone \/ OnManager \/ OnOutput \/ OnRemoved \/ OnName \/ OnTags
  \/ OnStale \/ OnActive \/ OnTag \/ OnField \/ OnFrame
  \/ ServeSet

Spec == Init /\ [][Next]_vars

-----------------------------------------------------------------------------
TypeOK ==
  /\ phase \in {"globals", "state", "ready", "failed"}
  /\ manager \in BOOLEAN
  /\ DOMAIN outputs \subseteq Ids
  /\ \A id \in DOMAIN outputs : outputs[id] \in [name : AllNames, ipc : BOOLEAN]
  /\ deferred \in Seq(Ids)
  /\ tagCount \in {0, NTags}
  /\ DOMAIN committed \subseteq AllNames
  /\ \A n \in DOMAIN committed : committed[n] \in OutputStates
  /\ DOMAIN pending \subseteq AllNames
  /\ \A n \in DOMAIN pending : pending[n] \in OutputStates
  /\ focusedName \in AllNames \cup {NoName}
  /\ focusedId \in Ids \cup {NoId}

(* subscribe returns when the state is complete: the second roundtrip has    *)
(* brought the tags, and of every output that was there its own name and its *)
(* first frame, and the focus; not just the empty state that a name commits  *)
(* (mangowc/src/lib.rs, run_wayland_loop).                                   *)
ReadyIsComplete ==
  phase = "ready" =>
    /\ tagCount = NTags
    /\ \A id \in AtStart \cap DOMAIN outputs :
         /\ outputs[id].name \in DOMAIN committed \cap Names
         /\ outputs[id].ipc
         /\ id \in framed
         /\ committed[outputs[id].name].ntags = NTags
         /\ focusedId # NoId

(* A command goes to the output that get describes: the focus by id and the  *)
(* focus by name never mean two different outputs, whatever is plugged,      *)
(* renamed or made active (focused_output_id and focused_output).            *)
FocusIsOneOutput ==
  focusedId \in DOMAIN outputs => outputs[focusedId].name = focusedName

(* When everything that was sent has been dispatched, the adapter's picture  *)
(* is the compositor's: the same outputs under their own names, with the     *)
(* same facts, nothing half done, and the same focus.                        *)
MirrorsCompositor ==
  (phase = "ready" /\ wire = <<>> /\ requests = <<>>) =>
    /\ DOMAIN outputs = DOMAIN plugged
    /\ \A id \in DOMAIN outputs :
         /\ outputs[id].name = plugged[id]
         /\ committed[plugged[id]] = [ntags |-> NTags, facts |-> truth[id]]
    /\ DOMAIN committed = {plugged[id] : id \in DOMAIN plugged}
    /\ DOMAIN pending = {}
    /\ active # NoId =>
         /\ focusedId = active
         /\ focusedName = plugged[active]
         /\ \A f \in Facts : GetFact(f) = truth[active][f]

(* A subscriber that only listens to events knows the committed state of     *)
(* every output, and the focus, except for facts whose last change no event  *)
(* told: it was dropped on a full channel, or the output went away, which is *)
(* not announced, and has returned with the fact at its default.  The next   *)
(* event of the fact repairs both (mangowc/src/lib.rs, Event::Frame).        *)
SubscriberIsTold ==
  /\ \A n \in DOMAIN committed, f \in (Facts \ {"title"}) \cap Subscribed :
       told[n][f] = committed[n].facts[f] \/ <<n, f>> \in missed
  /\ {"output", "title"} \subseteq Subscribed =>
       /\ toldFocus.output \in {NoName, focusedName} \/ <<NoName, "output">> \in missed
       /\ focusedName \in DOMAIN committed =>
            \/ toldFocus.title = committed[focusedName].facts["title"]
            \/ <<NoName, "title">> \in missed
=============================================================================
