--------------------------- MODULE HyprlandAdapter ---------------------------
(***************************************************************************)
(* The Hyprland adapter (hyprland/src/lib.rs), the compositor it talks to, *)
(* its user, and the watches that the adapter's events trigger.            *)
(*                                                                         *)
(* Every command is a connection of its own, which Hyprland serves in the  *)
(* order they come; fullscreen and floating can only be toggled, so a set  *)
(* is a query and perhaps a dispatch, each with a timeout of its own.      *)
(* Events are lines on a second connection: a reader task translates them, *)
(* remembers the last state of each kind and puts those that are           *)
(* subscribed to into a bounded channel.  The methods take &mut self, so   *)
(* one runs at a time, and next_event only between them.                   *)
(***************************************************************************)
EXTENDS Naturals, SequencesExt, Watches

CONSTANTS
  Windows,      \* the windows
  NoWindow,     \* no window has the focus
  Workspaces,   \* the workspaces
  AtStart,      \* the active one at first
  Toggles,      \* the keys that Hyprland can only toggle
  OtherLines,   \* lines of other events, of unknown ones, and those no one can read
  CutLines,     \* what a line may be cut to when Hyprland dies while writing it
  EventCap,     \* the capacity of the event channel (100 in the code)
  MaxInputs     \* bounds the calls and what the user does, together

ASSUME HyprlandAssumption == /\ NoWindow \notin Windows
                             /\ AtStart \in Workspaces
                             /\ Toggles \subseteq {"fullscreen", "floating"}
                             /\ EventCap \in Nat \ {0}
                             /\ MaxInputs \in Nat

VARIABLES
  \* Hyprland
  up,         \* it runs
  focus,      \* the active window
  workspace,  \* the active workspace
  toggled,    \* per window: the toggles that are on, and whether it is maximized
  queue,      \* the requests it has accepted and not handled
  inputs,     \* how many calls there were, and acts of the user
  \* commands
  stage,      \* new, initialised, running, down or failed
  call,       \* idle, querying or dispatching
  method,     \* init, get or set
  key,        \* the key of a set
  want,       \* the value of a set
  answer,     \* what has come back on the connection of the request
  \* events
  lines,      \* those Hyprland has written and the reader task has not read
  last,       \* the translator's last-known state
  reader,     \* the reader task: none, reading, sending or ended
  held,       \* the event it sends
  events,     \* the event channel
  ended,      \* next_event has reported the end of the stream
  \* history
  latest,       \* per kind of line: the state in the last that Hyprland has written
  owed,         \* the scripts those lines call for and that have not been started
  unexpected,   \* scripts that were started and not called for
  undisturbed,  \* nobody else has acted since the call began
  maximized,    \* the window was maximized when the last set began
  settled       \* what the last set has succeeded in, if nobody has acted since it began

compositorVars == <<up, focus, workspace, toggled>>
commandVars    == <<stage, call, method, key, want, answer, queue>>
readerVars     == <<last, reader, held>>
lineVars       == <<lines, latest>>
scriptVars     == <<owed, unexpected>>
setVars        == <<undisturbed, maximized, settled>>
vars == <<compositorVars, inputs, commandVars, lineVars, readerVars, events, ended, scriptVars,
          setVars>>

NoAnswer == [status |-> "none", value |-> "none"]
Failure  == [status |-> "error", value |-> "none"]
Unknown  == [key |-> "none", value |-> "none"]
NoEvent  == [name |-> "none", prev |-> Nothing, curr |-> Nothing]

Keys    == Toggles \cup {"workspace"}
Booleans == {"true", "false"}
ValuesOf(k) == IF k = "workspace" THEN Workspaces ELSE Booleans
Values  == Booleans \cup Workspaces

-----------------------------------------------------------------------------
(* Lines.  A line has a name and, if it is well-formed, named fields.        *)

(* EventTranslator::default, and the fields each kind of line remembers.     *)
Default ==
  [workspacev2  |-> [id |-> "0", name |-> ""],
   activewindow |-> [title |-> "", appid |-> ""],
   focusedmon   |-> [output |-> ""],
   fullscreen   |-> [fullscreen |-> "false"],
   submap       |-> [keymode |-> ""],
   activelayout |-> [kb_layout |-> ""]]

Tracked == DOMAIN Default

EventName ==
  [workspacev2        |-> "workspace_change",
   activewindow       |-> "focus_change",
   focusedmon         |-> "output_focus",
   fullscreen         |-> "window_state_change",
   submap             |-> "keymode_change",
   activelayout       |-> "keyboard_layout_change",
   openwindow         |-> "window_open",
   closewindow        |-> "window_close",
   createworkspacev2  |-> "workspace_create",
   destroyworkspacev2 |-> "workspace_destroy",
   monitoradded       |-> "output_add",
   monitorremoved     |-> "output_remove"]

(* The lines about something that is gone: their fields are the old state.   *)
Farewells == {"closewindow", "destroyworkspacev2", "monitorremoved"}

Malformed == Nothing

(* A line that is not UTF-8, such as that of a window with such a title. *)
NotText == [name |-> "not UTF-8", data |-> Nothing]

Understood(l) == l.name \in DOMAIN EventName /\ DOMAIN l.data # {}

(* Of the active workspace and window only the lines below tell. *)
ASSUME LinesAssumption ==
  \A l \in OtherLines : Understood(l) => l.name \notin {"workspacev2", "activewindow"}

(* The event of a line that follows the state before. *)
EventOf(l, before) ==
  [name |-> EventName[l.name],
   prev |-> IF l.name \in Tracked THEN before
            ELSE IF l.name \in Farewells THEN l.data ELSE Nothing,
   curr |-> IF l.name \in Farewells THEN Nothing ELSE l.data]

(* focusedmon's workspace is reported but not remembered. *)
Remembered(l) == [f \in DOMAIN Default[l.name] |-> l.data[f]]

(* A mutant of Translate: the state is updated before prev is taken. *)
TranslateLate(l) ==
  EventOf(l, IF l.name \in Tracked THEN Remembered(l) ELSE Nothing)

Translate(l) == EventOf(l, IF l.name \in Tracked THEN last[l.name] ELSE Nothing)

-----------------------------------------------------------------------------
TypeOK ==
  /\ up \in BOOLEAN
  /\ focus \in Windows \cup {NoWindow}
  /\ workspace \in Workspaces
  /\ toggled \in [Windows -> SUBSET (Toggles \cup {"maximized"})]
  /\ queue \in Seq([kind : {"query", "dispatch"}, key : Keys \cup {"none"},
                    value : Values \cup {"none"}, awaited : BOOLEAN])
  /\ inputs \in 0..MaxInputs
  /\ stage \in {"new", "initialised", "running", "down", "failed"}
  /\ call \in {"idle", "querying", "dispatching"}
  /\ method \in {"init", "get", "set"}
  /\ key \in Keys \cup {"none"}
  /\ want \in Values \cup {"none"}
  /\ answer \in [status : {"none", "ok", "error"}, value : Values \cup {"none"}]
  /\ reader \in {"none", "reading", "sending", "ended"}
  /\ Len(events) <= EventCap
  /\ ended \in BOOLEAN
  /\ undisturbed \in BOOLEAN
  /\ maximized \in BOOLEAN
  /\ settled \in [key : Keys \cup {"none"}, value : Values \cup {"none"}]

Init ==
  /\ up = TRUE
  /\ focus \in Windows
  /\ workspace = AtStart
  /\ toggled = [w \in Windows |-> {}]
  /\ queue = <<>>
  /\ inputs = 0
  /\ stage = "new"
  /\ call = "idle"
  /\ method = "init"
  /\ key = "none"
  /\ want = "none"
  /\ answer = NoAnswer
  /\ lines = <<>>
  /\ last = Default
  /\ reader = "none"
  /\ held = NoEvent
  /\ events = <<>>
  /\ ended = FALSE
  /\ latest = Default
  /\ owed = <<>>
  /\ unexpected = <<>>
  /\ undisturbed = TRUE
  /\ maximized = FALSE
  /\ settled = Unknown

-----------------------------------------------------------------------------
(* Hyprland and its user.                                                    *)

(* How a toggle shows in what Hyprland answers.  Fullscreen is a number in   *)
(* newer versions, and a maximized window counts (fullscreen_as_bool).       *)
Shown(k) == IF k = "fullscreen" THEN {"fullscreen", "maximized"} ELSE {k}

(* What the active window, or the lack of one, shows for a key. *)
Actual(k) ==
  IF k = "workspace" THEN workspace
  ELSE IF focus # NoWindow /\ Shown(k) \cap toggled[focus] # {} THEN "true" ELSE "false"

Connected == up /\ reader \in {"reading", "sending"}

(* The scripts that a line is to start, by what Hyprland wrote before it.    *)
Due(l) ==
  LET event  == EventOf(l, IF l.name \in Tracked THEN latest[l.name] ELSE Nothing)
      Met(w) == /\ w.enabled /\ w.event = event.name
                /\ \A k \in DOMAIN w.prev : k \in DOMAIN event.prev /\ event.prev[k] = w.prev[k]
                /\ \A k \in DOMAIN w.curr : k \in DOMAIN event.curr /\ event.curr[k] = w.curr[k]
  IN  ScriptsAt[{i \in DOMAIN Config : Met(Config[i])}]

(* Hyprland writes a line to the event connection. *)
Announce(l) ==
  IF Connected
  THEN /\ lines' = Append(lines, l)
       /\ IF Understood(l)
          THEN /\ latest' = IF l.name \in Tracked THEN [latest EXCEPT ![l.name] = Remembered(l)] ELSE latest
               /\ owed' = owed \o Due(l)
          ELSE UNCHANGED <<latest, owed>>
  ELSE UNCHANGED <<lineVars, owed>>

WindowLine(w) ==
  [name |-> "activewindow",
   data |-> IF w = NoWindow THEN [title |-> "", appid |-> ""] ELSE [title |-> w, appid |-> w]]

WorkspaceLine(ws) == [name |-> "workspacev2", data |-> [id |-> ws, name |-> ws]]

FullscreenLine(on) ==
  [name |-> "fullscreen", data |-> [fullscreen |-> IF on THEN "true" ELSE "false"]]

(* `fullscreen 0' ends fullscreen or begins it; a maximized window it may    *)
(* make fullscreen, or neither.                                              *)
Toggled(k) ==
  LET shown == toggled[focus]
  IN  IF k = "fullscreen" /\ "maximized" \in shown
      THEN {shown \ Shown(k), (shown \ Shown(k)) \cup {k}}
      ELSE {IF k \in shown THEN shown \ {k} ELSE shown \cup {k}}

(* Floating is announced by a line that the translator does not know. *)
Toggle(k) ==
  \E now \in Toggled(k) :
    /\ toggled' = [toggled EXCEPT ![focus] = now]
    /\ IF k = "fullscreen" THEN Announce(FullscreenLine(k \in now)) ELSE UNCHANGED <<lineVars, owed>>

SwitchTo(ws) ==
  /\ workspace' = ws
  /\ IF ws # workspace THEN Announce(WorkspaceLine(ws)) ELSE UNCHANGED <<lineVars, owed>>

Input ==
  /\ inputs < MaxInputs
  /\ inputs' = inputs + 1

Acts ==
  /\ up
  /\ Input
  /\ undisturbed' = FALSE
  /\ settled' = Unknown
  /\ UNCHANGED <<up, commandVars, readerVars, events, ended, unexpected, maximized>>

UserFocuses(w) ==
  /\ w # focus
  /\ focus' = w
  /\ Announce(WindowLine(w))
  /\ Acts
  /\ UNCHANGED <<workspace, toggled>>

UserToggles(k) ==
  /\ focus # NoWindow
  /\ Toggle(k)
  /\ Acts
  /\ UNCHANGED <<focus, workspace>>

UserMaximizes ==
  /\ focus # NoWindow
  /\ "maximized" \notin toggled[focus]
  /\ toggled' = [toggled EXCEPT ![focus] = (@ \ {"fullscreen"}) \cup {"maximized"}]
  /\ Announce(FullscreenLine(TRUE))
  /\ Acts
  /\ UNCHANGED <<focus, workspace>>

UserSwitches(ws) ==
  /\ ws # workspace
  /\ SwitchTo(ws)
  /\ Acts
  /\ UNCHANGED <<focus, toggled>>

SomethingElse(l) ==
  /\ reader # "none"
  /\ Announce(l)
  /\ Acts
  /\ UNCHANGED <<focus, workspace, toggled>>

(* A mutant of Reply: the commands share a connection, and whoever waits takes the answer to *)
(* an earlier request for its own.                                                           *)
ReplyShared(r, a) == answer' = IF call # "idle" THEN a ELSE answer

(* The answer reaches the request only while it waits. *)
Reply(r, a) == answer' = IF r.awaited THEN a ELSE answer

(* Hyprland serves one request after the other, also those whose sender has  *)
(* gone.  It may refuse, and need not say so when there is no window.        *)
HandleRequest ==
  /\ up /\ queue # <<>>
  /\ LET r == Head(queue)
     IN  /\ queue' = Tail(queue)
         /\ \/ /\ r.kind = "query"
               /\ Reply(r, [status |-> "ok", value |-> IF r.key = "none" THEN "none" ELSE Actual(r.key)])
               /\ UNCHANGED <<workspace, toggled, lineVars, owed>>
            \/ /\ r.kind = "dispatch" /\ r.key = "workspace"
               /\ SwitchTo(r.value)
               /\ Reply(r, [status |-> "ok", value |-> "none"])
               /\ UNCHANGED toggled
            \/ /\ r.kind = "dispatch" /\ r.key \in Toggles /\ focus # NoWindow
               /\ Toggle(r.key)
               /\ Reply(r, [status |-> "ok", value |-> "none"])
               /\ UNCHANGED workspace
            \/ /\ r.kind = "dispatch"
               /\ \/ Reply(r, Failure)
                  \/ focus = NoWindow /\ r.key \in Toggles /\ Reply(r, [status |-> "ok", value |-> "none"])
               /\ UNCHANGED <<workspace, toggled, lineVars, owed>>
  /\ UNCHANGED <<up, focus, inputs, stage, call, method, key, want, readerVars, events, ended,
                 unexpected, setVars>>

(* Its connections close, perhaps in the middle of a line. *)
Dies ==
  /\ up
  /\ up' = FALSE
  /\ queue' = <<>>
  /\ answer' = IF call # "idle" /\ answer = NoAnswer THEN Failure ELSE answer
  /\ \/ UNCHANGED <<lineVars, owed>>
     \/ \E l \in CutLines : Announce(l)
  /\ UNCHANGED <<focus, workspace, toggled, inputs, stage, call, method, key, want, readerVars,
                 events, ended, unexpected, setVars>>

-----------------------------------------------------------------------------
(* Commands. *)

(* command: connects, writes and waits.  The connection is refused when      *)
(* Hyprland is gone; otherwise the request waits for its turn.               *)
Send(kind, k, v) ==
  /\ call' = IF kind = "query" THEN "querying" ELSE "dispatching"
  /\ IF up
     THEN /\ answer' = NoAnswer
          /\ queue' = Append(queue, [kind |-> kind, key |-> k, value |-> v, awaited |-> TRUE])
     ELSE /\ answer' = Failure
          /\ UNCHANGED queue

(* Return with the method's locals gone. *)
EndCall ==
  /\ call' = "idle"
  /\ method' = "init"
  /\ key' = "none"
  /\ want' = "none"
  /\ answer' = NoAnswer
  /\ queue' = [i \in DOMAIN queue |-> [queue[i] EXCEPT !.awaited = FALSE]]

otherVars == <<compositorVars, lineVars, readerVars, events, ended, scriptVars>>

(* init asks for the version. *)
CallInit ==
  /\ stage = "new" /\ call = "idle"
  /\ Send("query", "none", "none")
  /\ UNCHANGED <<stage, method, key, want, inputs, otherVars, setVars>>

(* get is one query, whatever the key; what it answers is not followed here. *)
CallGet ==
  /\ stage = "running" /\ call = "idle"
  /\ Input
  /\ method' = "get"
  /\ Send("query", "none", "none")
  /\ UNCHANGED <<stage, key, want, otherVars, setVars>>

(* A toggle is queried first; the workspace is dispatched at once.  (A value *)
(* of the wrong type, or another key, is refused before that.)               *)
CallSet(k, v) ==
  /\ stage = "running" /\ call = "idle"
  /\ Input
  /\ v \in ValuesOf(k)
  /\ method' = "set"
  /\ key' = k
  /\ want' = v
  /\ IF k \in Toggles THEN Send("query", k, "none") ELSE Send("dispatch", k, v)
  /\ undisturbed' = TRUE
  /\ maximized' = (focus # NoWindow /\ "maximized" \in toggled[focus])
  /\ settled' = Unknown
  /\ UNCHANGED <<stage, otherVars>>

(* The query of a set shows that there is something to do. *)
NeedsToggle == method = "set" /\ call = "querying" /\ answer.value # want

QueryReturns ==
  /\ call = "querying" /\ answer.status = "ok"
  /\ NeedsToggle
  /\ Send("dispatch", key, want)
  /\ UNCHANGED <<stage, method, key, want, inputs, otherVars, setVars>>

Returns ==
  /\ call # "idle" /\ answer.status = "ok"
  /\ ~NeedsToggle
  /\ EndCall
  /\ stage' = IF method = "init" THEN "initialised" ELSE stage
  /\ settled' = IF method = "set" /\ undisturbed THEN [key |-> key, value |-> want] ELSE settled
  /\ UNCHANGED <<inputs, otherVars, undisturbed, maximized>>

Fails ==
  /\ call # "idle"
  /\ EndCall
  /\ stage' = IF method = "init" THEN "failed" ELSE stage
  /\ UNCHANGED <<inputs, otherVars, setVars>>

ReturnsError == answer.status = "error" /\ Fails

(* A mutant of TimesOut: only a connection that is lost ends the wait. *)
TimesOutIfLost == ~up /\ answer.status = "none" /\ Fails

(* CMD_TIMEOUT covers the connection, the request and the response. *)
TimesOut == answer.status = "none" /\ Fails

-----------------------------------------------------------------------------
(* Events. *)

(* CONNECT_TIMEOUT covers the connection; nothing is exchanged. *)
Subscribe ==
  /\ stage = "initialised" /\ call = "idle"
  /\ \/ /\ up
        /\ stage' = "running"
        /\ reader' = "reading"
     \/ /\ stage' = "failed"
        /\ UNCHANGED reader
  /\ UNCHANGED <<compositorVars, inputs, call, method, key, want, answer, queue, lineVars, last,
                 held, events, ended, scriptVars, setVars>>

Wanted == SubscribedEvents

(* A mutant of ReadLine: what is not subscribed to is not translated. *)
ReadLineIfWanted ==
  /\ reader = "reading" /\ lines # <<>> /\ Head(lines) # NotText
  /\ lines' = Tail(lines)
  /\ LET l == Head(lines)
     IN  IF Understood(l) /\ EventName[l.name] \in Wanted
         THEN /\ held' = Translate(l)
              /\ last' = IF l.name \in Tracked THEN [last EXCEPT ![l.name] = Remembered(l)] ELSE last
              /\ reader' = "sending"
         ELSE UNCHANGED readerVars
  /\ UNCHANGED <<compositorVars, inputs, commandVars, latest, events, ended, scriptVars, setVars>>

(* A line is translated, and the state kept, whether or not its event is     *)
(* subscribed to; unknown and malformed lines are skipped.                   *)
ReadLine ==
  /\ reader = "reading" /\ lines # <<>> /\ Head(lines) # NotText
  /\ lines' = Tail(lines)
  /\ LET l == Head(lines)
     IN  /\ last' = IF Understood(l) /\ l.name \in Tracked
                    THEN [last EXCEPT ![l.name] = Remembered(l)] ELSE last
         /\ IF Understood(l) /\ EventName[l.name] \in Wanted
            THEN /\ held' = Translate(l)
                 /\ reader' = "sending"
            ELSE UNCHANGED <<held, reader>>
  /\ UNCHANGED <<compositorVars, inputs, commandVars, latest, events, ended, scriptVars, setVars>>

EndOfLines ==
  /\ reader = "reading" /\ lines = <<>> /\ ~up
  /\ reader' = "ended"
  /\ UNCHANGED <<compositorVars, inputs, commandVars, lineVars, last, held, events, ended, scriptVars,
                 setVars>>

(* read_line fails on a line that is not UTF-8, and the task gives up; what  *)
(* it has not read stays unread.                                             *)
ReadFails ==
  /\ reader = "reading" /\ lines # <<>> /\ Head(lines) = NotText
  /\ reader' = "ended"
  /\ UNCHANGED <<compositorVars, inputs, commandVars, lineVars, last, held, events, ended, scriptVars,
                 setVars>>

(* The receiver exists from subscribe to shutdown. *)
Receiving == stage = "running"

(* A mutant of SendEvent: the reader does not wait for room in the channel. *)
SendEventUnbounded ==
  /\ reader = "sending" /\ Receiving
  /\ events' = Append(events, held)
  /\ held' = NoEvent
  /\ reader' = "reading"
  /\ UNCHANGED <<compositorVars, inputs, commandVars, lineVars, last, ended, scriptVars, setVars>>

(* event_tx.send waits for room in the channel. *)
SendEvent ==
  /\ reader = "sending" /\ Receiving
  /\ Len(events) < EventCap
  /\ events' = Append(events, held)
  /\ held' = NoEvent
  /\ reader' = "reading"
  /\ UNCHANGED <<compositorVars, inputs, commandVars, lineVars, last, ended, scriptVars, setVars>>

SendFails ==
  /\ reader = "sending" /\ ~Receiving
  /\ reader' = "ended"
  /\ UNCHANGED <<compositorVars, inputs, commandVars, lineVars, last, held, events, ended, scriptVars,
                 setVars>>

(* The scripts started are taken off those owed, as far as they agree. *)
Account(scripts) ==
  LET all    == unexpected \o scripts
      agreed == Len(LongestCommonPrefix({all, owed}))
  IN  /\ unexpected' = SubSeq(all, agreed + 1, Len(all))
      /\ owed' = SubSeq(owed, agreed + 1, Len(owed))

(* next_event, and handle_event with what it returned. *)
HandleEvent ==
  /\ Receiving /\ call = "idle" /\ events # <<>>
  /\ Account(Triggered(Head(events)))
  /\ events' = Tail(events)
  /\ UNCHANGED <<compositorVars, inputs, commandVars, lineVars, readerVars, ended, setVars>>

EventsEnd ==
  /\ Receiving /\ call = "idle" /\ events = <<>> /\ reader = "ended" /\ ~ended
  /\ ended' = TRUE
  /\ UNCHANGED <<compositorVars, inputs, commandVars, lineVars, readerVars, events, scriptVars, setVars>>

(* shutdown drops the receiver and what is in the channel. *)
Shutdown ==
  /\ Receiving /\ call = "idle"
  /\ stage' = "down"
  /\ events' = <<>>
  /\ UNCHANGED <<compositorVars, inputs, call, method, key, want, answer, queue, lineVars, readerVars,
                 ended, scriptVars, setVars>>

-----------------------------------------------------------------------------
Next ==
  \/ \E w \in Windows \cup {NoWindow} : UserFocuses(w)
  \/ \E k \in Toggles : UserToggles(k)
  \/ UserMaximizes
  \/ \E ws \in Workspaces : UserSwitches(ws)
  \/ \E l \in OtherLines : SomethingElse(l)
  \/ HandleRequest \/ Dies
  \/ CallInit \/ CallGet
  \/ \E k \in Keys : \E v \in ValuesOf(k) : CallSet(k, v)
  \/ QueryReturns \/ Returns \/ ReturnsError \/ TimesOut
  \/ Subscribe
  \/ ReadLine \/ ReadFails \/ EndOfLines \/ SendEvent \/ SendFails
  \/ HandleEvent \/ EventsEnd \/ Shutdown

Spec == Init /\ [][Next]_vars

(* A method goes on when its answer is there and when its timer fires, the   *)
(* reader task runs, and the actor's loop polls next_event between commands. *)
(* Hyprland owes nothing.                                                    *)
FairSpec ==
  /\ Spec
  /\ WF_vars(QueryReturns \/ Returns \/ ReturnsError \/ TimesOut)
  /\ WF_vars(ReadLine \/ ReadFails \/ EndOfLines \/ SendEvent \/ SendFails)
  /\ WF_vars(HandleEvent \/ EventsEnd)

-----------------------------------------------------------------------------
(* What the events on their way to the controller will start. *)
Coming ==
  FlattenSeq([i \in DOMAIN events |-> Triggered(events[i])])
    \o (IF reader = "sending" THEN Triggered(held) ELSE <<>>)

(* The scripts that the controller starts are those the lines call for, each *)
(* once and in order: none is started that is not, and once everything is    *)
(* read those still to come are in the channel, however full it is and       *)
(* whatever lines are unknown, malformed or of no interest (translate, the   *)
(* reader task, subscribed_events, matches and handle_event together).  From *)
(* a line that is not UTF-8 on, nothing is read.                             *)
ScriptsFollowLines ==
  Receiving => unexpected = <<>> /\ (lines = <<>> => owed = Coming)

(* Once it has read everything, the translator's last-known state is the one *)
(* Hyprland wrote last, also of what nobody subscribed to; the workspace and *)
(* the window in it are Hyprland's, or still the default if they have not    *)
(* changed since: a watch's prev is a state that was there (translate).      *)
TranslatorIsCurrent ==
  Connected /\ lines = <<>> =>
    /\ last = latest
    /\ last.workspacev2 \in {Default.workspacev2, WorkspaceLine(workspace).data}
    /\ last.activewindow \in {Default.activewindow, WindowLine(focus).data}

(* A set that succeeds while nobody else acts has its effect, and keeps it   *)
(* until the next set or the user: toggles that earlier sets gave up on are  *)
(* carried out before the query and never after (set and command).  There    *)
(* are two exceptions.  Without a window there is nothing to toggle, and a   *)
(* set may succeed all the same; and a window that was maximized when it was *)
(* to leave fullscreen may be fullscreen afterwards, since set takes any     *)
(* mode for fullscreen and then toggles only one (fullscreen_as_bool).       *)
SetHolds ==
  up /\ settled # Unknown =>
    \/ Actual(settled.key) = settled.value
    \/ settled.key \in Toggles /\ focus = NoWindow
    \/ settled.key = "fullscreen" /\ settled.value = "false" /\ maximized

(* The reader task has come to a line that it cannot read. *)
Stuck == lines # <<>> /\ Head(lines) = NotText

(* Every script that a line calls for is started and the end of Hyprland is  *)
(* reported after that, however long Hyprland lets a method wait and however *)
(* full the channel is: the timeouts give the actor back to next_event.  A   *)
(* line that is not UTF-8 ends it: those behind it start nothing, and the    *)
(* end of the events is reported (command, the reader task and next_event).  *)
EventsAreHandled ==
  stage = "running" /\ (owed # <<>> \/ ~up \/ Stuck)
    ~> stage = "down" \/ (Stuck /\ ended) \/ (~Stuck /\ owed = <<>> /\ (up \/ ended))
=============================================================================
