---------------------------- MODULE HyprlandProofs ----------------------------
(***************************************************************************)
(* Proofs about HyprlandAdapter.                                           *)
(***************************************************************************)
EXTENDS HyprlandAdapter, SequenceTheorems, FiniteSetTheorems, WellFoundedInduction, TLAPS

USE HyprlandAssumption

-----------------------------------------------------------------------------
(* Types. *)

AllLines ==
  {WindowLine(w) : w \in Windows \cup {NoWindow}} \cup {WorkspaceLine(ws) : ws \in Workspaces}
    \cup {FullscreenLine(TRUE), FullscreenLine(FALSE)} \cup OtherLines \cup CutLines

States ==
  {l.data : l \in AllLines} \cup {Remembered(l) : l \in AllLines}
    \cup {Default[n] : n \in Tracked} \cup {Nothing}

AllEvents ==
  [name : {EventName[n] : n \in DOMAIN EventName} \cup {"none"}, prev : States, curr : States]

AllRequests == [kind : {"query", "dispatch"}, key : Keys \cup {"none"},
                value : Values \cup {"none"}, awaited : BOOLEAN]

CompositorTypeOK ==
  /\ focus \in Windows \cup {NoWindow}
  /\ workspace \in Workspaces
  /\ toggled \in [Windows -> SUBSET (Toggles \cup {"maximized"})]
  /\ inputs \in 0..MaxInputs

CommandTypeOK ==
  /\ queue \in Seq(AllRequests)
  /\ stage \in {"new", "initialised", "running", "down", "failed"}
  /\ call \in {"idle", "querying", "dispatching"}
  /\ method \in {"init", "get", "set"}
  /\ key \in Keys \cup {"none"}
  /\ want \in Values \cup {"none"}
  /\ answer \in [status : {"none", "ok", "error"}, value : Values \cup {"none"}]
  /\ settled \in [key : Keys \cup {"none"}, value : Values \cup {"none"}]

(* A set is about a key that has the value, its query about a toggle, and    *)
(* only a set dispatches.                                                    *)
CallInv ==
  /\ call = "idle" => method = "init"
  /\ call = "dispatching" => method = "set"
  /\ method = "set" => key \in Keys /\ want \in ValuesOf(key)
  /\ method = "set" /\ call = "querying" => key \in Toggles
  /\ \A i \in DOMAIN queue : queue[i].kind = "dispatch" =>
       queue[i].key \in Keys /\ queue[i].value \in ValuesOf(queue[i].key)

EventTypeOK ==
  /\ lines \in Seq(AllLines)
  /\ last \in [Tracked -> States]
  /\ latest \in [Tracked -> States]
  /\ reader \in {"none", "reading", "sending", "ended"}
  /\ held \in AllEvents
  /\ events \in Seq(AllEvents) /\ Len(events) <= EventCap

FlagTypeOK ==
  up \in BOOLEAN /\ ended \in BOOLEAN /\ undisturbed \in BOOLEAN /\ maximized \in BOOLEAN

LEMMA KeysAndValues ==
  /\ "workspace" \notin Toggles /\ Toggles \subseteq Keys /\ Keys = Toggles \cup {"workspace"}
  /\ \A k \in Keys : ValuesOf(k) \subseteq Values
  /\ \A k \in Toggles : ValuesOf(k) = {"true", "false"}
BY DEF Keys, ValuesOf, Values, Booleans

LEMMA ActualTypes ==
  ASSUME CompositorTypeOK, NEW k \in Keys
  PROVE  Actual(k) \in ValuesOf(k) /\ Actual(k) \in Values
BY DEF CompositorTypeOK, Actual, ValuesOf, Values, Booleans, Keys

(* What is sent, and what the end of a call leaves in the queue. *)
LEMMA SendTypes ==
  ASSUME CommandTypeOK, CallInv, NEW kind \in {"query", "dispatch"}, NEW k \in Keys \cup {"none"},
         NEW v \in Values \cup {"none"}, kind = "dispatch" => k \in Keys /\ v \in ValuesOf(k),
         Send(kind, k, v)
  PROVE  /\ queue' \in Seq(AllRequests)
         /\ answer' \in [status : {"none", "ok", "error"}, value : Values \cup {"none"}]
         /\ call' = IF kind = "query" THEN "querying" ELSE "dispatching"
         /\ \A i \in DOMAIN queue' : queue'[i].kind = "dispatch" =>
              queue'[i].key \in Keys /\ queue'[i].value \in ValuesOf(queue'[i].key)
<1> DEFINE r == [kind |-> kind, key |-> k, value |-> v, awaited |-> TRUE]
<1>1. r \in AllRequests
  BY DEF AllRequests
<1>2. queue' = queue \/ queue' = Append(queue, r)
  BY DEF Send
<1>3. queue' \in Seq(AllRequests)
  BY <1>1, <1>2 DEF CommandTypeOK
<1>4. answer' \in [status : {"none", "ok", "error"}, value : Values \cup {"none"}]
  BY DEF Send, NoAnswer, Failure
<1>5. \A i \in DOMAIN queue' : (i \in DOMAIN queue /\ queue'[i] = queue[i]) \/ queue'[i] = r
  BY <1>1, <1>2 DEF CommandTypeOK
<1>6. r.kind = "dispatch" => r.key \in Keys /\ r.value \in ValuesOf(r.key)
  OBVIOUS
<1>7. \A i \in DOMAIN queue' : queue'[i].kind = "dispatch" =>
              queue'[i].key \in Keys /\ queue'[i].value \in ValuesOf(queue'[i].key)
  <2> HIDE DEF r
  <2> QED BY <1>5, <1>6 DEF CallInv
<1> QED BY <1>3, <1>4, <1>7 DEF Send

LEMMA EndCallQueue ==
  ASSUME CommandTypeOK, EndCall
  PROVE  /\ queue' \in Seq(AllRequests) /\ Len(queue') = Len(queue) /\ DOMAIN queue' = DOMAIN queue
         /\ \A i \in DOMAIN queue :
              /\ queue'[i].kind = queue[i].kind /\ queue'[i].key = queue[i].key
              /\ queue'[i].value = queue[i].value /\ ~queue'[i].awaited
<1>1. \A i \in DOMAIN queue : queue[i] \in AllRequests
  BY DEF CommandTypeOK
<1>2. ASSUME NEW r \in AllRequests
      PROVE  /\ [r EXCEPT !.awaited = FALSE] \in AllRequests
             /\ [r EXCEPT !.awaited = FALSE].kind = r.kind /\ [r EXCEPT !.awaited = FALSE].key = r.key
             /\ [r EXCEPT !.awaited = FALSE].value = r.value
             /\ [r EXCEPT !.awaited = FALSE].awaited = FALSE
  BY DEF AllRequests
<1>3. DOMAIN queue = 1..Len(queue) /\ Len(queue) \in Nat
  BY DEF CommandTypeOK
<1>4. queue' = [i \in 1..Len(queue) |-> [queue[i] EXCEPT !.awaited = FALSE]]
  BY <1>3 DEF EndCall
<1>5. \A i \in DOMAIN queue : queue'[i] = [queue[i] EXCEPT !.awaited = FALSE]
  BY <1>3, <1>4
<1>6. queue' \in Seq(AllRequests) /\ Len(queue') = Len(queue) /\ DOMAIN queue' = DOMAIN queue
  BY <1>1, <1>2, <1>3, <1>4, IsASeq
<1>7. ASSUME NEW i \in DOMAIN queue
      PROVE  /\ queue'[i].kind = queue[i].kind /\ queue'[i].key = queue[i].key
             /\ queue'[i].value = queue[i].value /\ ~queue'[i].awaited
  <2>1. queue[i] \in AllRequests /\ queue'[i] = [queue[i] EXCEPT !.awaited = FALSE]
    BY <1>1, <1>5
  <2> QED BY <1>2, <2>1
<1> QED BY <1>6, <1>7

LEMMA LineTypes ==
  /\ \A w \in Windows \cup {NoWindow} : WindowLine(w) \in AllLines
  /\ \A ws \in Workspaces : WorkspaceLine(ws) \in AllLines
  /\ \A k, now : FullscreenLine(k \in now) \in AllLines
  /\ OtherLines \subseteq AllLines /\ CutLines \subseteq AllLines
BY DEF AllLines, FullscreenLine

(* A line that Hyprland writes, if it writes one. *)
Writes(l) == Announce(l) \/ UNCHANGED <<lineVars, owed>>

LEMMA WriteTypes ==
  ASSUME EventTypeOK, NEW l \in AllLines, Writes(l)
  PROVE  lines' \in Seq(AllLines) /\ latest' \in [Tracked -> States]
<1>1. Remembered(l) \in States
  BY DEF States
<1>2. lines' = lines \/ lines' = Append(lines, l)
  BY DEF Writes, Announce, lineVars
<1>3. latest' = latest \/ latest' = [latest EXCEPT ![l.name] = Remembered(l)]
  BY DEF Writes, Announce, lineVars
<1>4. lines' \in Seq(AllLines)
  <2>1. lines \in Seq(AllLines)
    BY DEF EventTypeOK
  <2> QED BY ONLY <1>2, <2>1, l \in AllLines
<1>5. latest' \in [Tracked -> States]
  <2> HIDE DEF Tracked, States
  <2> QED BY <1>1, <1>3 DEF EventTypeOK
<1> QED BY <1>4, <1>5

(* What Hyprland does, one line at the most at a time. *)
LEMMA HyprlandSteps ==
  ASSUME CompositorTypeOK, CommandTypeOK, CallInv,
         \/ \E w \in Windows \cup {NoWindow} : UserFocuses(w)
         \/ \E k \in Toggles : UserToggles(k)
         \/ UserMaximizes
         \/ \E ws \in Workspaces : UserSwitches(ws)
         \/ \E l \in OtherLines : SomethingElse(l)
         \/ HandleRequest \/ Dies
  PROVE  CompositorTypeOK' /\ (\E l \in AllLines : Writes(l)) /\ UNCHANGED <<readerVars, events>>
<1> USE DEF CompositorTypeOK
<1>1. ASSUME NEW k \in Toggles, focus # NoWindow, Toggle(k)
      PROVE  /\ toggled' \in [Windows -> SUBSET (Toggles \cup {"maximized"})]
             /\ \E l \in AllLines : Writes(l)
  <2>1. PICK now \in Toggled(k) :
          /\ toggled' = [toggled EXCEPT ![focus] = now]
          /\ Announce(FullscreenLine(k \in now)) \/ UNCHANGED <<lineVars, owed>>
    BY <1>1 DEF Toggle
  <2>2. toggled[focus] \in SUBSET (Toggles \cup {"maximized"})
    BY <1>1
  <2>3. now \in SUBSET (Toggles \cup {"maximized"})
    BY <2>1, <2>2 DEF Toggled
  <2> QED BY <2>1, <2>3, LineTypes DEF Writes
<1>2. ASSUME NEW ws \in Workspaces, SwitchTo(ws)
      PROVE  workspace' \in Workspaces /\ (\E l \in AllLines : Writes(l))
  BY <1>2, LineTypes DEF SwitchTo, Writes
<1>3. ASSUME UNCHANGED <<lineVars, owed>> PROVE \E l \in AllLines : Writes(l)
  BY <1>3, LineTypes DEF Writes
<1>4. ASSUME NEW w \in Windows \cup {NoWindow}, UserFocuses(w)
      PROVE  CompositorTypeOK' /\ (\E l \in AllLines : Writes(l)) /\ UNCHANGED <<readerVars, events>>
  BY <1>4, LineTypes DEF UserFocuses, Acts, Input, Writes
<1>5. ASSUME NEW k \in Toggles, UserToggles(k)
      PROVE  CompositorTypeOK' /\ (\E l \in AllLines : Writes(l)) /\ UNCHANGED <<readerVars, events>>
  BY <1>1, <1>5 DEF UserToggles, Acts, Input
<1>6. ASSUME NEW ws \in Workspaces, UserSwitches(ws)
      PROVE  CompositorTypeOK' /\ (\E l \in AllLines : Writes(l)) /\ UNCHANGED <<readerVars, events>>
  BY <1>2, <1>6 DEF UserSwitches, Acts, Input
<1>7. ASSUME NEW l \in OtherLines, SomethingElse(l)
      PROVE  CompositorTypeOK' /\ (\E m \in AllLines : Writes(m)) /\ UNCHANGED <<readerVars, events>>
  BY <1>7, LineTypes DEF SomethingElse, Acts, Input, Writes
<1>8. CASE HandleRequest
  <2> DEFINE r == Head(queue)
  <2>1. r \in AllRequests /\ (r.kind = "dispatch" => r.key \in Keys /\ r.value \in ValuesOf(r.key))
    <3>1. queue # <<>>
      BY <1>8 DEF HandleRequest
    <3>2. r = queue[1] /\ 1 \in DOMAIN queue /\ queue[1] \in AllRequests
      BY <3>1 DEF CommandTypeOK
    <3> QED BY <3>2 DEF CallInv
  <2>2. UNCHANGED <<focus, inputs, readerVars, events>>
    BY <1>8 DEF HandleRequest
  <2>3. CASE UNCHANGED <<workspace, toggled, lineVars, owed>>
    BY <1>3, <2>2, <2>3
  <2>4. CASE r.kind = "dispatch" /\ r.key = "workspace" /\ SwitchTo(r.value) /\ UNCHANGED toggled
    BY <1>2, <2>1, <2>2, <2>4 DEF ValuesOf
  <2>5. CASE r.kind = "dispatch" /\ r.key \in Toggles /\ focus # NoWindow /\ Toggle(r.key)
             /\ UNCHANGED workspace
    BY <1>1, <2>2, <2>5
  <2> QED BY <1>8, <2>3, <2>4, <2>5 DEF HandleRequest
<1>9. CASE Dies
  BY <1>3, <1>9, LineTypes DEF Dies, Writes
<1>10. CASE UserMaximizes
  <2>1. FullscreenLine(TRUE) \in AllLines
    BY DEF AllLines
  <2>2. focus \in Windows /\ toggled[focus] \in SUBSET (Toggles \cup {"maximized"})
    BY <1>10 DEF UserMaximizes
  <2>3. \E l \in AllLines : Writes(l)
    BY <1>10, <2>1 DEF UserMaximizes, Writes
  <2>4. UNCHANGED <<focus, workspace, readerVars, events>> /\ inputs' \in 0..MaxInputs
    BY <1>10 DEF UserMaximizes, Acts, Input
  <2>5. (toggled[focus] \ {"fullscreen"}) \cup {"maximized"} \in SUBSET (Toggles \cup {"maximized"})
    BY <2>2
  <2>6. toggled' \in [Windows -> SUBSET (Toggles \cup {"maximized"})]
    BY <1>10, <2>5 DEF UserMaximizes
  <2> QED BY <2>3, <2>4, <2>6
<1> QED BY <1>4, <1>5, <1>6, <1>7, <1>8, <1>9, <1>10

LEMMA EventTypesKept ==
  ASSUME EventTypeOK, CompositorTypeOK, CommandTypeOK, CallInv, Next
  PROVE  EventTypeOK' /\ CompositorTypeOK'
<1>1. CASE \/ \E w \in Windows \cup {NoWindow} : UserFocuses(w)
           \/ \E k \in Toggles : UserToggles(k)
           \/ UserMaximizes
           \/ \E ws \in Workspaces : UserSwitches(ws)
           \/ \E l \in OtherLines : SomethingElse(l)
           \/ HandleRequest \/ Dies
  <2>1. CompositorTypeOK' /\ UNCHANGED <<readerVars, events>>
    BY <1>1, HyprlandSteps
  <2>2. PICK l \in AllLines : Writes(l)
    BY <1>1, HyprlandSteps
  <2> QED BY <2>1, <2>2, WriteTypes DEF EventTypeOK, readerVars
<1>2. CASE CallInit \/ QueryReturns \/ Returns \/ ReturnsError \/ TimesOut
  BY <1>2 DEF CallInit, QueryReturns, Returns, ReturnsError, TimesOut, Fails, otherVars,
     compositorVars, lineVars, readerVars, EventTypeOK, CompositorTypeOK
<1>3. CASE CallGet \/ \E k \in Keys : \E v \in ValuesOf(k) : CallSet(k, v)
  BY <1>3 DEF CallGet, CallSet, Input, otherVars, compositorVars, lineVars, readerVars, EventTypeOK,
     CompositorTypeOK
<1>4. CompositorTypeOK /\ UNCHANGED <<compositorVars, inputs>> => CompositorTypeOK'
  BY DEF CompositorTypeOK, compositorVars
<1>5. CASE Subscribe \/ ReadFails \/ EndOfLines \/ SendFails \/ EventsEnd
  <2>1. EventTypeOK'
    BY <1>5 DEF EventTypeOK, Subscribe, ReadFails, EndOfLines, SendFails, EventsEnd, lineVars, readerVars
  <2> QED BY <1>4, <1>5, <2>1 DEF Subscribe, ReadFails, EndOfLines, SendFails, EventsEnd
<1>6. CASE ReadLine
  <2> DEFINE l == Head(lines)
  <2>1. l \in AllLines /\ lines' \in Seq(AllLines)
    BY <1>6 DEF ReadLine, EventTypeOK
  <2>2. Remembered(l) \in States /\ l.data \in States /\ Nothing \in States
    BY <2>1 DEF States
  <2>3. last' \in [Tracked -> States]
    BY <1>6, <2>2 DEF ReadLine, EventTypeOK
  <2>4. Understood(l) => Translate(l) \in AllEvents
    <3>1. l.name \in Tracked => last[l.name] \in States
      BY DEF EventTypeOK
    <3> HIDE DEF l
    <3> QED BY <2>2, <3>1 DEF Translate, EventOf, AllEvents, Understood
  <2>5. held' \in AllEvents /\ reader' \in {"none", "reading", "sending", "ended"}
    BY <1>6, <2>4 DEF ReadLine, EventTypeOK
  <2> QED BY <1>4, <1>6, <2>1, <2>3, <2>5 DEF ReadLine, EventTypeOK
<1>7. CASE SendEvent
  <2>1. NoEvent \in AllEvents
    BY DEF NoEvent, AllEvents, States
  <2> QED BY <1>4, <1>7, <2>1 DEF SendEvent, EventTypeOK, lineVars
<1>8. CASE HandleEvent \/ Shutdown
  <2>1. (events # <<>> /\ events' = Tail(events)) \/ events' = <<>>
    BY <1>8 DEF HandleEvent, Shutdown
  <2>2. EventCap \in Nat /\ Len(<<>>) = 0 /\ <<>> \in Seq(AllEvents)
    OBVIOUS
  <2>3. events # <<>> => Tail(events) \in Seq(AllEvents) /\ Len(Tail(events)) <= EventCap
    BY <2>2 DEF EventTypeOK
  <2>4. events' \in Seq(AllEvents) /\ Len(events') <= EventCap
    <3>1. CASE events' = <<>>
      <4>1. Len(events') = 0 /\ 0 <= EventCap
        BY <2>2, <3>1
      <4> QED BY <2>2, <3>1, <4>1
    <3>2. CASE events # <<>> /\ events' = Tail(events)
      BY <2>3, <3>2
    <3> QED BY <2>1, <3>1, <3>2
  <2> QED BY <1>4, <1>8, <2>4 DEF HandleEvent, Shutdown, EventTypeOK, lineVars, readerVars
<1> QED BY <1>1, <1>2, <1>3, <1>5, <1>6, <1>7, <1>8 DEF Next

LEMMA CommandTypesKept ==
  ASSUME CompositorTypeOK, CommandTypeOK, CallInv, Next
  PROVE  CommandTypeOK' /\ CallInv'
<1> USE KeysAndValues
<1>0. Unknown \in [key : Keys \cup {"none"}, value : Values \cup {"none"}]
  BY DEF Unknown
<1>1. CASE \/ \E w \in Windows \cup {NoWindow} : UserFocuses(w)
           \/ \E k \in Toggles : UserToggles(k)
           \/ UserMaximizes
           \/ \E ws \in Workspaces : UserSwitches(ws)
           \/ \E l \in OtherLines : SomethingElse(l)
  <2>1. UNCHANGED commandVars /\ settled' = Unknown
    BY <1>1 DEF UserFocuses, UserToggles, UserMaximizes, UserSwitches, SomethingElse, Acts
  <2> QED BY <1>0, <2>1 DEF commandVars, CommandTypeOK, CallInv
<1>2. CASE HandleRequest
  <2> DEFINE r == Head(queue)
  <2>1. /\ queue' = Tail(queue) /\ queue' \in Seq(AllRequests) /\ r \in AllRequests
        /\ \A i \in DOMAIN queue' : i + 1 \in DOMAIN queue /\ queue'[i] = queue[i + 1]
    BY <1>2 DEF HandleRequest, CommandTypeOK
  <2>2. \/ answer' = answer
        \/ \E v \in Values \cup {"none"} : \E st \in {"ok", "error"} :
             answer' = [status |-> st, value |-> v]
    <3>1. r.key # "none" => Actual(r.key) \in Values
      BY <2>1, ActualTypes DEF AllRequests
    <3> HIDE DEF r
    <3> QED BY <1>2, <3>1 DEF HandleRequest, Reply, Failure, r
  <2>3. answer' \in [status : {"none", "ok", "error"}, value : Values \cup {"none"}]
    BY <2>2 DEF CommandTypeOK
  <2>4. UNCHANGED <<stage, call, method, key, want, settled>>
    BY <1>2 DEF HandleRequest, setVars
  <2>5. CommandTypeOK'
    BY <2>1, <2>3, <2>4 DEF CommandTypeOK
  <2> QED BY <2>1, <2>4, <2>5 DEF CallInv
<1>3. CASE Dies
  <2>1. queue' = <<>> /\ (answer' = answer \/ answer' = Failure)
        /\ UNCHANGED <<stage, call, method, key, want, settled>>
    BY <1>3 DEF Dies, setVars
  <2> QED BY <2>1 DEF CommandTypeOK, CallInv, Failure
<1>4. CASE CallInit \/ CallGet
  <2>1. Send("query", "none", "none") /\ UNCHANGED <<key, want, settled, stage>>
        /\ method' \in {"init", "get"}
    BY <1>4 DEF CallInit, CallGet, CallInv, setVars
  <2>2. /\ queue' \in Seq(AllRequests)
        /\ answer' \in [status : {"none", "ok", "error"}, value : Values \cup {"none"}]
        /\ call' = "querying"
        /\ \A i \in DOMAIN queue' : queue'[i].kind = "dispatch" =>
              queue'[i].key \in Keys /\ queue'[i].value \in ValuesOf(queue'[i].key)
    BY <2>1, SendTypes
  <2> QED BY <2>1, <2>2 DEF CommandTypeOK, CallInv
<1>5. ASSUME NEW k \in Keys, NEW v \in ValuesOf(k), CallSet(k, v) PROVE CommandTypeOK' /\ CallInv'
  <2>1. v \in Values /\ key' = k /\ want' = v /\ method' = "set" /\ settled' = Unknown /\ stage' = stage
    BY <1>5 DEF CallSet
  <2>2. /\ queue' \in Seq(AllRequests)
        /\ answer' \in [status : {"none", "ok", "error"}, value : Values \cup {"none"}]
        /\ call' = IF k \in Toggles THEN "querying" ELSE "dispatching"
        /\ \A i \in DOMAIN queue' : queue'[i].kind = "dispatch" =>
              queue'[i].key \in Keys /\ queue'[i].value \in ValuesOf(queue'[i].key)
    BY <1>5, <2>1, SendTypes DEF CallSet
  <2> QED BY <1>0, <2>1, <2>2 DEF CommandTypeOK, CallInv
<1>6. CASE QueryReturns
  <2>1. /\ method = "set" /\ key \in Keys /\ want \in Values /\ want \in ValuesOf(key)
        /\ Send("dispatch", key, want) /\ UNCHANGED <<stage, method, key, want, settled>>
    BY <1>6 DEF QueryReturns, NeedsToggle, CallInv, setVars
  <2>2. /\ queue' \in Seq(AllRequests)
        /\ answer' \in [status : {"none", "ok", "error"}, value : Values \cup {"none"}]
        /\ call' = "dispatching"
        /\ \A i \in DOMAIN queue' : queue'[i].kind = "dispatch" =>
              queue'[i].key \in Keys /\ queue'[i].value \in ValuesOf(queue'[i].key)
    BY <2>1, SendTypes
  <2> QED BY <2>1, <2>2 DEF CommandTypeOK, CallInv
<1>7. CASE Returns \/ ReturnsError \/ TimesOut
  <2>1. /\ EndCall /\ stage' \in {stage, "initialised", "failed"}
        /\ settled' \in {settled, [key |-> key, value |-> want]}
    BY <1>7 DEF Returns, ReturnsError, TimesOut, Fails, setVars
  <2>2. queue' \in Seq(AllRequests) /\ DOMAIN queue' = DOMAIN queue
        /\ \A i \in DOMAIN queue : queue'[i].kind = queue[i].kind /\ queue'[i].key = queue[i].key
              /\ queue'[i].value = queue[i].value
    BY <2>1, EndCallQueue
  <2>3. /\ call' = "idle" /\ method' = "init" /\ key' = "none" /\ want' = "none"
        /\ answer' = [status |-> "none", value |-> "none"]
    BY <2>1 DEF EndCall, NoAnswer
  <2>4. key \in Keys \cup {"none"} /\ want \in Values \cup {"none"} =>
          [key |-> key, value |-> want] \in [key : Keys \cup {"none"}, value : Values \cup {"none"}]
    OBVIOUS
  <2>5. CommandTypeOK'
    BY <2>1, <2>2, <2>3, <2>4 DEF CommandTypeOK
  <2>6. CallInv'
    BY <2>2, <2>3 DEF CallInv
  <2> QED BY <2>5, <2>6
<1>8. CASE Subscribe \/ Shutdown
  BY <1>8 DEF Subscribe, Shutdown, CommandTypeOK, CallInv, setVars
<1>9. CASE ReadLine \/ ReadFails \/ EndOfLines \/ SendEvent \/ SendFails \/ HandleEvent \/ EventsEnd
  BY <1>9 DEF ReadLine, ReadFails, EndOfLines, SendEvent, SendFails, HandleEvent, EventsEnd, commandVars, setVars,
     CommandTypeOK, CallInv
<1> QED BY <1>1, <1>2, <1>3, <1>4, <1>5, <1>6, <1>7, <1>8, <1>9 DEF Next

LEMMA FlagTypesKept ==
  ASSUME FlagTypeOK, Next
  PROVE  FlagTypeOK'
<1>1. /\ UNCHANGED up \/ up' = FALSE
      /\ UNCHANGED ended \/ ended' = TRUE
      /\ UNCHANGED undisturbed \/ undisturbed' = TRUE \/ undisturbed' = FALSE
      /\ UNCHANGED maximized \/ maximized' = (focus # NoWindow /\ "maximized" \in toggled[focus])
  BY Zenon DEF Next, UserFocuses, UserToggles, UserMaximizes, UserSwitches, SomethingElse, Acts,
     HandleRequest, Dies, CallInit, CallGet, CallSet, QueryReturns, Returns, ReturnsError, TimesOut, Fails, Subscribe,
     ReadLine, ReadFails, EndOfLines, SendEvent, SendFails, HandleEvent, EventsEnd, Shutdown, otherVars,
     compositorVars, setVars
<1> QED BY <1>1 DEF FlagTypeOK

(* Only init is called before it has succeeded, and nothing reads lines      *)
(* before subscribe.                                                         *)
StageInv ==
  /\ call # "idle" /\ method = "init" => stage = "new"
  /\ stage \in {"new", "initialised"} => reader = "none"

LEMMA StagesKept ==
  ASSUME StageInv, CallInv, Next
  PROVE  StageInv'
<1>1. CASE \/ \E w \in Windows \cup {NoWindow} : UserFocuses(w)
           \/ \E k \in Toggles : UserToggles(k)
           \/ UserMaximizes
           \/ \E ws \in Workspaces : UserSwitches(ws)
           \/ \E l \in OtherLines : SomethingElse(l)
           \/ HandleRequest \/ Dies
  <2>1. UNCHANGED <<stage, call, method, reader>>
    BY <1>1 DEF UserFocuses, UserToggles, UserMaximizes, UserSwitches, SomethingElse, Acts, HandleRequest, Dies,
       commandVars, readerVars
  <2> QED BY <2>1 DEF StageInv
<1>2. CASE CallInit
  BY <1>2 DEF CallInit, otherVars, readerVars, StageInv
<1>3. CASE CallGet \/ (\E k \in Keys : \E v \in ValuesOf(k) : CallSet(k, v))
  <2>1. stage = "running" /\ stage' = stage /\ reader' = reader /\ method' # "init"
    BY <1>3 DEF CallGet, CallSet, otherVars, readerVars
  <2> QED BY <2>1 DEF StageInv
<1>4. CASE QueryReturns
  <2>1. method = "set" /\ UNCHANGED <<stage, method, reader>>
    BY <1>4 DEF QueryReturns, NeedsToggle, otherVars, readerVars
  <2> QED BY <2>1 DEF StageInv
<1>5. CASE Returns \/ ReturnsError \/ TimesOut
  <2>1. /\ call # "idle" /\ call' = "idle" /\ UNCHANGED reader
        /\ stage' = stage \/ method = "init"
    BY <1>5 DEF Returns, ReturnsError, TimesOut, Fails, EndCall, otherVars, readerVars
  <2> QED BY <2>1 DEF StageInv
<1>6. CASE Subscribe
  BY <1>6 DEF Subscribe, StageInv, CallInv
<1>7. CASE ReadLine \/ ReadFails \/ EndOfLines \/ SendEvent \/ SendFails \/ HandleEvent \/ EventsEnd
  <2>1. UNCHANGED <<stage, call, method>> /\ (reader = "none" => reader' = "none")
    BY <1>7 DEF ReadLine, ReadFails, EndOfLines, SendEvent, SendFails, HandleEvent, EventsEnd, commandVars,
       readerVars
  <2>2. stage \in {"new", "initialised"} => reader' = "none"
    BY <2>1 DEF StageInv
  <2> QED BY <2>1, <2>2 DEF StageInv
<1>8. CASE Shutdown
  BY <1>8 DEF Shutdown, Receiving, StageInv, readerVars
<1> QED BY <1>1, <1>2, <1>3, <1>4, <1>5, <1>6, <1>7, <1>8 DEF Next

TypesInv ==
  CompositorTypeOK /\ CommandTypeOK /\ CallInv /\ EventTypeOK /\ FlagTypeOK /\ StageInv

LEMMA TypesAtFirst == Init => TypesInv
<1> SUFFICES ASSUME Init PROVE TypesInv
  OBVIOUS
<1>1. CompositorTypeOK
  BY DEF Init, CompositorTypeOK
<1>2. CommandTypeOK /\ CallInv
  BY DEF Init, CommandTypeOK, CallInv, NoAnswer, Unknown
<1>3. EventTypeOK
  <2>1. Default \in [Tracked -> States]
    BY DEF Default, Tracked, States
  <2>2. NoEvent \in AllEvents
    BY DEF NoEvent, AllEvents, States
  <2>3. Len(<<>>) = 0 /\ 0 <= EventCap /\ <<>> \in Seq(AllEvents) /\ <<>> \in Seq(AllLines)
    OBVIOUS
  <2> QED BY <2>1, <2>2, <2>3 DEF Init, EventTypeOK
<1>4. FlagTypeOK /\ StageInv
  BY DEF Init, FlagTypeOK, StageInv
<1> QED BY <1>1, <1>2, <1>3, <1>4 DEF TypesInv

LEMMA TypesKept ==
  ASSUME TypesInv, [Next]_vars
  PROVE  TypesInv'
<1>1. CASE Next
  BY <1>1, CommandTypesKept, EventTypesKept, FlagTypesKept, StagesKept DEF TypesInv
<1>2. CASE UNCHANGED vars
  <2>1. CompositorTypeOK' /\ CommandTypeOK' /\ CallInv'
    BY <1>2 DEF vars, compositorVars, commandVars, setVars, TypesInv, CompositorTypeOK, CommandTypeOK,
       CallInv
  <2>2. EventTypeOK' /\ FlagTypeOK' /\ StageInv'
    BY <1>2 DEF vars, compositorVars, commandVars, lineVars, readerVars, setVars, TypesInv, EventTypeOK,
       FlagTypeOK, StageInv
  <2> QED BY <2>1, <2>2 DEF TypesInv
<1> QED BY <1>1, <1>2

LEMMA TypesSafe == Spec => []TypesInv
BY TypesAtFirst, TypesKept, PTL DEF Spec

(* The variables have their types: a query and a dispatch only name keys and *)
(* values that there are, and the event channel never holds more than its    *)
(* capacity, whatever Hyprland writes (set, command and the reader task).    *)
THEOREM HyprlandTypeCorrect == Spec => []TypeOK
<1>1. TypesInv => TypeOK
  BY Zenon DEF TypesInv, CompositorTypeOK, CommandTypeOK, AllRequests, EventTypeOK, FlagTypeOK, TypeOK
<1> QED BY <1>1, TypesSafe, PTL

-----------------------------------------------------------------------------
(* What the translator remembers.                                            *)

(* The lines under way about a kind of state. *)
Told(n) == {i \in DOMAIN lines : Understood(lines[i]) /\ lines[i].name = n}

(* The last of them tells the state that Hyprland wrote last; when there is  *)
(* none the translator has it.                                               *)
LinesInv ==
  \A n \in Tracked :
    \/ Told(n) = {} /\ latest[n] = last[n]
    \/ \E i \in Told(n) : latest[n] = Remembered(lines[i]) /\ \A j \in Told(n) : j <= i

(* What has been written of the workspace and the window is what they are.   *)
SyncInv ==
  /\ reader = "none" => latest = Default
  /\ Connected =>
       /\ latest["workspacev2"] \in {Default["workspacev2"], WorkspaceLine(workspace).data}
       /\ latest["activewindow"] \in {Default["activewindow"], WindowLine(focus).data}

LEMMA Kinds ==
  /\ Tracked = {"workspacev2", "activewindow", "focusedmon", "fullscreen", "submap", "activelayout"}
  /\ Tracked \subseteq DOMAIN EventName
BY DEF Tracked, Default, EventName

LEMMA AnnounceEffect ==
  ASSUME EventTypeOK, NEW l, Announce(l), NEW n \in Tracked
  PROVE  /\ ~(Connected /\ Understood(l) /\ l.name = n) => latest'[n] = latest[n]
         /\ Connected /\ Understood(l) /\ l.name = n => latest'[n] = Remembered(l)
<1> HIDE DEF Tracked, States
<1> QED BY DEF Announce, EventTypeOK, lineVars

LEMMA WritesKeepLines ==
  ASSUME EventTypeOK, LinesInv, NEW l \in AllLines, Writes(l), UNCHANGED last
  PROVE  LinesInv'
<1>1. CASE UNCHANGED <<lines, latest>>
  BY <1>1 DEF LinesInv, Told
<1>2. CASE Connected /\ Announce(l)
  <2> SUFFICES ASSUME NEW n \in Tracked
               PROVE  \/ Told(n)' = {} /\ latest'[n] = last[n]
                      \/ \E i \in Told(n)' : /\ latest'[n] = Remembered(lines'[i])
                                            /\ \A j \in Told(n)' : j <= i
    BY DEF LinesInv
  <2>1. /\ lines' = Append(lines, l) /\ Len(lines) \in Nat /\ DOMAIN lines = 1..Len(lines)
        /\ DOMAIN lines' = 1..(Len(lines) + 1) /\ lines'[Len(lines) + 1] = l
        /\ \A i \in DOMAIN lines : lines'[i] = lines[i]
    <3>1. lines' = Append(lines, l) /\ lines \in Seq(AllLines)
      BY <1>2 DEF Announce, EventTypeOK
    <3> QED BY <3>1
  <2>2. \A i : i \in DOMAIN lines' <=> i \in DOMAIN lines \/ i = Len(lines) + 1
    BY <2>1
  <2>3. CASE Understood(l) /\ l.name = n
    <3>1. latest'[n] = Remembered(l)
      BY <1>2, <2>3, AnnounceEffect
    <3>2. Len(lines) + 1 \in Told(n)'
      BY <2>1, <2>2, <2>3 DEF Told
    <3>3. \A j \in Told(n)' : j <= Len(lines) + 1
      BY <2>1 DEF Told
    <3> QED BY <2>1, <3>1, <3>2, <3>3
  <2>4. CASE ~(Understood(l) /\ l.name = n)
    <3>1. latest'[n] = latest[n]
      BY <1>2, <2>4, AnnounceEffect
    <3>2. Told(n)' = Told(n)
      BY <2>1, <2>2, <2>4 DEF Told
    <3> QED BY <2>1, <3>1, <3>2 DEF LinesInv, Told
  <2> QED BY <2>3, <2>4
<1> QED BY <1>1, <1>2 DEF Writes, Announce, lineVars

LEMMA ReadsKeepLines ==
  ASSUME EventTypeOK, LinesInv, ReadLine
  PROVE  LinesInv'
<1> SUFFICES ASSUME NEW n \in Tracked
             PROVE  \/ Told(n)' = {} /\ latest'[n] = last'[n]
                    \/ \E i \in Told(n)' : /\ latest'[n] = Remembered(lines'[i])
                                          /\ \A j \in Told(n)' : j <= i
  BY DEF LinesInv
<1> DEFINE l == lines[1]
<1>1. /\ lines # <<>> /\ lines' = Tail(lines) /\ latest' = latest
      /\ last' = IF Understood(l) /\ l.name \in Tracked THEN [last EXCEPT ![l.name] = Remembered(l)]
                 ELSE last
  <2>1. lines # <<>> => Head(lines) = lines[1]
    BY DEF EventTypeOK
  <2> QED BY <2>1 DEF ReadLine
<1>2. /\ Len(lines) \in Nat /\ 1 \in DOMAIN lines /\ DOMAIN lines = 1..Len(lines)
      /\ DOMAIN lines' = 1..(Len(lines) - 1)
      /\ \A i \in DOMAIN lines' : i + 1 \in DOMAIN lines /\ lines'[i] = lines[i + 1]
  BY <1>1 DEF EventTypeOK
<1>3. \A i \in Told(n) : i # 1 => i - 1 \in Told(n)' /\ lines'[i - 1] = lines[i]
  BY <1>2 DEF Told
<1>4. \A j \in Told(n)' : j \in Nat \ {0} /\ j + 1 \in Told(n)
  BY <1>2 DEF Told
<1>5. CASE Told(n) = {}
  <2>1. Told(n)' = {} /\ latest[n] = last[n]
    BY <1>4, <1>5 DEF LinesInv
  <2>2. 1 \notin Told(n)
    BY <1>5
  <2>3. last'[n] = last[n]
    <3> HIDE DEF Tracked, States
    <3> QED BY <1>1, <1>2, <2>2 DEF Told, EventTypeOK
  <2> QED BY <1>1, <2>1, <2>3
<1>6. ASSUME NEW i \in Told(n), latest[n] = Remembered(lines[i]), \A j \in Told(n) : j <= i
      PROVE  \/ Told(n)' = {} /\ latest'[n] = last'[n]
             \/ \E k \in Told(n)' : /\ latest'[n] = Remembered(lines'[k])
                                   /\ \A j \in Told(n)' : j <= k
  <2>1. i \in Nat
    BY <1>2 DEF Told
  <2>2. CASE i = 1
    <3>1. Told(n)' = {}
      BY <1>4, <1>6, <2>2
    <3>2. Understood(l) /\ l.name = n
      BY <2>2 DEF Told
    <3>3. last'[n] = Remembered(l)
      <4> HIDE DEF Tracked, States
      <4> QED BY <1>1, <3>2 DEF EventTypeOK
    <3> QED BY <1>1, <1>6, <2>2, <3>1, <3>3
  <2>3. CASE i # 1
    <3>1. i - 1 \in Told(n)' /\ lines'[i - 1] = lines[i]
      BY <1>3, <2>3
    <3>2. \A j \in Told(n)' : j <= i - 1
      BY <1>4, <1>6, <2>1
    <3> QED BY <1>1, <1>6, <3>1, <3>2
  <2> QED BY <2>2, <2>3
<1> QED BY <1>5, <1>6 DEF LinesInv

LEMMA LinesKept ==
  ASSUME TypesInv, LinesInv, Next
  PROVE  LinesInv'
<1> USE DEF TypesInv
<1>1. CASE \/ \E w \in Windows \cup {NoWindow} : UserFocuses(w)
           \/ \E k \in Toggles : UserToggles(k)
           \/ UserMaximizes
           \/ \E ws \in Workspaces : UserSwitches(ws)
           \/ \E l \in OtherLines : SomethingElse(l)
           \/ HandleRequest \/ Dies
  <2>1. UNCHANGED last
    BY <1>1, HyprlandSteps DEF readerVars
  <2>2. PICK l \in AllLines : Writes(l)
    BY <1>1, HyprlandSteps
  <2> QED BY <2>1, <2>2, WritesKeepLines
<1>2. CASE ReadLine
  BY <1>2, ReadsKeepLines
<1>3. ASSUME UNCHANGED <<lines, last, latest>> PROVE LinesInv'
  BY <1>3 DEF LinesInv, Told
<1>4. CASE \/ CallInit \/ CallGet \/ (\E k \in Keys : \E v \in ValuesOf(k) : CallSet(k, v))
           \/ QueryReturns \/ Returns \/ ReturnsError \/ TimesOut
  <2>1. UNCHANGED <<lineVars, readerVars>>
    BY <1>4 DEF CallInit, CallGet, CallSet, QueryReturns, Returns, ReturnsError, TimesOut, Fails, otherVars
  <2> QED BY <1>3, <2>1 DEF lineVars, readerVars
<1>5. CASE Subscribe \/ ReadFails \/ EndOfLines \/ SendEvent \/ SendFails \/ HandleEvent \/ EventsEnd \/ Shutdown
  <2>1. UNCHANGED <<lineVars, last>>
    BY <1>5 DEF Subscribe, ReadFails, EndOfLines, SendEvent, SendFails, HandleEvent, EventsEnd, Shutdown, readerVars
  <2> QED BY <1>3, <2>1 DEF lineVars
<1> QED BY <1>1, <1>2, <1>4, <1>5 DEF Next

(* The lines about the workspace and the window are remembered as they are.  *)
LEMMA RememberedWhole ==
  /\ \A ws : /\ Understood(WorkspaceLine(ws)) /\ WorkspaceLine(ws).name = "workspacev2"
            /\ Remembered(WorkspaceLine(ws)) = WorkspaceLine(ws).data
  /\ \A w : /\ Understood(WindowLine(w)) /\ WindowLine(w).name = "activewindow"
           /\ Remembered(WindowLine(w)) = WindowLine(w).data
  /\ \A on : FullscreenLine(on).name = "fullscreen"
<1>1. ASSUME NEW ws
      PROVE  /\ Understood(WorkspaceLine(ws)) /\ WorkspaceLine(ws).name = "workspacev2"
             /\ Remembered(WorkspaceLine(ws)) = WorkspaceLine(ws).data
  <2>1. /\ WorkspaceLine(ws).name = "workspacev2"
        /\ WorkspaceLine(ws).data = [id |-> ws, name |-> ws]
    BY DEF WorkspaceLine
  <2>2. Default["workspacev2"] = [id |-> "0", name |-> ""] /\ "workspacev2" \in DOMAIN EventName
    BY DEF Default, EventName
  <2>3. DOMAIN Default["workspacev2"] = {"id", "name"} /\ DOMAIN WorkspaceLine(ws).data = {"id", "name"}
    BY <2>1, <2>2
  <2>4. Remembered(WorkspaceLine(ws)) = [f \in {"id", "name"} |-> WorkspaceLine(ws).data[f]]
    BY <2>1, <2>3 DEF Remembered
  <2>5. [f \in {"id", "name"} |-> [id |-> ws, name |-> ws][f]] = [id |-> ws, name |-> ws]
    OBVIOUS
  <2> QED BY <2>1, <2>2, <2>3, <2>4, <2>5 DEF Understood
<1>2. ASSUME NEW w
      PROVE  /\ Understood(WindowLine(w)) /\ WindowLine(w).name = "activewindow"
             /\ Remembered(WindowLine(w)) = WindowLine(w).data
  <2>1. PICK t : WindowLine(w).name = "activewindow" /\ WindowLine(w).data = [title |-> t, appid |-> t]
    BY DEF WindowLine
  <2>2. Default["activewindow"] = [title |-> "", appid |-> ""] /\ "activewindow" \in DOMAIN EventName
    BY DEF Default, EventName
  <2>3. DOMAIN Default["activewindow"] = {"title", "appid"} /\ DOMAIN WindowLine(w).data = {"title", "appid"}
    BY <2>1, <2>2
  <2>4. Remembered(WindowLine(w)) = [f \in {"title", "appid"} |-> WindowLine(w).data[f]]
    BY <2>1, <2>3 DEF Remembered
  <2>5. [f \in {"title", "appid"} |-> [title |-> t, appid |-> t][f]] = [title |-> t, appid |-> t]
    OBVIOUS
  <2> QED BY <2>1, <2>2, <2>3, <2>4, <2>5 DEF Understood
<1>3. \A on : FullscreenLine(on).name = "fullscreen"
  BY DEF FullscreenLine
<1> QED BY <1>1, <1>2, <1>3

(* What Hyprland does to the workspace and the window it also writes.        *)
LEMMA HyprlandKeepsSync ==
  ASSUME TypesInv, SyncInv,
         \/ \E w \in Windows \cup {NoWindow} : UserFocuses(w)
         \/ \E k \in Toggles : UserToggles(k)
         \/ UserMaximizes
         \/ \E ws \in Workspaces : UserSwitches(ws)
         \/ \E l \in OtherLines : SomethingElse(l)
         \/ HandleRequest \/ Dies
  PROVE  SyncInv'
<1> DEFINE ws0 == "workspacev2"
           wd0 == "activewindow"
<1> USE DEF TypesInv
<1>0. ws0 \in Tracked /\ wd0 \in Tracked
  BY Kinds
<1>1. UNCHANGED reader
  BY HyprlandSteps DEF readerVars
<1>2. ASSUME reader = "none" PROVE SyncInv'
  <2>1. ~Connected /\ ~Connected'
    BY <1>1, <1>2 DEF Connected
  <2>2. PICK l \in AllLines : Writes(l)
    BY HyprlandSteps
  <2>3. latest' = latest
    BY <2>1, <2>2 DEF Writes, Announce, lineVars
  <2> QED BY <1>1, <1>2, <2>1, <2>3 DEF SyncInv
<1>3. ASSUME ~Connected, reader # "none" PROVE SyncInv'
  <2>1. up' => up
    BY DEF UserFocuses, UserToggles, UserMaximizes, UserSwitches, SomethingElse, Acts, HandleRequest, Dies
  <2>2. ~Connected'
    BY <1>1, <1>3, <2>1 DEF Connected
  <2> QED BY <1>1, <1>3, <2>2 DEF SyncInv
<1>4. ASSUME Connected PROVE SyncInv'
  <2>0. reader' # "none" /\ reader # "none"
    BY <1>1, <1>4 DEF Connected
  <2>1. ASSUME NEW l, Announce(l), ~(Understood(l) /\ l.name \in {ws0, wd0})
        PROVE  latest'[ws0] = latest[ws0] /\ latest'[wd0] = latest[wd0]
    BY <1>0, <2>1, AnnounceEffect
  <2>2. ASSUME NEW w, Announce(WindowLine(w))
        PROVE  latest'[ws0] = latest[ws0] /\ latest'[wd0] = WindowLine(w).data
    BY <1>0, <1>4, <2>2, AnnounceEffect, RememberedWhole
  <2>3. ASSUME NEW ws, SwitchTo(ws)
        PROVE  /\ workspace' = ws /\ latest'[wd0] = latest[wd0]
               /\ latest'[ws0] \in {Default[ws0], WorkspaceLine(ws).data}
    <3>1. CASE ws # workspace
      <4>1. Announce(WorkspaceLine(ws))
        BY <2>3, <3>1 DEF SwitchTo
      <4> QED BY <1>0, <1>4, <2>3, <4>1, AnnounceEffect, RememberedWhole DEF SwitchTo
    <3>2. CASE ws = workspace
      BY <1>4, <2>3, <3>2 DEF SwitchTo, lineVars, SyncInv
    <3> QED BY <3>1, <3>2
  <2>4. ASSUME NEW k, Toggle(k) PROVE latest'[ws0] = latest[ws0] /\ latest'[wd0] = latest[wd0]
    <3>1. CASE UNCHANGED lineVars
      BY <3>1 DEF lineVars
    <3>2. CASE \E on : Announce(FullscreenLine(on))
      BY <2>1, <3>2, RememberedWhole
    <3> QED BY <2>4, <3>1, <3>2 DEF Toggle
  <2>5. ASSUME NEW w \in Windows \cup {NoWindow}, UserFocuses(w) PROVE SyncInv'
    BY <1>4, <2>0, <2>2, <2>5 DEF UserFocuses, SyncInv
  <2>6. ASSUME NEW k \in Toggles, UserToggles(k) PROVE SyncInv'
    BY <1>4, <2>0, <2>4, <2>6 DEF UserToggles, SyncInv
  <2>7. ASSUME NEW ws \in Workspaces, UserSwitches(ws) PROVE SyncInv'
    BY <1>4, <2>0, <2>3, <2>7 DEF UserSwitches, SyncInv
  <2>8. ASSUME NEW l \in OtherLines, SomethingElse(l) PROVE SyncInv'
    <3>1. ~(Understood(l) /\ l.name \in {ws0, wd0})
      BY LinesAssumption
    <3> QED BY <1>4, <2>0, <2>1, <2>8, <3>1 DEF SomethingElse, SyncInv
  <2>9. CASE HandleRequest
    <3>1. UNCHANGED focus
      BY <2>9 DEF HandleRequest
    <3>2. \/ UNCHANGED <<workspace, lineVars>>
          \/ SwitchTo(Head(queue).value)
          \/ Toggle(Head(queue).key) /\ UNCHANGED workspace
      BY <2>9 DEF HandleRequest
    <3>3. CASE UNCHANGED <<workspace, lineVars>>
      BY <1>4, <2>0, <3>1, <3>3 DEF SyncInv, lineVars
    <3>4. CASE SwitchTo(Head(queue).value)
      BY <1>4, <2>0, <2>3, <3>1, <3>4 DEF SyncInv
    <3>5. CASE Toggle(Head(queue).key) /\ UNCHANGED workspace
      BY <1>4, <2>0, <2>4, <3>1, <3>5 DEF SyncInv
    <3> QED BY <3>2, <3>3, <3>4, <3>5
  <2>10. CASE Dies
    BY <2>0, <2>10 DEF Dies, SyncInv, Connected
  <2>11. CASE UserMaximizes
    BY <1>4, <2>0, <2>1, <2>11, RememberedWhole DEF UserMaximizes, SyncInv
  <2> QED BY <2>5, <2>6, <2>7, <2>8, <2>9, <2>10, <2>11
<1> QED BY <1>2, <1>3, <1>4

LEMMA SyncKept ==
  ASSUME TypesInv, SyncInv, Next
  PROVE  SyncInv'
<1>1. CASE \/ \E w \in Windows \cup {NoWindow} : UserFocuses(w)
           \/ \E k \in Toggles : UserToggles(k)
           \/ UserMaximizes
           \/ \E ws \in Workspaces : UserSwitches(ws)
           \/ \E l \in OtherLines : SomethingElse(l)
           \/ HandleRequest \/ Dies
  BY <1>1, HyprlandKeepsSync
<1>2. ASSUME UNCHANGED <<compositorVars, latest>>, reader' = "none" => reader = "none", Connected' => Connected
      PROVE  SyncInv'
  BY <1>2 DEF SyncInv, compositorVars
<1>3. CASE \/ CallInit \/ CallGet \/ (\E k \in Keys : \E v \in ValuesOf(k) : CallSet(k, v))
           \/ QueryReturns \/ Returns \/ ReturnsError \/ TimesOut
  <2>1. UNCHANGED <<compositorVars, lineVars, readerVars>>
    BY <1>3 DEF CallInit, CallGet, CallSet, QueryReturns, Returns, ReturnsError, TimesOut, Fails, otherVars
  <2> QED BY <1>2, <2>1 DEF lineVars, readerVars, compositorVars, Connected
<1>4. CASE ReadLine \/ ReadFails \/ EndOfLines \/ SendEvent \/ SendFails \/ HandleEvent \/ EventsEnd \/ Shutdown
  <2>1. UNCHANGED <<compositorVars, latest>>
    BY <1>4 DEF ReadLine, ReadFails, EndOfLines, SendEvent, SendFails, HandleEvent, EventsEnd, Shutdown, lineVars
  <2>2. \/ reader' = reader
        \/ reader \in {"reading", "sending"} /\ reader' \in {"reading", "sending", "ended"}
    BY <1>4 DEF ReadLine, ReadFails, EndOfLines, SendEvent, SendFails, HandleEvent, EventsEnd, Shutdown, readerVars
  <2> QED BY <1>2, <2>1, <2>2 DEF compositorVars, Connected
<1>5. CASE Subscribe
  <2>1. UNCHANGED <<compositorVars, latest>> /\ reader = "none"
    BY <1>5 DEF Subscribe, lineVars, TypesInv, StageInv
  <2> QED BY <2>1 DEF SyncInv
<1> QED BY <1>1, <1>3, <1>4, <1>5 DEF Next

TranslatorInv == TypesInv /\ LinesInv /\ SyncInv

LEMMA TranslatorSafe == Spec => []TranslatorInv
<1>1. Init => TranslatorInv
  <2> SUFFICES ASSUME Init PROVE LinesInv /\ SyncInv
    BY TypesAtFirst DEF TranslatorInv
  <2>1. lines = <<>> /\ last = Default /\ latest = Default /\ reader = "none"
    BY DEF Init
  <2>2. DOMAIN lines = {}
    BY <2>1
  <2> QED BY <2>1, <2>2 DEF LinesInv, SyncInv, Told, Connected
<1>2. TranslatorInv /\ [Next]_vars => TranslatorInv'
  <2> SUFFICES ASSUME TranslatorInv, [Next]_vars PROVE LinesInv' /\ SyncInv'
    BY TypesKept DEF TranslatorInv
  <2>1. CASE Next
    BY <2>1, LinesKept, SyncKept DEF TranslatorInv
  <2>2. CASE UNCHANGED vars
    <3>1. UNCHANGED <<lines, last, latest, up, reader, workspace, focus>>
      BY <2>2 DEF vars, compositorVars, lineVars, readerVars
    <3> QED BY <3>1 DEF TranslatorInv, LinesInv, SyncInv, Told, Connected
  <2> QED BY <2>1, <2>2
<1> QED BY <1>1, <1>2, PTL DEF Spec

(* Once everything is read the translator's state is the last one Hyprland   *)
(* wrote, of every kind, and of the workspace and the window it is what they *)
(* are, whoever changed them: a watch's prev is not made up (translate and   *)
(* the reader task).                                                         *)
THEOREM TranslatorStaysCurrent == Spec => []TranslatorIsCurrent
<1>1. TranslatorInv => TranslatorIsCurrent
  <2> SUFFICES ASSUME TranslatorInv, Connected, lines = <<>>
               PROVE  /\ last = latest
                      /\ last.workspacev2 \in {Default.workspacev2, WorkspaceLine(workspace).data}
                      /\ last.activewindow \in {Default.activewindow, WindowLine(focus).data}
    BY DEF TranslatorIsCurrent
  <2>1. \A n \in Tracked : latest[n] = last[n]
    BY DEF TranslatorInv, LinesInv, Told
  <2>2. last = latest
    <3> HIDE DEF Tracked, States
    <3> QED BY <2>1 DEF TranslatorInv, TypesInv, EventTypeOK
  <2> QED BY <2>2 DEF TranslatorInv, SyncInv
<1> QED BY <1>1, TranslatorSafe, PTL

-----------------------------------------------------------------------------
(* What a set achieves.                                                      *)

(* Only the last request in the queue can be one that is waited for, and it  *)
(* is what the call has sent; an answer has come when nothing is left.       *)
AwaitInv ==
  /\ call # "idle" /\ answer.status = "ok" => queue = <<>>
  /\ \A i \in DOMAIN queue : queue[i].awaited =>
       /\ i = Len(queue) /\ call # "idle" /\ answer.status = "none"
       /\ call = "querying" => queue[i].kind = "query" /\ (method = "set" => queue[i].key = key)
       /\ call = "dispatching" =>
            queue[i].kind = "dispatch" /\ queue[i].key = key /\ queue[i].value = want

(* Where a set need not have its effect: there is no window, or it was       *)
(* maximized.                                                                *)
Excused(k, v) ==
  \/ k \in Toggles /\ focus = NoWindow
  \/ k = "fullscreen" /\ v = "false" /\ maximized

(* Of a key that can only be toggled: the query's answer is still right, its *)
(* dispatch is alone in the queue, and needed.  Of any: the dispatch has its *)
(* effect, and after a set that succeeded only queries are in the queue.     *)
(* Nothing but the user maximizes a window.                                  *)
SetInv ==
  /\ method = "set" => settled = Unknown
  /\ method = "set" /\ call = "querying" /\ answer.status = "ok" /\ undisturbed =>
       answer.value = Actual(key)
  /\ method = "set" /\ undisturbed /\ focus # NoWindow /\ "maximized" \in toggled[focus] => maximized
  /\ call = "dispatching" /\ key \in Toggles => \A i \in DOMAIN queue : queue[i].awaited
  /\ call = "dispatching" /\ key \in Toggles /\ undisturbed /\ focus # NoWindow
        /\ answer.status = "none" => Actual(key) # want
  /\ call = "dispatching" /\ answer.status = "ok" /\ undisturbed =>
       Actual(key) = want \/ Excused(key, want)
  /\ settled # Unknown =>
       /\ \A i \in DOMAIN queue : queue[i].kind = "query"
       /\ Actual(settled.key) = settled.value \/ Excused(settled.key, settled.value)

(* What Send puts into the queue, after requests nobody waits for.           *)
LEMMA SendAwaits ==
  ASSUME TypesInv, NEW kind \in {"query", "dispatch"}, NEW k \in Keys \cup {"none"},
         NEW v \in Values \cup {"none"}, \A i \in DOMAIN queue : ~queue[i].awaited,
         Send(kind, k, v), call' = "querying" <=> kind = "query",
         kind = "query" /\ method' = "set" => k = key',
         kind = "dispatch" => k = key' /\ v = want'
  PROVE  /\ AwaitInv' /\ answer'.status # "ok"
         /\ \A i \in DOMAIN queue' : (i \in DOMAIN queue /\ queue'[i] = queue[i]) \/ queue'[i].kind = kind
         /\ queue = <<>> => \A i \in DOMAIN queue' : queue'[i].awaited
<1> DEFINE r == [kind |-> kind, key |-> k, value |-> v, awaited |-> TRUE]
<1>1. r \in AllRequests /\ queue \in Seq(AllRequests)
  BY DEF AllRequests, TypesInv, CommandTypeOK
<1>2. r.kind = kind /\ r.key = k /\ r.value = v /\ r.awaited
  OBVIOUS
<1>3. call' = "querying" \/ call' = "dispatching"
  BY DEF Send
<1>4. CASE up
  <2>1. answer'.status = "none" /\ queue' = Append(queue, r)
    BY <1>4 DEF Send, NoAnswer
  <2> HIDE DEF r
  <2>2. /\ Len(queue') = Len(queue) + 1 /\ queue'[Len(queue')] = r
        /\ \A i \in DOMAIN queue' : (i \in DOMAIN queue /\ queue'[i] = queue[i]) \/ (i = Len(queue') /\ queue'[i] = r)
    BY <1>1, <2>1
  <2>3. queue = <<>> => \A i \in DOMAIN queue' : queue'[i] = r
    BY <2>2
  <2>4. AwaitInv'
    BY <1>2, <1>3, <2>1, <2>2 DEF AwaitInv
  <2> QED BY <1>2, <2>1, <2>2, <2>3, <2>4
<1>5. CASE ~up
  <2>1. answer'.status = "error" /\ queue' = queue
    BY <1>5 DEF Send, Failure
  <2>2. queue = <<>> => DOMAIN queue = {}
    OBVIOUS
  <2> QED BY <2>1, <2>2 DEF AwaitInv
<1> QED BY <1>4, <1>5

(* Toggling what is not as wanted makes it so, but for a maximized window,   *)
(* and maximizes none.                                                       *)
LEMMA ToggleEffect ==
  ASSUME CompositorTypeOK, NEW k \in Toggles, focus # NoWindow, Toggle(k), UNCHANGED focus
  PROVE  /\ "maximized" \in toggled'[focus] => "maximized" \in toggled[focus]
         /\ \A v \in {"true", "false"} : Actual(k) # v =>
              \/ Actual(k)' = v
              \/ k = "fullscreen" /\ v = "false" /\ "maximized" \in toggled[focus]
<1>1. k # "workspace" /\ k # "maximized" /\ focus \in Windows
  BY KeysAndValues, HyprlandAssumption DEF CompositorTypeOK
<1>2. PICK now \in Toggled(k) : toggled' = [toggled EXCEPT ![focus] = now]
  BY DEF Toggle
<1>3. toggled'[focus] = now
  BY <1>1, <1>2 DEF CompositorTypeOK
<1>4. "maximized" \in toggled'[focus] => "maximized" \in toggled[focus]
  BY <1>1, <1>2, <1>3 DEF Toggled, Shown
<1>5. ASSUME NEW v \in {"true", "false"}, Actual(k) # v
      PROVE  \/ Actual(k)' = v
             \/ k = "fullscreen" /\ v = "false" /\ "maximized" \in toggled[focus]
  BY <1>1, <1>2, <1>3, <1>5 DEF Actual, Toggled, Shown
<1> QED BY <1>4, <1>5

LEMMA ActualKept == ASSUME UNCHANGED <<focus, workspace, toggled>> PROVE \A k : Actual(k)' = Actual(k)
BY DEF Actual

LEMMA HandlingKeepsSet ==
  ASSUME TypesInv, AwaitInv, SetInv, HandleRequest
  PROVE  AwaitInv' /\ SetInv'
<1> DEFINE r == Head(queue)
<1> USE DEF TypesInv
<1>1. /\ queue # <<>> /\ queue \in Seq(AllRequests) /\ r = queue[1] /\ r \in AllRequests
      /\ 1 \in DOMAIN queue /\ Len(queue) \in Nat /\ DOMAIN queue = 1..Len(queue)
  BY DEF HandleRequest, CommandTypeOK
<1>2. /\ queue' = Tail(queue) /\ Len(queue') = Len(queue) - 1 /\ DOMAIN queue' = 1..(Len(queue) - 1)
      /\ \A i \in DOMAIN queue' : i + 1 \in DOMAIN queue /\ queue'[i] = queue[i + 1]
  BY <1>1 DEF HandleRequest
<1>3. /\ UNCHANGED <<up, focus, call, method, key, want, undisturbed, maximized, settled>>
      /\ \/ r.kind = "query" /\ UNCHANGED <<workspace, toggled>>
             /\ Reply(r, [status |-> "ok", value |-> IF r.key = "none" THEN "none" ELSE Actual(r.key)])
         \/ r.kind = "dispatch" /\ r.key = "workspace" /\ SwitchTo(r.value) /\ UNCHANGED toggled
             /\ Reply(r, [status |-> "ok", value |-> "none"])
         \/ r.kind = "dispatch" /\ r.key \in Toggles /\ focus # NoWindow /\ Toggle(r.key)
             /\ UNCHANGED workspace /\ Reply(r, [status |-> "ok", value |-> "none"])
         \/ r.kind = "dispatch" /\ UNCHANGED <<workspace, toggled>>
             /\ \/ Reply(r, Failure)
                \/ focus = NoWindow /\ r.key \in Toggles /\ Reply(r, [status |-> "ok", value |-> "none"])
  BY DEF HandleRequest, setVars
<1>4. r.kind = "query" => UNCHANGED <<workspace, toggled>>
  BY <1>3
<1>5. settled # Unknown => /\ method # "set" /\ call # "dispatching" /\ r.kind = "query"
  BY <1>1 DEF SetInv, CallInv
<1> HIDE DEF r
<1>8. ASSUME method = "set", undisturbed, focus # NoWindow, "maximized" \in toggled'[focus]
      PROVE  maximized
  <2>1. \/ UNCHANGED toggled
        \/ r.key \in Toggles /\ Toggle(r.key)
    BY <1>3
  <2>2. "maximized" \in toggled[focus]
    BY <1>3, <1>8, <2>1, ToggleEffect
  <2> QED BY <1>8, <2>2 DEF SetInv
<1>9. \A k, v : Excused(k, v)' = Excused(k, v)
  BY <1>3 DEF Excused
<1>10. settled # Unknown => Actual(settled.key)' = settled.value \/ Excused(settled.key, settled.value)
  BY <1>3, <1>4, <1>5, ActualKept DEF SetInv
<1>6. CASE r.awaited
  <2>1. Len(queue) = 1 /\ queue' = <<>> /\ call # "idle" /\ answer.status = "none"
    BY <1>1, <1>2, <1>6 DEF AwaitInv
  <2>2. DOMAIN queue' = {} /\ answer'.status \in {"ok", "error"}
    BY <1>2, <1>3, <1>6, <2>1 DEF Reply, Failure
  <2>3. AwaitInv'
    BY <2>1, <2>2 DEF AwaitInv
  <2>4. ASSUME method = "set", call = "querying", answer'.status = "ok"
        PROVE  answer'.value = Actual(key)'
    <3>1. r.kind = "query" /\ r.key = key
      BY <1>1, <1>6, <2>4 DEF AwaitInv
    <3>2. key # "none"
      BY <2>4 DEF CallInv
    <3>3. answer'.value = Actual(key)
      BY <1>3, <1>6, <3>1, <3>2 DEF Reply
    <3> QED BY <1>3, <1>4, <3>1, <3>3, ActualKept
  <2>5. ASSUME call = "dispatching", answer'.status = "ok", undisturbed
        PROVE  Actual(key)' = want \/ Excused(key, want)
    <3>1. r.kind = "dispatch" /\ r.key = key /\ r.value = want /\ method = "set"
      BY <1>1, <1>6, <2>5 DEF AwaitInv, CallInv
    <3>2. key \in Keys /\ want \in ValuesOf(key)
      BY <3>1 DEF CallInv
    <3>3. CASE key = "workspace" /\ SwitchTo(want)
      BY <1>3, <3>3 DEF SwitchTo, Actual
    <3>4. CASE key \in Toggles /\ focus # NoWindow /\ Toggle(key)
      <4>1. want \in {"true", "false"}
        BY <3>2, <3>4, KeysAndValues
      <4>2. Actual(key) # want
        BY <2>1, <2>5, <3>4 DEF SetInv
      <4>3. "maximized" \in toggled[focus] => maximized
        BY <2>5, <3>1, <3>4 DEF SetInv
      <4> QED BY <1>3, <3>4, <4>1, <4>2, <4>3, ToggleEffect DEF Excused
    <3>5. CASE key \in Toggles /\ focus = NoWindow
      BY <3>5 DEF Excused
    <3> QED BY <1>3, <1>6, <2>5, <3>1, <3>3, <3>4, <3>5 DEF Reply, Failure
  <2> QED BY <1>3, <1>8, <1>9, <1>10, <2>1, <2>2, <2>3, <2>4, <2>5 DEF SetInv
<1>7. CASE ~r.awaited
  <2>1. answer' = answer /\ ~(call # "idle" /\ answer.status = "ok")
    BY <1>1, <1>3, <1>7 DEF Reply, AwaitInv
  <2>2. AwaitInv'
    <3>1. \A i \in DOMAIN queue' : i + 1 = Len(queue) <=> i = Len(queue')
      BY <1>2, <1>1
    <3> QED BY <1>2, <1>3, <2>1, <3>1 DEF AwaitInv
  <2>3. ~(call = "dispatching" /\ key \in Toggles)
    BY <1>1, <1>7 DEF SetInv
  <2>4. settled # Unknown => \A i \in DOMAIN queue' : queue'[i].kind = "query"
    BY <1>2, <1>3 DEF SetInv
  <2> QED BY <1>3, <1>8, <1>9, <1>10, <2>1, <2>2, <2>3, <2>4 DEF SetInv
<1> QED BY <1>6, <1>7

LEMMA CallsKeepSet ==
  ASSUME TypesInv, AwaitInv, SetInv,
         \/ CallInit \/ CallGet \/ (\E k \in Keys : \E v \in ValuesOf(k) : CallSet(k, v))
         \/ QueryReturns
  PROVE  AwaitInv' /\ SetInv'
<1> USE DEF TypesInv
<1>1. /\ UNCHANGED <<focus, workspace, toggled>> /\ \A k : Actual(k)' = Actual(k)
  <2>1. UNCHANGED <<focus, workspace, toggled>>
    BY DEF CallInit, CallGet, CallSet, QueryReturns, otherVars, compositorVars
  <2> QED BY <2>1, ActualKept
<1>2. call = "idle" => \A i \in DOMAIN queue : ~queue[i].awaited
  BY DEF AwaitInv
<1>3. CASE CallInit \/ CallGet
  <2>1. /\ call = "idle" /\ Send("query", "none", "none") /\ call' = "querying" /\ method' # "set"
        /\ settled' = settled /\ maximized' = maximized
    BY <1>3 DEF CallInit, CallGet, Send, CallInv, setVars
  <2>2. /\ AwaitInv'
        /\ \A i \in DOMAIN queue' : (i \in DOMAIN queue /\ queue'[i] = queue[i]) \/ queue'[i].kind = "query"
    BY <1>2, <2>1, SendAwaits
  <2> QED BY <1>1, <2>1, <2>2 DEF SetInv, Excused
<1>4. ASSUME NEW k \in Keys, NEW v \in ValuesOf(k), CallSet(k, v) PROVE AwaitInv' /\ SetInv'
  <2>1. /\ call = "idle" /\ method' = "set" /\ key' = k /\ want' = v /\ settled' = Unknown
        /\ v \in Values /\ maximized' = (focus # NoWindow /\ "maximized" \in toggled[focus])
    BY <1>4, KeysAndValues DEF CallSet
  <2>2. CASE k \in Toggles
    <3>1. Send("query", k, "none") /\ call' = "querying"
      BY <1>4, <2>2 DEF CallSet, Send
    <3>2. AwaitInv' /\ answer'.status # "ok"
      BY <1>2, <2>1, <3>1, SendAwaits
    <3> QED BY <1>1, <2>1, <3>1, <3>2 DEF SetInv
  <2>3. CASE k \notin Toggles
    <3>1. Send("dispatch", k, v) /\ call' = "dispatching"
      BY <1>4, <2>3 DEF CallSet, Send
    <3>2. AwaitInv' /\ answer'.status # "ok"
      BY <1>2, <2>1, <3>1, SendAwaits
    <3> QED BY <1>1, <2>1, <2>3, <3>1, <3>2 DEF SetInv
  <2> QED BY <2>2, <2>3
<1>5. CASE QueryReturns
  <2>1. /\ call = "querying" /\ answer.status = "ok" /\ method = "set" /\ answer.value # want
        /\ Send("dispatch", key, want) /\ call' = "dispatching" /\ settled = Unknown
        /\ UNCHANGED <<method, key, want, undisturbed, maximized, settled>>
    BY <1>5 DEF QueryReturns, NeedsToggle, Send, SetInv, setVars
  <2>2. queue = <<>> /\ \A i \in DOMAIN queue : ~queue[i].awaited
    BY <2>1 DEF AwaitInv
  <2>3. key \in Keys /\ want \in Values
    BY <2>1, KeysAndValues DEF CallInv
  <2>4. AwaitInv' /\ answer'.status # "ok" /\ \A i \in DOMAIN queue' : queue'[i].awaited
    BY <2>1, <2>2, <2>3, SendAwaits
  <2> QED BY <1>1, <2>1, <2>4 DEF SetInv
<1> QED BY <1>3, <1>4, <1>5

LEMMA ReturnsKeepSet ==
  ASSUME TypesInv, AwaitInv, SetInv, Returns \/ ReturnsError \/ TimesOut
  PROVE  AwaitInv' /\ SetInv'
<1> USE DEF TypesInv
<1>1. /\ UNCHANGED <<focus, workspace, toggled>> /\ \A k : Actual(k)' = Actual(k)
  <2>1. UNCHANGED <<focus, workspace, toggled>>
    BY DEF Returns, ReturnsError, TimesOut, Fails, otherVars, compositorVars
  <2> QED BY <2>1, ActualKept
<1>2. EndCall /\ call # "idle" /\ UNCHANGED maximized
  BY DEF Returns, ReturnsError, TimesOut, Fails, setVars
<1>3. call' = "idle" /\ method' = "init" /\ answer'.status = "none"
  BY <1>2 DEF EndCall, NoAnswer
<1>4. DOMAIN queue' = DOMAIN queue /\ \A i \in DOMAIN queue : queue'[i].kind = queue[i].kind /\ ~queue'[i].awaited
  BY <1>2, EndCallQueue
<1>5. AwaitInv'
  BY <1>3, <1>4 DEF AwaitInv
<1>6. CASE settled' = settled
  BY <1>1, <1>2, <1>3, <1>4, <1>5, <1>6 DEF SetInv, Excused
<1>7. CASE settled' # settled
  <2>1. /\ answer.status = "ok" /\ method = "set" /\ undisturbed
        /\ ~NeedsToggle /\ settled' = [key |-> key, value |-> want]
    BY <1>7 DEF Returns, ReturnsError, TimesOut, Fails, setVars
  <2>2. queue = <<>> /\ DOMAIN queue = {}
    BY <1>2, <2>1 DEF AwaitInv
  <2>3. Actual(key) = want \/ Excused(key, want)
    <3>1. CASE call = "querying"
      BY <2>1, <3>1 DEF NeedsToggle, SetInv
    <3>2. CASE call = "dispatching"
      BY <2>1, <3>2 DEF SetInv
    <3> QED BY <1>2, <3>1, <3>2 DEF CommandTypeOK
  <2>4. settled'.key = key /\ settled'.value = want
    BY <2>1
  <2>5. Actual(settled.key)' = settled'.value \/ Excused(settled.key, settled.value)'
    BY <1>1, <1>2, <2>3, <2>4 DEF Actual, Excused
  <2> QED BY <1>3, <1>4, <1>5, <2>2, <2>5 DEF SetInv
<1> QED BY <1>6, <1>7

LEMMA SetKept ==
  ASSUME TypesInv, AwaitInv, SetInv, Next
  PROVE  AwaitInv' /\ SetInv'
<1>1. CASE \/ \E w \in Windows \cup {NoWindow} : UserFocuses(w)
           \/ \E k \in Toggles : UserToggles(k)
           \/ UserMaximizes
           \/ \E ws \in Workspaces : UserSwitches(ws)
           \/ \E l \in OtherLines : SomethingElse(l)
  <2>1. UNCHANGED commandVars /\ settled' = Unknown /\ undisturbed' = FALSE
    BY <1>1 DEF UserFocuses, UserToggles, UserMaximizes, UserSwitches, SomethingElse, Acts
  <2> QED BY <2>1 DEF commandVars, AwaitInv, SetInv
<1>2. CASE HandleRequest
  BY <1>2, HandlingKeepsSet
<1>3. CASE Dies
  <2>1. /\ queue' = <<>> /\ UNCHANGED <<focus, workspace, toggled, call, method, key, want, undisturbed, maximized,
                        settled>>
        /\ answer' = answer \/ answer'.status = "error"
    BY <1>3 DEF Dies, Failure, setVars
  <2>2. DOMAIN queue' = {}
    BY <2>1
  <2> QED BY <2>1, <2>2 DEF AwaitInv, SetInv, Actual, Excused
<1>4. CASE \/ CallInit \/ CallGet \/ (\E k \in Keys : \E v \in ValuesOf(k) : CallSet(k, v))
           \/ QueryReturns
  BY <1>4, CallsKeepSet
<1>5. CASE Returns \/ ReturnsError \/ TimesOut
  BY <1>5, ReturnsKeepSet
<1>6. ASSUME UNCHANGED <<compositorVars, call, method, key, want, answer, queue, setVars>>
      PROVE  AwaitInv' /\ SetInv'
  BY <1>6 DEF compositorVars, setVars, AwaitInv, SetInv, Actual, Excused
<1>7. CASE Subscribe \/ Shutdown
  BY <1>6, <1>7 DEF Subscribe, Shutdown
<1>8. CASE ReadLine \/ ReadFails \/ EndOfLines \/ SendEvent \/ SendFails \/ HandleEvent \/ EventsEnd
  BY <1>6, <1>8 DEF ReadLine, ReadFails, EndOfLines, SendEvent, SendFails, HandleEvent, EventsEnd, commandVars
<1> QED BY <1>1, <1>2, <1>3, <1>4, <1>5, <1>7, <1>8 DEF Next

CommandInv == TypesInv /\ AwaitInv /\ SetInv

LEMMA CommandsSafe == Spec => []CommandInv
<1>1. Init => CommandInv
  <2> SUFFICES ASSUME Init PROVE AwaitInv /\ SetInv
    BY TypesAtFirst DEF CommandInv
  <2>1. queue = <<>> /\ call = "idle" /\ method = "init" /\ settled = Unknown
    BY DEF Init
  <2> QED BY <2>1 DEF AwaitInv, SetInv
<1>2. CommandInv /\ [Next]_vars => CommandInv'
  <2> SUFFICES ASSUME CommandInv, [Next]_vars PROVE AwaitInv' /\ SetInv'
    BY TypesKept DEF CommandInv
  <2>1. CASE Next
    BY <2>1, SetKept DEF CommandInv
  <2>2. CASE UNCHANGED vars
    BY <2>2 DEF vars, compositorVars, commandVars, setVars, CommandInv, AwaitInv, SetInv, Actual,
       Excused
  <2> QED BY <2>1, <2>2
<1> QED BY <1>1, <1>2, PTL DEF Spec

(* A set that succeeds while nobody else acts has its effect and keeps it,   *)
(* however many requests whose methods had timed out were still in the       *)
(* queue: the query comes after them, and its toggle is the only one (set    *)
(* and command).  It need not when there is no window to toggle, or when     *)
(* the window that was to leave fullscreen was maximized.                    *)
THEOREM SetsHold == Spec => []SetHolds
<1>1. CommandInv => SetHolds
  BY DEF CommandInv, SetInv, SetHolds, Excused
<1> QED BY <1>1, CommandsSafe, PTL
-----------------------------------------------------------------------------
(* FlattenSeq, which is recursive: the facts are by induction on the length, *)
(* as the least number that would refute them.                               *)

(* Three sequences, whichever two are joined first.                          *)
LEMMA Regroup ==
  ASSUME NEW A, NEW a \in Seq(A), NEW b \in Seq(A), NEW c \in Seq(A)
  PROVE  a \o (b \o c) = (a \o b) \o c
BY ONLY ConcatAssociative

LEMMA LeastOf ==
  ASSUME NEW S \in SUBSET Nat, S # {}
  PROVE  \E n \in S : \A m \in S : n <= m
<1> DEFINE R == OpToRel(<, Nat)
<1>1. IsWellFoundedOn(R, Nat)
  BY NatLessThanWellFounded, Zenon
<1>2. R = {p \in Nat \X Nat : p[1] < p[2]}
  BY DEF OpToRel
<1> HIDE DEF R
<1>3. PICK n \in S : \A m \in S : <<m, n>> \notin R
  BY <1>1, WFMin
<1>4. ASSUME NEW m \in S PROVE n <= m
  <2>1. <<m, n>> \in Nat \X Nat /\ <<m, n>>[1] = m /\ <<m, n>>[2] = n
    OBVIOUS
  <2>2. ~(m < n)
    BY <1>2, <1>3, <2>1
  <2> QED BY <2>2
<1> QED BY <1>4

(* The joins of the first sequences, one more at a time.                     *)
Joins(f, s, n, A) ==
  /\ f \in [1..n -> Seq(A)]
  /\ f[1] = s[1]
  /\ \A i \in 2..n : f[i] = f[i - 1] \o s[i]

LEMMA JoinsExist ==
  ASSUME NEW A, NEW s \in Seq(Seq(A)), NEW n \in 1..Len(s)
  PROVE  \E f : Joins(f, s, n, A)
<1> DEFINE bad == {k \in 1..Len(s) : ~\E f : Joins(f, s, k, A)}
<1> SUFFICES ASSUME bad # {} PROVE FALSE
  OBVIOUS
<1>1. PICK k \in bad : \A m \in bad : k <= m
  <2>1. bad \in SUBSET Nat
    OBVIOUS
  <2> HIDE DEF bad
  <2> QED BY <2>1, LeastOf
<1>2. k \in 1..Len(s) /\ ~\E f : Joins(f, s, k, A)
  BY <1>1
<1>3. Len(s) \in Nat /\ \A i \in 1..Len(s) : s[i] \in Seq(A)
  OBVIOUS
<1>4. CASE k = 1
  <2> DEFINE f == [i \in 1..1 |-> s[1]]
  <2>1. Joins(f, s, 1, A)
    BY <1>2, <1>3, <1>4 DEF Joins
  <2> QED BY <1>2, <1>4, <2>1
<1>5. CASE k # 1
  <2>1. k - 1 \in 1..Len(s) /\ k - 1 \notin bad /\ k \in Nat /\ k > 1
    <3>1. k \in Nat /\ k > 1 /\ k - 1 \in 1..Len(s) /\ ~(k <= k - 1)
      BY <1>2, <1>3, <1>5
    <3> HIDE DEF bad
    <3> QED BY <1>1, <3>1
  <2>2. PICK g : Joins(g, s, k - 1, A)
    BY <2>1
  <2> DEFINE f == [i \in 1..k |-> IF i = k THEN g[k - 1] \o s[k] ELSE g[i]]
  <2>3. g[k - 1] \in Seq(A) /\ s[k] \in Seq(A) /\ g[k - 1] \o s[k] \in Seq(A)
    <3>1. g[k - 1] \in Seq(A)
      BY <2>1, <2>2 DEF Joins
    <3>2. s[k] \in Seq(A)
      BY <1>2, <1>3
    <3> QED BY <3>1, <3>2
  <2>4. f \in [1..k -> Seq(A)]
    <3>1. \A i \in 1..k : i # k => i \in 1..(k - 1)
      BY <2>1
    <3>2. \A i \in 1..k : f[i] \in Seq(A)
      BY <2>2, <2>3, <3>1 DEF Joins
    <3> QED BY <3>2
  <2>5. f[1] = s[1]
    BY <2>1, <2>2 DEF Joins
  <2>6. ASSUME NEW i \in 2..k PROVE f[i] = f[i - 1] \o s[i]
    <3>1. CASE i = k
      <4>1. k \in 1..k /\ k - 1 \in 1..k /\ k - 1 # k
        BY <2>1
      <4>2. f[k] = g[k - 1] \o s[k] /\ f[k - 1] = g[k - 1]
        BY <4>1
      <4> HIDE DEF f
      <4> QED BY <3>1, <4>2
    <3>2. CASE i # k
      <4>1. i \in 2..(k - 1) /\ f[i] = g[i] /\ f[i - 1] = g[i - 1]
        BY <2>1, <3>2
      <4> QED BY <2>2, <4>1 DEF Joins
    <3> QED BY <3>1, <3>2
  <2>7. Joins(f, s, k, A)
    <3> HIDE DEF f
    <3> QED BY <2>4, <2>5, <2>6 DEF Joins
  <2> QED BY <1>2, <2>7
<1> QED BY <1>4, <1>5

LEMMA FlattenIsJoin ==
  ASSUME NEW A, NEW s \in Seq(Seq(A)), s # <<>>, NEW f, Joins(f, s, Len(s), A)
  PROVE  FlattenSeq(s) = f[Len(s)]
<1> DEFINE n == Len(s)
           Def(g) == g = [i \in 1..n |-> IF i = 1 THEN s[i] ELSE g[i - 1] \o s[i]]
           c == CHOOSE g : Def(g)
<1>1. n \in Nat /\ n >= 1
  OBVIOUS
<1>2. FlattenSeq(s) = c[n]
  BY <1>1 DEF FlattenSeq
<1>3. Def(f)
  <2>1. f \in [1..n -> Seq(A)] /\ f[1] = s[1] /\ \A i \in 2..n : f[i] = f[i - 1] \o s[i]
    BY DEF Joins
  <2>2. \A i \in 1..n : i = 1 \/ i \in 2..n
    BY <1>1
  <2> HIDE DEF n
  <2> QED BY <2>1, <2>2
<1>4. Def(c)
  <2> HIDE DEF Def
  <2> QED BY <1>3
<1>5. \A i \in 1..n : c[i] = IF i = 1 THEN s[i] ELSE c[i - 1] \o s[i]
  <2> HIDE DEF c, n
  <2> QED BY <1>4
<1>6. \A i \in 1..n : f[i] = IF i = 1 THEN s[i] ELSE f[i - 1] \o s[i]
  <2> HIDE DEF c, n
  <2> QED BY <1>3
<1> DEFINE bad == {i \in 1..n : c[i] # f[i]}
<1>7. bad = {}
  <2> SUFFICES ASSUME bad # {} PROVE FALSE
    OBVIOUS
  <2> HIDE DEF n, c, Def
  <2>1. bad \in SUBSET Nat
    BY <1>1
  <2>2. PICK i \in bad : \A j \in bad : i <= j
    <3> HIDE DEF bad
    <3> QED BY <2>1, LeastOf
  <2>3. i \in 1..n /\ c[i] # f[i]
    BY <2>2
  <2>4. i # 1
    BY <1>5, <1>6, <2>3
  <2>5. i - 1 \in 1..n /\ i - 1 \notin bad
    <3>1. i \in Nat /\ i - 1 \in 1..n /\ ~(i <= i - 1)
      BY <1>1, <2>3, <2>4
    <3> HIDE DEF bad
    <3> QED BY <2>2, <3>1
  <2>6. c[i - 1] = f[i - 1]
    BY <2>5
  <2> QED BY <1>5, <1>6, <2>3, <2>4, <2>6
<1> QED
  <2>1. n \in 1..n /\ n \notin bad
    <3> HIDE DEF bad, n
    <3> QED BY <1>1, <1>7
  <2>2. c[n] = f[n]
    <3> HIDE DEF c, n
    <3> QED BY <2>1
  <2> QED BY <1>2, <2>2

LEMMA FlattenEmpty == FlattenSeq(<<>>) = <<>>
BY DEF FlattenSeq

LEMMA FlattenType ==
  ASSUME NEW A, NEW s \in Seq(Seq(A))
  PROVE  FlattenSeq(s) \in Seq(A)
<1>1. CASE s = <<>>
  <2>1. <<>> \in Seq(A)
    OBVIOUS
  <2> QED BY <1>1, <2>1, FlattenEmpty
<1>2. CASE s # <<>>
  <2>1. Len(s) \in Nat /\ Len(s) \in 1..Len(s)
    BY <1>2
  <2>2. PICK f : Joins(f, s, Len(s), A)
    BY <2>1, JoinsExist
  <2>3. FlattenSeq(s) = f[Len(s)]
    BY <1>2, <2>2, FlattenIsJoin
  <2>4. f[Len(s)] \in Seq(A)
    BY <2>1, <2>2 DEF Joins
  <2> QED BY <2>3, <2>4
<1> QED BY <1>1, <1>2

LEMMA FlattenAppend ==
  ASSUME NEW A, NEW s \in Seq(Seq(A)), NEW t \in Seq(A)
  PROVE  FlattenSeq(Append(s, t)) = FlattenSeq(s) \o t
<1> DEFINE r == Append(s, t)
           n == Len(s)
<1>1. /\ r \in Seq(Seq(A)) /\ r # <<>> /\ Len(r) = n + 1 /\ n \in Nat
      /\ r[n + 1] = t /\ \A i \in 1..n : r[i] = s[i]
  <2>1. t \in Seq(A) => r \in Seq(Seq(A)) /\ Len(r) = n + 1 /\ n \in Nat
    BY AppendProperties
  <2>2. r[n + 1] = t /\ \A i \in 1..n : r[i] = s[i]
    BY AppendProperties
  <2>3. r # <<>>
    BY AppendProperties
  <2> QED BY <2>1, <2>2, <2>3
<1> HIDE DEF r, n
<1>2. CASE s = <<>>
  <2> DEFINE f == [i \in 1..1 |-> t]
  <2>1. n = 0 /\ r[1] = t /\ Len(r) = 1
    BY <1>1, <1>2 DEF n
  <2>2. Joins(f, r, 1, A)
    BY <2>1 DEF Joins
  <2>3. FlattenSeq(r) = t
    <3>1. f[1] = t
      OBVIOUS
    <3> HIDE DEF f
    <3> QED BY <1>1, <2>1, <2>2, <3>1, FlattenIsJoin
  <2> QED BY <1>2, <2>3, FlattenEmpty DEF r
<1>3. CASE s # <<>>
  <2>1. n \in 1..n
    BY <1>1, <1>3 DEF n
  <2>2. PICK f : Joins(f, s, n, A)
    BY <2>1, JoinsExist DEF n
  <2>3. FlattenSeq(s) = f[n] /\ f[n] \in Seq(A)
    BY <1>3, <2>1, <2>2, FlattenIsJoin DEF n, Joins
  <2> DEFINE g == [i \in 1..(n + 1) |-> IF i = n + 1 THEN f[n] \o t ELSE f[i]]
  <2>4. g \in [1..(n + 1) -> Seq(A)]
    <3>1. \A i \in 1..(n + 1) : i # n + 1 => i \in 1..n
      BY <1>1
    <3>2. f[n] \o t \in Seq(A)
      BY <2>3
    <3>3. \A i \in 1..(n + 1) : g[i] \in Seq(A)
      BY <2>2, <3>1, <3>2 DEF Joins
    <3> QED BY <3>3
  <2>5. g[1] = r[1]
    BY <1>1, <2>1, <2>2 DEF Joins
  <2>6. ASSUME NEW i \in 2..(n + 1) PROVE g[i] = g[i - 1] \o r[i]
    <3>1. CASE i = n + 1
      <4>1. g[i] = f[n] \o t /\ i - 1 = n /\ g[n] = f[n] /\ r[i] = t
        BY <1>1, <2>1, <3>1
      <4> QED BY <4>1
    <3>2. CASE i # n + 1
      <4>1. i \in 2..n /\ g[i] = f[i] /\ g[i - 1] = f[i - 1] /\ r[i] = s[i]
        BY <1>1, <3>2
      <4> QED BY <2>2, <4>1 DEF Joins
    <3> QED BY <3>1, <3>2
  <2>7. g[n + 1] = f[n] \o t
    BY <1>1
  <2>8. Joins(g, r, n + 1, A)
    <3> HIDE DEF g
    <3> QED BY <2>4, <2>5, <2>6 DEF Joins
  <2>9. FlattenSeq(r) = g[n + 1]
    <3> HIDE DEF g
    <3> QED BY <1>1, <2>8, FlattenIsJoin
  <2> QED BY <2>3, <2>7, <2>9 DEF r
<1> QED BY <1>2, <1>3

LEMMA FlattenTail ==
  ASSUME NEW A, NEW s \in Seq(Seq(A)), s # <<>>
  PROVE  FlattenSeq(s) = s[1] \o FlattenSeq(Tail(s))
<1> DEFINE t == Tail(s)
           n == Len(t)
<1>1. /\ t \in Seq(Seq(A)) /\ n \in Nat /\ Len(s) = n + 1
      /\ s[1] \in Seq(A) /\ \A i \in 1..n : t[i] = s[i + 1]
  OBVIOUS
<1> HIDE DEF t, n
<1>2. CASE t = <<>>
  <2>1. n = 0 /\ Len(s) = 1
    BY <1>1, <1>2 DEF n
  <2> DEFINE f == [i \in 1..1 |-> s[1]]
  <2>2. Joins(f, s, 1, A) /\ f[1] = s[1]
    BY <1>1 DEF Joins
  <2>3. FlattenSeq(s) = s[1]
    <3> HIDE DEF f
    <3> QED BY <2>1, <2>2, FlattenIsJoin
  <2>4. s[1] \o <<>> = s[1]
    BY <1>1
  <2> QED BY <1>2, <2>3, <2>4, FlattenEmpty DEF t
<1>3. CASE t # <<>>
  <2>1. n \in 1..n
    BY <1>1, <1>3 DEF n
  <2>2. PICK f : Joins(f, t, n, A)
    BY <1>1, <2>1, JoinsExist DEF n
  <2>3. FlattenSeq(t) = f[n]
    BY <1>1, <1>3, <2>2, FlattenIsJoin DEF n
  <2> DEFINE g == [i \in 1..(n + 1) |-> IF i = 1 THEN s[1] ELSE s[1] \o f[i - 1]]
  <2>4. \A i \in 1..n : f[i] \in Seq(A) /\ s[1] \o f[i] \in Seq(A)
    <3>1. \A i \in 1..n : f[i] \in Seq(A)
      BY <2>2 DEF Joins
    <3> QED BY <1>1, <3>1
  <2>5. g \in [1..(n + 1) -> Seq(A)] /\ g[1] = s[1] /\ g[n + 1] = s[1] \o f[n]
    <3>1. \A i \in 1..(n + 1) : i # 1 => i - 1 \in 1..n
      BY <1>1
    <3>3. 1 \in 1..(n + 1) /\ n + 1 \in 1..(n + 1) /\ n + 1 # 1 /\ (n + 1) - 1 = n
      BY <1>1, <2>1
    <3>2. \A i \in 1..(n + 1) : g[i] \in Seq(A)
      BY <1>1, <2>4, <3>1
    <3> QED BY <3>2, <3>3
  <2>6. ASSUME NEW i \in 2..(n + 1) PROVE g[i] = g[i - 1] \o s[i]
    <3>0. i \in Nat /\ i \in 1..(n + 1) /\ i # 1 /\ i - 1 \in 1..n /\ (i - 1) + 1 = i
      BY <1>1
    <3>1. i - 1 \in 1..n /\ g[i] = s[1] \o f[i - 1] /\ s[i] = t[i - 1] /\ i \in Nat
      BY <1>1, <3>0
    <3>2. CASE i = 2
      <4>1. g[i - 1] = s[1] /\ f[i - 1] = t[1] /\ t[i - 1] = t[1]
        BY <2>2, <2>5, <3>2 DEF Joins
      <4> HIDE DEF g
      <4> QED BY <3>1, <3>2, <4>1
    <3>3. CASE i # 2
      <4>0. i - 1 \in 2..n /\ i - 2 \in 1..n /\ (i - 1) - 1 = i - 2 /\ i - 1 \in 1..(n + 1) /\ i - 1 # 1
        BY <1>1, <3>0, <3>3
      <4>1. i - 1 \in 2..n /\ i - 2 \in 1..n /\ g[i - 1] = s[1] \o f[i - 2] /\ (i - 1) - 1 = i - 2
        BY <4>0
      <4>2. f[i - 1] = f[i - 2] \o t[i - 1]
        BY <2>2, <4>1 DEF Joins
      <4>3. f[i - 2] \in Seq(A) /\ t[i - 1] \in Seq(A)
        BY <1>1, <2>4, <3>1, <4>1
      <4>4. s[1] \o (f[i - 2] \o t[i - 1]) = (s[1] \o f[i - 2]) \o t[i - 1]
        <5>1. s[1] \in Seq(A)
          BY <1>1
        <5> DEFINE x == f[i - 2]
                   y == t[i - 1]
                   z == s[1]
        <5>2. x \in Seq(A) /\ y \in Seq(A) /\ z \in Seq(A)
          BY <4>3, <5>1
        <5> HIDE DEF x, y, z
        <5>3. z \o (x \o y) = (z \o x) \o y
          BY ONLY <5>2, Regroup
        <5> QED BY <5>3 DEF x, y, z
      <4> QED BY <3>1, <4>1, <4>2, <4>4
    <3> QED BY <3>2, <3>3
  <2>7. Joins(g, s, n + 1, A)
    <3> HIDE DEF g
    <3> QED BY <2>5, <2>6 DEF Joins
  <2>8. FlattenSeq(s) = g[n + 1]
    <3> HIDE DEF g
    <3> QED BY <1>1, <2>7, FlattenIsJoin
  <2> QED BY <2>3, <2>5, <2>8 DEF t
<1> QED BY <1>2, <1>3
-----------------------------------------------------------------------------
(* The scripts that the controller starts.                                   *)

ScriptNames == UNION {Range(ScriptsAt[places]) : places \in SUBSET DOMAIN Config}

LEMMA ScriptsTyped ==
  /\ \A places \in SUBSET DOMAIN Config : ScriptsAt[places] \in Seq(ScriptNames)
  /\ ScriptsAt[{}] = <<>>
<1>1. ASSUME NEW places \in SUBSET DOMAIN Config
      PROVE  Cardinality(places) \in Nat /\ DOMAIN ScriptsAt[places] = 1..Cardinality(places)
             /\ ScriptsAt[places] = [n \in DOMAIN ScriptsAt[places] |-> ScriptsAt[places][n]]
  <2>1. IsFiniteSet(places)
    <3>1. IsFiniteSet(1..Len(Config)) /\ DOMAIN Config = 1..Len(Config)
      BY ConfigAssumption, FS_Interval
    <3> QED BY <3>1, FS_Subset
  <2>2. Cardinality(places) \in Nat
    BY <2>1, FS_CardinalityType
  <2> QED BY <2>2 DEF ScriptsAt
<1>2. ASSUME NEW places \in SUBSET DOMAIN Config
      PROVE  ScriptsAt[places] \in Seq(ScriptNames)
  <2> DEFINE s == ScriptsAt[places]
             n == Cardinality(places)
  <2>1. n \in Nat /\ DOMAIN s = 1..n /\ s = [i \in DOMAIN s |-> s[i]]
    BY <1>1
  <2>2. Range(s) \subseteq ScriptNames
    BY DEF ScriptNames
  <2> HIDE DEF s, n
  <2>3. \A i \in 1..n : s[i] \in ScriptNames
    BY <2>1, <2>2 DEF Range
  <2>4. s \in [1..n -> ScriptNames]
    BY <2>1, <2>3
  <2>5. s \in Seq(ScriptNames)
    BY <2>1, <2>4, SeqDef
  <2> QED BY <2>5 DEF s
<1>3. ScriptsAt[{}] = <<>>
  <2>1. {} \in SUBSET DOMAIN Config /\ Cardinality({}) = 0
    BY FS_EmptySet
  <2>2. DOMAIN ScriptsAt[{}] = 1..0
    BY <1>1, <2>1
  <2>3. ScriptsAt[{}] \in Seq(ScriptNames)
    BY <1>2, <2>1
  <2>4. \A s \in Seq(ScriptNames) : DOMAIN s = 1..0 => s = <<>>
    OBVIOUS
  <2> QED BY <2>2, <2>3, <2>4
<1> QED BY <1>2, <1>3

LEMMA TriggeredTyped ==
  ASSUME NEW e
  PROVE  /\ Triggered(e) \in Seq(ScriptNames)
         /\ e.name \notin Wanted => Triggered(e) = <<>>
<1> DEFINE run == {i \in WatchesForEvent(e.name) : ShouldRun(Config[i], e)}
<1>1. run \in SUBSET DOMAIN Config
  BY DEF WatchesForEvent
<1>2. e.name \notin Wanted => run = {}
  BY DEF WatchesForEvent, Wanted, SubscribedEvents
<1>3. Triggered(e) = ScriptsAt[run]
  BY DEF Triggered
<1> HIDE DEF run
<1> QED BY <1>1, <1>2, <1>3, ScriptsTyped

(* What the translator's state is after a line, and what the line starts.    *)
After(l, s) ==
  IF Understood(l) /\ l.name \in Tracked THEN [s EXCEPT ![l.name] = Remembered(l)] ELSE s

Before(l, s) == IF l.name \in Tracked THEN s[l.name] ELSE Nothing

Starts(l, s) == IF Understood(l) THEN Triggered(EventOf(l, Before(l, s))) ELSE <<>>

LEMMA StartsTyped == \A l, s : Starts(l, s) \in Seq(ScriptNames)
<1>1. <<>> \in Seq(ScriptNames)
  OBVIOUS
<1> QED BY <1>1, TriggeredTyped DEF Starts

(* The scripts due are those that handle_event starts for the same event.    *)
LEMMA DueIsTriggered ==
  ASSUME NEW l
  PROVE  Due(l) = Triggered(EventOf(l, Before(l, latest)))
<1> DEFINE e == EventOf(l, Before(l, latest))
           Met(w) == /\ w.enabled /\ w.event = e.name
                     /\ \A k \in DOMAIN w.prev : k \in DOMAIN e.prev /\ e.prev[k] = w.prev[k]
                     /\ \A k \in DOMAIN w.curr : k \in DOMAIN e.curr /\ e.curr[k] = w.curr[k]
           run == {i \in WatchesForEvent(e.name) : ShouldRun(Config[i], e)}
<1>1. Due(l) = ScriptsAt[{i \in DOMAIN Config : Met(Config[i])}]
  BY DEF Due, Before
<1>2. Triggered(e) = ScriptsAt[run]
  BY DEF Triggered
<1> HIDE DEF e
<1>3. ASSUME NEW i \in DOMAIN Config PROVE Met(Config[i]) <=> i \in run
  BY <1>3 DEF WatchesForEvent, ShouldRun, HasConditions, Matches, Meets
<1>4. \A i \in run : i \in DOMAIN Config
  BY DEF WatchesForEvent
<1>5. {i \in DOMAIN Config : Met(Config[i])} = run
  <2> HIDE DEF Met, run
  <2> QED BY <1>3, <1>4
<1> QED BY <1>1, <1>2, <1>5 DEF e

(* Scripts that are owed first are taken off.                                *)
LEMMA Accounted ==
  ASSUME NEW t \in Seq(ScriptNames), NEW r \in Seq(ScriptNames), unexpected = <<>>, owed = t \o r,
         Account(t)
  PROVE  unexpected' = <<>> /\ owed' = r
<1> DEFINE common == CommonPrefixes({t, owed})
           longest == LongestCommonPrefix({t, owed})
<1>1. /\ Len(t) \in Nat /\ Len(r) \in Nat /\ Len(owed) = Len(t) + Len(r) /\ owed \in Seq(ScriptNames)
      /\ <<>> \o t = t
  OBVIOUS
<1>2. t = SubSeq(t, 1, Len(t)) /\ t = SubSeq(owed, 1, Len(t))
  OBVIOUS
<1>3. t \in common
  <2>1. t \in Prefixes(t)
    <3>1. Len(t) \in 0..Len(t)
      BY <1>1
    <3> QED BY <1>2, <3>1 DEF Prefixes
  <2>2. IsPrefix(t, t) /\ IsPrefix(t, owed)
    BY <1>1, <1>2 DEF IsPrefix
  <2> QED BY <2>1, <2>2 DEF CommonPrefixes
<1>4. \A s \in common : IsPrefix(s, t) /\ Len(s) \in Nat
  <2>1. \A u \in Seq(ScriptNames) : \A s \in Prefixes(u) : s \in Seq(ScriptNames)
    BY DEF Prefixes
  <2>2. \A s \in common : \E u \in {t, owed} : s \in Prefixes(u)
    BY DEF CommonPrefixes
  <2>3. \A s \in common : IsPrefix(s, t)
    BY DEF CommonPrefixes
  <2>4. \A s \in common : s \in Seq(ScriptNames)
    <3> HIDE DEF common
    <3> QED BY <1>1, <2>1, <2>2
  <2> HIDE DEF common
  <2> QED BY <2>3, <2>4
<1>5. ASSUME NEW s, IsPrefix(s, t) PROVE Len(s) <= Len(t)
  BY <1>1, <1>5 DEF IsPrefix
<1>6. longest \in common /\ \A other \in common : Len(other) <= Len(longest)
  <2>1. \E s \in common : \A other \in common : Len(other) <= Len(s)
    BY <1>3, <1>4, <1>5
  <2> HIDE DEF common
  <2>2. longest = CHOOSE s \in common : \A other \in common : Len(other) <= Len(s)
    BY DEF LongestCommonPrefix, common
  <2> HIDE DEF longest
  <2> QED BY <2>1, <2>2
<1>7. Len(longest) = Len(t)
  <2>1. Len(t) <= Len(longest) /\ Len(longest) <= Len(t) /\ Len(longest) \in Nat
    <3> HIDE DEF common, longest
    <3> QED BY <1>3, <1>4, <1>5, <1>6
  <2> HIDE DEF longest
  <2> QED BY <1>1, <2>1
<1>8. /\ unexpected' = SubSeq(t, Len(longest) + 1, Len(t))
      /\ owed' = SubSeq(owed, Len(longest) + 1, Len(owed))
  BY <1>1 DEF Account
<1>9. SubSeq(t, Len(t) + 1, Len(t)) = <<>> /\ SubSeq(owed, Len(t) + 1, Len(owed)) = r
  OBVIOUS
<1> QED BY <1>7, <1>8, <1>9

(* A line for each of those that are under way: the state of the translator  *)
(* before it.  What it starts, the lines' scripts and those of the events on *)
(* their way to the controller are all that is owed.                         *)
Path(b) ==
  /\ b \in [1..(Len(lines) + 1) -> [Tracked -> States]]
  /\ b[1] = last /\ b[Len(lines) + 1] = latest
  /\ \A i \in 1..Len(lines) : b[i + 1] = After(lines[i], b[i])

Unread(b) == FlattenSeq([i \in 1..Len(lines) |-> Starts(lines[i], b[i])])

FollowInv ==
  stage \notin {"failed", "down"} =>
    unexpected = <<>> /\ \E b : Path(b) /\ owed = Coming \o Unread(b)

LEMMA ComingTyped ==
  ASSUME EventTypeOK
  PROVE  /\ [i \in DOMAIN events |-> Triggered(events[i])] \in Seq(Seq(ScriptNames))
         /\ Coming \in Seq(ScriptNames)
<1> DEFINE s == [i \in DOMAIN events |-> Triggered(events[i])]
<1>1. DOMAIN events = 1..Len(events) /\ Len(events) \in Nat
  BY DEF EventTypeOK
<1>2. s \in Seq(Seq(ScriptNames))
  <2>1. \A i \in 1..Len(events) : Triggered(events[i]) \in Seq(ScriptNames)
    BY TriggeredTyped
  <2> QED BY <1>1, <2>1, IsASeq
<1> HIDE DEF s
<1>3. FlattenSeq(s) \in Seq(ScriptNames)
  BY <1>2, FlattenType
<1>4. (IF reader = "sending" THEN Triggered(held) ELSE <<>>) \in Seq(ScriptNames)
  <2>1. <<>> \in Seq(ScriptNames)
    OBVIOUS
  <2> QED BY <2>1, TriggeredTyped
<1>5. Coming \in Seq(ScriptNames)
  BY <1>3, <1>4 DEF Coming, s
<1> QED BY <1>2, <1>5 DEF s

LEMMA UnreadTyped ==
  ASSUME EventTypeOK, NEW b
  PROVE  /\ [i \in 1..Len(lines) |-> Starts(lines[i], b[i])] \in Seq(Seq(ScriptNames))
         /\ Unread(b) \in Seq(ScriptNames)
<1> DEFINE s == [i \in 1..Len(lines) |-> Starts(lines[i], b[i])]
<1>1. Len(lines) \in Nat
  BY DEF EventTypeOK
<1>2. s \in Seq(Seq(ScriptNames))
  <2>1. \A i \in 1..Len(lines) : Starts(lines[i], b[i]) \in Seq(ScriptNames)
    BY StartsTyped
  <2> QED BY <1>1, <2>1, IsASeq
<1> HIDE DEF s
<1>3. FlattenSeq(s) \in Seq(ScriptNames)
  BY <1>2, FlattenType
<1> QED BY <1>2, <1>3 DEF s, Unread

(* A line that is written is the last under way, and adds what it starts.    *)
LEMMA WritesKeepFollow ==
  ASSUME EventTypeOK, NEW l \in AllLines, Writes(l), FollowInv,
         UNCHANGED <<stage, unexpected, readerVars, events>>
  PROVE  FollowInv'
<1> SUFFICES ASSUME stage \notin {"failed", "down"}
             PROVE  unexpected' = <<>> /\ \E b : Path(b)' /\ owed' = Coming' \o Unread(b)'
  BY DEF FollowInv
<1>1. PICK b : unexpected = <<>> /\ Path(b) /\ owed = Coming \o Unread(b)
  BY DEF FollowInv
<1>2. Coming' = Coming /\ last' = last /\ unexpected' = <<>>
  BY <1>1 DEF Coming, readerVars
<1>3. CASE UNCHANGED <<lines, latest, owed>>
  <2>1. Path(b)' /\ Unread(b)' = Unread(b)
    BY <1>1, <1>2, <1>3 DEF Path, Unread
  <2> QED BY <1>1, <1>2, <1>3, <2>1
<1>4. CASE Connected /\ Announce(l)
  <2> DEFINE n == Len(lines)
             s == [i \in 1..n |-> Starts(lines[i], b[i])]
  <2>1. /\ lines' = Append(lines, l) /\ lines \in Seq(AllLines) /\ n \in Nat /\ Len(lines') = n + 1
        /\ lines' [n + 1] = l /\ \A i \in 1..n : lines'[i] = lines[i]
    <3>1. lines' = Append(lines, l) /\ lines \in Seq(AllLines)
      BY <1>4 DEF Announce, EventTypeOK
    <3> QED BY <3>1
  <2>2. latest' = After(l, latest) /\ owed' = owed \o Starts(l, latest)
    <3>1. CASE Understood(l)
      <4>1. owed' = owed \o Due(l) /\ Due(l) = Starts(l, latest)
        BY <1>4, <3>1, DueIsTriggered DEF Announce, Starts
      <4>2. latest' = After(l, latest)
        BY <1>4, <3>1 DEF Announce, After
      <4> QED BY <4>1, <4>2
    <3>2. CASE ~Understood(l)
      <4>1. latest' = latest /\ owed' = owed /\ Starts(l, latest) = <<>>
        BY <1>4, <3>2 DEF Announce, Starts
      <4>2. owed \o <<>> = owed
        <5>1. Coming \in Seq(ScriptNames) /\ Unread(b) \in Seq(ScriptNames)
          BY ComingTyped, UnreadTyped
        <5>2. owed \in Seq(ScriptNames)
          BY <1>1, <5>1
        <5> QED BY <5>2
      <4> QED BY <3>2, <4>1, <4>2 DEF After
    <3> QED BY <3>1, <3>2
  <2>3. b \in [1..(n + 1) -> [Tracked -> States]] /\ b[1] = last /\ b[n + 1] = latest
        /\ \A i \in 1..n : b[i + 1] = After(lines[i], b[i])
    BY <1>1 DEF Path
  <2>4. latest' \in [Tracked -> States]
    BY <1>4, WriteTypes
  <2> HIDE DEF n
  <2>5. PICK c \in [1..(n + 2) -> [Tracked -> States]] : c[n + 2] = latest' /\ \A i \in 1..(n + 1) : c[i] = b[i]
    <3> DEFINE c == [i \in 1..(n + 2) |-> IF i = n + 2 THEN latest' ELSE b[i]]
    <3> HIDE DEF Tracked, States
    <3>1. \A i \in 1..(n + 2) : i # n + 2 => i \in 1..(n + 1)
      BY <2>1
    <3>2. \A i \in 1..(n + 2) : c[i] \in [Tracked -> States]
      BY <2>3, <2>4, <3>1
    <3>3. c[n + 2] = latest' /\ \A i \in 1..(n + 1) : c[i] = b[i]
      BY <2>1
    <3> QED BY <3>2, <3>3
  <2>6. \A i \in 1..(n + 1) : c[i + 1] = After(lines'[i], c[i])
    <3> SUFFICES ASSUME NEW i \in 1..(n + 1) PROVE c[i + 1] = After(lines'[i], c[i])
      OBVIOUS
    <3>1. CASE i = n + 1
      <4>1. c[i + 1] = latest' /\ c[i] = latest /\ lines'[i] = l
        BY <2>1, <2>3, <2>5, <3>1
      <4> QED BY <2>2, <4>1
    <3>2. CASE i # n + 1
      <4>1. i \in 1..n /\ i + 1 \in 1..(n + 1)
        BY <2>1, <3>2
      <4>2. c[i + 1] = b[i + 1] /\ c[i] = b[i] /\ lines'[i] = lines[i]
        BY <2>1, <2>5, <4>1
      <4> QED BY <2>3, <4>1, <4>2
    <3> QED BY <3>1, <3>2
  <2>7. Path(c)'
    <3>1. c[1] = last' /\ Len(lines') + 1 = n + 2
      BY <1>2, <2>1, <2>3, <2>5
    <3> QED BY <2>1, <2>5, <2>6, <3>1 DEF Path
  <2>8. [i \in 1..Len(lines') |-> Starts(lines'[i], c[i])] = Append(s, Starts(l, latest))
    <3> DEFINE r == [i \in 1..(n + 1) |-> Starts(lines'[i], c[i])]
    <3>1. \A i \in 1..n : Starts(lines'[i], c[i]) = Starts(lines[i], b[i])
      BY <2>1, <2>5
    <3>2. Starts(lines'[n + 1], c[n + 1]) = Starts(l, latest)
      <4>1. n + 1 \in 1..(n + 1)
        BY <2>1
      <4> QED BY <2>1, <2>3, <2>5, <4>1
    <3>3. s \in Seq(Seq(ScriptNames)) /\ Len(s) = n /\ Starts(l, latest) \in Seq(ScriptNames)
      <4>1. s \in Seq(Seq(ScriptNames))
        BY UnreadTyped DEF n
      <4> QED BY <2>1, <4>1, StartsTyped
    <3>4. Append(s, Starts(l, latest)) = [i \in 1..(n + 1) |-> IF i = n + 1 THEN Starts(l, latest) ELSE s[i]]
      <4>1. ASSUME NEW u \in Seq(Seq(ScriptNames)), Len(u) = n, NEW t \in Seq(ScriptNames)
            PROVE  Append(u, t) = [i \in 1..(n + 1) |-> IF i = n + 1 THEN t ELSE u[i]]
        <5> DEFINE v == [i \in 1..(n + 1) |-> IF i = n + 1 THEN t ELSE u[i]]
        <5>1. Append(u, t) \in Seq(Seq(ScriptNames)) /\ Len(Append(u, t)) = n + 1
              /\ Append(u, t)[n + 1] = t /\ \A i \in 1..n : Append(u, t)[i] = u[i]
          BY <2>1, <4>1, AppendProperties
        <5>2. \A i \in 1..(n + 1) : i = n + 1 \/ i \in 1..n
          BY <2>1
        <5>3. v \in Seq(Seq(ScriptNames)) /\ Len(v) = n + 1
          <6>1. \A i \in 1..(n + 1) : v[i] \in Seq(ScriptNames)
            BY <4>1, <5>2
          <6>2. n + 1 \in Nat
            BY <2>1
          <6> QED BY <6>1, <6>2, IsASeq
        <5>4. \A i \in 1..(n + 1) : Append(u, t)[i] = v[i]
          BY <5>1, <5>2
        <5> HIDE DEF v
        <5>5. Append(u, t) = v
          BY <5>1, <5>3, <5>4, SeqEqual
        <5> QED BY <5>5 DEF v
      <4> HIDE DEF s
      <4> QED BY <3>3, <4>1
    <3>5. \A i \in 1..(n + 1) : i = n + 1 \/ i \in 1..n
      BY <2>1
    <3>6. \A i \in 1..(n + 1) : r[i] = IF i = n + 1 THEN Starts(l, latest) ELSE s[i]
      BY <3>1, <3>2, <3>5
    <3>7. r = [i \in 1..(n + 1) |-> IF i = n + 1 THEN Starts(l, latest) ELSE s[i]]
      <4> HIDE DEF s
      <4> QED BY <3>6
    <3> QED BY <2>1, <3>4, <3>7
  <2>9. Unread(c)' = Unread(b) \o Starts(l, latest)
    <3>1. Unread(b) = FlattenSeq(s) /\ Unread(c)' = FlattenSeq([i \in 1..Len(lines') |-> Starts(lines'[i], c[i])])
      BY DEF Unread, n
    <3>2. s \in Seq(Seq(ScriptNames)) /\ Starts(l, latest) \in Seq(ScriptNames)
      BY UnreadTyped, StartsTyped DEF n
    <3> HIDE DEF s
    <3>3. FlattenSeq(Append(s, Starts(l, latest))) = FlattenSeq(s) \o Starts(l, latest)
      BY <3>2, FlattenAppend
    <3> QED BY <2>8, <3>1, <3>3
  <2>10. owed' = Coming' \o Unread(c)'
    <3>1. Coming \in Seq(ScriptNames) /\ Unread(b) \in Seq(ScriptNames) /\ Starts(l, latest) \in Seq(ScriptNames)
      BY ComingTyped, UnreadTyped, StartsTyped
    <3>2. (Coming \o Unread(b)) \o Starts(l, latest) = Coming \o (Unread(b) \o Starts(l, latest))
      <4> DEFINE x == Coming
                 y == Unread(b)
                 z == Starts(l, latest)
      <4>1. x \in Seq(ScriptNames) /\ y \in Seq(ScriptNames) /\ z \in Seq(ScriptNames)
        BY <3>1
      <4> HIDE DEF x, y, z
      <4>2. (x \o y) \o z = x \o (y \o z)
        BY ONLY <4>1, Regroup
      <4> QED BY <4>2 DEF x, y, z
    <3> QED BY <1>1, <1>2, <2>2, <2>9, <3>2
  <2> QED BY <1>2, <2>7, <2>10
<1> QED BY <1>3, <1>4 DEF Writes, Announce, lineVars

(* The reader task takes the first of them; what it starts is in the event,  *)
(* if anybody wants that.                                                    *)
LEMMA ReadsKeepFollow ==
  ASSUME EventTypeOK, ReadLine, FollowInv
  PROVE  FollowInv'
<1> SUFFICES ASSUME stage' \notin {"failed", "down"}
             PROVE  unexpected' = <<>> /\ \E b : Path(b)' /\ owed' = Coming' \o Unread(b)'
  BY DEF FollowInv
<1>1. /\ UNCHANGED <<stage, unexpected, owed, events, latest>>
      /\ reader = "reading" /\ lines # <<>> /\ lines' = Tail(lines)
  BY DEF ReadLine, commandVars, scriptVars
<1>2. PICK b : unexpected = <<>> /\ Path(b) /\ owed = Coming \o Unread(b)
  BY <1>1 DEF FollowInv
<1> DEFINE n == Len(lines)
           l == lines[1]
           s == [i \in 1..n |-> Starts(lines[i], b[i])]
           t == Starts(l, last)
<1>3. /\ lines \in Seq(AllLines) /\ n \in Nat /\ n >= 1 /\ Head(lines) = l
      /\ Len(lines') = n - 1 /\ \A i \in 1..(n - 1) : lines'[i] = lines[i + 1]
  <2>1. lines \in Seq(AllLines)
    BY DEF EventTypeOK
  <2> QED BY <1>1, <2>1
<1>4. last' = After(l, last)
  BY <1>3 DEF ReadLine, After
<1>5. b \in [1..(n + 1) -> [Tracked -> States]] /\ b[1] = last /\ b[n + 1] = latest
      /\ \A i \in 1..n : b[i + 1] = After(lines[i], b[i])
  BY <1>2 DEF Path
<1>6. t \in Seq(ScriptNames) /\ Unread(b) = FlattenSeq(s) /\ s \in Seq(Seq(ScriptNames)) /\ Len(s) = n
  BY <1>3, StartsTyped, UnreadTyped DEF Unread
<1>7. t = IF reader' = "sending" THEN Triggered(held') ELSE <<>>
  <2>1. CASE Understood(l) /\ EventName[l.name] \in Wanted
    <3>1. held' = Translate(l) /\ reader' = "sending"
      BY <1>3, <2>1 DEF ReadLine
    <3> QED BY <2>1, <3>1 DEF Starts, Translate, Before
  <2>2. CASE Understood(l) /\ EventName[l.name] \notin Wanted
    <3>1. reader' = "reading"
      BY <1>1, <1>3, <2>2 DEF ReadLine
    <3>2. EventOf(l, Before(l, last)).name \notin Wanted
      BY <2>2 DEF EventOf
    <3>3. t = Triggered(EventOf(l, Before(l, last)))
      BY <2>2 DEF Starts
    <3> QED BY <3>1, <3>2, <3>3, TriggeredTyped
  <2>3. CASE ~Understood(l)
    <3>1. reader' = "reading"
      BY <1>1, <1>3, <2>3 DEF ReadLine
    <3> QED BY <2>3, <3>1 DEF Starts
  <2> QED BY <2>1, <2>2, <2>3
<1> HIDE DEF n
<1>8. PICK c \in [1..n -> [Tracked -> States]] : \A i \in 1..n : c[i] = b[i + 1]
  <2> DEFINE d == [i \in 1..n |-> b[i + 1]]
  <2>1. \A i \in 1..n : i + 1 \in 1..(n + 1)
    BY <1>3
  <2> HIDE DEF Tracked, States
  <2>2. \A i \in 1..n : d[i] \in [Tracked -> States]
    BY <1>5, <2>1
  <2>3. \A i \in 1..n : d[i] = b[i + 1]
    OBVIOUS
  <2> QED BY <2>2, <2>3
<1>9. Path(c)'
  <2>1. Len(lines') + 1 = n /\ 1 \in 1..n /\ n \in 1..n
    BY <1>3
  <2>2. c[1] = last' /\ c[n] = latest'
    BY <1>1, <1>3, <1>4, <1>5, <1>8, <2>1
  <2>3. ASSUME NEW i \in 1..(n - 1) PROVE c[i + 1] = After(lines'[i], c[i])
    <3>1. i \in 1..n /\ i + 1 \in 1..n
      BY <1>3
    <3> QED BY <1>3, <1>5, <1>8, <3>1
  <2> QED BY <1>3, <1>8, <2>1, <2>2, <2>3 DEF Path
<1>10. [i \in 1..Len(lines') |-> Starts(lines'[i], c[i])] = Tail(s) /\ s[1] = t /\ s # <<>>
  <2> DEFINE r == [i \in 1..(n - 1) |-> Starts(lines'[i], c[i])]
  <2>1. s[1] = t /\ 1 \in 1..n
    BY <1>3, <1>5
  <2>2. ASSUME NEW i \in 1..(n - 1) PROVE r[i] = s[i + 1]
    <3>1. i \in 1..n /\ i + 1 \in 1..n
      BY <1>3
    <3> QED BY <1>3, <1>8, <3>1
  <2> HIDE DEF s
  <2>3. s # <<>> /\ Tail(s) \in Seq(Seq(ScriptNames)) /\ Len(Tail(s)) = n - 1
        /\ \A i \in 1..(n - 1) : Tail(s)[i] = s[i + 1]
    BY <1>3, <1>6
  <2>4. r \in Seq(Seq(ScriptNames)) /\ Len(r) = n - 1
    <3>1. n - 1 \in Nat /\ \A i \in 1..(n - 1) : r[i] \in Seq(ScriptNames)
      BY <1>3, StartsTyped
    <3> QED BY <3>1, IsASeq
  <2>5. r = Tail(s)
    <3> HIDE DEF r
    <3>1. \A i \in 1..(n - 1) : r[i] = Tail(s)[i]
      BY <2>2, <2>3
    <3> QED BY <2>3, <2>4, <3>1, SeqEqual
  <2> QED BY <1>3, <2>1, <2>3, <2>5
<1>11. Unread(b) = t \o Unread(c)' /\ Unread(c)' \in Seq(ScriptNames)
  <2>1. Unread(c)' = FlattenSeq(Tail(s))
    BY <1>10 DEF Unread
  <2> HIDE DEF s, t
  <2>2. FlattenSeq(s) = s[1] \o FlattenSeq(Tail(s))
    BY <1>6, <1>10, FlattenTail
  <2>3. Tail(s) \in Seq(Seq(ScriptNames))
    BY <1>6, <1>10
  <2>4. FlattenSeq(Tail(s)) \in Seq(ScriptNames)
    BY ONLY <2>3, FlattenType
  <2>5. Unread(b) = FlattenSeq(s) /\ s[1] = t
    BY <1>6, <1>10
  <2> QED BY ONLY <2>1, <2>2, <2>4, <2>5
<1>12. owed' = Coming' \o Unread(c)'
  <2> DEFINE f == FlattenSeq([i \in DOMAIN events |-> Triggered(events[i])])
  <2>1. f \in Seq(ScriptNames)
    BY ComingTyped, FlattenType
  <2>2. Coming = f \o <<>> /\ Coming' = f \o t
    BY <1>1, <1>7 DEF Coming
  <2> HIDE DEF f, t
  <2>3. f \o <<>> = f
    BY <2>1
  <2>4. f \o (t \o Unread(c)') = (f \o t) \o Unread(c)'
    <3>1. t \in Seq(ScriptNames) /\ Unread(c)' \in Seq(ScriptNames)
      BY <1>6, <1>11
    <3> QED BY ONLY <2>1, <3>1, Regroup
  <2> QED BY <1>1, <1>2, <1>11, <2>2, <2>3, <2>4
<1> QED BY <1>1, <1>2, <1>9, <1>12

(* The event channel is in order.                                            *)
LEMMA ChannelKeepsFollow ==
  ASSUME TypesInv, SendEvent \/ HandleEvent, FollowInv
  PROVE  FollowInv'
<1> SUFFICES ASSUME stage' \notin {"failed", "down"}
             PROVE  unexpected' = <<>> /\ \E b : Path(b)' /\ owed' = Coming' \o Unread(b)'
  BY DEF FollowInv
<1>0. EventTypeOK
  BY DEF TypesInv
<1>1. UNCHANGED <<stage, lines, last, latest>>
  BY DEF SendEvent, HandleEvent, commandVars, lineVars, readerVars
<1>2. PICK b : unexpected = <<>> /\ Path(b) /\ owed = Coming \o Unread(b)
  BY <1>1 DEF FollowInv
<1>3. Path(b)' /\ Unread(b)' = Unread(b)
  BY <1>1, <1>2 DEF Path, Unread
<1> DEFINE s == [i \in DOMAIN events |-> Triggered(events[i])]
           u == IF reader = "sending" THEN Triggered(held) ELSE <<>>
<1>4. /\ s \in Seq(Seq(ScriptNames)) /\ FlattenSeq(s) \in Seq(ScriptNames)
      /\ Coming = FlattenSeq(s) \o u
      /\ events \in Seq(AllEvents) /\ Len(events) \in Nat /\ DOMAIN events = 1..Len(events)
      /\ Len(s) = Len(events)
  <2>1. s \in Seq(Seq(ScriptNames)) /\ Coming = FlattenSeq(s) \o u
    BY <1>0, ComingTyped DEF Coming
  <2>2. events \in Seq(AllEvents) /\ Len(events) \in Nat /\ DOMAIN events = 1..Len(events)
    BY <1>0 DEF EventTypeOK
  <2>3. Len(s) = Len(events)
    BY <2>2
  <2> HIDE DEF s
  <2> QED BY <2>1, <2>2, <2>3, FlattenType
<1>5. u \in Seq(ScriptNames)
  <2>1. <<>> \in Seq(ScriptNames)
    OBVIOUS
  <2> QED BY <2>1, TriggeredTyped
<1>6. CASE SendEvent
  <2>1. /\ reader = "sending" /\ reader' = "reading" /\ events' = Append(events, held)
        /\ UNCHANGED <<owed, unexpected>>
    BY <1>6 DEF SendEvent, scriptVars
  <2>2. u = Triggered(held)
    BY <2>1
  <2>3. [i \in DOMAIN events' |-> Triggered(events'[i])] = Append(s, u)
    <3> DEFINE r == [i \in DOMAIN events' |-> Triggered(events'[i])]
               n == Len(events)
    <3>1. /\ DOMAIN events' = 1..(n + 1) /\ events'[n + 1] = held /\ n \in Nat
          /\ \A i \in 1..n : events'[i] = events[i]
      <4>1. held \in AllEvents
        BY <1>0 DEF EventTypeOK
      <4> QED BY <1>4, <2>1, <4>1, AppendProperties
    <3>2. \A i \in 1..(n + 1) : i = n + 1 \/ i \in 1..n
      BY <3>1
    <3>3. /\ \A i \in 1..(n + 1) : r[i] \in Seq(ScriptNames)
          /\ r[n + 1] = u /\ \A i \in 1..n : r[i] = s[i]
      <4>1. \A i \in 1..(n + 1) : r[i] \in Seq(ScriptNames)
        BY <3>1, TriggeredTyped
      <4>2. n + 1 \in 1..(n + 1) /\ \A i \in 1..n : i \in 1..(n + 1)
        BY <3>1
      <4> QED BY <1>4, <2>2, <3>1, <4>1, <4>2
    <3>4. r \in Seq(Seq(ScriptNames)) /\ Len(r) = n + 1
      <4>1. n + 1 \in Nat /\ r = [i \in 1..(n + 1) |-> Triggered(events'[i])]
        BY <3>1
      <4>2. \A i \in 1..(n + 1) : Triggered(events'[i]) \in Seq(ScriptNames)
        BY TriggeredTyped
      <4> HIDE DEF r, n
      <4> QED BY <4>1, <4>2, IsASeq
    <3> HIDE DEF r, s, u
    <3>5. /\ Append(s, u) \in Seq(Seq(ScriptNames)) /\ Len(Append(s, u)) = n + 1
          /\ Append(s, u)[n + 1] = u /\ \A i \in 1..n : Append(s, u)[i] = s[i]
      BY <1>4, <1>5, AppendProperties
    <3> HIDE DEF n
    <3>6. \A i \in 1..(n + 1) : r[i] = Append(s, u)[i]
      BY <3>2, <3>3, <3>5
    <3>7. r = Append(s, u)
      BY <3>4, <3>5, <3>6, SeqEqual
    <3> QED BY <3>7 DEF r
  <2> HIDE DEF s, u
  <2>4. FlattenSeq(Append(s, u)) = FlattenSeq(s) \o u
    BY <1>4, <1>5, FlattenAppend
  <2>5. Coming' = (FlattenSeq(s) \o u) \o <<>>
    BY <2>1, <2>3, <2>4 DEF Coming
  <2>6. Coming' = Coming
    <3>1. FlattenSeq(s) \o u \in Seq(ScriptNames)
      BY <1>4, <1>5
    <3>2. \A v \in Seq(ScriptNames) : v \o <<>> = v
      OBVIOUS
    <3> QED BY <1>4, <2>5, <3>1, <3>2
  <2> QED BY <1>2, <1>3, <2>1, <2>6
<1>7. CASE HandleEvent
  <2>1. /\ events # <<>> /\ events' = Tail(events) /\ UNCHANGED <<reader, held>>
        /\ Account(Triggered(Head(events)))
    BY <1>7 DEF HandleEvent, readerVars
  <2> DEFINE t == Triggered(events[1])
             n == Len(events)
  <2>2. t \in Seq(ScriptNames) /\ Account(t) /\ s[1] = t /\ s # <<>>
    <3>1. 1 \in DOMAIN events /\ Head(events) = events[1]
      BY <1>4, <2>1
    <3>2. t \in Seq(ScriptNames)
      BY <3>1, TriggeredTyped
    <3>3. Account(t)
      BY <2>1, <3>1
    <3>4. s[1] = t
      BY <3>1
    <3>5. s # <<>>
      <4>1. DOMAIN s = DOMAIN events
        OBVIOUS
      <4> HIDE DEF s
      <4> QED BY <3>1, <4>1
    <3> QED BY <3>2, <3>3, <3>4, <3>5
  <2>3. [i \in DOMAIN events' |-> Triggered(events'[i])] = Tail(s)
    <3> DEFINE r == [i \in DOMAIN events' |-> Triggered(events'[i])]
    <3>1. /\ DOMAIN events' = 1..(n - 1) /\ n \in Nat /\ n >= 1
          /\ \A i \in 1..(n - 1) : events'[i] = events[i + 1]
      BY <1>4, <2>1
    <3>2. \A i \in 1..(n - 1) : i + 1 \in 1..n
      BY <3>1
    <3>3. \A i \in 1..(n - 1) : r[i] = s[i + 1]
      BY <1>4, <3>1, <3>2
    <3>4. r \in Seq(Seq(ScriptNames)) /\ Len(r) = n - 1
      <4>1. n - 1 \in Nat /\ r = [i \in 1..(n - 1) |-> Triggered(events'[i])]
        BY <3>1
      <4>2. \A i \in 1..(n - 1) : Triggered(events'[i]) \in Seq(ScriptNames)
        BY TriggeredTyped
      <4> HIDE DEF r, n
      <4> QED BY <4>1, <4>2, IsASeq
    <3> HIDE DEF r, s
    <3>5. /\ Tail(s) \in Seq(Seq(ScriptNames)) /\ Len(Tail(s)) = n - 1
          /\ \A i \in 1..(n - 1) : Tail(s)[i] = s[i + 1]
      BY <1>4, <2>2
    <3> HIDE DEF n
    <3>6. \A i \in 1..(n - 1) : r[i] = Tail(s)[i]
      BY <3>3, <3>5
    <3>7. r = Tail(s)
      BY <3>4, <3>5, <3>6, SeqEqual
    <3> QED BY <3>7 DEF r
  <2>4. Coming' = FlattenSeq(Tail(s)) \o u
    BY <2>1, <2>3 DEF Coming
  <2> HIDE DEF s, u, t
  <2>5. FlattenSeq(s) = t \o FlattenSeq(Tail(s)) /\ FlattenSeq(Tail(s)) \in Seq(ScriptNames)
    <3>1. Tail(s) \in Seq(Seq(ScriptNames))
      BY <1>4, <2>2
    <3> QED BY <1>4, <2>2, <3>1, FlattenTail, FlattenType
  <2>6. Unread(b) \in Seq(ScriptNames)
    BY <1>0, UnreadTyped
  <2>7. owed = t \o ((FlattenSeq(Tail(s)) \o u) \o Unread(b))
    <3> DEFINE f == FlattenSeq(Tail(s))
               w == Unread(b)
    <3>1. owed = ((t \o f) \o u) \o w
      BY <1>2, <1>4, <2>5
    <3>2. t \in Seq(ScriptNames) /\ f \in Seq(ScriptNames) /\ w \in Seq(ScriptNames)
      BY <2>2, <2>5, <2>6
    <3> HIDE DEF f, w
    <3>3. \A x, y, z \in Seq(ScriptNames) : x \o (y \o z) = (x \o y) \o z /\ x \o y \in Seq(ScriptNames)
      BY ConcatAssociative
    <3>4. (t \o f) \o u = t \o (f \o u) /\ f \o u \in Seq(ScriptNames)
      BY <1>5, <3>2, <3>3
    <3>5. (t \o (f \o u)) \o w = t \o ((f \o u) \o w)
      <4> DEFINE v == f \o u
      <4>1. v \in Seq(ScriptNames)
        BY <3>4
      <4> HIDE DEF v
      <4>2. (t \o v) \o w = t \o (v \o w)
        BY ONLY <3>2, <3>3, <4>1
      <4> QED BY <4>2 DEF v
    <3> QED BY <3>1, <3>4, <3>5 DEF f, w
  <2>8. (FlattenSeq(Tail(s)) \o u) \o Unread(b) \in Seq(ScriptNames)
    BY <1>5, <2>5, <2>6
  <2>9. unexpected' = <<>> /\ owed' = (FlattenSeq(Tail(s)) \o u) \o Unread(b)
    BY <1>2, <2>2, <2>7, <2>8, Accounted
  <2> QED BY <1>3, <2>4, <2>9
<1> QED BY <1>6, <1>7

LEMMA FollowAtFirst == Init => FollowInv
<1> SUFFICES ASSUME Init PROVE FollowInv
  OBVIOUS
<1>1. /\ lines = <<>> /\ last = Default /\ latest = Default /\ unexpected = <<>> /\ owed = <<>>
      /\ events = <<>> /\ reader = "none"
  BY DEF Init
<1>2. Default \in [Tracked -> States]
  BY DEF Default, Tracked, States
<1> DEFINE b == [i \in 1..1 |-> Default]
<1>3. Len(lines) = 0 /\ 0 + 1 = 1
  BY <1>1
<1>4. Path(b)
  <2> HIDE DEF Tracked, States
  <2>1. b \in [1..1 -> [Tracked -> States]] /\ b[1] = Default
    BY <1>2
  <2> HIDE DEF b
  <2> QED BY <1>1, <1>3, <2>1 DEF Path
<1> HIDE DEF b
<1>5. Unread(b) = <<>>
  <2>1. [i \in 1..Len(lines) |-> Starts(lines[i], b[i])] = <<>>
    BY <1>3
  <2> QED BY <2>1, FlattenEmpty DEF Unread
<1>6. Coming = <<>> \o <<>>
  <2>1. [i \in DOMAIN events |-> Triggered(events[i])] = <<>>
    BY <1>1
  <2> QED BY <1>1, <2>1, FlattenEmpty DEF Coming
<1>7. (<<>> \o <<>>) \o <<>> = <<>>
  OBVIOUS
<1> QED BY <1>1, <1>4, <1>5, <1>6, <1>7 DEF FollowInv

LEMMA FollowKept ==
  ASSUME TypesInv, FollowInv, [Next]_vars
  PROVE  FollowInv'
<1>0. EventTypeOK /\ CompositorTypeOK /\ CommandTypeOK /\ CallInv /\ StageInv
  BY DEF TypesInv
<1>1. CASE \/ \E w \in Windows \cup {NoWindow} : UserFocuses(w)
           \/ \E k \in Toggles : UserToggles(k)
           \/ UserMaximizes
           \/ \E ws \in Workspaces : UserSwitches(ws)
           \/ \E l \in OtherLines : SomethingElse(l)
           \/ HandleRequest \/ Dies
  <2>1. UNCHANGED <<readerVars, events, stage, unexpected>>
    <3>1. UNCHANGED <<readerVars, events>>
      BY <1>0, <1>1, HyprlandSteps
    <3>2. UNCHANGED <<stage, unexpected>>
      BY <1>1 DEF UserFocuses, UserToggles, UserMaximizes, UserSwitches, SomethingElse, Acts, HandleRequest, Dies,
         commandVars
    <3> QED BY <3>1, <3>2
  <2>2. PICK l \in AllLines : Writes(l)
    BY <1>0, <1>1, HyprlandSteps
  <2> QED BY <1>0, <2>1, <2>2, WritesKeepFollow
<1>2. CASE ReadLine
  BY <1>0, <1>2, ReadsKeepFollow
<1>3. CASE SendEvent \/ HandleEvent
  BY <1>3, ChannelKeepsFollow
<1>4. ASSUME UNCHANGED <<lineVars, last, held, events, scriptVars>>,
             reader' # "sending" <=> reader # "sending",
             stage' \notin {"failed", "down"} => stage \notin {"failed", "down"}
      PROVE  FollowInv'
  <2> SUFFICES ASSUME stage' \notin {"failed", "down"}
               PROVE  unexpected' = <<>> /\ \E b : Path(b)' /\ owed' = Coming' \o Unread(b)'
    BY DEF FollowInv
  <2>1. PICK b : unexpected = <<>> /\ Path(b) /\ owed = Coming \o Unread(b)
    BY <1>4 DEF FollowInv
  <2>2. Path(b)' /\ Unread(b)' = Unread(b) /\ Coming' = Coming
    BY <1>4, <2>1 DEF Path, Unread, Coming, lineVars
  <2> QED BY <1>4, <2>1, <2>2 DEF scriptVars
<1>5. CASE \/ CallInit \/ CallGet \/ (\E k \in Keys : \E v \in ValuesOf(k) : CallSet(k, v))
           \/ QueryReturns
  <2>1. UNCHANGED <<otherVars, stage>>
    BY <1>5 DEF CallInit, CallGet, CallSet, QueryReturns
  <2> QED BY <1>4, <2>1 DEF otherVars, readerVars
<1>6. CASE Returns \/ ReturnsError \/ TimesOut
  <2>1. UNCHANGED otherVars /\ (stage' = stage \/ (method = "init" /\ call # "idle"))
    BY <1>6 DEF Returns, ReturnsError, TimesOut, Fails
  <2>2. method = "init" /\ call # "idle" => stage = "new"
    BY <1>0 DEF StageInv
  <2> QED BY <1>4, <2>1, <2>2 DEF otherVars, readerVars
<1>7. CASE Subscribe \/ Shutdown \/ ReadFails \/ EndOfLines \/ EventsEnd
  <2>1. CASE Subscribe
    <3>1. stage = "initialised" /\ UNCHANGED <<lineVars, last, held, events, scriptVars>>
      BY <2>1 DEF Subscribe
    <3>2. reader = "none" /\ reader' # "sending"
      BY <1>0, <2>1, <3>1 DEF StageInv, Subscribe
    <3> QED BY <1>4, <3>1, <3>2
  <2>2. CASE Shutdown
    BY <2>2 DEF Shutdown, FollowInv
  <2>3. CASE ReadFails \/ EndOfLines \/ EventsEnd
    BY <1>4, <2>3 DEF ReadFails, EndOfLines, EventsEnd, commandVars, readerVars
  <2> QED BY <1>7, <2>1, <2>2, <2>3
<1>8. CASE SendFails
  <2>1. reader = "sending" /\ stage # "running" /\ stage' = stage
    BY <1>8 DEF SendFails, Receiving, commandVars
  <2>2. stage \in {"failed", "down"}
    BY <1>0, <2>1 DEF StageInv, CommandTypeOK
  <2> QED BY <2>1, <2>2 DEF FollowInv
<1>9. CASE UNCHANGED vars
  <2>1. UNCHANGED <<lineVars, readerVars, events, scriptVars, stage>>
    BY <1>9 DEF vars, commandVars
  <2> QED BY <1>4, <2>1 DEF readerVars
<1> QED BY <1>1, <1>2, <1>3, <1>5, <1>6, <1>7, <1>8, <1>9 DEF Next

(* The scripts that the controller starts are those that the lines call for, *)
(* each once and in order, whatever the configuration, the lines and the     *)
(* capacity of the channel: none is started that is not called for, and when *)
(* everything is read what is still owed is in the channel or about to be    *)
(* (the reader task, translate, subscribed_events and handle_event).         *)
THEOREM ScriptsFollow == Spec => []ScriptsFollowLines
<1>1. Init => TypesInv /\ FollowInv
  BY TypesAtFirst, FollowAtFirst
<1>2. TypesInv /\ FollowInv /\ [Next]_vars => (TypesInv /\ FollowInv)'
  BY TypesKept, FollowKept
<1>3. TypesInv /\ FollowInv => ScriptsFollowLines
  <2> SUFFICES ASSUME TypesInv, FollowInv, Receiving
               PROVE  unexpected = <<>> /\ (lines = <<>> => owed = Coming)
    BY DEF ScriptsFollowLines
  <2>1. PICK b : unexpected = <<>> /\ Path(b) /\ owed = Coming \o Unread(b)
    BY DEF FollowInv, Receiving
  <2>2. ASSUME lines = <<>> PROVE owed = Coming
    <3>1. Unread(b) = <<>>
      <4>1. Len(lines) = 0
        BY <2>2
      <4>2. [i \in 1..Len(lines) |-> Starts(lines[i], b[i])] = <<>>
        BY <4>1
      <4> QED BY <4>2, FlattenEmpty DEF Unread
    <3>2. Coming \in Seq(ScriptNames)
      BY ComingTyped DEF TypesInv
    <3>3. \A v \in Seq(ScriptNames) : v \o <<>> = v
      OBVIOUS
    <3> QED BY <2>1, <3>1, <3>2, <3>3
  <2> QED BY <2>1, <2>2
<1> QED BY <1>1, <1>2, <1>3, PTL DEF Spec
=============================================================================
