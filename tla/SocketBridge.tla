---------------------------- MODULE SocketBridge ----------------------------
(***************************************************************************)
(* The socket adapter (socket/src/lib.rs) and the bridge process it talks  *)
(* to.                                                                     *)
(*                                                                         *)
(* Every command is a connection of its own: one request, one response and *)
(* a timeout.  Events come over one connection: a handshake, then lines,   *)
(* which a reader task puts into a bounded channel.  A socket is a stream  *)
(* of bytes: here every event is two halves, and only the second ends a    *)
(* line.  The methods take &mut self, so only one runs at a time; the      *)
(* daemon calls init, then subscribe, then the others (AdapterHandle).     *)
(***************************************************************************)
EXTENDS Naturals, Sequences

CONSTANTS
  Values,     \* the values of a key of the bridge
  Initially,  \* its value at first
  EventCap,   \* the capacity of the event channel (100 in the code)
  MaxCalls,   \* bounds the requests
  MaxEvents   \* bounds the bridge's events

ASSUME BridgeAssumption == /\ Initially \in Values
                           /\ EventCap \in Nat \ {0}
                           /\ MaxCalls \in Nat
                           /\ MaxEvents \in Nat

VARIABLES
  \* commands
  call,       \* idle, or waiting for the response to a request
  method,     \* the method that was called: init, get or set
  value,      \* the value a set was called with
  sent,       \* what the request asks for: caps, get or set
  nextId,     \* the request counter
  answer,     \* what has come back on the request's connection
  cached,     \* cached_caps is there
  requests,   \* requests the bridge has received and not handled
  current,    \* the value at the bridge
  lastSet,    \* the value of the last set that succeeded
  doubtful,   \* the values of sets that failed: they may have happened
  \* events
  subscribed, \* no, handshake, yes or failed
  halves,     \* half-lines the bridge has written so far
  stream,     \* what the adapter has not read of them; 0 is the response
  up,         \* the bridge runs
  early,      \* halves written when the response was read
  closed,     \* the event connection is closed
  reader,     \* the reader task: none, reading, sending or ended
  line,       \* the event it sends
  events,     \* the event channel
  receiving,  \* event_rx exists
  delivered   \* what next_event has returned

commandVars == <<call, method, value, sent, nextId, answer, cached, requests, current,
                 lastSet, doubtful>>
eventVars   == <<subscribed, halves, stream, early, closed, reader, line, events, receiving,
                 delivered>>
vars        == <<commandVars, eventVars, up>>

Requests == [id : Nat, kind : {"caps", "get", "set"}, value : Values]

TypeOK ==
  /\ call \in {"idle", "waiting"}
  /\ method \in {"init", "get", "set"}
  /\ sent \in {"caps", "get", "set"}
  /\ value \in Values
  /\ nextId \in Nat
  /\ answer \in {"none", "ok", "error"}
  /\ cached \in BOOLEAN
  /\ requests \subseteq Requests
  /\ current \in Values
  /\ lastSet \in Values
  /\ doubtful \subseteq Values
  /\ subscribed \in {"no", "handshake", "yes", "failed"}
  /\ halves \in Nat
  /\ stream \in Seq(Nat)
  /\ up \in BOOLEAN
  /\ early \in 0..halves
  /\ closed \in BOOLEAN
  /\ reader \in {"none", "reading", "sending", "ended"}
  /\ line \in Nat
  /\ events \in Seq(Nat) /\ Len(events) <= EventCap
  /\ receiving \in BOOLEAN
  /\ delivered \in Seq(Nat)

Init ==
  /\ call = "idle"
  /\ method = "init"
  /\ value = Initially
  /\ sent = "caps"
  /\ nextId = 1
  /\ answer = "none"
  /\ cached = FALSE
  /\ requests = {}
  /\ current = Initially
  /\ lastSet = Initially
  /\ doubtful = {}
  /\ subscribed = "no"
  /\ halves = 0
  /\ stream = <<>>
  /\ up = TRUE
  /\ early = 0
  /\ closed = FALSE
  /\ reader = "none"
  /\ line = 0
  /\ events = <<>>
  /\ receiving = FALSE
  /\ delivered = <<>>

-----------------------------------------------------------------------------
(* Commands. *)

(* send, once connected.  A connection that is refused is an error at once.  *)
SendRequest(kind, v) ==
  /\ sent' = kind
  /\ nextId' = nextId + 1
  /\ call' = "waiting"
  /\ \/ /\ up
        /\ requests' = requests \cup {[id |-> nextId, kind |-> kind, value |-> v]}
        /\ answer' = "none"
     \/ /\ ~up
        /\ answer' = "error"
        /\ UNCHANGED requests

(* init, get and set fetch the capabilities first if they are not cached.    *)
Call(m, v) ==
  /\ call = "idle" /\ subscribed # "handshake"
  /\ nextId < MaxCalls
  /\ m = "init" => ~cached
  /\ method' = m
  /\ value' = v
  /\ SendRequest(IF cached THEN m ELSE "caps", v)
  /\ UNCHANGED <<cached, current, lastSet, doubtful, eventVars, up>>

(* The bridge serves each connection on its own, in any order, and may fail  *)
(* before or after it has done what was asked.  The response reaches only    *)
(* the request that still waits.                                             *)
BridgeHandles(r) ==
  /\ r \in requests
  /\ requests' = requests \ {r}
  /\ \E a \in {"ok", "error", "none"} :
       /\ current' \in IF r.kind # "set" THEN {current}
                       ELSE IF a = "ok" THEN {r.value} ELSE {current, r.value}
       /\ answer' = IF call = "waiting" /\ r.id = nextId - 1 THEN a ELSE answer
  /\ UNCHANGED <<call, method, value, sent, nextId, cached, lastSet, doubtful, eventVars, up>>

(* The method returns, and its locals and its connection are gone. *)
EndCall ==
  /\ call' = "idle"
  /\ method' = "init"
  /\ value' = Initially
  /\ sent' = "caps"
  /\ answer' = "none"
  /\ UNCHANGED <<nextId, requests>>

(* A set that failed is in doubt. *)
Fail ==
  /\ EndCall
  /\ doubtful' = IF sent = "set" THEN doubtful \cup {value} ELSE doubtful
  /\ UNCHANGED <<cached, current, lastSet, eventVars, up>>

Returns ==
  /\ call = "waiting"
  /\ answer = "ok"
  /\ cached' = TRUE
  /\ IF sent = "caps" /\ method # "init"
     THEN /\ SendRequest(method, value)
          /\ UNCHANGED <<method, value, lastSet>>
     ELSE /\ EndCall
          /\ lastSet' = IF sent = "set" THEN value ELSE lastSet
  /\ UNCHANGED <<current, doubtful, eventVars, up>>

ReturnsError == call = "waiting" /\ answer = "error" /\ Fail

(* A mutant of TimesOut: the timeout is over once the bridge has accepted the connection. *)
TimesOutConnecting == call = "waiting" /\ answer = "none" /\ ~up /\ Fail

(* A mutant of TimesOut: a set that times out counts as done. *)
TimesOutQuietly ==
  /\ call = "waiting" /\ answer = "none"
  /\ EndCall
  /\ lastSet' = IF sent = "set" THEN value ELSE lastSet
  /\ UNCHANGED <<cached, current, doubtful, eventVars, up>>

(* BRIDGE_CMD_TIMEOUT covers the connection, the request and the response.   *)
TimesOut == call = "waiting" /\ answer = "none" /\ Fail

-----------------------------------------------------------------------------
(* Events. *)

Subscribe ==
  /\ call = "idle" /\ subscribed = "no"
  /\ subscribed' = IF up THEN "handshake" ELSE "failed"
  /\ UNCHANGED <<commandVars, halves, stream, early, closed, reader, line, events, receiving,
                 delivered, up>>

(* The bridge accepts, and writes events from then on. *)
BridgeAccepts ==
  /\ up
  /\ subscribed = "handshake"
  /\ ~closed
  /\ stream = <<>> /\ halves = 0
  /\ stream' = <<0>>
  /\ UNCHANGED <<commandVars, subscribed, halves, early, closed, reader, line, events, receiving,
                 delivered, up>>

BridgeWrites ==
  /\ up /\ ~closed
  /\ halves < 2 * MaxEvents
  /\ subscribed = "yes" \/ (subscribed = "handshake" /\ stream # <<>>)
  /\ halves' = halves + 1
  /\ stream' = Append(stream, halves + 1)
  /\ UNCHANGED <<commandVars, subscribed, early, closed, reader, line, events, receiving, delivered, up>>

(* The response is read through a buffer, with whatever has arrived after    *)
(* it; the buffer is dropped by into_inner, and the reader task is spawned.  *)
Acknowledged ==
  /\ subscribed = "handshake"
  /\ stream # <<>>
  /\ subscribed' = "yes"
  /\ \E n \in 1..Len(stream) : stream' = SubSeq(stream, n + 1, Len(stream))
  /\ early' = halves
  /\ receiving' = TRUE
  /\ reader' = "reading"
  /\ UNCHANGED <<commandVars, halves, closed, line, events, delivered, up>>

(* SUBSCRIBE_TIMEOUT, a rejected subscription or a connection closed early.  *)
HandshakeFails ==
  /\ subscribed = "handshake"
  /\ subscribed' = "failed"
  /\ UNCHANGED <<commandVars, halves, stream, early, closed, reader, line, events, receiving,
                 delivered, up>>

FirstHalf(h) == h % 2 = 1
EventOf(h)   == (h + 1) \div 2

(* read_line, when a line is there. *)
ReadEvent ==
  /\ reader = "reading"
  /\ Len(stream) >= 2
  /\ FirstHalf(stream[1])
  /\ stream' = SubSeq(stream, 3, Len(stream))
  /\ line' = EventOf(stream[1])
  /\ reader' = "sending"
  /\ UNCHANGED <<commandVars, subscribed, halves, early, closed, events, receiving, delivered, up>>

(* A mutant of SkipLine: the line is not cleared, and the next event is appended to it. *)
SkipLineUncleared ==
  /\ reader = "reading"
  /\ Len(stream) >= 3
  /\ ~FirstHalf(stream[1])
  /\ stream' = SubSeq(stream, 4, Len(stream))
  /\ UNCHANGED <<commandVars, subscribed, halves, early, closed, reader, line, events, receiving,
                 delivered, up>>

(* A line that is not an event, such as the second half of one, is skipped.  *)
SkipLine ==
  /\ reader = "reading"
  /\ stream # <<>>
  /\ ~FirstHalf(stream[1])
  /\ stream' = Tail(stream)
  /\ UNCHANGED <<commandVars, subscribed, halves, early, closed, reader, line, events, receiving,
                 delivered, up>>

(* The second half of a line may begin within a character, an error to       *)
(* read_line, which ends the task.                                           *)
ReadFails ==
  /\ reader = "reading"
  /\ stream # <<>>
  /\ ~FirstHalf(stream[1])
  /\ reader' = "ended"
  /\ UNCHANGED <<commandVars, subscribed, halves, stream, early, closed, line, events,
                 receiving, delivered, up>>

(* The end of the stream, perhaps in the middle of a line. *)
EndOfStream ==
  /\ reader = "reading"
  /\ closed
  /\ stream = <<>> \/ (Len(stream) = 1 /\ FirstHalf(stream[1]))
  /\ reader' = "ended"
  /\ UNCHANGED <<commandVars, subscribed, halves, stream, early, closed, line, events, receiving,
                 delivered, up>>

(* A mutant of SendEvent: the reader does not wait for room in the channel. *)
SendEventUnbounded ==
  /\ reader = "sending"
  /\ receiving
  /\ events' = Append(events, line)
  /\ line' = 0
  /\ reader' = "reading"
  /\ UNCHANGED <<commandVars, subscribed, halves, stream, early, closed, receiving, delivered, up>>

(* A mutant of SendEvent: an event that finds the channel full is dropped. *)
SendEventOrDrop ==
  /\ reader = "sending"
  /\ receiving
  /\ events' = IF Len(events) < EventCap THEN Append(events, line) ELSE events
  /\ line' = 0
  /\ reader' = "reading"
  /\ UNCHANGED <<commandVars, subscribed, halves, stream, early, closed, receiving, delivered, up>>

(* event_tx.send waits for room in the channel. *)
SendEvent ==
  /\ reader = "sending"
  /\ receiving
  /\ Len(events) < EventCap
  /\ events' = Append(events, line)
  /\ line' = 0
  /\ reader' = "reading"
  /\ UNCHANGED <<commandVars, subscribed, halves, stream, early, closed, receiving, delivered, up>>

SendFails ==
  /\ reader = "sending"
  /\ ~receiving
  /\ reader' = "ended"
  /\ UNCHANGED <<commandVars, subscribed, halves, stream, early, closed, line, events, receiving,
                 delivered, up>>

NextEvent ==
  /\ call = "idle" /\ receiving
  /\ events # <<>>
  /\ delivered' = Append(delivered, Head(events))
  /\ events' = Tail(events)
  /\ UNCHANGED <<commandVars, subscribed, halves, stream, early, closed, reader, line, receiving, up>>

(* shutdown drops the receiver and what it has not taken. *)
Shutdown ==
  /\ call = "idle" /\ receiving
  /\ receiving' = FALSE
  /\ events' = <<>>
  /\ UNCHANGED <<commandVars, subscribed, halves, stream, early, closed, reader, line, delivered, up>>

(* A bridge that dies takes its connections with it; a new one serves new    *)
(* connections.                                                              *)
BridgeDies ==
  /\ up
  /\ up' = FALSE
  /\ closed' = (closed \/ subscribed \in {"handshake", "yes"})
  /\ requests' = {}
  /\ answer' = IF call = "waiting" /\ answer = "none" THEN "error" ELSE answer
  /\ UNCHANGED <<call, method, value, sent, nextId, cached, current, lastSet, doubtful,
                 subscribed, halves, stream, early, reader, line, events, receiving, delivered>>

BridgeRestarts ==
  /\ ~up
  /\ up' = TRUE
  /\ UNCHANGED <<commandVars, eventVars>>

-----------------------------------------------------------------------------
Next ==
  \/ \E m \in {"init", "get"} : Call(m, Initially)
  \/ \E v \in Values : Call("set", v)
  \/ \E r \in requests : BridgeHandles(r)
  \/ Returns \/ ReturnsError \/ TimesOut
  \/ Subscribe \/ BridgeAccepts \/ BridgeWrites \/ Acknowledged \/ HandshakeFails
  \/ ReadEvent \/ SkipLine \/ ReadFails \/ EndOfStream \/ SendEvent \/ SendFails
  \/ NextEvent \/ Shutdown
  \/ BridgeDies \/ BridgeRestarts

Spec == Init /\ [][Next]_vars

(* A method whose response is there goes on, timers fire, and the reader     *)
(* task runs.  Nothing is assumed of the bridge or of next_event's caller.   *)
FairSpec ==
  /\ Spec
  /\ WF_vars(Returns \/ ReturnsError \/ TimesOut)
  /\ WF_vars(Acknowledged \/ HandshakeFails)
  /\ WF_vars(ReadEvent \/ SkipLine \/ ReadFails \/ EndOfStream \/ SendEvent \/ SendFails)

-----------------------------------------------------------------------------
(* What next_event returns, then the channel, then the event the reader      *)
(* task is sending.                                                          *)
Received == delivered \o events \o (IF reader = "sending" THEN <<line>> ELSE <<>>)

(* From the first event on, none is lost, repeated or out of order, however  *)
(* full the channel gets (the reader task of subscribe).                     *)
NoGapInEvents ==
  receiving => \A i \in 1..(Len(Received) - 1) : Received[i + 1] = Received[i] + 1

(* Events that come with the response are lost with the buffer it was read   *)
(* through, but no event that the bridge begins after that: a line cut in    *)
(* half there does not spoil the next (into_inner and the reader task).      *)
LossEndsWithHandshake ==
  receiving /\ Received # <<>> => Head(Received) <= EventOf(early) + 1

(* The bridge's value is the one of the last set that succeeded, or of the   *)
(* set that is under way, or of one that failed: a timeout leaves a set in   *)
(* doubt, a success or a get never does (send and set).                      *)
LastSetHolds ==
  current \in {lastSet} \cup doubtful
                \cup (IF call = "waiting" /\ sent = "set" THEN {value} ELSE {})

(* Every command and the subscription return, whatever the bridge does and   *)
(* whenever it dies (BRIDGE_CMD_TIMEOUT and SUBSCRIBE_TIMEOUT).              *)
MethodsReturn == /\ call = "waiting" ~> call = "idle"
                 /\ subscribed = "handshake" ~> subscribed # "handshake"
=============================================================================
