------------------------ MODULE SocketBridgeProofs ------------------------
(***************************************************************************)
(* Proofs about SocketBridge.  The commands and the events share nothing   *)
(* but the bridge, so they have an inductive invariant each: CommandInv,   *)
(* for what a set may undo, and EventInv, for what a subscriber receives.  *)
(***************************************************************************)
EXTENDS SocketBridge, Integers, SequenceTheorems, TLAPS

USE BridgeAssumption DEF BridgeAssumption

-----------------------------------------------------------------------------
(* Commands. *)

CommandTypeOK ==
  /\ call \in {"idle", "waiting"}
  /\ method \in {"init", "get", "set"}
  /\ sent \in {"caps", "get", "set"}
  /\ value \in Values
  /\ nextId \in Nat
  /\ answer \in {"none", "ok", "error"}
  /\ requests \subseteq Requests
  /\ current \in Values
  /\ lastSet \in Values
  /\ doubtful \subseteq Values

(* The request of the call that waits. *)
Pending(r) == call = "waiting" /\ r.id = nextId - 1

(* Where a set can still come from: a request at the bridge is the one that  *)
(* waits, or a set in doubt.                                                 *)
DoubtInv ==
  /\ \A r \in requests : r.id < nextId
  /\ \A r, q \in requests : r.id = q.id => r = q
  /\ \A r \in requests : Pending(r) => r.kind = sent
  /\ \A r \in requests : r.kind = "set" =>
       r.value \in doubtful \/ (Pending(r) /\ sent = "set" /\ r.value = value)
  /\ answer # "none" => \A r \in requests : ~Pending(r)
  /\ call = "waiting" /\ sent = "set" /\ answer = "ok" => current \in {value} \cup doubtful

CommandInv == CommandTypeOK /\ DoubtInv /\ LastSetHolds

(* The commands change in one of these ways; events leave them alone.        *)
LEMMA RequestSent ==
  ASSUME CommandInv, NEW kind \in {"caps", "get", "set"}, NEW v \in Values,
         SendRequest(kind, v), value' = v, method' \in {"init", "get", "set"},
         call = "idle" \/ (call = "waiting" /\ sent = "caps" /\ answer = "ok"),
         UNCHANGED <<current, lastSet, doubtful>>
  PROVE  CommandInv'
<1> USE DEF CommandInv, CommandTypeOK
<1>1. [id |-> nextId, kind |-> kind, value |-> v] \in Requests
  BY DEF Requests
<1>2. \A r \in requests : r.id \in Nat
  BY DEF Requests
<1>3. CommandTypeOK'
  BY <1>1 DEF SendRequest
<1>4. \A r \in requests : r.kind = "set" => r.value \in doubtful
  BY DEF DoubtInv, Pending
<1>5. DoubtInv'
  <2>1. \A r \in requests' : r.id < nextId' /\ (r \in requests \/ r.id = nextId)
    BY <1>2 DEF SendRequest, DoubtInv
  <2>2. \A r \in requests : r.id # nextId
    BY <1>2 DEF DoubtInv
  <2>3. \A r, q \in requests' : r.id = q.id => r = q
    BY <2>2 DEF SendRequest, DoubtInv
  <2>4. \A r \in requests' : r.kind = "set" =>
          r.value \in doubtful' \/ (Pending(r)' /\ sent' = "set" /\ r.value = value')
    BY <1>4 DEF SendRequest, Pending
  <2>7. \A r \in requests' : Pending(r)' => r.kind = sent'
    BY <1>2, <2>2 DEF SendRequest, Pending
  <2>5. answer' # "none" => \A r \in requests' : ~Pending(r)'
    BY <1>2, <2>2 DEF SendRequest, Pending
  <2>6. answer' # "ok"
    BY DEF SendRequest
  <2> QED
    BY <2>1, <2>3, <2>4, <2>5, <2>6, <2>7 DEF DoubtInv
<1>6. LastSetHolds'
  BY DEF LastSetHolds, SendRequest
<1> QED
  BY <1>3, <1>5, <1>6

LEMMA CallEnded ==
  ASSUME BridgeAssumption, CommandInv, call = "waiting", EndCall, UNCHANGED current,
         \/ /\ lastSet' = lastSet
            /\ doubtful' = IF sent = "set" THEN doubtful \cup {value} ELSE doubtful
         \/ /\ answer = "ok"
            /\ lastSet' = IF sent = "set" THEN value ELSE lastSet
            /\ doubtful' = doubtful
  PROVE  CommandInv'
<1> USE DEF CommandInv, CommandTypeOK, EndCall
<1>1. CommandTypeOK'
  BY DEF BridgeAssumption
<1>2. \A r \in requests : r.kind = "set" => r.value \in doubtful'
  BY DEF DoubtInv
<1>3. DoubtInv'
  BY <1>2 DEF DoubtInv, Pending
<1>4. LastSetHolds'
  BY DEF LastSetHolds, DoubtInv
<1> QED
  BY <1>1, <1>3, <1>4

LEMMA BridgeServes ==
  ASSUME CommandInv, NEW r \in requests, BridgeHandles(r)
  PROVE  CommandInv'
<1> USE DEF CommandInv, CommandTypeOK, BridgeHandles
<1>1. r.value \in Values
  BY DEF Requests
<1>2. CommandTypeOK'
  BY <1>1
<1>3. r.kind = "set" => r.value \in doubtful \/ (Pending(r) /\ sent = "set" /\ r.value = value)
  BY DEF DoubtInv
<1>4. current' = current \/ (r.kind = "set" /\ current' = r.value)
  OBVIOUS
<1>5. LastSetHolds'
  BY <1>3, <1>4 DEF LastSetHolds, Pending
<1>6. CASE Pending(r)
  <2>1. \A q \in requests' : ~Pending(q)'
    BY <1>6 DEF DoubtInv, Pending
  <2>2. call' = "waiting" /\ sent' = "set" /\ answer' = "ok" => current' \in {value'} \cup doubtful'
    <3>1. HAVE call' = "waiting" /\ sent' = "set" /\ answer' = "ok"
    <3>2. CASE r.kind = "set"
      BY <1>3, <1>6, <3>1, <3>2 DEF Pending
    <3>3. CASE r.kind # "set"
      BY <1>6, <3>1, <3>3 DEF Pending, DoubtInv
    <3> QED
      BY <3>2, <3>3
  <2> QED
    BY <1>2, <1>5, <2>1, <2>2 DEF DoubtInv, Pending
<1>7. CASE ~Pending(r)
  <2>1. answer' = answer
    BY <1>7 DEF Pending
  <2>2. current' = current \/ current' \in doubtful
    BY <1>3, <1>4, <1>7
  <2> QED
    BY <1>2, <1>5, <2>1, <2>2 DEF DoubtInv, Pending
<1> QED
  BY <1>6, <1>7

LEMMA CommandsSafe == Spec => []CommandInv
<1>1. Init => CommandInv
  BY BridgeAssumption DEF Init, CommandInv, CommandTypeOK, DoubtInv, LastSetHolds
<1>2. CommandInv /\ [Next]_vars => CommandInv'
  <2> SUFFICES ASSUME CommandInv, [Next]_vars PROVE CommandInv'
    OBVIOUS
  <2>1. ASSUME NEW m \in {"init", "get", "set"}, NEW v \in Values, Call(m, v) PROVE CommandInv'
    BY <2>1, RequestSent DEF Call, eventVars
  <2>2. CASE \E r \in requests : BridgeHandles(r)
    BY <2>2, BridgeServes
  <2>3. CASE Returns
    <3>1. CASE sent = "caps" /\ method # "init"
      BY <2>3, <3>1, RequestSent DEF Returns, CommandInv, CommandTypeOK
    <3>2. CASE ~(sent = "caps" /\ method # "init")
      BY <2>3, <3>2, CallEnded, BridgeAssumption DEF Returns
    <3> QED
      BY <3>1, <3>2
  <2>4. CASE ReturnsError \/ TimesOut
    BY <2>4, CallEnded, BridgeAssumption DEF ReturnsError, TimesOut, Fail
  <2>5. CASE BridgeDies
    BY <2>5 DEF BridgeDies, CommandInv, CommandTypeOK, DoubtInv, LastSetHolds, Pending
  <2>6. CASE UNCHANGED commandVars
    BY <2>6 DEF commandVars, CommandInv, CommandTypeOK, DoubtInv, LastSetHolds, Pending
  <2>7. CASE \/ Subscribe \/ BridgeAccepts \/ BridgeWrites \/ Acknowledged \/ HandshakeFails
             \/ ReadEvent \/ SkipLine \/ ReadFails \/ EndOfStream \/ SendEvent \/ SendFails
             \/ NextEvent \/ Shutdown \/ BridgeRestarts \/ UNCHANGED vars
    <3>1. UNCHANGED commandVars
      BY <2>7 DEF Subscribe, BridgeAccepts, BridgeWrites, Acknowledged, HandshakeFails,
         ReadEvent, SkipLine, ReadFails, EndOfStream, SendEvent, SendFails, NextEvent,
         Shutdown, BridgeRestarts, vars
    <3> QED
      BY <2>6, <3>1
  <2> QED
    BY <2>1, <2>2, <2>3, <2>4, <2>5, <2>7, BridgeAssumption DEF Next
<1> QED
  BY <1>1, <1>2, PTL DEF Spec

(* The bridge's value is the one of the last set that succeeded unless a set *)
(* that failed, or is under way, has changed it: the timeout of send leaves  *)
(* only that in doubt.                                                       *)
THEOREM LastSetIsLast == Spec => []LastSetHolds
<1>1. CommandInv => LastSetHolds
  BY DEF CommandInv
<1> QED
  BY <1>1, CommandsSafe, PTL

-----------------------------------------------------------------------------
(* Events. *)

EventTypeOK ==
  /\ subscribed \in {"no", "handshake", "yes", "failed"}
  /\ halves \in Nat
  /\ stream \in Seq(Nat)
  /\ early \in 0..halves
  /\ reader \in {"none", "reading", "sending", "ended"}
  /\ line \in Nat
  /\ events \in Seq(Nat) /\ Len(events) <= EventCap
  /\ delivered \in Seq(Nat)

(* The half-lines that have left the stream: the last of them has this       *)
(* number (-1 before the bridge has accepted and the response has come).     *)
Taken == halves - Len(stream)

LastReceived == Received[Len(Received)]

(* The stream is what the bridge wrote last, without a gap.  While there is  *)
(* a receiver, the reader has taken all of the event it received last and    *)
(* nothing after it; before the first, it has taken the response, and with   *)
(* it at most the rest of a line that was begun before.                      *)
EventInv ==
  /\ EventTypeOK
  /\ subscribed # "yes" => /\ reader = "none" /\ ~receiving
                           /\ delivered = <<>> /\ events = <<>>
  /\ subscribed = "no" => stream = <<>> /\ halves = 0
  /\ subscribed = "handshake" => \/ stream = <<>> /\ halves = 0
                                 \/ Len(stream) = halves + 1
  /\ \A i \in 1..Len(stream) : stream[i] = Taken + i
  /\ receiving => subscribed = "yes" /\ Taken >= 0 /\ reader # "none"
  /\ receiving /\ reader # "ended" /\ Received # <<>> => Taken = 2 * LastReceived
  /\ receiving /\ Received = <<>> => EventOf(Taken) <= EventOf(early)
  /\ NoGapInEvents
  /\ LossEndsWithHandshake

(* A half ends the event it belongs to if it is the second one, and the next *)
(* half then begins the next event.                                          *)
LEMMA HalvesOfEvents ==
  ASSUME NEW h \in Nat
  PROVE  /\ EventOf(h) \in Nat
         /\ FirstHalf(h + 1) => EventOf(h + 1) = EventOf(h) + 1 /\ h + 2 = 2 * EventOf(h + 1)
         /\ ~FirstHalf(h + 1) => EventOf(h + 1) = EventOf(h)
         /\ FirstHalf(2 * h + 1) /\ EventOf(2 * h + 1) = h + 1
BY DEF EventOf, FirstHalf

(* An event keeps its place from the reader to next_event's caller.          *)
LEMMA ReceivedKept ==
  ASSUME EventTypeOK, receiving, SendEvent \/ NextEvent
  PROVE  Received' = Received
<1> USE DEF EventTypeOK
<1>1. CASE SendEvent
  <2>1. /\ Received = delivered \o events \o <<line>>
        /\ Received' = delivered \o Append(events, line) \o <<>>
    BY <1>1 DEF SendEvent, Received
  <2> QED
    BY <2>1
<1>2. CASE NextEvent
  <2> DEFINE rest == IF reader = "sending" THEN <<line>> ELSE <<>>
  <2>1. rest \in Seq(Nat) /\ rest' = rest
    BY <1>2 DEF NextEvent
  <2>2. Append(delivered, Head(events)) \o Tail(events) = delivered \o events
    BY <1>2 DEF NextEvent
  <2> QED
    BY <1>2, <2>1, <2>2 DEF NextEvent, Received
<1> QED
  BY <1>1, <1>2

(* What is left of a stream once its first n halves have been taken.         *)
LEMMA Remainder ==
  ASSUME NEW s \in Seq(Nat), NEW n \in 0..Len(s)
  PROVE  /\ SubSeq(s, n + 1, Len(s)) \in Seq(Nat)
         /\ Len(SubSeq(s, n + 1, Len(s))) = Len(s) - n
         /\ \A i \in 1..(Len(s) - n) : SubSeq(s, n + 1, Len(s))[i] = s[i + n]
<1>1. Len(s) \in Nat /\ n + 1 \in 1..(Len(s) + 1)
  OBVIOUS
<1> QED
  BY <1>1, SubSeqProperties

(* Taking n halves moves the place in the stream by n and leaves no gap.     *)
LEMMA HalvesTaken ==
  ASSUME EventInv, NEW n \in 1..Len(stream), stream' = SubSeq(stream, n + 1, Len(stream)),
         UNCHANGED halves
  PROVE  /\ Taken \in Int /\ Taken' = Taken + n
         /\ stream[n] = Taken + n
         /\ \A i \in 1..Len(stream') : stream'[i] = Taken' + i
<1>1. stream \in Seq(Nat) /\ halves \in Nat /\ \A i \in 1..Len(stream) : stream[i] = Taken + i
  BY DEF EventInv, EventTypeOK
<1>2. n \in Nat /\ n <= Len(stream) /\ Len(stream) \in Nat
  BY <1>1
<1>3. /\ Len(stream') = Len(stream) - n
      /\ \A i \in 1..Len(stream') : stream'[i] = stream[i + n]
  BY <1>1, <1>2, Remainder
<1>4. Taken \in Int /\ Taken' = Taken + n
  <2>1. Taken = halves - Len(stream) /\ Taken' = halves - Len(stream')
    BY DEF Taken
  <2> QED
    BY <1>1, <1>2, <1>3, <2>1
<1>5. ASSUME NEW i \in 1..Len(stream') PROVE stream'[i] = Taken' + i
  <2>1. i + n \in 1..Len(stream)
    BY <1>2, <1>3
  <2> QED
    BY <1>1, <1>2, <1>3, <1>4, <2>1
<1> QED
  BY <1>1, <1>2, <1>4, <1>5

LEMMA ReceivedIsSeq ==
  ASSUME EventTypeOK
  PROVE  Received \in Seq(Nat)
BY DEF EventTypeOK, Received

LEMMA EventTypesKept ==
  ASSUME EventTypeOK, Next
  PROVE  EventTypeOK'
<1> USE DEF EventTypeOK
<1>1. CASE UNCHANGED <<subscribed, halves, stream, early, reader, line, events, delivered>>
  BY <1>1
<1>2. CASE Subscribe \/ BridgeAccepts \/ BridgeWrites \/ HandshakeFails
  <2>1. CASE Subscribe \/ HandshakeFails
    BY <2>1 DEF Subscribe, HandshakeFails
  <2>2. CASE BridgeAccepts
    BY <2>2 DEF BridgeAccepts
  <2>3. CASE BridgeWrites
    BY <2>3 DEF BridgeWrites
  <2> QED
    BY <1>2, <2>1, <2>2, <2>3
<1>3. CASE Acknowledged
  BY <1>3 DEF Acknowledged
<1>4. CASE ReadEvent
  <2>1. stream[1] \in Nat /\ SubSeq(stream, 3, Len(stream)) \in Seq(Nat)
    BY <1>4 DEF ReadEvent
  <2>2. EventOf(stream[1]) \in Nat
    BY <2>1, HalvesOfEvents
  <2> QED
    BY <1>4, <2>1, <2>2 DEF ReadEvent
<1>5. CASE SkipLine \/ ReadFails \/ EndOfStream \/ SendFails
  <2>1. CASE SkipLine
    BY <2>1 DEF SkipLine
  <2>2. CASE ReadFails \/ EndOfStream \/ SendFails
    BY <2>2 DEF ReadFails, EndOfStream, SendFails
  <2> QED
    BY <1>5, <2>1, <2>2
<1>6. CASE SendEvent \/ NextEvent \/ Shutdown
  <2>1. CASE SendEvent
    BY <2>1 DEF SendEvent
  <2>2. CASE NextEvent
    BY <2>2 DEF NextEvent
  <2>3. CASE Shutdown
    <3>1. events' \in Seq(Nat) /\ Len(events') = 0 /\ 0 <= EventCap
      BY <2>3 DEF Shutdown
    <3> QED
      BY <2>3, <3>1 DEF Shutdown
  <2> QED
    BY <1>6, <2>1, <2>2, <2>3
<1>7. CASE \/ \E m \in {"init", "get"} : Call(m, Initially)
           \/ \E v \in Values : Call("set", v)
           \/ \E r \in requests : BridgeHandles(r)
           \/ Returns \/ ReturnsError \/ TimesOut \/ BridgeDies \/ BridgeRestarts
  BY <1>1, <1>7 DEF Call, BridgeHandles, Returns, ReturnsError, TimesOut, Fail, BridgeDies,
     BridgeRestarts, eventVars
<1> QED
  BY <1>2, <1>3, <1>4, <1>5, <1>6, <1>7 DEF Next

(* What has been received stays as it was while the receiver is there.       *)
LEMMA ReceivedUnchanged ==
  ASSUME EventInv, receiving' => receiving /\ Received' = Received, UNCHANGED early
  PROVE  NoGapInEvents' /\ LossEndsWithHandshake'
BY DEF EventInv, NoGapInEvents, LossEndsWithHandshake

(* An event that the reader takes is the next one.                           *)
LEMMA ReceivedNext ==
  ASSUME EventInv, EventTypeOK', ReadEvent
  PROVE  EventInv'
<1> USE DEF EventTypeOK
<1>1. /\ Taken \in Int /\ Taken' = Taken + 2
      /\ \A i \in 1..Len(stream') : stream'[i] = Taken' + i
  <2>1. stream' = SubSeq(stream, 2 + 1, Len(stream)) /\ 2 \in 1..Len(stream)
    BY DEF EventInv, ReadEvent
  <2> QED
    BY <2>1, HalvesTaken DEF ReadEvent
<1>2. stream[1] = Taken + 1
  BY DEF EventInv, ReadEvent
<1>3. CASE ~receiving
  BY <1>1, <1>2, <1>3 DEF EventInv, ReadEvent, NoGapInEvents, LossEndsWithHandshake
<1>4. CASE receiving
  <2>1. Received \in Seq(Nat) /\ Received' = Append(Received, line')
    <3>1. Received = delivered \o events /\ Received' = delivered \o events \o <<line'>>
      BY DEF ReadEvent, Received
    <3>2. delivered \o events \in Seq(Nat) /\ delivered \o events \o <<line'>> = Append(delivered \o events, line')
      <4>1. delivered \o events \in Seq(Nat)
        BY DEF EventInv, EventTypeOK
      <4> DEFINE d == delivered \o events
      <4> HIDE DEF d
      <4>2. d \in Seq(Nat) => d \o <<line'>> = Append(d, line')
        OBVIOUS
      <4> QED BY ONLY <4>1, <4>2 DEF d
    <3> QED
      BY <3>1, <3>2
  <2>2. Taken \in Nat /\ stream[1] = Taken + 1 /\ line' = EventOf(Taken + 1)
    BY <1>1, <1>2, <1>4 DEF EventInv, ReadEvent
  <2>3. line' = EventOf(Taken) + 1 /\ Taken' = 2 * line'
    BY <1>1, <2>2, HalvesOfEvents DEF ReadEvent
  <2>4. LastReceived' = line' /\ Received' # <<>> /\ Len(Received') = Len(Received) + 1
    <3>1. Len(Received') = Len(Received) + 1 /\ Len(Received) \in Nat /\ Received'[Len(Received) + 1] = line'
      BY ONLY <2>1
    <3>2. Received' # <<>>
      BY ONLY <3>1
    <3> QED BY ONLY <3>1, <3>2 DEF LastReceived
  <2>5. CASE Received = <<>>
    <3>1. line' <= EventOf(early) + 1
      <4>1. EventOf(Taken) \in Nat /\ EventOf(early) \in Nat
        <5>1. early \in Nat
          BY DEF EventInv
        <5> QED
          BY <2>2, <5>1, HalvesOfEvents
      <4> QED
        BY <1>4, <2>3, <2>5, <4>1 DEF EventInv
    <3>4. Received' = <<line'>> /\ Head(Received') = line'
      BY <2>1, <2>5
    <3>2. NoGapInEvents' /\ LossEndsWithHandshake'
      BY <3>1, <3>4 DEF NoGapInEvents, LossEndsWithHandshake, ReadEvent
    <3> QED
      BY <1>1, <1>2, <1>4, <2>2, <2>3, <2>4, <3>2 DEF EventInv, ReadEvent
  <2>6. CASE Received # <<>>
    <3>1. Taken = 2 * LastReceived /\ LastReceived \in Nat
      BY <1>4, <2>1, <2>6 DEF EventInv, ReadEvent, LastReceived
    <3>2. line' = LastReceived + 1
      BY <2>2, <3>1, HalvesOfEvents
    <3>3. NoGapInEvents'
      <4> SUFFICES ASSUME NEW i \in 1..(Len(Received') - 1)
                   PROVE  Received'[i + 1] = Received'[i] + 1
        BY DEF NoGapInEvents
      <4>1. Len(Received') = Len(Received) + 1 /\ Len(Received) \in Nat
        BY <2>1
      <4>2. CASE i = Len(Received)
        BY <2>1, <3>1, <3>2, <4>1, <4>2 DEF LastReceived
      <4>3. CASE i # Len(Received)
        <5>1. i \in 1..(Len(Received) - 1)
          BY <4>1, <4>3
        <5>2. Received[i + 1] = Received[i] + 1
          BY <1>4, <5>1 DEF EventInv, NoGapInEvents
        <5> QED
          BY <2>1, <4>1, <5>1, <5>2
      <4> QED
        BY <4>2, <4>3
    <3>4. LossEndsWithHandshake'
      BY <1>4, <2>1, <2>6 DEF EventInv, LossEndsWithHandshake, ReadEvent
    <3> QED
      BY <1>1, <1>2, <1>4, <2>2, <2>3, <2>4, <3>3, <3>4 DEF EventInv, ReadEvent
  <2> QED
    BY <2>5, <2>6
<1> QED
  BY <1>3, <1>4

LEMMA EventsSafe == Spec => []EventInv
<1>1. Init => EventInv
  BY DEF Init, EventInv, EventTypeOK, Taken, Received, NoGapInEvents, LossEndsWithHandshake
<1>2. EventInv /\ [Next]_vars => EventInv'
  <2> SUFFICES ASSUME EventInv, [Next]_vars PROVE EventInv'
    OBVIOUS
  <2>1. EventTypeOK'
    BY EventTypesKept DEF EventInv, EventTypeOK, vars, eventVars
  <2>2. CASE UNCHANGED <<subscribed, halves, stream, early, reader, line, events, receiving,
                         delivered>>
    BY <2>2 DEF EventInv, EventTypeOK, Taken, LastReceived, Received, NoGapInEvents,
       LossEndsWithHandshake
  <2>3. CASE Subscribe \/ BridgeAccepts \/ HandshakeFails
    <3>1. /\ subscribed # "yes" /\ subscribed' # "yes" /\ ~receiving /\ ~receiving'
          /\ UNCHANGED <<halves, reader, delivered, events>>
      BY <2>3 DEF EventInv, Subscribe, BridgeAccepts, HandshakeFails
    <3>2. CASE Subscribe \/ HandshakeFails
      BY <2>1, <3>1, <3>2 DEF EventInv, Subscribe, HandshakeFails, Taken, NoGapInEvents,
         LossEndsWithHandshake
    <3>3. CASE BridgeAccepts
      <4>1. halves' = 0 /\ stream' = <<0>> /\ Len(stream') = 1 /\ Taken' = -1
        BY <3>3 DEF BridgeAccepts, Taken
      <4> QED
        BY <2>1, <3>1, <3>3, <4>1 DEF EventInv, BridgeAccepts, NoGapInEvents,
           LossEndsWithHandshake
    <3> QED
      BY <2>3, <3>2, <3>3
  <2>4. CASE BridgeWrites
    <3>1. Taken' = Taken /\ Received' = Received /\ LastReceived' = LastReceived
      BY <2>4 DEF EventInv, EventTypeOK, BridgeWrites, Taken, LastReceived, Received
    <3>2. \A i \in 1..Len(stream') : stream'[i] = Taken' + i
      BY <2>4, <3>1 DEF EventInv, EventTypeOK, BridgeWrites, Taken
    <3>3. NoGapInEvents' /\ LossEndsWithHandshake'
      BY <2>4, <3>1, ReceivedUnchanged DEF BridgeWrites
    <3> QED
      BY <2>1, <2>4, <3>1, <3>2, <3>3 DEF EventInv, EventTypeOK, BridgeWrites
  <2>5. CASE Acknowledged
    <3>1. PICK n \in 1..Len(stream) : stream' = SubSeq(stream, n + 1, Len(stream))
      BY <2>5 DEF Acknowledged
    <3>2. Received' = <<>>
      BY <2>5 DEF EventInv, Acknowledged, Received
    <3>3. /\ Taken \in Int /\ Taken' = Taken + n
          /\ \A i \in 1..Len(stream') : stream'[i] = Taken' + i
      BY <2>5, <3>1, HalvesTaken DEF Acknowledged
    <3>4. Taken' \in 0..halves /\ halves \in Nat
      <4>1. stream \in Seq(Nat) /\ halves \in Nat /\ Len(stream) = halves + 1
        BY <2>5 DEF EventInv, EventTypeOK, Acknowledged
      <4>2. Taken = -1
        BY <4>1 DEF Taken
      <4> QED
        BY <3>3, <4>1, <4>2
    <3>5. EventOf(Taken') <= EventOf(halves)
      BY <3>4 DEF EventOf
    <3>6. NoGapInEvents' /\ LossEndsWithHandshake'
      BY <3>2 DEF NoGapInEvents, LossEndsWithHandshake
    <3>7. subscribed' = "yes" /\ reader' = "reading" /\ early' = halves
      BY <2>5 DEF Acknowledged
    <3> QED
      BY <2>1, <3>2, <3>3, <3>4, <3>5, <3>6, <3>7 DEF EventInv
  <2>6. CASE ReadEvent
    BY <2>1, <2>6, ReceivedNext
  <2>7. CASE SkipLine
    <3>1. stream' = SubSeq(stream, 1 + 1, Len(stream)) /\ 1 \in 1..Len(stream)
      BY <2>7 DEF EventInv, EventTypeOK, SkipLine
    <3>2. /\ Taken \in Int /\ Taken' = Taken + 1 /\ stream[1] = Taken + 1
          /\ \A i \in 1..Len(stream') : stream'[i] = Taken' + i
      BY <2>7, <3>1, HalvesTaken DEF SkipLine
    <3>6. Received' = Received
      BY <2>7 DEF SkipLine, Received
    <3>3. NoGapInEvents' /\ LossEndsWithHandshake'
      BY <2>7, <3>6, ReceivedUnchanged DEF SkipLine
    <3>4. receiving => Taken \in Nat /\ ~FirstHalf(Taken + 1)
      BY <2>7, <3>2 DEF EventInv, SkipLine
    <3>5. receiving => Received = <<>> /\ EventOf(Taken') = EventOf(Taken)
      <4>1. Received \in Seq(Nat)
        BY ReceivedIsSeq DEF EventInv
      <4>2. receiving /\ Received # <<>> => Taken = 2 * LastReceived /\ LastReceived \in Nat
        BY <2>7, <4>1 DEF EventInv, SkipLine, LastReceived
      <4> QED
        BY <3>2, <3>4, <4>2, HalvesOfEvents
    <3> QED
      BY <2>1, <2>7, <3>2, <3>3, <3>4, <3>5, <3>6 DEF EventInv, SkipLine
  <2>8. CASE ReadFails \/ EndOfStream \/ SendFails
    <3>1. receiving => Received' = Received
      BY <2>8 DEF ReadFails, EndOfStream, SendFails, Received
    <3>2. NoGapInEvents' /\ LossEndsWithHandshake'
      BY <2>8, <3>1, ReceivedUnchanged DEF ReadFails, EndOfStream, SendFails
    <3> QED
      BY <2>1, <2>8, <3>1, <3>2 DEF EventInv, ReadFails, EndOfStream, SendFails, Taken
  <2>9. CASE SendEvent \/ NextEvent
    <3>1. Received' = Received /\ LastReceived' = LastReceived
      BY <2>9, ReceivedKept DEF EventInv, SendEvent, NextEvent, LastReceived
    <3>2. NoGapInEvents' /\ LossEndsWithHandshake'
      BY <2>9, <3>1, ReceivedUnchanged DEF SendEvent, NextEvent
    <3> QED
      BY <2>1, <2>9, <3>1, <3>2 DEF EventInv, EventTypeOK, SendEvent, NextEvent, Taken
  <2>10. CASE Shutdown
    BY <2>1, <2>10 DEF EventInv, EventTypeOK, Shutdown, Taken, NoGapInEvents,
       LossEndsWithHandshake
  <2>11. CASE \/ \E m \in {"init", "get"} : Call(m, Initially)
              \/ \E v \in Values : Call("set", v)
              \/ \E r \in requests : BridgeHandles(r)
              \/ Returns \/ ReturnsError \/ TimesOut \/ BridgeDies \/ BridgeRestarts
              \/ UNCHANGED vars
    BY <2>2, <2>11 DEF Call, BridgeHandles, Returns, ReturnsError, TimesOut, Fail, BridgeDies,
       BridgeRestarts, eventVars, vars
  <2> QED
    BY <2>3, <2>4, <2>5, <2>6, <2>7, <2>8, <2>9, <2>10, <2>11 DEF Next
<1> QED
  BY <1>1, <1>2, PTL DEF Spec

(* A subscriber gets the bridge's events in order, each once and none left   *)
(* out, from the first it gets: a full channel makes the reader wait.        *)
THEOREM EventsHaveNoGap == Spec => []NoGapInEvents
<1>1. EventInv => NoGapInEvents
  BY DEF EventInv
<1> QED
  BY <1>1, EventsSafe, PTL

(* The first event a subscriber gets is at most the one after that which the *)
(* bridge was writing when the response was read.                            *)
THEOREM LossIsBounded == Spec => []LossEndsWithHandshake
<1>1. EventInv => LossEndsWithHandshake
  BY DEF EventInv
<1> QED
  BY <1>1, EventsSafe, PTL

-----------------------------------------------------------------------------
(* What is left of the type invariant.                                       *)
FlagTypeOK == cached \in BOOLEAN /\ closed \in BOOLEAN /\ receiving \in BOOLEAN /\ up \in BOOLEAN

LEMMA FlagsSafe == Spec => []FlagTypeOK
<1>1. Init => FlagTypeOK
  BY DEF Init, FlagTypeOK
<1>2. FlagTypeOK /\ [Next]_vars => FlagTypeOK'
  <2> SUFFICES ASSUME FlagTypeOK, [Next]_vars PROVE FlagTypeOK'
    OBVIOUS
  <2>1. /\ UNCHANGED cached \/ cached' = TRUE
        /\ UNCHANGED closed \/ closed' = (closed \/ subscribed \in {"handshake", "yes"})
        /\ UNCHANGED receiving \/ receiving' = TRUE \/ receiving' = FALSE
        /\ UNCHANGED up \/ up' = TRUE \/ up' = FALSE
    BY Zenon DEF Next, vars, commandVars, eventVars, Call, BridgeHandles, Returns, ReturnsError,
       TimesOut, Fail, Subscribe, BridgeAccepts, BridgeWrites, Acknowledged, HandshakeFails,
       ReadEvent, SkipLine, ReadFails, EndOfStream, SendEvent, SendFails, NextEvent, Shutdown,
       BridgeDies, BridgeRestarts
  <2> QED
    BY <2>1 DEF FlagTypeOK
<1> QED
  BY <1>1, <1>2, PTL DEF Spec

(* The variables have their types; in particular the event channel never     *)
(* holds more than its capacity.                                             *)
THEOREM BridgeTypeCorrect == Spec => []TypeOK
<1>1. CommandInv /\ EventInv /\ FlagTypeOK => TypeOK
  BY Zenon DEF CommandInv, CommandTypeOK, EventInv, EventTypeOK, FlagTypeOK, TypeOK
<1> QED
  BY <1>1, CommandsSafe, EventsSafe, FlagsSafe, PTL
=============================================================================
