------------------------- MODULE AdapterActorProofs -------------------------
(***************************************************************************)
(* Theorems about AdapterActor for every number of clients, keys, values   *)
(* and events and every channel capacity.                                  *)
(***************************************************************************)
EXTENDS AdapterActor, TLAPS

-----------------------------------------------------------------------------
(* What sending to a queue, and receiving from it, does to its elements and  *)
(* to their being distinct.                                                  *)
LEMMA QueueSend ==
  ASSUME NEW S, NEW s \in Seq(S), NEW x \in S, IsInjective(s), x \notin Range(s)
  PROVE  Range(Append(s, x)) = Range(s) \cup {x} /\ IsInjective(Append(s, x))
<1>1. /\ Len(s) \in Nat /\ DOMAIN s = 1..Len(s) /\ DOMAIN Append(s, x) = 1..(Len(s) + 1)
      /\ \A i \in 1..Len(s) : Append(s, x)[i] = s[i]
      /\ Append(s, x)[Len(s) + 1] = x
  OBVIOUS
<1> DEFINE t == Append(s, x)
<1> HIDE DEF t
<1>2. Range(t) = Range(s) \cup {x}
  BY <1>1 DEF Range, t
<1>3. IsInjective(t)
  BY <1>1 DEF IsInjective, Range, t
<1> QED BY <1>2, <1>3 DEF t

LEMMA QueueReceive ==
  ASSUME NEW S, NEW s \in Seq(S), s # <<>>, IsInjective(s)
  PROVE  /\ Range(s) = {Head(s)} \cup Range(Tail(s)) /\ Head(s) \notin Range(Tail(s))
         /\ IsInjective(Tail(s))
<1> DEFINE t == Tail(s)
<1>1. /\ Len(s) \in Nat \ {0} /\ DOMAIN s = 1..Len(s) /\ DOMAIN t = 1..(Len(s) - 1) /\ Head(s) = s[1]
      /\ \A i \in DOMAIN t : i + 1 \in DOMAIN s /\ t[i] = s[i + 1]
      /\ \A i \in DOMAIN s : i = 1 \/ (i - 1 \in DOMAIN t /\ t[i - 1] = s[i])
  OBVIOUS
<1> HIDE DEF t
<1>2. Range(s) = {Head(s)} \cup Range(t)
  BY <1>1 DEF Range
<1>3. Head(s) \notin Range(t) /\ IsInjective(t)
  BY <1>1 DEF Range, IsInjective
<1> QED BY <1>2, <1>3 DEF t

-----------------------------------------------------------------------------
(* Type correctness.                                                        *)

LEMMA ResultTypes ==
  /\ \A status \in {"none", "ok", "error", "dropped", "closed"} : Without(status) \in Results
  /\ \A v \in Values : [status |-> "ok", value |-> v] \in Results
BY DEF Without, Results

LEMMA RequestTypes ==
  ASSUME NEW r \in Requests
  PROVE  /\ r.op \in {"get", "set", "manifest", "shutdown"}
         /\ r.op = "get" => r.key \in Keys
         /\ r.op = "set" => r.key \in Keys /\ r.value \in Values
BY DEF Requests

LEMMA OutcomeTypes ==
  ASSUME NEW c \in Clients, NEW r \in Results
  PROVE  Outcome(c, r) \in Results
BY ResultTypes DEF Outcome

(* The actor is serving somebody exactly while it executes or replies. *)
ServesSomebody == (actor \in {"execute", "reply"}) <=> (current \in Clients)

TypeInv == TypeOK /\ ServesSomebody

LEMMA InitTypeInv == Init => TypeInv
<1> SUFFICES ASSUME Init PROVE TypeInv
  OBVIOUS
<1>1. [op |-> "manifest"] \in Requests
  BY DEF Requests
<1>2. Pending \in Results
  BY ResultTypes DEF Pending
<1>3. <<>> \in Seq(Clients) /\ <<>> \in Seq(Nat) /\ Len(<<>>) = 0
  OBVIOUS
<1> QED
  BY <1>1, <1>2, <1>3, CapacityAssumption, NobodyAssumption
  DEF Init, TypeInv, TypeOK, ActorStates, ServesSomebody

LEMMA NextTypeInv == TypeInv /\ [Next]_vars => TypeInv'
<1> SUFFICES ASSUME TypeInv, [Next]_vars PROVE TypeInv'
  OBVIOUS
<1> USE DEF TypeInv, TypeOK, ServesSomebody, ActorStates, actorVars, clientVars, eventVars,
            adapterVars
<1>1. CASE InitAdapter \/ Subscribe
  BY <1>1 DEF InitAdapter, Subscribe
<1>2. CASE NextEvent \/ StreamEnds \/ ForwardFails
  BY <1>2 DEF NextEvent, StreamEnds, ForwardFails
<1>3. CASE Forward
  <2>1. events' \in Seq(Nat) /\ Len(events') <= EventCap
    BY <1>3, CapacityAssumption DEF Forward
  <2> QED BY <1>3, <2>1 DEF Forward
<1>4. CASE RecvCommand
  <2>1. /\ cmds' \in Seq(Clients)
        /\ Len(cmds') <= CmdCap
        /\ current' \in Clients
    BY <1>4, CapacityAssumption DEF RecvCommand
  <2> QED BY <1>4, <2>1 DEF RecvCommand
<1>5. CASE RecvNone \/ FinalShutdown \/ DropEventSender
  BY <1>5 DEF RecvNone, FinalShutdown, DropEventSender
<1>6. CASE Execute
  <2>1. current \in Clients /\ req[current] \in Requests
    BY <1>6 DEF Execute
  <2>2. PICK result \in Results : Served(req[current], result, store') /\ answer' = result
    BY <1>6 DEF Execute
  <2>3. store' \in [Keys -> Values]
    BY <2>1, <2>2, RequestTypes DEF Served
  <2>4. req[current].op = "shutdown" => answer'.status \in {"ok", "error"}
    BY <2>2 DEF Served, Without
  <2>5. shutdowns' \in Nat /\ shutdownResult' \in {"none", "ok", "error", "warned"}
    BY <1>6, <2>4 DEF Execute
  <2> QED BY <1>6, <2>1, <2>2, <2>3, <2>5 DEF Execute
<1>7. CASE Reply
  BY <1>7, NobodyAssumption DEF Reply
<1>8. CASE DropCommandReceiver
  <2>1. cmds' \in Seq(Clients) /\ Len(cmds') = 0
    BY <1>8 DEF DropCommandReceiver
  <2>2. reply' \in [Clients -> Results]
    BY <1>8, ResultTypes DEF DropCommandReceiver
  <2> QED BY <1>8, <2>1, <2>2, CapacityAssumption DEF DropCommandReceiver
<1>9. ASSUME NEW c \in Clients, NEW r \in Requests, Call(c, r) PROVE TypeInv'
  BY <1>9, ResultTypes DEF Call, Pending
<1>10. ASSUME NEW c \in Clients, Send(c) PROVE TypeInv'
  <2>1. cmds' \in Seq(Clients) /\ Len(cmds') <= CmdCap
    BY <1>10, CapacityAssumption DEF Send
  <2> QED BY <1>10, <2>1 DEF Send
<1>11. ASSUME NEW c \in Clients, SendFails(c) \/ Return(c) PROVE TypeInv'
  <2>1. PICK r \in Results : reply' = [reply EXCEPT ![c] = Outcome(c, r)]
    BY <1>11, ResultTypes DEF SendFails, Return
  <2>2. Outcome(c, r) \in Results
    BY OutcomeTypes
  <2>3. reply' \in [Clients -> Results]
    BY <2>1, <2>2
  <2> QED BY <1>11, <2>3 DEF SendFails, Return
<1>12. ASSUME NEW c \in Clients, DropHandle(c) PROVE TypeInv'
  BY <1>12 DEF DropHandle
<1>13. CASE Receive
  <2>1. /\ events' \in Seq(Nat)
        /\ Len(events') <= EventCap
        /\ received' \in Nat
    BY <1>13, CapacityAssumption DEF Receive
  <2> QED BY <1>13, <2>1 DEF Receive
<1>14. CASE DropReceiver
  <2>1. events' \in Seq(Nat) /\ Len(events') = 0
    BY <1>14 DEF DropReceiver
  <2>2. rxOpen' \in BOOLEAN
    BY <1>14 DEF DropReceiver
  <2>3. Len(events') <= EventCap
    BY <2>1, CapacityAssumption
  <2> QED BY <1>14, <2>1, <2>2, <2>3 DEF DropReceiver
<1>15. CASE WindowManagerChanges
  BY <1>15 DEF WindowManagerChanges
<1>16. CASE UNCHANGED vars
  BY <1>16 DEF vars
<1> QED
  BY <1>1, <1>2, <1>3, <1>4, <1>5, <1>6, <1>7, <1>8, <1>9, <1>10, <1>11, <1>12, <1>13, <1>14,
     <1>15, <1>16
  DEF Next, ActorStep, ClientStep, ReceiverStep

(* Every variable keeps its type, for every number of clients and every     *)
(* channel capacity; in particular neither channel ever exceeds its bound.  *)
THEOREM TypeCorrect == Spec => []TypeOK
<1>1. Init => TypeInv
  BY InitTypeInv
<1>2. TypeInv /\ [Next]_vars => TypeInv'
  BY NextTypeInv
<1>3. TypeInv => TypeOK
  BY DEF TypeInv
<1> QED BY <1>1, <1>2, <1>3, PTL DEF Spec

-----------------------------------------------------------------------------
(* The inductive invariant behind the safety properties.                    *)

(* Once the receiver of the commands is dropped the queue stays empty.      *)
EmptyWhenGone == actor = "gone" => cmds = <<>>

(* Where a call's reply can be: not there before the command is sent,       *)
(* dropped only by an actor that is gone, and never the error of a closed   *)
(* channel for a call whose send succeeded.                                 *)
RepliesMatchCalls ==
  \A c \in Clients :
    /\ call[c] = "sending" => reply[c].status = "none"
    /\ call[c] = "waiting" => reply[c].status # "closed"
    /\ call[c] = "waiting" /\ reply[c].status = "dropped"
         => actor = "gone" /\ reply[c] = Without("dropped")

(* The actor answers with what the adapter returned. *)
AnswersAreResults == actor = "reply" => answer.status \in {"ok", "error"}

(* A shutdown call that the adapter answered has shut it down. *)
AnsweredShutdown ==
  \A c \in Clients :
    req[c].op = "shutdown" /\ call[c] = "waiting" /\ reply[c].status \in {"ok", "error"}
      => shutdowns > 0

IInv ==
  /\ TypeInv
  /\ OneCommandPerCall
  /\ NoOrphanedCall
  /\ ShutdownOnce
  /\ ShutdownReturnsAfterShutdown
  /\ EmptyWhenGone
  /\ RepliesMatchCalls
  /\ AnswersAreResults
  /\ AnsweredShutdown

LEMMA InitIInv == Init => IInv
<1> SUFFICES ASSUME Init PROVE IInv
  OBVIOUS
<1>1. TypeInv
  BY InitTypeInv
<1>2. Range(<<>>) = {} /\ IsInjective(<<>>)
  BY DEF Range, IsInjective
<1> QED
  BY <1>1, <1>2
  DEF Init, IInv, OneCommandPerCall, NoOrphanedCall, ShutdownOnce, ShutdownReturnsAfterShutdown,
      EmptyWhenGone, RepliesMatchCalls, AnswersAreResults, AnsweredShutdown, Serving, Pending,
      Without

(* The invariant speaks of neither the events, the store nor the handles.   *)
LEMMA StutterIInv ==
  IInv /\ TypeInv' /\ UNCHANGED <<actor, current, answer, call, req, reply, cmds, shutdowns>> => IInv'
BY DEF IInv, OneCommandPerCall, NoOrphanedCall, ShutdownOnce, ShutdownReturnsAfterShutdown,
       EmptyWhenGone, RepliesMatchCalls, AnswersAreResults, AnsweredShutdown, Serving

(* Steps that move the actor between positions where it serves nobody. *)
LEMMA MoveIInv ==
  ASSUME IInv, TypeInv', UNCHANGED <<current, answer, call, req, reply, cmds>>,
         actor \notin {"execute", "reply", "gone"}, actor' \notin {"execute", "reply", "gone"},
         shutdowns' = (IF actor' \in {"dropEvents", "dropCommands"} THEN 1 ELSE 0),
         shutdowns' >= shutdowns
  PROVE  IInv'
<1> USE DEF IInv, TypeInv, TypeOK
<1>1. OneCommandPerCall' /\ NoOrphanedCall'
  BY DEF OneCommandPerCall, NoOrphanedCall, Serving
<1>2. ShutdownOnce' /\ EmptyWhenGone' /\ RepliesMatchCalls' /\ AnswersAreResults'
  BY DEF ShutdownOnce, EmptyWhenGone, RepliesMatchCalls, AnswersAreResults
<1>3. ShutdownReturnsAfterShutdown' /\ AnsweredShutdown'
  BY DEF ShutdownReturnsAfterShutdown, AnsweredShutdown
<1> QED BY <1>1, <1>2, <1>3

LEMMA NextIInv == IInv /\ [Next]_vars => IInv'
<1> SUFFICES ASSUME IInv, [Next]_vars PROVE IInv'
  OBVIOUS
<1>0. TypeInv /\ TypeInv'
  BY NextTypeInv DEF IInv
<1> USE DEF actorVars, clientVars, eventVars, adapterVars
<1>1. CASE InitAdapter \/ Subscribe \/ NextEvent \/ StreamEnds \/ Forward \/ ForwardFails \/ RecvNone
           \/ FinalShutdown
  <2>1. shutdowns = 0
    BY <1>1
    DEF IInv, ShutdownOnce, InitAdapter, Subscribe, NextEvent, StreamEnds, Forward, ForwardFails,
        RecvNone, FinalShutdown
  <2> QED
    BY <1>0, <1>1, <2>1, MoveIInv
    DEF InitAdapter, Subscribe, NextEvent, StreamEnds, Forward, ForwardFails, RecvNone, FinalShutdown
<1>2. CASE DropEventSender
  <2>1. shutdowns = 1
    BY <1>2 DEF IInv, ShutdownOnce, DropEventSender
  <2> QED BY <1>0, <1>2, <2>1, MoveIInv DEF DropEventSender
<1>3. CASE RecvCommand
  <2>1. /\ IsInjective(cmds')
        /\ Range(cmds) = {current'} \cup Range(cmds')
        /\ current' \notin Range(cmds')
        /\ current' \in Clients
    BY <1>0, <1>3, QueueReceive
    DEF RecvCommand, IInv, OneCommandPerCall, TypeInv, TypeOK
  <2>2. OneCommandPerCall' /\ NoOrphanedCall'
    BY <1>0, <1>3, <2>1 DEF RecvCommand, IInv, OneCommandPerCall, NoOrphanedCall, Serving
  <2> QED
    BY <1>0, <1>3, <2>2
    DEF RecvCommand, IInv, ShutdownOnce, ShutdownReturnsAfterShutdown, EmptyWhenGone,
        RepliesMatchCalls, AnswersAreResults, AnsweredShutdown
<1>4. CASE Execute
  <2>1. current \in Clients /\ Serving(current) /\ shutdowns = 0
    BY <1>0, <1>4 DEF Execute, TypeInv, ServesSomebody, Serving, IInv, ShutdownOnce
  <2>2. AnswersAreResults'
    BY <1>0, <1>4, <2>1, RequestTypes
    DEF Execute, Served, Without, AnswersAreResults, TypeInv, TypeOK
  <2>3. ShutdownOnce' /\ shutdowns' \in Nat /\ shutdowns' >= shutdowns
    BY <1>4, <2>1 DEF Execute, ShutdownOnce
  <2>4. OneCommandPerCall' /\ NoOrphanedCall'
    BY <1>4, <2>1 DEF Execute, IInv, OneCommandPerCall, NoOrphanedCall, Serving
  <2>5. ShutdownReturnsAfterShutdown' /\ AnsweredShutdown'
    BY <1>4, <2>1, <2>3 DEF Execute, IInv, ShutdownReturnsAfterShutdown, AnsweredShutdown
  <2> QED
    BY <1>0, <1>4, <2>2, <2>3, <2>4, <2>5
    DEF Execute, IInv, EmptyWhenGone, RepliesMatchCalls
<1>5. CASE Reply
  <2>1. /\ current \in Clients
        /\ Serving(current)
        /\ current \notin Range(cmds)
        /\ call[current] = "waiting"
        /\ answer.status \in {"ok", "error"}
        /\ reply \in [Clients -> Results]
    BY <1>0, <1>5
    DEF Reply, TypeInv, TypeOK, ServesSomebody, Serving, IInv, OneCommandPerCall, AnswersAreResults
  <2>2. /\ reply'[current] = answer
        /\ \A c \in Clients \ {current} : reply'[c] = reply[c]
    BY <1>5, <2>1 DEF Reply
  <2>3. OneCommandPerCall' /\ NoOrphanedCall'
    BY <1>0, <1>5, <2>1, <2>2 DEF Reply, IInv, OneCommandPerCall, NoOrphanedCall, Serving
  <2>4. ShutdownOnce'
    BY <1>0, <1>5, <2>1, NobodyAssumption DEF Reply, IInv, ShutdownOnce
  <2>5. ShutdownReturnsAfterShutdown'
    BY <1>5 DEF Reply, IInv, ShutdownReturnsAfterShutdown
  <2>6. AnsweredShutdown'
    BY <1>5, <2>1, <2>2 DEF Reply, IInv, AnsweredShutdown, ShutdownOnce
  <2>7. RepliesMatchCalls'
    BY <1>5, <2>1, <2>2 DEF Reply, IInv, RepliesMatchCalls
  <2> QED
    BY <1>0, <1>5, <2>3, <2>4, <2>5, <2>6, <2>7 DEF Reply, IInv, EmptyWhenGone, AnswersAreResults
<1>6. CASE DropCommandReceiver
  <2>1. Range(cmds') = {} /\ IsInjective(cmds')
    BY <1>6 DEF DropCommandReceiver, Range, IsInjective
  <2>2. /\ \A c \in Clients : c \in Range(cmds) => reply'[c] = Without("dropped")
        /\ \A c \in Clients : c \notin Range(cmds) => reply'[c] = reply[c]
    BY <1>6 DEF DropCommandReceiver
  <2>3. \A c \in Clients : ~Serving(c) /\ ~Serving(c)'
    BY <1>6 DEF DropCommandReceiver, Serving
  <2>4. OneCommandPerCall' /\ EmptyWhenGone'
    BY <1>6, <2>1, <2>3 DEF DropCommandReceiver, OneCommandPerCall, EmptyWhenGone
  <2>5. NoOrphanedCall'
    BY <1>6, <2>2, <2>3 DEF DropCommandReceiver, IInv, NoOrphanedCall, Without
  <2>6. ShutdownOnce' /\ AnswersAreResults' /\ ShutdownReturnsAfterShutdown'
    BY <1>6
    DEF DropCommandReceiver, IInv, ShutdownOnce, AnswersAreResults, ShutdownReturnsAfterShutdown
  <2>7. RepliesMatchCalls'
    BY <1>6, <2>2 DEF DropCommandReceiver, IInv, RepliesMatchCalls, OneCommandPerCall, Without
  <2>8. AnsweredShutdown'
    BY <1>6, <2>2 DEF DropCommandReceiver, IInv, AnsweredShutdown, Without
  <2> QED BY <1>0, <2>4, <2>5, <2>6, <2>7, <2>8 DEF IInv
<1>7. ASSUME NEW c \in Clients, NEW r \in Requests, Call(c, r) PROVE IInv'
  <2>1. /\ call'[c] = "sending" /\ reply'[c].status = "none"
        /\ \A d \in Clients \ {c} :
             call'[d] = call[d] /\ req'[d] = req[d] /\ reply'[d] = reply[d]
    BY <1>0, <1>7 DEF Call, Pending, Without, TypeInv, TypeOK
  <2>2. c \notin Range(cmds) /\ ~Serving(c)
    BY <1>7 DEF Call, IInv, OneCommandPerCall
  <2>3. ShutdownOnce'
    <3>1. actor = "reply" => current # c /\ current \in Clients
      BY <1>0, <2>2 DEF Serving, TypeInv, ServesSomebody
    <3> QED BY <1>7, <2>1, <3>1 DEF Call, IInv, ShutdownOnce
  <2>4. OneCommandPerCall'
    BY <1>7, <2>1, <2>2 DEF Call, IInv, OneCommandPerCall, Serving
  <2>5. NoOrphanedCall'
    BY <1>7, <2>1 DEF Call, IInv, NoOrphanedCall, Serving
  <2>6. ShutdownReturnsAfterShutdown' /\ RepliesMatchCalls' /\ AnsweredShutdown'
    BY <1>7, <2>1
    DEF Call, IInv, ShutdownReturnsAfterShutdown, RepliesMatchCalls, AnsweredShutdown
  <2> QED
    BY <1>0, <1>7, <2>3, <2>4, <2>5, <2>6 DEF Call, IInv, EmptyWhenGone, AnswersAreResults
<1>8. ASSUME NEW c \in Clients, Send(c) PROVE IInv'
  <2>1. /\ call'[c] = "waiting" /\ reply[c].status = "none"
        /\ \A d \in Clients \ {c} : call'[d] = call[d]
    BY <1>0, <1>8 DEF Send, TypeInv, TypeOK, IInv, RepliesMatchCalls
  <2>2. c \notin Range(cmds) /\ ~Serving(c)
    BY <1>8 DEF Send, IInv, OneCommandPerCall
  <2>3. Range(cmds') = Range(cmds) \cup {c} /\ IsInjective(cmds')
    BY <1>0, <1>8, <2>2, QueueSend
    DEF Send, IInv, OneCommandPerCall, TypeInv, TypeOK
  <2>4. OneCommandPerCall' /\ NoOrphanedCall'
    BY <1>8, <2>1, <2>2, <2>3
    DEF Send, IInv, OneCommandPerCall, NoOrphanedCall, Serving, ChannelClosed
  <2>5. ShutdownReturnsAfterShutdown' /\ RepliesMatchCalls' /\ AnsweredShutdown' /\ ShutdownOnce'
    BY <1>8, <2>1
    DEF Send, IInv, ShutdownReturnsAfterShutdown, RepliesMatchCalls, AnsweredShutdown, ShutdownOnce
  <2> QED
    BY <1>0, <1>8, <2>4, <2>5 DEF Send, IInv, EmptyWhenGone, AnswersAreResults, ChannelClosed
<1>9. ASSUME NEW c \in Clients, SendFails(c) \/ Return(c) PROVE IInv'
  <2>1. /\ call'[c] = "idle"
        /\ \A d \in Clients \ {c} : call'[d] = call[d] /\ reply'[d] = reply[d]
    BY <1>0, <1>9 DEF SendFails, Return, TypeInv, TypeOK
  <2>2. c \notin Range(cmds) /\ ~Serving(c)
    BY <1>9 DEF SendFails, Return, IInv, OneCommandPerCall
  <2>3. req[c].op = "shutdown" => shutdowns > 0
    <3>1. actor = "gone" => shutdowns > 0
      BY DEF IInv, ShutdownOnce
    <3>2. CASE SendFails(c)
      BY <3>1, <3>2 DEF SendFails, ChannelClosed
    <3>3. CASE Return(c)
      <4>1. reply[c].status \in {"ok", "error", "dropped"}
        BY <1>0, <3>3 DEF Return, IInv, RepliesMatchCalls, TypeInv, TypeOK, Results
      <4> QED
        BY <3>1, <3>3, <4>1 DEF Return, IInv, AnsweredShutdown, RepliesMatchCalls
    <3> QED BY <1>9, <3>2, <3>3
  <2>4. OneCommandPerCall'
    BY <1>9, <2>1, <2>2 DEF SendFails, Return, IInv, OneCommandPerCall, Serving
  <2>5. NoOrphanedCall'
    BY <1>9, <2>1 DEF SendFails, Return, IInv, NoOrphanedCall, Serving
  <2>6. ShutdownReturnsAfterShutdown' /\ RepliesMatchCalls' /\ AnsweredShutdown' /\ ShutdownOnce'
    BY <1>9, <2>1, <2>3
    DEF SendFails, Return, IInv, ShutdownReturnsAfterShutdown, RepliesMatchCalls,
        AnsweredShutdown, ShutdownOnce
  <2> QED
    BY <1>0, <1>9, <2>4, <2>5, <2>6
    DEF SendFails, Return, IInv, EmptyWhenGone, AnswersAreResults
<1>10. ASSUME NEW c \in Clients, DropHandle(c) PROVE IInv'
  BY <1>0, <1>10, StutterIInv DEF DropHandle
<1>11. CASE ReceiverStep \/ WindowManagerChanges
  BY <1>0, <1>11, StutterIInv DEF ReceiverStep, Receive, DropReceiver, WindowManagerChanges
<1>12. CASE UNCHANGED vars
  BY <1>0, <1>12, StutterIInv DEF vars
<1> QED
  BY <1>1, <1>2, <1>3, <1>4, <1>5, <1>6, <1>7, <1>8, <1>9, <1>10, <1>11, <1>12
  DEF Next, ActorStep, ClientStep

LEMMA Invariant == Spec => []IInv
BY InitIInv, NextIInv, PTL DEF Spec

-----------------------------------------------------------------------------
(* The safety properties.                                                   *)

(* No get, set, manifest or shutdown call awaits a reply that nobody can    *)
(* still send: its command is queued or served by an actor that lives.      *)
THEOREM NoCallIsOrphaned == Spec => []NoOrphanedCall
<1>1. IInv => NoOrphanedCall
  BY DEF IInv
<1> QED BY <1>1, Invariant, PTL

(* Every command is served at most once and completes its oneshot once.     *)
THEOREM CommandsAreNotDuplicated == Spec => []OneCommandPerCall
<1>1. IInv => OneCommandPerCall
  BY DEF IInv
<1> QED BY <1>1, Invariant, PTL

(* The actor calls adapter.shutdown() exactly once, however its loop ends.  *)
THEOREM AdapterShutDownOnce == Spec => []ShutdownOnce
<1>1. IInv => ShutdownOnce
  BY DEF IInv
<1> QED BY <1>1, Invariant, PTL

(* AdapterHandle::shutdown returns only after the adapter's shutdown, also  *)
(* when it reports success because the channel or the reply was lost.       *)
THEOREM ShutdownIsTruthful == Spec => []ShutdownReturnsAfterShutdown
<1>1. IInv => ShutdownReturnsAfterShutdown
  BY DEF IInv
<1> QED BY <1>1, Invariant, PTL

-----------------------------------------------------------------------------
(* What the liveness of a call rests on, said of each state: the guards of  *)
(* the steps that fairness gives to a caller and to the actor.              *)

CallCanGoOn(c) ==
  \/ call[c] = "sending" /\ (ChannelClosed \/ Len(cmds) < CmdCap)   \* Send, SendFails
  \/ call[c] = "waiting" /\ reply[c].status # "none"                \* Return

ActorCanGoOn ==
  \/ actor \in {"execute", "reply", "stopping", "dropEvents", "dropCommands"}
  \/ actor = "forward" /\ (rxOpen => Len(events) < EventCap)        \* Forward, ForwardFails
  \/ actor = "select" /\ cmds # <<>>                                \* RecvCommand

(* The actor waits in event_tx.send for a receiver that has not left. *)
AwaitsReceiver == actor = "forward" /\ rxOpen /\ Len(events) = EventCap

(* There is nothing else that a call in progress can be waiting for. *)
CallsWaitForReceiverOnly ==
  \A c \in Clients : call[c] # "idle" => CallCanGoOn(c) \/ ActorCanGoOn \/ AwaitsReceiver

(* Nobody calls an actor that has not started. *)
NoCallBeforeStart ==
  actor \in {"init", "subscribe", "failed"} => handles = {} /\ \A c \in Clients : call[c] = "idle"

LEMMA NextNoCallBeforeStart ==
  TypeOK /\ NoCallBeforeStart /\ [Next]_vars => NoCallBeforeStart'
<1> SUFFICES ASSUME TypeOK, NoCallBeforeStart, [Next]_vars PROVE NoCallBeforeStart'
  OBVIOUS
<1> USE DEF NoCallBeforeStart, actorVars, clientVars
<1>1. CASE ActorStep
  BY <1>1
  DEF ActorStep, InitAdapter, Subscribe, NextEvent, StreamEnds, Forward, ForwardFails, RecvCommand,
      RecvNone, Execute, Reply, FinalShutdown, DropEventSender, DropCommandReceiver
<1>2. ASSUME NEW c \in Clients, ClientStep(c) PROVE NoCallBeforeStart'
  BY <1>2 DEF ClientStep, Call, Send, SendFails, Return, DropHandle
<1>3. CASE ReceiverStep \/ WindowManagerChanges
  BY <1>3 DEF ReceiverStep, Receive, DropReceiver, WindowManagerChanges
<1>4. CASE UNCHANGED vars
  BY <1>4 DEF vars
<1> QED BY <1>1, <1>2, <1>3, <1>4 DEF Next

LEMMA CallsCanGoOn ==
  ASSUME IInv, NoCallBeforeStart
  PROVE  CallsWaitForReceiverOnly
<1> SUFFICES ASSUME NEW c \in Clients, call[c] # "idle"
             PROVE  CallCanGoOn(c) \/ ActorCanGoOn \/ AwaitsReceiver
  BY DEF CallsWaitForReceiverOnly
<1>1. /\ actor \in ActorStates \ {"init", "subscribe", "failed"}
      /\ call[c] \in {"sending", "waiting"}
      /\ cmds \in Seq(Clients) /\ Len(events) \in Nat /\ Len(events) <= EventCap
      /\ rxOpen \in BOOLEAN
  BY DEF IInv, TypeInv, TypeOK, NoCallBeforeStart
<1>2. cmds # <<>> => ActorCanGoOn \/ AwaitsReceiver
  <2>1. cmds # <<>> => actor # "gone"
    BY DEF IInv, EmptyWhenGone
  <2> QED BY <1>1, <2>1, CapacityAssumption DEF ActorCanGoOn, AwaitsReceiver, ActorStates
<1>3. CASE call[c] = "sending"
  BY <1>1, <1>2, <1>3, CapacityAssumption DEF CallCanGoOn
<1>4. CASE call[c] = "waiting" /\ reply[c].status = "none"
  <2>1. c \in Range(cmds) => cmds # <<>>
    BY DEF Range
  <2>2. Serving(c) => ActorCanGoOn
    BY DEF Serving, ActorCanGoOn
  <2> QED BY <1>2, <1>4, <2>1, <2>2 DEF IInv, NoOrphanedCall
<1> QED BY <1>1, <1>3, <1>4 DEF CallCanGoOn

(* A get, set, manifest or shutdown call is never stuck on the handle or in *)
(* the actor: it or the actor can go on, unless the actor waits for room in *)
(* the event channel, which only the receiver can make.                     *)
THEOREM CallsAreNeverStuck == Spec => []CallsWaitForReceiverOnly
<1>1. Init => NoCallBeforeStart
  BY DEF Init, NoCallBeforeStart
<1>2. IInv => TypeOK
  BY DEF IInv, TypeInv
<1> QED BY <1>1, <1>2, Invariant, NextNoCallBeforeStart, CallsCanGoOn, PTL DEF Spec

-----------------------------------------------------------------------------
(* Nothing happens to the adapter after its shutdown.                       *)
LEMMA StepAfterShutdown ==
  IInv /\ [Next]_vars /\ shutdowns > 0
    => UNCHANGED <<store, shutdowns, produced>> /\ (actor' # "execute" \/ UNCHANGED vars)
<1> SUFFICES ASSUME IInv, [Next]_vars, shutdowns > 0
             PROVE  UNCHANGED <<store, shutdowns, produced>> /\ (actor' # "execute" \/ UNCHANGED vars)
  OBVIOUS
<1>1. /\ actor \in {"reply", "dropEvents", "dropCommands", "gone"}
      /\ actor = "reply" => req[current].op = "shutdown"
  BY DEF IInv, ShutdownOnce
<1> USE DEF actorVars, clientVars, eventVars, adapterVars
<1>2. CASE ActorStep
  BY <1>1, <1>2
  DEF ActorStep, InitAdapter, Subscribe, NextEvent, StreamEnds, Forward, ForwardFails, RecvCommand,
      RecvNone, Execute, Reply, FinalShutdown, DropEventSender, DropCommandReceiver
<1>3. ASSUME NEW c \in Clients, ClientStep(c)
      PROVE  UNCHANGED <<store, shutdowns, produced, actor>>
  BY <1>3 DEF ClientStep, Call, Send, SendFails, Return, DropHandle
<1>4. CASE ReceiverStep
  BY <1>1, <1>4 DEF ReceiverStep, Receive, DropReceiver
<1>5. CASE WindowManagerChanges
  BY <1>1, <1>5, NextTypeInv DEF WindowManagerChanges, IInv, TypeInv, TypeOK
<1>6. CASE UNCHANGED vars
  BY <1>1, <1>6 DEF vars
<1> QED BY <1>1, <1>2, <1>3, <1>4, <1>5, <1>6 DEF Next

(* After the adapter's shutdown no step touches it: no event is taken, no   *)
(* command starts, nothing is set and shutdown() is not called again.       *)
THEOREM AdapterUnusedAfterShutdown == Spec => NoUseAfterShutdown
<1>1. IInv /\ [Next]_vars => [shutdowns > 0 => UNCHANGED <<store, shutdowns, produced>> /\ actor' # "execute"]_vars
  BY StepAfterShutdown
<1> QED BY <1>1, Invariant, PTL DEF Spec, NoUseAfterShutdown

-----------------------------------------------------------------------------
(* Events.                                                                  *)

LEMMA InitEventsInOrder == Init => EventsInOrder
BY DEF Init, EventsInOrder

LEMMA NextEventsInOrder == TypeInv /\ EventsInOrder /\ [Next]_vars => EventsInOrder'
<1> SUFFICES ASSUME TypeInv, EventsInOrder, [Next]_vars, rxOpen'
             PROVE  /\ \A i \in DOMAIN events' : events'[i] = received' + i
                    /\ produced' = received' + Len(events') + (IF actor' = "forward" THEN 1 ELSE 0)
  BY DEF EventsInOrder
<1> USE DEF actorVars, clientVars, eventVars, adapterVars
<1>1. CASE UNCHANGED eventVars /\ (actor' = "forward" <=> actor = "forward")
  BY <1>1 DEF EventsInOrder
<1>2. CASE NextEvent
  <2>1. /\ produced = received + Len(events)
        /\ \A i \in DOMAIN events : events[i] = received + i
        /\ produced' = produced + 1 /\ actor' = "forward" /\ UNCHANGED <<events, received>>
    BY <1>2 DEF NextEvent, EventsInOrder, TypeInv, TypeOK
  <2> QED BY <2>1
<1>3. CASE Forward
  <2>1. /\ events \in Seq(Nat) /\ received \in Nat /\ produced \in Nat
        /\ produced = received + Len(events) + 1
        /\ \A i \in 1..Len(events) : events[i] = received + i
        /\ actor' # "forward" /\ UNCHANGED <<produced, received>>
        /\ events' = Append(events, produced)
    BY <1>3 DEF Forward, EventsInOrder, TypeInv, TypeOK
  <2>2. /\ Len(events') = Len(events) + 1
        /\ DOMAIN events' = 1..(Len(events) + 1)
        /\ \A i \in 1..Len(events) : events'[i] = events[i]
        /\ events'[Len(events) + 1] = produced
    BY <2>1
  <2>3. ASSUME NEW i \in 1..(Len(events) + 1) PROVE events'[i] = received' + i
    <3>1. CASE i \in 1..Len(events)
      BY <2>1, <2>2, <3>1
    <3>2. CASE i = Len(events) + 1
      BY <2>1, <2>2, <3>2
    <3>3. Len(events) \in Nat
      BY <2>1
    <3> QED BY <3>1, <3>2, <3>3
  <2>4. produced' = received' + Len(events')
    BY <2>1, <2>2
  <2> QED BY <2>1, <2>2, <2>3, <2>4
<1>4. CASE Receive
  <2>1. /\ events \in Seq(Nat) /\ events # <<>> /\ received \in Nat /\ produced \in Nat
        /\ produced = received + Len(events) + (IF actor = "forward" THEN 1 ELSE 0)
        /\ \A i \in 1..Len(events) : events[i] = received + i
        /\ UNCHANGED <<produced, actor>>
        /\ events' = Tail(events) /\ received' = Head(events)
    BY <1>4 DEF Receive, EventsInOrder, TypeInv, TypeOK
  <2>2. /\ Len(events) \in Nat \ {0}
        /\ received' = received + 1
        /\ Len(events') = Len(events) - 1
        /\ DOMAIN events' = 1..(Len(events) - 1)
        /\ \A i \in 1..(Len(events) - 1) : events'[i] = events[i + 1]
    BY <2>1
  <2>3. ASSUME NEW i \in 1..(Len(events) - 1) PROVE events'[i] = received' + i
    <3>1. i + 1 \in 1..Len(events)
      BY <2>2
    <3> QED BY <2>1, <2>2, <3>1
  <2>4. produced' = received' + Len(events') + (IF actor' = "forward" THEN 1 ELSE 0)
    <3>1. CASE actor = "forward"
      BY <2>1, <2>2, <3>1
    <3>2. CASE actor # "forward"
      BY <2>1, <2>2, <3>2
    <3> QED BY <3>1, <3>2
  <2> QED BY <2>2, <2>3, <2>4
<1>5. CASE DropReceiver
  BY <1>5 DEF DropReceiver
<1>6. CASE ForwardFails
  BY <1>6 DEF ForwardFails
<1>7. CASE InitAdapter \/ Subscribe \/ StreamEnds \/ RecvCommand \/ RecvNone \/ Execute \/ Reply
           \/ FinalShutdown \/ DropEventSender \/ DropCommandReceiver
  BY <1>1, <1>7
  DEF InitAdapter, Subscribe, StreamEnds, RecvCommand, RecvNone, Execute, Reply, FinalShutdown,
      DropEventSender, DropCommandReceiver
<1>8. ASSUME NEW c \in Clients, ClientStep(c) PROVE UNCHANGED <<eventVars, actor>>
  BY <1>8 DEF ClientStep, Call, Send, SendFails, Return, DropHandle
<1>9. CASE WindowManagerChanges
  BY <1>1, <1>9 DEF WindowManagerChanges
<1>10. CASE UNCHANGED vars
  BY <1>1, <1>10 DEF vars
<1> QED
  BY <1>1, <1>2, <1>3, <1>4, <1>5, <1>6, <1>7, <1>8, <1>9, <1>10 DEF Next, ActorStep, ReceiverStep

(* The receiver sees the adapter's events in order and without a gap, for   *)
(* every channel capacity and every number of events.                       *)
THEOREM EventsArriveInOrder == Spec => []EventsInOrder
<1>1. TypeInv /\ EventsInOrder /\ [Next]_vars => (TypeInv /\ EventsInOrder)'
  BY NextTypeInv, NextEventsInOrder
<1> QED BY <1>1, InitTypeInv, InitEventsInOrder, PTL DEF Spec

-----------------------------------------------------------------------------
(* AdapterActor implements AtomicAdapter.                                    *)
(* A step that leaves every call's phase and result, the requests, the      *)
(* store and the adapter's life alone is a stutter of the atomic adapter.   *)
LEMMA AtomicStutter ==
  ASSUME \A c \in Clients : Phase(c)' = Phase(c) /\ AtomicResult(c)' = AtomicResult(c),
         UNCHANGED <<req, store, shutdowns>>
  PROVE  UNCHANGED Atomic!vars
<1>1. AtomicPhases' = AtomicPhases /\ AtomicResults' = AtomicResults
  BY DEF AtomicPhases, AtomicResults
<1>2. AtomicLife' = AtomicLife
  BY DEF AtomicLife
<1> QED BY <1>1, <1>2 DEF Atomic!vars

(* A step that changes the phase and result of one call only. *)
LEMMA AtomicOne ==
  ASSUME NEW c \in Clients,
         \A d \in Clients \ {c} : Phase(d)' = Phase(d) /\ AtomicResult(d)' = AtomicResult(d)
  PROVE  /\ AtomicPhases' = [AtomicPhases EXCEPT ![c] = Phase(c)']
         /\ AtomicResults' = [AtomicResults EXCEPT ![c] = AtomicResult(c)']
         /\ AtomicPhases[c] = Phase(c) /\ AtomicResults[c] = AtomicResult(c)
BY DEF AtomicPhases, AtomicResults

LEMMA AtomicInit == Init => Atomic!Init
<1> SUFFICES ASSUME Init PROVE Atomic!Init
  OBVIOUS
<1>1. \A c \in Clients : Phase(c) = "idle" /\ AtomicResult(c) = Atomic!Plain("none")
  BY DEF Init, Phase, AtomicResult, Pending, Without, Atomic!Plain
<1> QED BY <1>1 DEF Init, Atomic!Init, AtomicPhases, AtomicResults, AtomicLife

LEMMA AtomicNext == IInv /\ [Next]_vars => [Atomic!Next]_(Atomic!vars)
<1> SUFFICES ASSUME IInv, [Next]_vars PROVE [Atomic!Next]_(Atomic!vars)
  OBVIOUS
<1>0. TypeInv /\ TypeInv' /\ IInv'
  BY NextTypeInv, NextIInv DEF IInv
<1> USE DEF actorVars, clientVars, eventVars, adapterVars
<1>1. CASE /\ actor \notin {"execute", "reply"} /\ actor' # "reply"
           /\ UNCHANGED <<call, req, reply, store, shutdowns>>
  <2>1. \A c \in Clients : Phase(c)' = Phase(c) /\ AtomicResult(c)' = AtomicResult(c)
    BY <1>1 DEF Phase, AtomicResult, Answering
  <2> QED BY <1>1, <2>1, AtomicStutter
<1>2. CASE InitAdapter \/ Subscribe \/ NextEvent \/ StreamEnds \/ Forward \/ ForwardFails
           \/ RecvCommand \/ RecvNone \/ DropEventSender
  BY <1>1, <1>2
  DEF InitAdapter, Subscribe, NextEvent, StreamEnds, Forward, ForwardFails, RecvCommand, RecvNone,
      DropEventSender
<1>3. CASE UNCHANGED <<actor, current, answer, call, req, reply, store, shutdowns>>
  <2>1. \A c \in Clients : Phase(c)' = Phase(c) /\ AtomicResult(c)' = AtomicResult(c)
    BY <1>3 DEF Phase, AtomicResult, Answering
  <2> QED BY <1>3, <2>1, AtomicStutter
<1>4. CASE ReceiverStep \/ UNCHANGED vars
  BY <1>3, <1>4 DEF ReceiverStep, Receive, DropReceiver, vars
<1>5. CASE WindowManagerChanges
  <2>1. \A c \in Clients : Phase(c)' = Phase(c) /\ AtomicResult(c)' = AtomicResult(c)
    BY <1>5 DEF WindowManagerChanges, Phase, AtomicResult, Answering
  <2>2. AtomicPhases' = AtomicPhases /\ AtomicResults' = AtomicResults
    BY <2>1 DEF AtomicPhases, AtomicResults
  <2>3. Atomic!Environment
    BY <1>5, <2>2 DEF WindowManagerChanges, Atomic!Environment, AtomicLife
  <2> QED BY <2>3 DEF Atomic!Next
<1>6. CASE Execute
  <2>1. PICK c \in Clients :
        /\ current = c /\ current' = c
        /\ c \notin Range(cmds)
        /\ call[c] = "waiting" /\ reply[c].status = "none" /\ shutdowns = 0
    BY <1>0, <1>6
    DEF Execute, TypeInv, ServesSomebody, Serving, IInv, OneCommandPerCall, ShutdownOnce
  <2>2. \A d \in Clients \ {c} : Phase(d)' = Phase(d) /\ AtomicResult(d)' = AtomicResult(d)
    BY <1>6, <2>1 DEF Execute, Phase, AtomicResult, Answering
  <2>3. Phase(c) = "called" /\ Phase(c)' = "done" /\ AtomicResult(c)' = answer'
    BY <1>6, <2>1 DEF Execute, Phase, AtomicResult, Answering
  <2>4. PICK result \in Results : Served(req[c], result, store') /\ answer' = result
    BY <1>6, <2>1 DEF Execute
  <2>5. Atomic!Effect(req[c], result)
    <3>1. shutdowns' = IF req[c].op = "shutdown" THEN 1 ELSE 0
      BY <1>6, <2>1 DEF Execute
    <3> QED BY <2>1, <2>4, <3>1 DEF Served, Atomic!Effect, Atomic!Plain, Without, AtomicLife
  <2>6. /\ AtomicPhases' = [AtomicPhases EXCEPT ![c] = "done"]
        /\ AtomicResults' = [AtomicResults EXCEPT ![c] = result]
        /\ AtomicPhases[c] = "called"
    BY <2>1, <2>2, <2>3, <2>4, AtomicOne
  <2>7. Atomic!TakeEffect(c)
    BY <1>6, <2>1, <2>5, <2>6 DEF Execute, Atomic!TakeEffect, AtomicLife
  <2> QED BY <2>1, <2>7 DEF Atomic!Next
<1>7. CASE Reply
  <2>1. /\ current \in Clients
        /\ call[current] = "waiting"
        /\ answer.status \in {"ok", "error"}
        /\ reply \in [Clients -> Results]
    BY <1>0, <1>7
    DEF Reply, TypeInv, TypeOK, ServesSomebody, Serving, IInv, OneCommandPerCall, AnswersAreResults
  <2>2. ASSUME NEW d \in Clients
        PROVE  Phase(d)' = Phase(d) /\ AtomicResult(d)' = AtomicResult(d)
    <3>1. CASE d = current
      BY <1>7, <2>1, <3>1 DEF Reply, Phase, AtomicResult, Answering
    <3>2. CASE d # current
      BY <1>7, <2>1, <3>2 DEF Reply, Phase, AtomicResult, Answering
    <3> QED BY <3>1, <3>2
  <2> QED BY <1>7, <2>2, AtomicStutter DEF Reply
<1>8. CASE FinalShutdown
  <2>1. \A d \in Clients : Phase(d)' = Phase(d) /\ AtomicResult(d)' = AtomicResult(d)
    BY <1>8 DEF FinalShutdown, Phase, AtomicResult, Answering
  <2>2. AtomicPhases' = AtomicPhases /\ AtomicResults' = AtomicResults
    BY <2>1 DEF AtomicPhases, AtomicResults
  <2>3. shutdowns = 0
    BY <1>8 DEF FinalShutdown, IInv, ShutdownOnce
  <2>4. Atomic!GoDown
    BY <1>8, <2>2, <2>3 DEF FinalShutdown, Atomic!GoDown, AtomicLife
  <2> QED BY <2>4 DEF Atomic!Next
<1>9. CASE DropCommandReceiver
  <2>1. ASSUME NEW d \in Clients
        PROVE  Phase(d)' = Phase(d) /\ AtomicResult(d)' = AtomicResult(d)
    <3>1. CASE d \in Range(cmds)
      <4>1. call[d] = "waiting" /\ reply[d].status = "none"
        BY <3>1 DEF IInv, OneCommandPerCall
      <4>2. reply'[d].status = "dropped"
        BY <1>9, <3>1 DEF DropCommandReceiver, Without
      <4> QED BY <1>9, <4>1, <4>2 DEF DropCommandReceiver, Phase, AtomicResult, Answering
    <3>2. CASE d \notin Range(cmds)
      <4>1. reply'[d] = reply[d]
        BY <1>9, <3>2 DEF DropCommandReceiver
      <4> QED BY <1>9, <4>1 DEF DropCommandReceiver, Phase, AtomicResult, Answering
    <3> QED BY <3>1, <3>2
  <2> QED BY <1>9, <2>1, AtomicStutter DEF DropCommandReceiver
<1>10. ASSUME NEW c \in Clients, NEW r \in Requests, Call(c, r) PROVE Atomic!Next
  <2>1. \A d \in Clients \ {c} : Phase(d)' = Phase(d) /\ AtomicResult(d)' = AtomicResult(d)
    BY <1>0, <1>10 DEF Call, Phase, AtomicResult, Answering, TypeInv, TypeOK
  <2>2. /\ call'[c] = "sending" /\ reply'[c] = Pending /\ ~Answering(c)'
        /\ req' = [req EXCEPT ![c] = r]
    BY <1>0, <1>10 DEF Call, TypeInv, TypeOK, Answering, IInv, OneCommandPerCall, Serving
  <2>3. Phase(c) = "idle" /\ Phase(c)' = "called" /\ AtomicResult(c)' = Atomic!Plain("none")
    BY <1>10, <2>2 DEF Call, Phase, AtomicResult, Pending, Without, Atomic!Plain
  <2>4. Atomic!Invoke(c, r)
    BY <1>10, <2>1, <2>2, <2>3, AtomicOne DEF Call, Atomic!Invoke, AtomicLife
  <2> QED BY <2>4 DEF Atomic!Next
<1>11. ASSUME NEW c \in Clients, Send(c) PROVE [Atomic!Next]_(Atomic!vars)
  <2>1. \A d \in Clients : Phase(d)' = Phase(d) /\ AtomicResult(d)' = AtomicResult(d)
    BY <1>0, <1>11 DEF Send, Phase, AtomicResult, Answering, TypeInv, TypeOK
  <2> QED BY <1>11, <2>1, AtomicStutter DEF Send
<1>12. ASSUME NEW c \in Clients, SendFails(c) \/ Return(c) PROVE Atomic!Next
  <2>1. \A d \in Clients \ {c} : Phase(d)' = Phase(d) /\ AtomicResult(d)' = AtomicResult(d)
    BY <1>0, <1>12 DEF SendFails, Return, Phase, AtomicResult, Answering, TypeInv, TypeOK
  <2>2. Phase(c)' = "idle" /\ AtomicResult(c)' = reply'[c] /\ UNCHANGED <<req, store, shutdowns>>
    BY <1>0, <1>12 DEF SendFails, Return, Phase, AtomicResult, TypeInv, TypeOK
  <2>3. /\ AtomicPhases' = [AtomicPhases EXCEPT ![c] = "idle"]
        /\ AtomicResults' = [AtomicResults EXCEPT ![c] = reply'[c]]
        /\ AtomicPhases[c] = Phase(c) /\ AtomicResults[c] = AtomicResult(c)
    BY <2>1, <2>2, AtomicOne
  <2>4. ~Answering(c) /\ (actor = "gone" => shutdowns > 0)
    BY <1>12 DEF SendFails, Return, Answering, IInv, OneCommandPerCall, Serving, ShutdownOnce
  <2>5. CASE SendFails(c)
    <3>1. Phase(c) = "called" /\ shutdowns > 0
      BY <2>4, <2>5 DEF SendFails, ChannelClosed, Phase, IInv, RepliesMatchCalls
    <3>2. /\ req[c].op = "shutdown" => reply'[c] = Atomic!Plain("ok")
          /\ req[c].op # "shutdown" => reply'[c] = Atomic!Plain("closed")
      BY <1>0, <2>5 DEF SendFails, Outcome, Without, Atomic!Plain, TypeInv, TypeOK
    <3>3. \E status \in IF req[c].op = "shutdown" THEN {"ok"} ELSE {"dropped", "closed"} :
            AtomicResults' = [AtomicResults EXCEPT ![c] = Atomic!Plain(status)]
      BY <2>3, <3>2
    <3>4. UNCHANGED <<req, store, AtomicLife>> /\ AtomicLife = "down"
      BY <1>0, <2>2, <3>1 DEF AtomicLife, TypeInv, TypeOK
    <3>5. Atomic!Fail(c)
      BY <2>3, <3>1, <3>3, <3>4 DEF Atomic!Fail
    <3> QED BY <3>5 DEF Atomic!Next
  <2>6. CASE Return(c) /\ reply[c].status \in {"ok", "error"}
    <3>1. Phase(c) = "done" /\ AtomicResult(c) = reply[c]
      BY <2>4, <2>6 DEF Return, Phase, AtomicResult
    <3>2. reply'[c] = reply[c]
      BY <1>0, <2>6 DEF Return, Outcome, TypeInv, TypeOK
    <3>3. AtomicResults' = AtomicResults
      BY <2>3, <3>1, <3>2 DEF AtomicResults
    <3>4. Atomic!Return(c)
      BY <2>2, <2>3, <3>1, <3>3 DEF Atomic!Return, AtomicLife
    <3> QED BY <3>4 DEF Atomic!Next
  <2>7. CASE Return(c) /\ reply[c].status = "dropped"
    <3>1. Phase(c) = "called" /\ shutdowns > 0
      BY <2>4, <2>7 DEF Return, Phase, IInv, RepliesMatchCalls
    <3>2. /\ req[c].op = "shutdown" => reply'[c] = Atomic!Plain("ok")
          /\ req[c].op # "shutdown" => reply'[c] = Atomic!Plain("dropped")
      BY <1>0, <2>7
      DEF Return, Outcome, Without, Atomic!Plain, TypeInv, TypeOK, IInv, RepliesMatchCalls
    <3>3. \E status \in IF req[c].op = "shutdown" THEN {"ok"} ELSE {"dropped", "closed"} :
            AtomicResults' = [AtomicResults EXCEPT ![c] = Atomic!Plain(status)]
      BY <2>3, <3>2
    <3>4. UNCHANGED <<req, store, AtomicLife>> /\ AtomicLife = "down"
      BY <1>0, <2>2, <3>1 DEF AtomicLife, TypeInv, TypeOK
    <3>5. Atomic!Fail(c)
      BY <2>3, <3>1, <3>3, <3>4 DEF Atomic!Fail
    <3> QED BY <3>5 DEF Atomic!Next
  <2>8. Return(c) => reply[c].status \in {"ok", "error", "dropped"}
    BY <1>0 DEF Return, IInv, RepliesMatchCalls, TypeInv, TypeOK, Results
  <2> QED BY <1>12, <2>5, <2>6, <2>7, <2>8
<1>13. ASSUME NEW c \in Clients, DropHandle(c) PROVE [Atomic!Next]_(Atomic!vars)
  BY <1>3, <1>13 DEF DropHandle
<1> QED
  BY <1>2, <1>4, <1>5, <1>6, <1>7, <1>8, <1>9, <1>10, <1>11, <1>12, <1>13
  DEF Next, ActorStep, ClientStep

(* Seen by its callers the actor is one atomic object: a get, set, manifest *)
(* or shutdown call takes effect once between its start and its return, or  *)
(* fails after the adapter's shutdown without ever having an effect.        *)
THEOREM ActorImplementsAtomicAdapter == Spec => ImplementsAtomicAdapter
BY AtomicInit, AtomicNext, Invariant, PTL DEF Spec, ImplementsAtomicAdapter, Atomic!Spec
=============================================================================
