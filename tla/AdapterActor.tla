---------------------------- MODULE AdapterActor ----------------------------
(***************************************************************************)
(* The adapter actor of middlesox (middlesox/src/adapter_handle.rs).       *)
(*                                                                         *)
(* One tokio task owns the protocol adapter.  Every other task holds a     *)
(* clone of AdapterHandle and calls get, set, manifest or shutdown: the    *)
(* call pushes a command with a oneshot reply sender on a bounded channel, *)
(* then awaits the reply.  The actor selects between the next command and  *)
(* the adapter's next event, which it forwards on a second bounded channel *)
(* to whoever holds the event receiver (the controller).                   *)
(*                                                                         *)
(* A client stands for one holder of a handle; it has at most one call in  *)
(* progress, so a queued command is represented by its client.             *)
(***************************************************************************)
EXTENDS Naturals, Sequences, FiniteSets, Functions

CONSTANTS
  Clients,    \* holders of an AdapterHandle clone
  Keys,       \* capability keys of the adapter
  Values,     \* values a key can take
  NoValue,    \* the value of a reply that carries none
  NoClient,   \* nobody: the actor is not serving a command
  CmdCap,     \* capacity of the command channel (32 in the code)
  EventCap,   \* capacity of the event channel (100 in the code)
  MaxEvents   \* bound on the events the adapter produces

ASSUME CapacityAssumption == CmdCap \in Nat \ {0} /\ EventCap \in Nat \ {0}
ASSUME BoundAssumption    == MaxEvents \in Nat
ASSUME NobodyAssumption   == NoClient \notin Clients
ASSUME ValueAssumption    == NoValue \notin Values /\ Values # {}

VARIABLES
  actor,      \* where the actor task is
  current,    \* the client whose command the actor serves
  answer,     \* the result the actor is about to send to current
  call,       \* per client: no call, waiting for channel capacity, awaiting the reply
  req,        \* per client: the request of its latest call
  reply,      \* per client: the oneshot of its latest call, then what the call returned
  handles,    \* the clients whose handle has not been dropped
  cmds,       \* the command channel, as the clients of the queued commands
  events,     \* the event channel
  rxOpen,     \* the event receiver has not been dropped
  produced,   \* number of events next_event has returned
  received,   \* number of events the receiver has taken
  store,      \* the adapter's state
  shutdowns,  \* number of adapter.shutdown() calls
  shutdownResult  \* what adapter.shutdown() returned, and whether anybody is told

actorVars  == <<actor, current, answer>>
clientVars == <<call, req, handles>>
eventVars  == <<events, rxOpen, produced, received>>
adapterVars == <<store, shutdowns, shutdownResult>>
vars == <<actorVars, clientVars, reply, cmds, eventVars, adapterVars>>

-----------------------------------------------------------------------------
(* AdapterCommand: the four operations, without their reply senders.       *)
Requests ==
  [op : {"get"}, key : Keys]
    \cup [op : {"set"}, key : Keys, value : Values]
    \cup [op : {"manifest", "shutdown"}]

(* What a oneshot holds.  "none" is a oneshot nobody has completed,         *)
(* "dropped" one whose sender was dropped, "closed" the error of a send on  *)
(* a closed channel; "ok" and "error" come from the adapter.                *)
Results ==
  [status : {"none", "ok", "error", "dropped", "closed"}, value : Values \cup {NoValue}]

Without(status) == [status |-> status, value |-> NoValue]
Pending == Without("none")

(* The code's positions of the actor task.  "failed" is spawn() returning   *)
(* the error of init or subscribe: no task and no handle ever exist.        *)
ActorStates ==
  {"init", "subscribe", "failed", "select", "forward", "execute", "reply",
   "stopping", "dropEvents", "dropCommands", "gone"}

TypeOK ==
  /\ actor \in ActorStates
  /\ current \in Clients \cup {NoClient}
  /\ answer \in Results
  /\ call \in [Clients -> {"idle", "sending", "waiting"}]
  /\ req \in [Clients -> Requests]
  /\ reply \in [Clients -> Results]
  /\ handles \in SUBSET Clients
  /\ cmds \in Seq(Clients)
  /\ Len(cmds) <= CmdCap
  /\ events \in Seq(Nat)
  /\ Len(events) <= EventCap
  /\ rxOpen \in BOOLEAN
  /\ produced \in Nat
  /\ received \in Nat
  /\ store \in [Keys -> Values]
  /\ shutdowns \in Nat
  /\ shutdownResult \in {"none", "ok", "error", "warned"}

Init ==
  /\ actor = "init"
  /\ current = NoClient
  /\ answer = Pending
  /\ call = [c \in Clients |-> "idle"]
  /\ req = [c \in Clients |-> [op |-> "manifest"]]
  /\ reply = [c \in Clients |-> Pending]
  /\ handles = {}
  /\ cmds = <<>>
  /\ events = <<>>
  /\ rxOpen = TRUE
  /\ produced = 0
  /\ received = 0
  /\ store \in [Keys -> Values]
  /\ shutdowns = 0
  /\ shutdownResult = "none"

-----------------------------------------------------------------------------
(* AdapterHandle::spawn.  Either step can fail; the adapter is then dropped *)
(* without a shutdown() call.                                               *)
InitAdapter ==
  /\ actor = "init"
  /\ actor' \in {"subscribe", "failed"}
  /\ UNCHANGED <<current, answer, clientVars, reply, cmds, eventVars, adapterVars>>

Subscribe ==
  /\ actor = "subscribe"
  /\ \/ actor' = "select" /\ handles' = Clients
     \/ actor' = "failed" /\ UNCHANGED handles
  /\ UNCHANGED <<current, answer, call, req, reply, cmds, eventVars, adapterVars>>

-----------------------------------------------------------------------------
(* The handle's side: get, set, manifest and shutdown differ only in the    *)
(* request and in what a lost channel or reply means to the caller.         *)

ChannelClosed == actor = "gone"

(* Mutant of Outcome: every caller takes a lost reply for success.          *)
OutcomeHidesLoss(c, r) ==
  IF r.status \in {"dropped", "closed"} THEN Without("ok") ELSE r

(* The last line of each method: shutdown() takes a lost channel or a       *)
(* dropped reply for success, the other three return it as an error.        *)
Outcome(c, r) ==
  IF req[c].op = "shutdown" /\ r.status \in {"dropped", "closed"} THEN Without("ok") ELSE r

Call(c, r) ==
  /\ c \in handles
  /\ call[c] = "idle"
  /\ call' = [call EXCEPT ![c] = "sending"]
  /\ req' = [req EXCEPT ![c] = r]
  /\ reply' = [reply EXCEPT ![c] = Pending]
  /\ UNCHANGED <<actorVars, handles, cmds, eventVars, adapterVars>>

Send(c) ==
  /\ call[c] = "sending"
  /\ ~ChannelClosed
  /\ Len(cmds) < CmdCap
  /\ cmds' = Append(cmds, c)
  /\ call' = [call EXCEPT ![c] = "waiting"]
  /\ UNCHANGED <<actorVars, req, reply, handles, eventVars, adapterVars>>

SendFails(c) ==
  /\ call[c] = "sending"
  /\ ChannelClosed
  /\ call' = [call EXCEPT ![c] = "idle"]
  /\ reply' = [reply EXCEPT ![c] = Outcome(c, Without("closed"))]
  /\ UNCHANGED <<actorVars, req, handles, cmds, eventVars, adapterVars>>

Return(c) ==
  /\ call[c] = "waiting"
  /\ reply[c].status # "none"
  /\ call' = [call EXCEPT ![c] = "idle"]
  /\ reply' = [reply EXCEPT ![c] = Outcome(c, reply[c])]
  /\ UNCHANGED <<actorVars, req, handles, cmds, eventVars, adapterVars>>

DropHandle(c) ==
  /\ c \in handles
  /\ call[c] = "idle"
  /\ handles' = handles \ {c}
  /\ UNCHANGED <<actorVars, call, req, reply, cmds, eventVars, adapterVars>>

-----------------------------------------------------------------------------
(* The window manager behind the adapter changes by itself, with or without *)
(* an event.  (Once the adapter is shut down nobody here can tell.)         *)
WindowManagerChanges ==
  /\ shutdowns = 0
  /\ \E k \in Keys, v \in Values : store' = [store EXCEPT ![k] = v]
  /\ UNCHANGED <<actorVars, clientVars, reply, cmds, eventVars, shutdowns, shutdownResult>>

(* The event branch of the select. *)
NextEvent ==
  /\ actor = "select"
  /\ produced < MaxEvents
  /\ produced' = produced + 1
  /\ actor' = "forward"
  /\ UNCHANGED <<current, answer, clientVars, reply, cmds, events, rxOpen, received, adapterVars>>

(* Mutant of StreamEnds: the actor returns without the final shutdown.      *)
StreamEndsTask ==
  /\ actor = "select"
  /\ actor' = "dropEvents"
  /\ UNCHANGED <<current, answer, clientVars, reply, cmds, eventVars, adapterVars>>

(* Ok(None) and Err leave the loop alike. *)
StreamEnds ==
  /\ actor = "select"
  /\ actor' = "stopping"
  /\ UNCHANGED <<current, answer, clientVars, reply, cmds, eventVars, adapterVars>>

(* Mutant of Forward: try_send, which drops the event when the channel is   *)
(* full.                                                                    *)
ForwardOrDrop ==
  /\ actor = "forward"
  /\ rxOpen
  /\ events' = IF Len(events) < EventCap THEN Append(events, produced) ELSE events
  /\ actor' = "select"
  /\ UNCHANGED <<current, answer, clientVars, reply, cmds, rxOpen, produced, received, adapterVars>>

(* event_tx.send(event).await: the actor stays here while the channel is    *)
(* full and serves no command meanwhile.                                    *)
Forward ==
  /\ actor = "forward"
  /\ rxOpen
  /\ Len(events) < EventCap
  /\ events' = Append(events, produced)
  /\ actor' = "select"
  /\ UNCHANGED <<current, answer, clientVars, reply, cmds, rxOpen, produced, received, adapterVars>>

(* Mutant of ForwardFails: a failed send is retried.                        *)
ForwardRetries ==
  /\ actor = "forward"
  /\ ~rxOpen
  /\ UNCHANGED vars

ForwardFails ==
  /\ actor = "forward"
  /\ ~rxOpen
  /\ actor' = "stopping"
  /\ UNCHANGED <<current, answer, clientVars, reply, cmds, eventVars, adapterVars>>

-----------------------------------------------------------------------------
(* The command branch of the select. *)
RecvCommand ==
  /\ actor = "select"
  /\ cmds # <<>>
  /\ current' = Head(cmds)
  /\ cmds' = Tail(cmds)
  /\ actor' = "execute"
  /\ UNCHANGED <<answer, clientVars, reply, eventVars, adapterVars>>

(* recv() returns None: every handle is gone and the queue is empty. *)
RecvNone ==
  /\ actor = "select"
  /\ cmds = <<>>
  /\ handles = {}
  /\ actor' = "stopping"
  /\ UNCHANGED <<current, answer, clientVars, reply, cmds, eventVars, adapterVars>>

(* What the adapter may answer to request r, and the state it leaves.  A    *)
(* set that reports an error may or may not have taken effect (a lost       *)
(* answer from the window manager looks like a refused request).            *)
Served(r, result, newStore) ==
  \/ /\ r.op = "get"
     /\ result \in {[status |-> "ok", value |-> store[r.key]], Without("error")}
     /\ newStore = store
  \/ /\ r.op = "set"
     /\ \/ result = Without("ok") /\ newStore = [store EXCEPT ![r.key] = r.value]
        \/ /\ result = Without("error")
           /\ newStore \in {store, [store EXCEPT ![r.key] = r.value]}
  \/ r.op = "manifest" /\ result = Without("ok") /\ newStore = store
  \/ /\ r.op = "shutdown"
     /\ result \in {Without("ok"), Without("error")}
     /\ newStore = store

Execute ==
  /\ actor = "execute"
  /\ \E result \in Results :
       /\ Served(req[current], result, store')
       /\ answer' = result
  /\ IF req[current].op = "shutdown"
     THEN shutdowns' = shutdowns + 1 /\ shutdownResult' = answer'.status
     ELSE UNCHANGED <<shutdowns, shutdownResult>>
  /\ actor' = "reply"
  /\ UNCHANGED <<current, clientVars, reply, cmds, eventVars>>

(* Mutants of Reply: shutdown_done is not set, and the loop is not left.    *)
ReplyForgetsShutdown ==
  /\ actor = "reply"
  /\ reply' = [reply EXCEPT ![current] = answer]
  /\ actor' = IF req[current].op = "shutdown" THEN "stopping" ELSE "select"
  /\ current' = NoClient
  /\ UNCHANGED <<answer, clientVars, cmds, eventVars, adapterVars>>

ReplyWithoutBreak ==
  /\ actor = "reply"
  /\ reply' = [reply EXCEPT ![current] = answer]
  /\ actor' = "select"
  /\ current' = NoClient
  /\ UNCHANGED <<answer, clientVars, cmds, eventVars, adapterVars>>

(* reply.send(result), then the next iteration, or out of the loop with     *)
(* shutdown_done set.                                                       *)
Reply ==
  /\ actor = "reply"
  /\ reply' = [reply EXCEPT ![current] = answer]
  /\ actor' = IF req[current].op = "shutdown" THEN "dropEvents" ELSE "select"
  /\ current' = NoClient
  /\ UNCHANGED <<answer, clientVars, cmds, eventVars, adapterVars>>

-----------------------------------------------------------------------------
(* After the loop: shut the adapter down unless a command did, then drop    *)
(* event_tx, then cmd_rx with the commands still queued and their senders.  *)
(* An error of this shutdown is written to the log, and to nobody else.     *)
FinalShutdown ==
  /\ actor = "stopping"
  /\ shutdowns' = shutdowns + 1
  /\ shutdownResult' \in {"ok", "warned"}
  /\ actor' = "dropEvents"
  /\ UNCHANGED <<current, answer, clientVars, reply, cmds, eventVars, store>>

DropEventSender ==
  /\ actor = "dropEvents"
  /\ actor' = "dropCommands"
  /\ UNCHANGED <<current, answer, clientVars, reply, cmds, eventVars, adapterVars>>

(* Mutant of DropCommandReceiver: the receiver is closed, the commands left *)
(* in it and their reply senders are kept.                                  *)
CloseCommandReceiver ==
  /\ actor = "dropCommands"
  /\ actor' = "gone"
  /\ UNCHANGED <<current, answer, clientVars, reply, cmds, eventVars, adapterVars>>

DropCommandReceiver ==
  /\ actor = "dropCommands"
  /\ actor' = "gone"
  /\ cmds' = <<>>
  /\ reply' = [c \in Clients |-> IF c \in Range(cmds) THEN Without("dropped") ELSE reply[c]]
  /\ UNCHANGED <<current, answer, clientVars, eventVars, adapterVars>>

-----------------------------------------------------------------------------
(* The holder of the event receiver. *)
Receive ==
  /\ rxOpen
  /\ events # <<>>
  /\ received' = Head(events)
  /\ events' = Tail(events)
  /\ UNCHANGED <<actorVars, clientVars, reply, cmds, rxOpen, produced, adapterVars>>

DropReceiver ==
  /\ rxOpen
  /\ actor \notin {"init", "subscribe", "failed"}
  /\ rxOpen' = FALSE
  /\ events' = <<>>
  /\ UNCHANGED <<actorVars, clientVars, reply, cmds, produced, received, adapterVars>>

-----------------------------------------------------------------------------
ActorStep ==
  \/ InitAdapter \/ Subscribe
  \/ NextEvent \/ StreamEnds \/ Forward \/ ForwardFails
  \/ RecvCommand \/ RecvNone \/ Execute \/ Reply
  \/ FinalShutdown \/ DropEventSender \/ DropCommandReceiver

ClientStep(c) ==
  \/ \E r \in Requests : Call(c, r)
  \/ Send(c) \/ SendFails(c) \/ Return(c) \/ DropHandle(c)

ReceiverStep == Receive \/ DropReceiver

Next ==
  \/ ActorStep
  \/ \E c \in Clients : ClientStep(c)
  \/ ReceiverStep
  \/ WindowManagerChanges

Spec == Init /\ [][Next]_vars

(* What a running daemon gives: the actor task is scheduled, the adapter's  *)
(* calls end, the select does not starve the command branch (tokio picks a  *)
(* ready branch at random), the command channel serves blocked senders in   *)
(* order, and a receiver that is not dropped keeps receiving.               *)
ActorProgress ==
  \/ Forward \/ ForwardFails \/ RecvNone \/ Execute \/ Reply
  \/ FinalShutdown \/ DropEventSender \/ DropCommandReceiver

ActorFairness == WF_vars(ActorProgress) /\ SF_vars(RecvCommand)

ClientFairness ==
  \A c \in Clients : SF_vars(Send(c)) /\ WF_vars(SendFails(c)) /\ WF_vars(Return(c))

FairSpec == Spec /\ ActorFairness /\ ClientFairness /\ WF_vars(Receive)

-----------------------------------------------------------------------------
(* Safety.                                                                  *)

Serving(c) == current = c /\ actor \in {"execute", "reply"}

(* No caller is left behind: while a call awaits a reply that has not come, *)
(* its command is queued or being served by an actor that has not finished. *)
(* reply_rx.await in get, set, manifest and shutdown has no timeout, so an  *)
(* orphaned call would hang its task for ever.                              *)
NoOrphanedCall ==
  \A c \in Clients :
    call[c] = "waiting" /\ reply[c].status = "none"
      => actor # "gone" /\ (c \in Range(cmds) \/ Serving(c))

(* A command is in one place: queued once, or being served, or answered.    *)
(* Two copies would apply a set twice, or complete a oneshot twice.         *)
OneCommandPerCall ==
  /\ IsInjective(cmds)
  /\ \A c \in Clients :
       c \in Range(cmds) \/ Serving(c)
         => /\ ~(c \in Range(cmds) /\ Serving(c))
            /\ call[c] = "waiting"
            /\ reply[c].status = "none"

(* adapter.shutdown() is called once on every way out of the loop, and no   *)
(* earlier than that: the flag shutdown_done separates the command's own    *)
(* shutdown from the one after the loop.                                    *)
ShutdownOnce ==
  LET shutdownAnswered == actor = "reply" /\ req[current].op = "shutdown"
  IN  shutdowns = IF actor \in {"dropEvents", "dropCommands", "gone"} \/ shutdownAnswered
                  THEN 1 ELSE 0

(* Whoever sees AdapterHandle::shutdown return, sees an adapter that has    *)
(* been shut down, also when the reply was dropped or the channel was       *)
(* already closed and the code reports success without having asked.  It    *)
(* need not be a shutdown without an error: that of an actor that ended by  *)
(* itself is only logged ("warned"), and the caller is told success.        *)
ShutdownReturnsAfterShutdown ==
  \A c \in Clients :
    call[c] = "idle" /\ req[c].op = "shutdown" => shutdowns > 0

(* The receiver gets the adapter's events in order with no gap: what is     *)
(* queued follows what was received, and the actor holds at most the next   *)
(* one, also when the channel is full and commands arrive meanwhile.        *)
EventsInOrder ==
  rxOpen =>
    /\ \A i \in DOMAIN events : events[i] = received + i
    /\ produced = received + Len(events) + (IF actor = "forward" THEN 1 ELSE 0)

(* Nothing reaches the adapter after its shutdown(): no get, set or second  *)
(* shutdown is executed and no event is taken from it.                      *)
NoUseAfterShutdown ==
  [][shutdowns > 0 => UNCHANGED <<store, shutdowns, produced>> /\ actor' # "execute"]_vars

(* The handle implements the atomic adapter.  A call takes effect when the  *)
(* actor executes its command; a dropped reply counts as a failure only     *)
(* when the caller sees it.                                                 *)
Answering(c) == actor = "reply" /\ current = c

Phase(c) ==
  CASE call[c] = "idle" -> "idle"
    [] call[c] # "idle" /\ (Answering(c) \/ reply[c].status \in {"ok", "error"}) -> "done"
    [] OTHER -> "called"

AtomicResult(c) ==
  CASE call[c] = "idle" -> reply[c]
    [] call[c] # "idle" /\ Answering(c) -> answer
    [] call[c] # "idle" /\ ~Answering(c) /\ reply[c].status \in {"ok", "error"} -> reply[c]
    [] OTHER -> Pending

AtomicPhases  == [c \in Clients |-> Phase(c)]
AtomicResults == [c \in Clients |-> AtomicResult(c)]
AtomicLife    == IF shutdowns = 0 THEN "up" ELSE "down"

Atomic == INSTANCE AtomicAdapter WITH
  phase <- AtomicPhases, request <- req, result <- AtomicResults, life <- AtomicLife

(* Every call takes effect once between its start and its return, or fails  *)
(* without an effect after the adapter's shutdown (AtomicAdapter).          *)
ImplementsAtomicAdapter == Atomic!Spec

-----------------------------------------------------------------------------
(* Liveness.                                                                *)

(* Every get, set, manifest and shutdown call returns, whatever the actor   *)
(* is doing when it is made and however it ends.                            *)
EveryCallReturns == \A c \in Clients : call[c] # "idle" ~> call[c] = "idle"

(* A shutdown call brings the actor down, and the receiver, if it is still  *)
(* there, gets every event the adapter produced before the end.             *)
ShutdownEndsActor ==
  \A c \in Clients :
    call[c] # "idle" /\ req[c].op = "shutdown" ~> actor = "gone" /\ (rxOpen => received = produced)
=============================================================================
