------------------------------- MODULE Daemon -------------------------------
(***************************************************************************)
(* The daemon: `msx run' (middlesox-cli/src/main.rs) and the controller    *)
(* (middlesox/src/controller.rs) around the adapter actor.                 *)
(*                                                                         *)
(* The controller's select loop takes events from the actor, accepts       *)
(* control connections and waits for Ctrl+C or a stop request; each        *)
(* connection is served by a task of its own and each event may start a    *)
(* script task.  All of them, and the controller when it shuts down, are   *)
(* clients of one AdapterActor.                                            *)
(***************************************************************************)
EXTENDS AdapterActor

CONSTANTS
  Main,      \* the controller's own handle
  Peers,     \* control connections (`msx get', `msx set', ...), one request each
  Scripts,   \* script tasks that can run at the same time
  Writable   \* the keys whose capability is writable

ASSUME RolesAssumption ==
  /\ Clients = {Main} \cup Peers \cup Scripts
  /\ Main \notin Peers \cup Scripts
  /\ Peers \cap Scripts = {}
ASSUME WritableAssumption == Writable \subseteq Keys

VARIABLES
  main,     \* where the daemon's main task is
  result,   \* run_result
  ctrlC,    \* the Ctrl+C task has sent on shutdown_tx
  stop,     \* a connection task has sent on control_shutdown_tx
  conn,     \* per peer: the state of its connection
  task,     \* per peer and script: what its code is doing between calls
  wanted    \* per peer and script: the set it is validating, if any

daemonVars == <<main, result, ctrlC, stop, conn, task, wanted>>
allVars == <<vars, daemonVars>>

Workers == Peers \cup Scripts
Manifest == [op |-> "manifest"]
SetRequests == [op : {"set"}, key : Keys, value : Values]
GetRequests == [op : {"get"}, key : Keys]
Shutdown == [op |-> "shutdown"]

DaemonTypeOK ==
  /\ TypeOK
  /\ main \in {"starting", "loop", "shutdown", "awaiting", "returned", "exited"}
  /\ result \in {"ok", "error"}
  /\ ctrlC \in BOOLEAN
  /\ stop \in BOOLEAN
  /\ conn \in [Peers -> {"none", "backlog", "reading", "serving", "executing",
                         "writing", "stopping", "signalling", "answered", "cut"}]
  /\ task \in [Workers -> {"idle", "script", "query", "checking", "setting"}]
  /\ wanted \in [Workers -> SetRequests \cup {Manifest}]

DaemonInit ==
  /\ Init
  /\ main = "starting"
  /\ result = "ok"
  /\ ctrlC = FALSE
  /\ stop = FALSE
  /\ conn = [p \in Peers |-> "none"]
  /\ task = [w \in Workers |-> "idle"]
  /\ wanted = [w \in Workers |-> Manifest]

Alive == main # "exited"

-----------------------------------------------------------------------------
(* run_daemon up to the call of controller.run.  A failure returns before   *)
(* there is anything to clean up.                                           *)
Start ==
  /\ main = "starting"
  /\ actor \notin {"init", "subscribe", "failed"}
  /\ \/ main' = "loop" /\ UNCHANGED result
     \/ main' = "exited" /\ result' = "error"    \* create_listener failed
  /\ UNCHANGED <<vars, ctrlC, stop, conn, task, wanted>>

StartFails ==
  /\ main = "starting"
  /\ actor = "failed"
  /\ main' = "exited"
  /\ result' = "error"
  /\ UNCHANGED <<vars, ctrlC, stop, conn, task, wanted>>

-----------------------------------------------------------------------------
(* Controller::run, the select loop. *)

(* recv() gives an event, handle_event runs to its end: a matching watch    *)
(* spawns a script task.                                                    *)
HandleEvent ==
  /\ main = "loop"
  /\ Receive
  /\ \/ UNCHANGED task
     \/ \E s \in Scripts : task[s] = "idle" /\ task' = [task EXCEPT ![s] = "script"]
  /\ UNCHANGED <<main, result, ctrlC, stop, conn, wanted>>

EventStreamEnds ==
  /\ main = "loop"
  /\ events = <<>>
  /\ actor \in {"dropCommands", "gone"}
  /\ main' = "shutdown"
  /\ result' = "error"
  /\ UNCHANGED <<vars, ctrlC, stop, conn, task, wanted>>

Accept(p) ==
  /\ main = "loop"
  /\ conn[p] = "backlog"
  /\ conn' = [conn EXCEPT ![p] = "reading"]
  /\ UNCHANGED <<vars, main, result, ctrlC, stop, task, wanted>>

AcceptFails ==
  /\ main = "loop"
  /\ main' = "shutdown"
  /\ result' = "error"
  /\ UNCHANGED <<vars, ctrlC, stop, conn, task, wanted>>

(* Mutant of ObserveStop: the branch of control_shutdown is missing.        *)
ObserveCtrlC ==
  /\ main = "loop"
  /\ ctrlC
  /\ main' = "shutdown"
  /\ UNCHANGED <<vars, result, ctrlC, stop, conn, task, wanted>>

ObserveStop ==
  /\ main = "loop"
  /\ ctrlC \/ stop
  /\ main' = "shutdown"
  /\ UNCHANGED <<vars, result, ctrlC, stop, conn, task, wanted>>

(* After the loop: adapter.shutdown().await.  event_rx is still owned by    *)
(* run, which no longer receives from it.                                   *)
CallShutdown ==
  /\ main = "shutdown"
  /\ Call(Main, Shutdown)
  /\ main' = "awaiting"
  /\ UNCHANGED <<result, ctrlC, stop, conn, task, wanted>>

(* Mutant of RunReturns: the error of the shutdown is logged and dropped.   *)
RunReturnsWithWarning ==
  /\ main = "awaiting"
  /\ call[Main] = "idle"
  /\ main' = "returned"
  /\ DropReceiver
  /\ conn' = [p \in Peers |-> IF conn[p] = "backlog" THEN "cut" ELSE conn[p]]
  /\ UNCHANGED <<result, ctrlC, stop, task, wanted>>

(* run returns: event_rx, the listener and the backlog go.                  *)
RunReturns ==
  /\ main = "awaiting"
  /\ call[Main] = "idle"
  /\ main' = "returned"
  /\ result' = IF reply[Main].status = "ok" THEN result ELSE "error"
  /\ DropReceiver
  /\ conn' = [p \in Peers |-> IF conn[p] = "backlog" THEN "cut" ELSE conn[p]]
  /\ UNCHANGED <<ctrlC, stop, task, wanted>>

(* cleanup_socket and the end of main: the runtime drops every task.        *)
Exit ==
  /\ main = "returned"
  /\ main' = "exited"
  /\ conn' = [p \in Peers |->
       CASE conn[p] = "signalling" -> "answered"
         [] conn[p] \in {"none", "answered"} -> conn[p]
         [] OTHER -> "cut"]
  /\ UNCHANGED <<vars, result, ctrlC, stop, task, wanted>>

(* The Ctrl+C task takes and fires its sender once.                         *)
CtrlC ==
  /\ Alive
  /\ main # "starting"
  /\ ~ctrlC
  /\ ctrlC' = TRUE
  /\ UNCHANGED <<vars, main, result, stop, conn, task, wanted>>

-----------------------------------------------------------------------------
(* handle_control_client, one task per connection. *)

Connect(p) ==
  /\ main \in {"loop", "shutdown", "awaiting"}
  /\ conn[p] = "none"
  /\ conn' = [conn EXCEPT ![p] = "backlog"]
  /\ UNCHANGED <<vars, main, result, ctrlC, stop, task, wanted>>

(* A line that is not a request ends the task without a response.           *)
BadRequest(p) ==
  /\ Alive
  /\ conn[p] = "reading"
  /\ conn' = [conn EXCEPT ![p] = "cut"]
  /\ UNCHANGED <<vars, main, result, ctrlC, stop, task, wanted>>

(* Status, Commands and a name without a command are answered at once; so   *)
(* is Stop, which is only signalled after the response.                     *)
ReadLocalRequest(p) ==
  /\ Alive
  /\ conn[p] = "reading"
  /\ conn' \in {[conn EXCEPT ![p] = "writing"], [conn EXCEPT ![p] = "stopping"]}
  /\ UNCHANGED <<vars, main, result, ctrlC, stop, task, wanted>>

(* Get and Caps: one call. *)
ReadQuery(p) ==
  /\ Alive
  /\ conn[p] = "reading"
  /\ \E r \in GetRequests \cup {Manifest} : Call(p, r)
  /\ conn' = [conn EXCEPT ![p] = "serving"]
  /\ task' = [task EXCEPT ![p] = "query"]
  /\ UNCHANGED <<main, result, ctrlC, stop, wanted>>

(* Set: validate_set_key first asks the actor for the manifest. *)
ReadSet(p) ==
  /\ Alive
  /\ conn[p] = "reading"
  /\ Call(p, Manifest)
  /\ \E r \in SetRequests : wanted' = [wanted EXCEPT ![p] = r]
  /\ conn' = [conn EXCEPT ![p] = "serving"]
  /\ task' = [task EXCEPT ![p] = "checking"]
  /\ UNCHANGED <<main, result, ctrlC, stop>>

(* Exec of a Rhai command runs the script on behalf of the connection.      *)
ReadExec(p) ==
  /\ Alive
  /\ conn[p] = "reading"
  /\ conn' = [conn EXCEPT ![p] = "executing"]
  /\ task' = [task EXCEPT ![p] = "script"]
  /\ UNCHANGED <<vars, main, result, ctrlC, stop, wanted>>

(* Mutants of Respond: the request is given up on a timeout, and a command  *)
(* gets no response.                                                        *)
RespondOnTimeout(p) ==
  /\ Alive
  /\ conn[p] \in {"serving", "executing"}
  /\ conn' = [conn EXCEPT ![p] = "writing"]
  /\ task' = [task EXCEPT ![p] = "idle"]
  /\ call' = [call EXCEPT ![p] = "idle"]
  /\ UNCHANGED <<actorVars, req, handles, reply, cmds, eventVars, adapterVars>>
  /\ UNCHANGED <<main, result, ctrlC, stop, wanted>>

RespondToCalls(p) ==
  /\ Alive
  /\ conn[p] = "serving"
  /\ task[p] = "idle"
  /\ conn' = [conn EXCEPT ![p] = "writing"]
  /\ UNCHANGED <<vars, main, result, ctrlC, stop, task, wanted>>

Respond(p) ==
  /\ Alive
  /\ conn[p] \in {"serving", "executing"}
  /\ task[p] = "idle"
  /\ conn' = [conn EXCEPT ![p] = "writing"]
  /\ UNCHANGED <<vars, main, result, ctrlC, stop, task, wanted>>

Write(p) ==
  /\ Alive
  /\ conn[p] = "writing"
  /\ conn' \in {[conn EXCEPT ![p] = "answered"], [conn EXCEPT ![p] = "cut"]}
  /\ UNCHANGED <<vars, main, result, ctrlC, stop, task, wanted>>

(* Stop: write the response, and return on an error.                        *)
WriteStop(p) ==
  /\ Alive
  /\ conn[p] = "stopping"
  /\ conn' \in {[conn EXCEPT ![p] = "signalling"], [conn EXCEPT ![p] = "cut"]}
  /\ UNCHANGED <<vars, main, result, ctrlC, stop, task, wanted>>

(* With the response at the client, take and fire the sender; the first     *)
(* connection to get here takes it.                                         *)
SignalStop(p) ==
  /\ Alive
  /\ conn[p] = "signalling"
  /\ conn' = [conn EXCEPT ![p] = "answered"]
  /\ stop' = TRUE
  /\ UNCHANGED <<vars, main, result, ctrlC, task, wanted>>

-----------------------------------------------------------------------------
(* The code that runs between the calls of a connection or a script.        *)

(* A Rhai script calls get(k), or set(k, v), which asks for the manifest.   *)
ScriptGets(w) ==
  /\ Alive
  /\ task[w] = "script"
  /\ call[w] = "idle"
  /\ \E r \in GetRequests : Call(w, r)
  /\ UNCHANGED daemonVars

ScriptSets(w) ==
  /\ Alive
  /\ task[w] = "script"
  /\ call[w] = "idle"
  /\ Call(w, Manifest)
  /\ \E r \in SetRequests : wanted' = [wanted EXCEPT ![w] = r]
  /\ task' = [task EXCEPT ![w] = "checking"]
  /\ UNCHANGED <<main, result, ctrlC, stop, conn>>

ScriptEnds(w) ==
  /\ Alive
  /\ task[w] = "script"
  /\ call[w] = "idle"
  /\ task' = [task EXCEPT ![w] = "idle"]
  /\ UNCHANGED <<vars, main, result, ctrlC, stop, conn, wanted>>

(* Mutant of IsWritable: any key of the manifest may be set.                *)
IsKnown(w) == reply[w].status = "ok" /\ wanted[w].key \in Keys

(* A set goes on to the adapter when the manifest came and has the key as   *)
(* writable; otherwise it ends there with an error for its caller.          *)
IsWritable(w) == reply[w].status = "ok" /\ wanted[w].key \in Writable

(* A script goes on with its next statement, a connection with its answer.  *)
After(w) == IF w \in Scripts \/ conn[w] = "executing" THEN "script" ELSE "idle"

PerformSet(w) ==
  /\ Alive
  /\ task[w] = "checking"
  /\ call[w] = "idle"
  /\ IsWritable(w)
  /\ Call(w, wanted[w])
  /\ task' = [task EXCEPT ![w] = "setting"]
  /\ wanted' = [wanted EXCEPT ![w] = Manifest]
  /\ UNCHANGED <<main, result, ctrlC, stop, conn>>

RefuseSet(w) ==
  /\ Alive
  /\ task[w] = "checking"
  /\ call[w] = "idle"
  /\ ~IsWritable(w)
  /\ task' = [task EXCEPT ![w] = After(w)]
  /\ wanted' = [wanted EXCEPT ![w] = Manifest]
  /\ UNCHANGED <<vars, main, result, ctrlC, stop, conn>>

CallDone(w) ==
  /\ Alive
  /\ task[w] \in {"query", "setting"}
  /\ call[w] = "idle"
  /\ task' = [task EXCEPT ![w] = After(w)]
  /\ UNCHANGED <<vars, main, result, ctrlC, stop, conn, wanted>>

-----------------------------------------------------------------------------
(* The actor and the calls in progress, as in AdapterActor. *)
ActorRuns ==
  /\ Alive
  /\ ActorStep \/ WindowManagerChanges
  /\ UNCHANGED daemonVars

CallRuns(c) ==
  /\ Alive
  /\ Send(c) \/ SendFails(c) \/ Return(c)
  /\ UNCHANGED daemonVars

MainStep ==
  \/ Start \/ StartFails
  \/ HandleEvent \/ EventStreamEnds \/ AcceptFails \/ ObserveStop
  \/ \E p \in Peers : Accept(p)
  \/ CallShutdown \/ RunReturns \/ Exit

PeerStep(p) ==
  \/ Connect(p) \/ BadRequest(p)
  \/ ReadLocalRequest(p) \/ ReadQuery(p) \/ ReadSet(p) \/ ReadExec(p)
  \/ Respond(p) \/ Write(p) \/ WriteStop(p) \/ SignalStop(p)

WorkerStep(w) ==
  \/ ScriptGets(w) \/ ScriptSets(w) \/ ScriptEnds(w)
  \/ PerformSet(w) \/ RefuseSet(w) \/ CallDone(w)

DaemonNext ==
  \/ MainStep
  \/ CtrlC
  \/ \E p \in Peers : PeerStep(p)
  \/ \E w \in Workers : WorkerStep(w)
  \/ ActorRuns
  \/ \E c \in Clients : CallRuns(c)

DaemonSpec == DaemonInit /\ [][DaemonNext]_allVars

(* The runtime keeps every task going; a script ends; a select of the       *)
(* controller does not ignore a branch that stays ready.                    *)
MainProgress == Start \/ StartFails \/ CallShutdown \/ RunReturns \/ Exit

PeerProgress(p) ==
  \/ BadRequest(p) \/ ReadLocalRequest(p) \/ ReadQuery(p) \/ ReadSet(p) \/ ReadExec(p)
  \/ Respond(p) \/ Write(p) \/ WriteStop(p) \/ SignalStop(p)

DaemonFairness ==
  /\ WF_allVars(MainProgress)
  /\ WF_allVars(HandleEvent)
  /\ WF_allVars(EventStreamEnds)
  /\ WF_allVars(ObserveStop)
  /\ WF_allVars(Alive /\ ActorProgress /\ UNCHANGED daemonVars)
  /\ SF_allVars(Alive /\ RecvCommand /\ UNCHANGED daemonVars)
  /\ \A p \in Peers : WF_allVars(PeerProgress(p))
  /\ \A w \in Workers : WF_allVars(PerformSet(w) \/ RefuseSet(w) \/ CallDone(w))
                          /\ SF_allVars(ScriptEnds(w))
  /\ \A c \in Clients :
       /\ SF_allVars(Alive /\ Send(c) /\ UNCHANGED daemonVars)
       /\ WF_allVars(Alive /\ (SendFails(c) \/ Return(c)) /\ UNCHANGED daemonVars)

FairDaemonSpec == DaemonSpec /\ DaemonFairness

-----------------------------------------------------------------------------
(* The daemon uses the actor as AdapterActor allows: every invariant of     *)
(* that module holds in the daemon.                                         *)
KeepsActor == Spec

(* The manifest check and the set it permits are two calls of the actor     *)
(* with other callers' commands between them, in handle_control and again   *)
(* in the engine's set(): whatever the interleaving, the adapter never      *)
(* executes a set of a key that is not writable.                            *)
OnlyWritableKeysAreSet ==
  actor = "execute" /\ req[current].op = "set" => req[current].key \in Writable

(* A run that ends with success was asked to stop, by Ctrl+C or by a client *)
(* that has its answer, and the adapter was shut down, once.  If shutting   *)
(* it down failed at the controller's request, the run fails, whatever else *)
(* the actor, the connections and the stop were doing.  Success does not    *)
(* say more: the end of the event stream may come before the stop and not   *)
(* be seen, and then an error of the actor's own shutdown is only a warning *)
(* in the log ("warned").                                                   *)
CleanExit ==
  main \in {"returned", "exited"} /\ result = "ok"
    => /\ ctrlC \/ (stop /\ \E p \in Peers : conn[p] = "answered")
       /\ shutdowns = 1
       /\ shutdownResult \in {"ok", "warned"}

(* The actor waits for room in the event channel while the controller,      *)
(* which alone could make room, waits for the actor.                        *)
Jammed == main = "awaiting" /\ actor = "forward" /\ Len(events) = EventCap

(* A daemon that has been told to stop ends, unless it is jammed.           *)
StopEndsDaemonUnlessJammed == ctrlC \/ stop ~> main = "exited" \/ Jammed

(* Every request that has been accepted is answered or its connection is    *)
(* cut, unless the daemon is jammed.                                        *)
RequestsAreAnswered ==
  \A p \in Peers : conn[p] = "reading" ~> conn[p] \in {"answered", "cut"} \/ Jammed

(* doc/architecture.md, "Shutdown Sequence": a stop signal breaks the       *)
(* controller out of its loop, it shuts the adapter down, and `msx run'     *)
(* cleans up the socket and exits.                                          *)
StopEndsDaemon == ctrlC \/ stop ~> main = "exited"
=============================================================================
