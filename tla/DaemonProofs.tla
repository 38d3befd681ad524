---------------------------- MODULE DaemonProofs ----------------------------
(***************************************************************************)
(* Theorems about Daemon: it runs the adapter actor within the rules of    *)
(* AdapterActor, so that module's theorems hold for the actor of every     *)
(* daemon; and two properties of the composition itself.                   *)
(***************************************************************************)
EXTENDS Daemon, AdapterActorProofs

LEMMA RequestsOfWorkers ==
  /\ Manifest \in Requests /\ Shutdown \in Requests
  /\ GetRequests \subseteq Requests /\ SetRequests \subseteq Requests
  /\ Workers \subseteq Clients /\ Peers \subseteq Workers /\ Scripts \subseteq Workers
  /\ Main \in Clients \ Workers /\ Clients = {Main} \cup Workers
BY RolesAssumption
DEF Requests, Manifest, Shutdown, GetRequests, SetRequests, Workers

(* What a daemon step other than the actor's own and a running call does to *)
(* the actor: nothing, one new call, or an event received or the receiver   *)
(* dropped.                                                                 *)
LEMMA DaemonStepIsActorStep ==
  ASSUME DaemonNext, \A w \in Workers : wanted[w] \in SetRequests \cup {Manifest}
  PROVE  [Next]_vars
<1> USE RequestsOfWorkers
<1>1. CASE MainStep
  BY <1>1
  DEF MainStep, Start, StartFails, HandleEvent, EventStreamEnds, AcceptFails, ObserveStop, Accept,
      CallShutdown, RunReturns, Exit, Next, ClientStep, ReceiverStep
<1>2. CASE CtrlC
  BY <1>2 DEF CtrlC
<1>3. ASSUME NEW p \in Peers, PeerStep(p) PROVE [Next]_vars
  BY <1>3
  DEF PeerStep, Connect, BadRequest, ReadLocalRequest, ReadQuery, ReadSet, ReadExec, Respond, Write,
      WriteStop, SignalStop, Next, ClientStep
<1>4. ASSUME NEW w \in Workers, WorkerStep(w) PROVE [Next]_vars
  BY <1>4
  DEF WorkerStep, ScriptGets, ScriptSets, ScriptEnds, PerformSet, RefuseSet, CallDone, Next,
      ClientStep
<1>5. CASE ActorRuns
  BY <1>5 DEF ActorRuns, Next
<1>6. ASSUME NEW c \in Clients, CallRuns(c) PROVE [Next]_vars
  BY <1>6 DEF CallRuns, Next, ClientStep
<1> QED BY <1>1, <1>2, <1>3, <1>4, <1>5, <1>6 DEF DaemonNext

WantedOK == wanted \in [Workers -> SetRequests \cup {Manifest}]

LEMMA InitWanted == DaemonInit => WantedOK
BY DEF DaemonInit, WantedOK

LEMMA NextWanted == WantedOK /\ [DaemonNext]_allVars => WantedOK'
<1> SUFFICES ASSUME WantedOK, [DaemonNext]_allVars PROVE WantedOK'
  OBVIOUS
<1> USE DEF WantedOK, daemonVars
<1>1. CASE MainStep \/ CtrlC \/ ActorRuns
  BY <1>1
  DEF MainStep, Start, StartFails, HandleEvent, EventStreamEnds, AcceptFails, ObserveStop, Accept,
      CallShutdown, RunReturns, Exit, CtrlC, ActorRuns
<1>2. ASSUME NEW p \in Peers, PeerStep(p) PROVE WantedOK'
  BY <1>2
  DEF PeerStep, Connect, BadRequest, ReadLocalRequest, ReadQuery, ReadSet, ReadExec, Respond, Write,
      WriteStop, SignalStop
<1>3. ASSUME NEW w \in Workers, WorkerStep(w) PROVE WantedOK'
  BY <1>3 DEF WorkerStep, ScriptGets, ScriptSets, ScriptEnds, PerformSet, RefuseSet, CallDone
<1>4. ASSUME NEW c \in Clients, CallRuns(c) PROVE WantedOK'
  BY <1>4 DEF CallRuns
<1>5. CASE UNCHANGED allVars
  BY <1>5 DEF allVars
<1> QED BY <1>1, <1>2, <1>3, <1>4, <1>5 DEF DaemonNext

(* Every behaviour of the daemon is one of its adapter actor.               *)
THEOREM DaemonKeepsActor == DaemonSpec => KeepsActor
<1>1. DaemonInit => Init
  BY DEF DaemonInit
<1>2. WantedOK /\ [DaemonNext]_allVars => [Next]_vars
  BY DaemonStepIsActorStep DEF WantedOK, allVars
<1> QED BY <1>1, <1>2, InitWanted, NextWanted, PTL DEF DaemonSpec, KeepsActor, Spec

(* So no call of the controller, of a connection or of a script awaits a    *)
(* reply that nobody can send, whatever stops the daemon.                   *)
THEOREM DaemonOrphansNoCall == DaemonSpec => []NoOrphanedCall
BY DaemonKeepsActor, NoCallIsOrphaned, PTL DEF KeepsActor

-----------------------------------------------------------------------------
(* Type correctness of the daemon's own variables. *)

DaemonTypes ==
  /\ main \in {"starting", "loop", "shutdown", "awaiting", "returned", "exited"}
  /\ result \in {"ok", "error"}
  /\ ctrlC \in BOOLEAN
  /\ stop \in BOOLEAN
  /\ conn \in [Peers -> {"none", "backlog", "reading", "serving", "executing",
                         "writing", "stopping", "signalling", "answered", "cut"}]
  /\ task \in [Workers -> {"idle", "script", "query", "checking", "setting"}]
  /\ wanted \in [Workers -> SetRequests \cup {Manifest}]

LEMMA InitDaemonTypes == DaemonInit => DaemonTypes
BY DEF DaemonInit, DaemonTypes

LEMMA NextDaemonTypes == DaemonTypes /\ [DaemonNext]_allVars => DaemonTypes'
<1> SUFFICES ASSUME DaemonTypes, [DaemonNext]_allVars PROVE DaemonTypes'
  OBVIOUS
<1> USE RequestsOfWorkers DEF DaemonTypes, daemonVars
<1>0. WantedOK'
  BY NextWanted DEF WantedOK
<1>1. CASE Start \/ StartFails \/ EventStreamEnds \/ AcceptFails \/ ObserveStop \/ CallShutdown
  BY <1>1 DEF Start, StartFails, EventStreamEnds, AcceptFails, ObserveStop, CallShutdown
<1>2. CASE HandleEvent
  BY <1>2 DEF HandleEvent
<1>3. ASSUME NEW p \in Peers, Accept(p) PROVE DaemonTypes'
  BY <1>3 DEF Accept
<1>4. CASE RunReturns
  BY <1>4 DEF RunReturns
<1>5. CASE Exit
  BY <1>5 DEF Exit
<1>6. CASE CtrlC
  <2>1. ctrlC' \in BOOLEAN
    BY <1>6 DEF CtrlC
  <2> QED BY <1>6, <2>1 DEF CtrlC
<1>7. ASSUME NEW p \in Peers,
             \/ Connect(p) \/ BadRequest(p) \/ ReadLocalRequest(p) \/ Respond(p) \/ Write(p)
      PROVE  DaemonTypes'
  BY <1>7 DEF Connect, BadRequest, ReadLocalRequest, Respond, Write
<1>8. ASSUME NEW p \in Peers, ReadQuery(p) \/ ReadSet(p) \/ ReadExec(p) PROVE DaemonTypes'
  BY <1>0, <1>8 DEF ReadQuery, ReadSet, ReadExec, WantedOK
<1>9. ASSUME NEW p \in Peers, WriteStop(p) \/ SignalStop(p) PROVE DaemonTypes'
  <2>1. stop' \in BOOLEAN
    BY <1>9 DEF WriteStop, SignalStop
  <2> QED BY <1>9, <2>1 DEF WriteStop, SignalStop
<1>10. ASSUME NEW w \in Workers, WorkerStep(w) PROVE DaemonTypes'
  BY <1>0, <1>10
  DEF WorkerStep, ScriptGets, ScriptSets, ScriptEnds, PerformSet, RefuseSet, CallDone, After, WantedOK
<1>11. CASE ActorRuns
  BY <1>11 DEF ActorRuns
<1>12. ASSUME NEW c \in Clients, CallRuns(c) PROVE DaemonTypes'
  BY <1>12 DEF CallRuns
<1>13. CASE UNCHANGED allVars
  BY <1>13 DEF allVars
<1> QED
  BY <1>1, <1>2, <1>3, <1>4, <1>5, <1>6, <1>7, <1>8, <1>9, <1>10, <1>11, <1>12, <1>13
  DEF DaemonNext, MainStep, PeerStep

(* What the composition's properties rest on: the actor's invariant and the *)
(* types hold in every state, and each daemon step is a step of the actor.  *)
Base == IInv /\ DaemonTypes

LEMMA BaseInvariant ==
  /\ DaemonInit => Base
  /\ Base /\ [DaemonNext]_allVars => Base' /\ [Next]_vars
<1>1. DaemonInit => Base
  BY InitIInv, InitDaemonTypes DEF DaemonInit, Base
<1>2. Base /\ [DaemonNext]_allVars => [Next]_vars
  BY DaemonStepIsActorStep DEF Base, DaemonTypes, allVars
<1>3. Base /\ [DaemonNext]_allVars => Base'
  BY <1>2, NextIInv, NextDaemonTypes DEF Base
<1> QED BY <1>1, <1>2, <1>3

(* The daemon's variables keep their types and the actor's channels their   *)
(* bounds.                                                                  *)
THEOREM DaemonTypeCorrect == DaemonSpec => []DaemonTypeOK
<1>1. Base => DaemonTypeOK
  BY DEF Base, IInv, TypeInv, DaemonTypes, DaemonTypeOK
<1> QED BY <1>1, BaseInvariant, PTL DEF DaemonSpec

-----------------------------------------------------------------------------
(* Only writable keys are set. *)

(* A set under way, from the call to its return, is of a writable key.      *)
SetsInProgress ==
  \A c \in Clients : call[c] # "idle" /\ req[c].op = "set" => req[c].key \in Writable

(* A new call keeps this if its request does. *)
LEMMA CallKeepsSets ==
  ASSUME TypeOK, SetsInProgress, NEW c \in Clients, NEW r, Call(c, r),
         r.op = "set" => r.key \in Writable
  PROVE  SetsInProgress'
BY DEF TypeOK, SetsInProgress, Call

(* So does a step without a new call. *)
LEMMA OthersKeepSets ==
  ASSUME SetsInProgress, UNCHANGED req,
         \A c \in Clients : call[c] = "idle" => call'[c] = "idle"
  PROVE  SetsInProgress'
BY DEF SetsInProgress

LEMMA NextSets == Base /\ SetsInProgress /\ [DaemonNext]_allVars => SetsInProgress'
<1> SUFFICES ASSUME Base, SetsInProgress, [DaemonNext]_allVars PROVE SetsInProgress'
  OBVIOUS
<1>0. TypeOK
  BY DEF Base, IInv, TypeInv
<1> USE RequestsOfWorkers DEF actorVars, clientVars, eventVars, adapterVars
<1>1. CASE UNCHANGED <<req, call>>
  BY <1>1, OthersKeepSets
<1>2. CASE CallShutdown
  BY <1>0, <1>2, CallKeepsSets DEF CallShutdown, Shutdown
<1>3. CASE MainStep \/ CtrlC
  BY <1>1, <1>2, <1>3
  DEF MainStep, Start, StartFails, HandleEvent, EventStreamEnds, AcceptFails, ObserveStop, Accept,
      RunReturns, Exit, CtrlC, vars, Receive, DropReceiver
<1>4. ASSUME NEW p \in Peers, ReadQuery(p) \/ ReadSet(p) PROVE SetsInProgress'
  <2>1. PICK r \in GetRequests \cup {Manifest} : Call(p, r)
    BY <1>4 DEF ReadQuery, ReadSet
  <2>2. r.op # "set"
    BY DEF GetRequests, Manifest
  <2> QED BY <1>0, <2>1, <2>2, CallKeepsSets
<1>5. ASSUME NEW p \in Peers, PeerStep(p) PROVE SetsInProgress'
  BY <1>1, <1>4, <1>5
  DEF PeerStep, Connect, BadRequest, ReadLocalRequest, ReadExec, Respond, Write, WriteStop, SignalStop, vars
<1>6. ASSUME NEW w \in Workers, ScriptGets(w) \/ ScriptSets(w) PROVE SetsInProgress'
  <2>1. PICK r \in GetRequests \cup {Manifest} : Call(w, r)
    BY <1>6 DEF ScriptGets, ScriptSets
  <2>2. r.op # "set"
    BY DEF GetRequests, Manifest
  <2> QED BY <1>0, <2>1, <2>2, CallKeepsSets
<1>7. ASSUME NEW w \in Workers, PerformSet(w) PROVE SetsInProgress'
  BY <1>0, <1>7, CallKeepsSets DEF PerformSet, IsWritable
<1>8. ASSUME NEW w \in Workers, WorkerStep(w) PROVE SetsInProgress'
  BY <1>1, <1>6, <1>7, <1>8 DEF WorkerStep, ScriptEnds, RefuseSet, CallDone, vars
<1>9. CASE ActorRuns
  BY <1>1, <1>9
  DEF ActorRuns, WindowManagerChanges, ActorStep, InitAdapter, Subscribe, NextEvent, StreamEnds,
      Forward, ForwardFails, RecvCommand, RecvNone, Execute, Reply, FinalShutdown, DropEventSender,
      DropCommandReceiver
<1>10. ASSUME NEW c \in Clients, CallRuns(c) PROVE SetsInProgress'
  <2>1. UNCHANGED req /\ \A d \in Clients : call[d] = "idle" => call'[d] = "idle"
    BY <1>0, <1>10 DEF CallRuns, Send, SendFails, Return, TypeOK
  <2> QED BY <2>1, OthersKeepSets
<1>11. CASE UNCHANGED allVars
  BY <1>1, <1>11 DEF allVars, vars
<1> QED BY <1>3, <1>5, <1>8, <1>9, <1>10, <1>11 DEF DaemonNext

(* No interleaving of connections, scripts and events makes the adapter     *)
(* execute a set of a key that the manifest does not list as writable.      *)
THEOREM ReadOnlyKeysAreSafe == DaemonSpec => []OnlyWritableKeysAreSet
<1>1. DaemonInit => SetsInProgress
  BY DEF DaemonInit, Init, SetsInProgress
<1>2. Base /\ SetsInProgress => OnlyWritableKeysAreSet
  BY DEF Base, IInv, TypeInv, ServesSomebody, OneCommandPerCall, Serving, SetsInProgress,
         OnlyWritableKeysAreSet
<1> QED BY <1>1, <1>2, BaseInvariant, NextSets, PTL DEF DaemonSpec

-----------------------------------------------------------------------------
(* A successful end of the daemon. *)

StopAnswered == stop => \E p \in Peers : conn[p] = "answered"

LEMMA NextStopAnswered == Base /\ StopAnswered /\ [DaemonNext]_allVars => StopAnswered'
<1> SUFFICES ASSUME Base, StopAnswered, [DaemonNext]_allVars, stop'
             PROVE  \E p \in Peers : conn'[p] = "answered"
  BY DEF StopAnswered
<1>0. conn \in [Peers -> {"none", "backlog", "reading", "serving", "executing",
                          "writing", "stopping", "signalling", "answered", "cut"}]
  BY DEF Base, DaemonTypes
<1> USE DEF daemonVars
<1>1. ASSUME stop, \A p \in Peers : conn[p] = "answered" => conn'[p] = "answered"
      PROVE  \E p \in Peers : conn'[p] = "answered"
  BY <1>1 DEF StopAnswered
<1>2. CASE Start \/ StartFails \/ HandleEvent \/ EventStreamEnds \/ AcceptFails \/ ObserveStop
           \/ CallShutdown \/ CtrlC \/ ActorRuns
  BY <1>1, <1>2
  DEF Start, StartFails, HandleEvent, EventStreamEnds, AcceptFails, ObserveStop, CallShutdown,
      CtrlC, ActorRuns
<1>3. CASE RunReturns \/ Exit
  BY <1>1, <1>3 DEF RunReturns, Exit
<1>4. ASSUME NEW p \in Peers, SignalStop(p) PROVE \E q \in Peers : conn'[q] = "answered"
  BY <1>0, <1>4 DEF SignalStop
<1>5. ASSUME NEW p \in Peers, Accept(p) \/ (PeerStep(p) /\ ~SignalStop(p))
      PROVE  \E q \in Peers : conn'[q] = "answered"
  <2>1. UNCHANGED stop /\ \A q \in Peers : conn[q] = "answered" => conn'[q] = "answered"
    BY <1>0, <1>5
    DEF Accept, PeerStep, Connect, BadRequest, ReadLocalRequest, ReadQuery, ReadSet, ReadExec,
        Respond, Write, WriteStop
  <2> QED BY <1>1, <2>1
<1>6. ASSUME NEW w \in Workers, WorkerStep(w) PROVE \E q \in Peers : conn'[q] = "answered"
  BY <1>1, <1>6 DEF WorkerStep, ScriptGets, ScriptSets, ScriptEnds, PerformSet, RefuseSet, CallDone
<1>7. ASSUME NEW c \in Clients, CallRuns(c) PROVE \E q \in Peers : conn'[q] = "answered"
  BY <1>1, <1>7 DEF CallRuns
<1>8. CASE UNCHANGED allVars
  BY <1>1, <1>8 DEF allVars
<1> QED BY <1>2, <1>3, <1>4, <1>5, <1>6, <1>7, <1>8 DEF DaemonNext, MainStep

(* From the end of the loop on, success means that somebody asked; from the *)
(* end of run on, that the controller's shutdown call has returned Ok.      *)
StopInv ==
  /\ main \in {"shutdown", "awaiting", "returned", "exited"} /\ result = "ok" => ctrlC \/ stop
  /\ main = "awaiting" => req[Main].op = "shutdown"
  /\ main \in {"returned", "exited"} /\ result = "ok"
       => call[Main] = "idle" /\ reply[Main].status = "ok" /\ shutdowns = 1

(* Only the controller asks for the shutdown, once, at the end; so an error *)
(* of the adapter's shutdown that is answered is on its way to it, or there.*)
ErrorReachesMain ==
  /\ \A w \in Workers : req[w].op # "shutdown"
  /\ main \in {"starting", "loop", "shutdown"} => req[Main].op # "shutdown"
  /\ shutdownResult = "error" =>
       /\ req[Main].op = "shutdown"
       /\ \/ Serving(Main) /\ actor = "reply" /\ answer.status = "error"
          \/ reply[Main].status = "error"

(* The rest of a step that leaves main and result alone. *)
LEMMA SameMainKeepsStopInv ==
  ASSUME Base, StopInv, [DaemonNext]_allVars, UNCHANGED <<main, result>>,
         ctrlC => ctrlC', stop => stop', req'[Main] = req[Main],
         call[Main] = "idle" => call'[Main] = "idle" /\ reply'[Main] = reply[Main]
  PROVE  StopInv'
<1>1. shutdowns > 0 => shutdowns' = shutdowns
  BY BaseInvariant, StepAfterShutdown DEF Base
<1> QED BY <1>1 DEF StopInv

LEMMA NextStopInv == Base /\ StopInv /\ [DaemonNext]_allVars => StopInv'
<1> SUFFICES ASSUME Base, StopInv, [DaemonNext]_allVars PROVE StopInv'
  OBVIOUS
<1>0. TypeOK /\ Main \in Clients /\ Main \notin Workers
  BY RequestsOfWorkers DEF Base, IInv, TypeInv
<1> USE DEF daemonVars, actorVars, clientVars, eventVars, adapterVars
<1>1. CASE Start \/ StartFails \/ EventStreamEnds \/ AcceptFails \/ ObserveStop
  BY <1>1 DEF Start, StartFails, EventStreamEnds, AcceptFails, ObserveStop, StopInv
<1>2. CASE CallShutdown
  BY <1>0, <1>2 DEF CallShutdown, Call, Shutdown, StopInv, TypeOK
<1>3. CASE RunReturns
  <2>1. shutdowns = 1 /\ shutdowns' = 1
    BY <1>0, <1>3
    DEF RunReturns, DropReceiver, StopInv, Base, IInv, ShutdownReturnsAfterShutdown, ShutdownOnce,
        TypeOK
  <2> QED BY <1>3, <2>1 DEF RunReturns, DropReceiver, StopInv
<1>4. CASE Exit
  BY <1>4 DEF Exit, StopInv, vars
<1>5. CASE HandleEvent \/ (\E p \in Peers : Accept(p)) \/ CtrlC \/ UNCHANGED allVars
  BY <1>5, SameMainKeepsStopInv DEF HandleEvent, Accept, CtrlC, Receive, allVars, vars
<1>6. ASSUME NEW p \in Peers, PeerStep(p) PROVE StopInv'
  <2>1. p \in Clients /\ p # Main
    BY <1>0, RequestsOfWorkers
  <2>2. req'[Main] = req[Main] /\ call'[Main] = call[Main] /\ reply'[Main] = reply[Main]
    BY <1>0, <1>6, <2>1
    DEF PeerStep, Connect, BadRequest, ReadLocalRequest, ReadQuery, ReadSet, ReadExec, Respond,
        Write, WriteStop, SignalStop, Call, TypeOK, vars
  <2>3. UNCHANGED <<main, result, ctrlC>> /\ (stop => stop')
    BY <1>6
    DEF PeerStep, Connect, BadRequest, ReadLocalRequest, ReadQuery, ReadSet, ReadExec, Respond,
        Write, WriteStop, SignalStop
  <2> QED BY <2>2, <2>3, SameMainKeepsStopInv
<1>7. ASSUME NEW w \in Workers, WorkerStep(w) PROVE StopInv'
  <2>1. w \in Clients /\ w # Main
    BY <1>0, RequestsOfWorkers
  <2>2. req'[Main] = req[Main] /\ call'[Main] = call[Main] /\ reply'[Main] = reply[Main]
    BY <1>0, <1>7, <2>1
    DEF WorkerStep, ScriptGets, ScriptSets, ScriptEnds, PerformSet, RefuseSet, CallDone, Call,
        TypeOK, vars
  <2>3. UNCHANGED <<main, result, ctrlC, stop>>
    BY <1>7 DEF WorkerStep, ScriptGets, ScriptSets, ScriptEnds, PerformSet, RefuseSet, CallDone
  <2> QED BY <2>2, <2>3, SameMainKeepsStopInv
<1>8. CASE ActorRuns
  <2>1. UNCHANGED <<req, call>>
    BY <1>8
    DEF ActorRuns, WindowManagerChanges, ActorStep, InitAdapter, Subscribe, NextEvent, StreamEnds,
        Forward, ForwardFails, RecvCommand, RecvNone, Execute, Reply, FinalShutdown,
        DropEventSender, DropCommandReceiver
  <2>2. call[Main] = "idle" => reply'[Main] = reply[Main]
    <3>1. CASE Reply
      <4>1. current \in Clients /\ call[current] = "waiting"
        BY <3>1 DEF Reply, Base, IInv, TypeInv, ServesSomebody, OneCommandPerCall, Serving
      <4> QED BY <1>0, <3>1, <4>1 DEF Reply, TypeOK
    <3>2. CASE DropCommandReceiver
      <4>1. Main \in Range(cmds) => call[Main] = "waiting"
        BY <1>0 DEF Base, IInv, OneCommandPerCall
      <4> QED BY <1>0, <3>2, <4>1 DEF DropCommandReceiver, TypeOK
    <3>3. CASE ~Reply /\ ~DropCommandReceiver
      BY <1>8, <3>3
      DEF ActorRuns, WindowManagerChanges, ActorStep, InitAdapter, Subscribe, NextEvent,
          StreamEnds, Forward, ForwardFails, RecvCommand, RecvNone, Execute, FinalShutdown,
          DropEventSender
    <3> QED BY <3>1, <3>2, <3>3
  <2> QED BY <1>8, <2>1, <2>2, SameMainKeepsStopInv DEF ActorRuns
<1>9. ASSUME NEW c \in Clients, CallRuns(c) PROVE StopInv'
  <2>1. /\ UNCHANGED req
        /\ call[Main] = "idle" => call'[Main] = "idle" /\ reply'[Main] = reply[Main]
    BY <1>0, <1>9 DEF CallRuns, Send, SendFails, Return, TypeOK
  <2> QED BY <1>9, <2>1, SameMainKeepsStopInv DEF CallRuns
<1> QED BY <1>1, <1>2, <1>3, <1>4, <1>5, <1>6, <1>7, <1>8, <1>9 DEF DaemonNext, MainStep

(* A step that starts no call and leaves the result of a shutdown alone.    *)
LEMMA SameCallsKeepError ==
  ASSUME Base, ErrorReachesMain, UNCHANGED <<req, shutdownResult>>,
         main \in {"starting", "loop", "shutdown"} \/ main' \notin {"starting", "loop", "shutdown"},
         reply[Main].status = "error" => reply'[Main].status = "error",
         \/ UNCHANGED <<actor, current, answer>>
         \/ actor # "reply"
         \/ reply'[Main].status = "error"
  PROVE  ErrorReachesMain'
BY DEF ErrorReachesMain, Serving

(* A call of a worker, which is not a shutdown. *)
LEMMA WorkersCallKeepsError ==
  ASSUME Base, ErrorReachesMain, UNCHANGED main, NEW w \in Workers, NEW r \in Requests, Call(w, r),
         r.op # "shutdown"
  PROVE  ErrorReachesMain'
<1>1. w \in Clients /\ w # Main /\ Main \in Clients /\ Workers \subseteq Clients /\ TypeOK
  BY RequestsOfWorkers DEF Base, IInv, TypeInv
<1>2. /\ req'[w] = r /\ (\A c \in Clients \ {w} : req'[c] = req[c])
      /\ reply'[Main] = reply[Main]
      /\ UNCHANGED <<actor, current, answer, shutdownResult>>
  BY <1>1 DEF Call, TypeOK, actorVars, adapterVars
<1> QED BY <1>1, <1>2 DEF ErrorReachesMain, Serving

LEMMA NextError == Base /\ ErrorReachesMain /\ [DaemonNext]_allVars => ErrorReachesMain'
<1> SUFFICES ASSUME Base, ErrorReachesMain, [DaemonNext]_allVars PROVE ErrorReachesMain'
  OBVIOUS
<1>0. /\ TypeOK /\ Main \in Clients /\ Main \notin Workers
      /\ Clients = {Main} \cup Workers /\ Peers \subseteq Workers
      /\ GetRequests \cup SetRequests \cup {Manifest} \subseteq Requests
  BY RequestsOfWorkers DEF Base, IInv, TypeInv
<1>00. \A r \in GetRequests \cup SetRequests \cup {Manifest} : r.op # "shutdown"
  BY DEF GetRequests, SetRequests, Manifest
<1> USE DEF daemonVars, actorVars, clientVars, eventVars, adapterVars
<1>1. CASE UNCHANGED vars /\ UNCHANGED main
  BY <1>1, SameCallsKeepError DEF vars
<1>2. CASE Start \/ StartFails \/ EventStreamEnds \/ AcceptFails \/ ObserveStop \/ Exit
  BY <1>2, SameCallsKeepError
  DEF Start, StartFails, EventStreamEnds, AcceptFails, ObserveStop, Exit, vars
<1>3. CASE HandleEvent \/ RunReturns
  BY <1>3, SameCallsKeepError DEF HandleEvent, Receive, RunReturns, DropReceiver
<1>4. CASE CallShutdown
  <2>1. req[Main].op # "shutdown" /\ shutdownResult' = shutdownResult /\ shutdownResult # "error"
    BY <1>4 DEF CallShutdown, Call, ErrorReachesMain
  <2>2. \A w \in Workers : req'[w] = req[w]
    BY <1>0, <1>4 DEF CallShutdown, Call, TypeOK
  <2> QED BY <1>4, <2>1, <2>2 DEF CallShutdown, ErrorReachesMain
<1>5. CASE CtrlC \/ (\E p \in Peers : Accept(p))
  BY <1>1, <1>5 DEF CtrlC, Accept
<1>6. ASSUME NEW p \in Peers, ReadQuery(p) \/ ReadSet(p) PROVE ErrorReachesMain'
  <2>1. PICK r \in GetRequests \cup {Manifest} : Call(p, r)
    BY <1>6 DEF ReadQuery, ReadSet
  <2>2. r \in Requests /\ r.op # "shutdown" /\ p \in Workers
    BY <1>0, <1>00
  <2>3. UNCHANGED main
    BY <1>6 DEF ReadQuery, ReadSet
  <2> QED BY <2>1, <2>2, <2>3, WorkersCallKeepsError
<1>7. ASSUME NEW p \in Peers, PeerStep(p), ~ReadQuery(p), ~ReadSet(p) PROVE ErrorReachesMain'
  BY <1>1, <1>7
  DEF PeerStep, Connect, BadRequest, ReadLocalRequest, ReadExec, Respond, Write, WriteStop,
      SignalStop
<1>8. ASSUME NEW w \in Workers, ScriptGets(w) \/ ScriptSets(w) \/ PerformSet(w)
      PROVE  ErrorReachesMain'
  <2>1. PICK r \in GetRequests \cup SetRequests \cup {Manifest} : Call(w, r)
    BY <1>8 DEF ScriptGets, ScriptSets, PerformSet, Base, DaemonTypes
  <2>2. r \in Requests /\ r.op # "shutdown"
    BY <1>0, <1>00
  <2>3. UNCHANGED main
    BY <1>8 DEF ScriptGets, ScriptSets, PerformSet
  <2> QED BY <2>1, <2>2, <2>3, WorkersCallKeepsError
<1>9. ASSUME NEW w \in Workers, ScriptEnds(w) \/ RefuseSet(w) \/ CallDone(w) PROVE ErrorReachesMain'
  BY <1>1, <1>9 DEF ScriptEnds, RefuseSet, CallDone
<1>10. CASE ActorRuns
  <2>0. UNCHANGED main /\ (ActorStep \/ WindowManagerChanges)
    BY <1>10 DEF ActorRuns
  <2>1. CASE Execute
    <3>1. current \in Clients /\ Serving(current) /\ call[current] = "waiting"
      BY <2>1 DEF Execute, Base, IInv, TypeInv, ServesSomebody, OneCommandPerCall, Serving
    <3>2. UNCHANGED <<req, reply, current>> /\ actor' = "reply" /\ actor = "execute"
      BY <2>1 DEF Execute
    <3>3. CASE req[current].op = "shutdown"
      <4>1. current = Main /\ shutdownResult' = answer'.status
        BY <1>0, <2>1, <3>1, <3>3 DEF Execute, ErrorReachesMain
      <4> QED BY <2>0, <3>2, <3>3, <4>1 DEF ErrorReachesMain, Serving
    <3>4. CASE req[current].op # "shutdown"
      <4>1. UNCHANGED shutdownResult
        BY <2>1, <3>4 DEF Execute
      <4> QED BY <2>0, <3>2, <4>1, SameCallsKeepError
    <3> QED BY <3>3, <3>4
  <2>2. CASE Reply
    <3>1. current \in Clients /\ call[current] = "waiting" /\ reply[current].status = "none"
      BY <2>2 DEF Reply, Base, IInv, TypeInv, ServesSomebody, OneCommandPerCall, Serving
    <3>2. reply'[current] = answer /\ \A c \in Clients \ {current} : reply'[c] = reply[c]
      BY <1>0, <2>2, <3>1 DEF Reply, TypeOK
    <3>3. UNCHANGED <<req, shutdownResult>>
      BY <2>2 DEF Reply
    <3>4. shutdownResult = "error" => reply'[Main].status = "error"
      BY <1>0, <3>1, <3>2 DEF ErrorReachesMain, Serving
    <3> QED BY <2>0, <3>3, <3>4 DEF ErrorReachesMain
  <2>3. CASE DropCommandReceiver
    <3>1. reply[Main].status = "error" => Main \notin Range(cmds)
      BY <1>0 DEF Base, IInv, OneCommandPerCall
    <3>2. reply[Main].status = "error" => reply'[Main] = reply[Main]
      BY <1>0, <2>3, <3>1 DEF DropCommandReceiver
    <3> QED BY <2>0, <2>3, <3>2, SameCallsKeepError DEF DropCommandReceiver
  <2>4. CASE FinalShutdown
    BY <2>0, <2>4 DEF FinalShutdown, ErrorReachesMain
  <2>5. CASE ~Execute /\ ~Reply /\ ~DropCommandReceiver /\ ~FinalShutdown
    <3>1. UNCHANGED <<req, reply, shutdownResult>> /\ (UNCHANGED <<actor, current, answer>> \/ actor # "reply")
      BY <2>0, <2>5
      DEF WindowManagerChanges, ActorStep, InitAdapter, Subscribe, NextEvent, StreamEnds, Forward,
          ForwardFails, RecvCommand, RecvNone, DropEventSender
    <3> QED BY <2>0, <3>1, SameCallsKeepError
  <2> QED BY <2>1, <2>2, <2>3, <2>4, <2>5
<1>11. ASSUME NEW c \in Clients, CallRuns(c) PROVE ErrorReachesMain'
  <2>1. UNCHANGED <<req, shutdownResult, actor, current, answer, main>>
    BY <1>11 DEF CallRuns, Send, SendFails, Return
  <2>2. reply[Main].status = "error" => reply'[Main].status = "error"
    <3>1. ASSUME c = Main, SendFails(c), reply[Main].status = "error" PROVE FALSE
      BY <1>0, <3>1 DEF SendFails, Base, IInv, RepliesMatchCalls
    <3>2. ASSUME c = Main, Return(c), reply[Main].status = "error" PROVE reply'[Main] = reply[Main]
      BY <1>0, <3>2 DEF Return, Outcome, TypeOK
    <3> QED BY <1>0, <1>11, <3>1, <3>2 DEF CallRuns, Send, SendFails, Return, TypeOK
  <2> QED BY <2>1, <2>2, SameCallsKeepError
<1>12. CASE UNCHANGED allVars
  BY <1>1, <1>12 DEF allVars
<1> QED
  BY <1>2, <1>3, <1>4, <1>5, <1>6, <1>7, <1>8, <1>9, <1>10, <1>11, <1>12
  DEF DaemonNext, MainStep, WorkerStep

(* A shutdown has a result. *)
ResultKnown == shutdowns > 0 => shutdownResult # "none"

LEMMA NextResultKnown == Base /\ ResultKnown /\ [DaemonNext]_allVars => ResultKnown'
<1> SUFFICES ASSUME Base, ResultKnown, [Next]_vars PROVE ResultKnown'
  BY BaseInvariant
<1> USE DEF ResultKnown, actorVars, clientVars, eventVars, adapterVars
<1>1. CASE Execute
  <2>1. req[current].op = "shutdown" => answer'.status \in {"ok", "error"}
    BY <1>1 DEF Execute, Served, Without
  <2> QED BY <1>1, <2>1 DEF Execute
<1>2. CASE FinalShutdown
  BY <1>2 DEF FinalShutdown
<1>3. CASE UNCHANGED <<shutdowns, shutdownResult>>
  BY <1>3
<1>4. CASE ActorStep
  BY <1>1, <1>2, <1>3, <1>4
  DEF ActorStep, InitAdapter, Subscribe, NextEvent, StreamEnds, Forward, ForwardFails, RecvCommand,
      RecvNone, Reply, DropEventSender, DropCommandReceiver
<1>5. CASE (\E c \in Clients : ClientStep(c)) \/ ReceiverStep \/ WindowManagerChanges
  BY <1>3, <1>5
  DEF ClientStep, Call, Send, SendFails, Return, DropHandle, ReceiverStep, Receive, DropReceiver,
      WindowManagerChanges
<1> QED BY <1>3, <1>4, <1>5 DEF Next, vars

(* `msx run' reports success only if it was asked to stop, by Ctrl+C or by  *)
(* a client that has its answer, and the adapter was shut down, once; when  *)
(* the shutdown it asked for fails it reports that error.  An error of the  *)
(* shutdown with which an actor ends by itself is not reported.             *)
THEOREM SuccessIsClean == DaemonSpec => []CleanExit
<1>1. DaemonInit => StopAnswered /\ StopInv /\ ErrorReachesMain /\ ResultKnown
  BY RequestsOfWorkers
  DEF DaemonInit, Init, StopAnswered, StopInv, ErrorReachesMain, ResultKnown
<1>2. Base /\ StopAnswered /\ StopInv /\ ErrorReachesMain /\ ResultKnown => CleanExit
  <2> SUFFICES ASSUME Base, StopAnswered, StopInv, ErrorReachesMain, ResultKnown,
                      main \in {"returned", "exited"}, result = "ok"
               PROVE  /\ ctrlC \/ (stop /\ \E p \in Peers : conn[p] = "answered")
                      /\ shutdowns = 1
                      /\ shutdownResult \in {"ok", "warned"}
    BY DEF CleanExit
  <2>1. /\ Main \in Clients /\ call[Main] = "idle" /\ reply[Main].status = "ok" /\ shutdowns = 1
        /\ ~Serving(Main)
    BY RequestsOfWorkers DEF StopInv, Base, IInv, OneCommandPerCall
  <2>2. shutdownResult # "error"
    BY <2>1 DEF ErrorReachesMain
  <2>3. shutdownResult \in {"none", "ok", "error", "warned"}
    BY DEF Base, IInv, TypeInv, TypeOK
  <2>4. shutdownResult # "none"
    BY <2>1 DEF ResultKnown
  <2> QED BY <2>1, <2>2, <2>3, <2>4 DEF StopAnswered, StopInv
<1> QED
  BY <1>1, <1>2, BaseInvariant, NextStopAnswered, NextStopInv, NextError, NextResultKnown, PTL
  DEF DaemonSpec
-----------------------------------------------------------------------------
(* What the liveness of the daemon rests on, said of each state: the guards *)
(* of the steps of the controller and of the connections.                   *)

MainCanGoOn ==
  \/ main = "starting" /\ actor \notin {"init", "subscribe"}             \* Start, StartFails
  \/ main = "loop" /\ (events # <<>> \/ ctrlC \/ stop)                   \* HandleEvent, ObserveStop
  \/ main = "shutdown" /\ Main \in handles /\ call[Main] = "idle"        \* CallShutdown
  \/ main = "awaiting" /\ call[Main] = "idle" /\ rxOpen /\ actor # "failed"  \* RunReturns
  \/ main = "returned"                                                   \* Exit

(* Between two calls a connection's code has a step whatever it is doing.   *)
PeerCanGoOn(p) ==
  \/ conn[p] \in {"reading", "writing", "stopping", "signalling"}
  \/ task[p] = "idle" \/ (call[p] = "idle" /\ p \in handles)

(* Whoever keeps a stop or a request from its end can go on, but in a jam.  *)
OnlyAJamStops ==
  Alive =>
    /\ ctrlC \/ stop => MainCanGoOn \/ CallCanGoOn(Main) \/ ActorCanGoOn \/ Jammed
    /\ \A p \in Peers :
         conn[p] \notin {"none", "backlog", "answered", "cut"}
           => PeerCanGoOn(p) \/ CallCanGoOn(p) \/ ActorCanGoOn \/ MainCanGoOn \/ Jammed

(* Where the controller is, the actor has started, nobody has been told to  *)
(* stop before the loop, and the controller's handle and receiver are as    *)
(* the next step needs them.                                                *)
PositionInv ==
  /\ actor \notin {"init", "subscribe", "failed"} => handles = Clients
  /\ actor \in {"init", "subscribe", "failed"} => main \in {"starting", "exited"}
  /\ main = "starting" => ~ctrlC /\ ~stop /\ \A p \in Peers : conn[p] = "none"
  /\ main \in {"starting", "loop", "shutdown"} => call[Main] = "idle"
  /\ main \in {"starting", "loop", "shutdown", "awaiting"} => rxOpen

(* A step that leaves main alone and neither starts nor ends the actor.     *)
LEMMA SameMainKeepsPosition ==
  ASSUME PositionInv, UNCHANGED <<main, handles, rxOpen, conn, ctrlC, stop>>,
         actor \in {"init", "subscribe", "failed"} <=> actor' \in {"init", "subscribe", "failed"},
         call[Main] = "idle" => call'[Main] = "idle"
  PROVE  PositionInv'
BY DEF PositionInv

LEMMA NextPosition == Base /\ PositionInv /\ [DaemonNext]_allVars => PositionInv'
<1> SUFFICES ASSUME Base, PositionInv, [DaemonNext]_allVars PROVE PositionInv'
  OBVIOUS
<1>0. TypeOK /\ DaemonTypes /\ Main \in Clients /\ Main \notin Workers /\ Peers \subseteq Workers
  BY RequestsOfWorkers DEF Base, IInv, TypeInv
<1> USE DEF daemonVars, actorVars, clientVars, eventVars, adapterVars
<1>1. CASE Start \/ StartFails \/ EventStreamEnds \/ AcceptFails \/ ObserveStop \/ Exit
  BY <1>1 DEF Start, StartFails, EventStreamEnds, AcceptFails, ObserveStop, Exit, PositionInv, vars
<1>2. CASE HandleEvent
  BY <1>2, SameMainKeepsPosition DEF HandleEvent, Receive
<1>3. CASE CallShutdown
  BY <1>3 DEF CallShutdown, Call, PositionInv
<1>4. CASE RunReturns
  BY <1>4 DEF RunReturns, DropReceiver, PositionInv
<1>5. ASSUME NEW p \in Peers, Accept(p) \/ PeerStep(p) PROVE PositionInv'
  <2>1. p # Main /\ p \in Clients
    BY <1>0, RequestsOfWorkers
  <2>2. UNCHANGED <<main, handles, rxOpen, actor, ctrlC>> /\ call'[Main] = call[Main]
    BY <1>0, <1>5, <2>1
    DEF Accept, PeerStep, Connect, BadRequest, ReadLocalRequest, ReadQuery, ReadSet, ReadExec,
        Respond, Write, WriteStop, SignalStop, Call, TypeOK, vars
  <2>3. main # "starting"
    BY <1>5
    DEF Accept, PeerStep, Connect, BadRequest, ReadLocalRequest, ReadQuery, ReadSet, ReadExec,
        Respond, Write, WriteStop, SignalStop, PositionInv
  <2> QED BY <2>2, <2>3 DEF PositionInv
<1>6. ASSUME NEW w \in Workers, WorkerStep(w) PROVE PositionInv'
  <2>1. w # Main /\ w \in Clients
    BY <1>0, RequestsOfWorkers
  <2>2. /\ UNCHANGED <<main, handles, rxOpen, actor, conn, ctrlC, stop>>
        /\ call'[Main] = call[Main]
    BY <1>0, <1>6, <2>1
    DEF WorkerStep, ScriptGets, ScriptSets, ScriptEnds, PerformSet, RefuseSet, CallDone, Call,
        TypeOK, vars
  <2> QED BY <2>2, SameMainKeepsPosition
<1>7. CASE ActorRuns
  <2>1. UNCHANGED <<main, rxOpen, conn, ctrlC, stop, call>>
    BY <1>7
    DEF ActorRuns, WindowManagerChanges, ActorStep, InitAdapter, Subscribe, NextEvent, StreamEnds,
        Forward, ForwardFails, RecvCommand, RecvNone, Execute, Reply, FinalShutdown,
        DropEventSender, DropCommandReceiver
  <2>2. CASE InitAdapter \/ Subscribe
    BY <2>1, <2>2 DEF InitAdapter, Subscribe, PositionInv
  <2>3. CASE ~InitAdapter /\ ~Subscribe
    <3>1. UNCHANGED handles
      BY <1>7, <2>3
      DEF ActorRuns, WindowManagerChanges, ActorStep, NextEvent, StreamEnds, Forward, ForwardFails,
          RecvCommand, RecvNone, Execute, Reply, FinalShutdown, DropEventSender,
          DropCommandReceiver
    <3>2. actor \in {"init", "subscribe", "failed"} <=> actor' \in {"init", "subscribe", "failed"}
      BY <1>7, <2>3
      DEF ActorRuns, WindowManagerChanges, ActorStep, NextEvent, StreamEnds, Forward, ForwardFails,
          RecvCommand, RecvNone, Execute, Reply, FinalShutdown, DropEventSender,
          DropCommandReceiver
    <3> QED BY <2>1, <3>1, <3>2, SameMainKeepsPosition
  <2> QED BY <2>2, <2>3
<1>8. ASSUME NEW c \in Clients, CallRuns(c) PROVE PositionInv'
  <2>1. /\ UNCHANGED <<main, handles, rxOpen, actor, conn, ctrlC, stop>>
        /\ call[Main] = "idle" => call'[Main] = "idle"
    BY <1>0, <1>8 DEF CallRuns, Send, SendFails, Return, TypeOK
  <2> QED BY <2>1, SameMainKeepsPosition
<1>9. CASE CtrlC
  BY <1>9 DEF CtrlC, PositionInv, vars
<1>10. CASE UNCHANGED allVars
  BY <1>10, SameMainKeepsPosition DEF allVars, vars
<1> QED BY <1>1, <1>2, <1>3, <1>4, <1>5, <1>6, <1>7, <1>8, <1>9, <1>10 DEF DaemonNext, MainStep

(* The receiver the actor waits for is the controller: in its loop it can   *)
(* receive, elsewhere it has another step to take, and only while it awaits *)
(* its own shutdown call has it none.                                       *)
LEMMA ReceiverIsTheController ==
  ASSUME Base, PositionInv, Alive, AwaitsReceiver
  PROVE  MainCanGoOn \/ Jammed
<1>1. /\ main \in {"starting", "loop", "shutdown", "awaiting", "returned"}
      /\ events # <<>>
      /\ Main \in Clients
  BY CapacityAssumption, RequestsOfWorkers
  DEF Base, DaemonTypes, Alive, AwaitsReceiver, IInv, TypeInv, TypeOK
<1> QED BY <1>1 DEF PositionInv, AwaitsReceiver, MainCanGoOn, Jammed

LEMMA OnlyJamsStop ==
  ASSUME Base, PositionInv, CallsWaitForReceiverOnly
  PROVE  OnlyAJamStops
<1> SUFFICES ASSUME Alive
             PROVE  /\ ctrlC \/ stop => MainCanGoOn \/ CallCanGoOn(Main) \/ ActorCanGoOn \/ Jammed
                    /\ \A p \in Peers :
                         conn[p] \notin {"none", "backlog", "answered", "cut"}
                           => \/ PeerCanGoOn(p) \/ CallCanGoOn(p)
                              \/ ActorCanGoOn \/ MainCanGoOn \/ Jammed
  BY DEF OnlyAJamStops
<1>0. DaemonTypes /\ TypeOK /\ Main \in Clients /\ Peers \subseteq Clients
  BY RequestsOfWorkers DEF Base, IInv, TypeInv
<1>1. \A c \in Clients :
        call[c] # "idle" => CallCanGoOn(c) \/ ActorCanGoOn \/ MainCanGoOn \/ Jammed
  BY ReceiverIsTheController DEF CallsWaitForReceiverOnly
<1>2. ASSUME ctrlC \/ stop PROVE MainCanGoOn \/ CallCanGoOn(Main) \/ ActorCanGoOn \/ Jammed
  <2>1. main \in {"loop", "shutdown", "awaiting", "returned"}
    BY <1>0, <1>2 DEF DaemonTypes, PositionInv, Alive
  <2> QED BY <1>0, <1>1, <1>2, <2>1 DEF PositionInv, MainCanGoOn
<1>3. ASSUME NEW p \in Peers, conn[p] \notin {"none", "backlog", "answered", "cut"}
      PROVE  \/ PeerCanGoOn(p) \/ CallCanGoOn(p) \/ ActorCanGoOn \/ MainCanGoOn \/ Jammed
  <2>1. p \in Clients /\ main # "starting"
    BY <1>0, <1>3 DEF PositionInv
  <2>2. handles = Clients
    BY <2>1 DEF PositionInv, Alive
  <2> QED BY <1>1, <2>1, <2>2 DEF PeerCanGoOn
<1> QED BY <1>2, <1>3

(* A daemon that has been told to stop, and a connection that has been      *)
(* accepted, always have somebody who can take the next step towards their  *)
(* end, with one exception: the actor holds an event for a full channel     *)
(* while the controller awaits its shutdown.                                *)
THEOREM OnlyAJamStopsTheDaemon == DaemonSpec => []OnlyAJamStops
<1>1. DaemonInit => PositionInv
  BY RequestsOfWorkers DEF DaemonInit, Init, PositionInv
<1>2. DaemonSpec => []CallsWaitForReceiverOnly
  BY DaemonKeepsActor, CallsAreNeverStuck, PTL DEF KeepsActor
<1> QED BY <1>1, <1>2, BaseInvariant, NextPosition, OnlyJamsStop, PTL DEF DaemonSpec

-----------------------------------------------------------------------------
(* What AdapterActor shows of the adapter and its events carries over.      *)

(* To the daemon's tasks the actor, its channels and its oneshots are one   *)
(* atomic adapter, also while the daemon stops.                             *)
THEOREM DaemonHasAtomicAdapter == DaemonSpec => ImplementsAtomicAdapter
BY DaemonKeepsActor, ActorImplementsAtomicAdapter, PTL DEF KeepsActor
=============================================================================
