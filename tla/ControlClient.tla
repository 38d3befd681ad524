----------------------------- MODULE ControlClient -----------------------------
(***************************************************************************)
(* The `msx' commands that talk to a daemon (middlesox/src/control.rs      *)
(* connect_to and send_request_to, middlesox-cli/src/main.rs), among       *)
(* daemons that start, stop and crash as in DaemonLock.                    *)
(*                                                                         *)
(* A command is one process and one request; a user who tries again starts *)
(* another.  `msx status' asks is_daemon_running first.  The connection    *)
(* waits in the listener's backlog until the daemon accepts it, and what   *)
(* was accepted is served until the daemon's process ends, whether or not  *)
(* the command still waits.                                                *)
(***************************************************************************)
EXTENDS DaemonLock

ASSUME AnswersAssumption ==
  {"nothing", "not running", "not running (no socket)", "refused", "timeout", "lost"} \cap Daemons = {}

VARIABLES
  command,  \* per client, its command: "status", or "request" for get, set, exec, caps, commands, stop
  stage,    \* per client: "new", "probing", "looking", "connecting", "waiting" or "over"
  told,     \* per client, what it has printed: "nothing", an error, or who answered
  server,   \* per client: the daemon it is connected to, or Nobody
  conn,     \* per client: "none", "queued", "accepted", "done", "answered" or "closed"
  done,     \* per client: the daemons that have carried its request out
  seen,     \* per client: the daemons, or Nobody, that have held the lock since it began
  quiet     \* per client: at some moment since it began, no daemon was serving

clientVars == <<command, stage, told>>
connVars   == <<server, conn, done>>
watchVars  == <<seen, quiet>>
allVars    == <<vars, clientVars, connVars, watchVars>>

Clients  == Probes

ClientInit ==
  /\ Init
  /\ command \in [Clients -> {"status", "request"}]
  /\ stage = [q \in Clients |-> "new"]
  /\ told = [q \in Clients |-> "nothing"]
  /\ server = [q \in Clients |-> Nobody]
  /\ conn = [q \in Clients |-> "none"]
  /\ done = [q \in Clients |-> {}]
  /\ seen = [q \in Clients |-> {}]
  /\ quiet = [q \in Clients |-> FALSE]

-----------------------------------------------------------------------------
Moves(q, from, to) == stage[q] = from /\ stage' = [stage EXCEPT ![q] = to]

Tells(q, what) ==
  /\ stage' = [stage EXCEPT ![q] = "over"]
  /\ told' = [told EXCEPT ![q] = what]

Begin(q) ==
  /\ Moves(q, "new", IF command[q] = "status" THEN "probing" ELSE "looking")
  /\ UNCHANGED <<vars, command, told, connVars>>

(* is_daemon_running, and what `msx status' makes of its answer. *)
Probe(q) ==
  /\ stage[q] = "probing"
  /\ \/ /\ FindNoLockFile(q) \/ ProbeUnlocks(q)
        /\ Tells(q, "not running")
     \/ /\ ProbeFindsLock(q)
        /\ Moves(q, "probing", "looking")
        /\ UNCHANGED told
     \/ /\ OpenToProbe(q) \/ ProbeLocks(q)
        /\ UNCHANGED <<stage, told>>
  /\ UNCHANGED <<command, connVars>>

(* A mutant of LookForSocket: `msx status' takes the PID from the lock file. *)
LookIntoLockFile(q) ==
  /\ stage[q] = "looking"
  /\ IF command[q] = "status" /\ contents \in Daemons
     THEN Tells(q, contents)
     ELSE IF socket = Nobody THEN Tells(q, "not running (no socket)")
     ELSE Moves(q, "looking", "connecting") /\ UNCHANGED told
  /\ UNCHANGED <<vars, command, connVars>>

(* path.exists.  The error reads "Daemon is not running (socket not found:   *)
(* ...)"; a daemon may all the same have the lock and not be bound yet.      *)
LookForSocket(q) ==
  /\ stage[q] = "looking"
  /\ IF socket = Nobody
     THEN Tells(q, "not running (no socket)")
     ELSE Moves(q, "looking", "connecting") /\ UNCHANGED told
  /\ UNCHANGED <<vars, command, connVars>>

Listening(d) == d # Nobody /\ pc[d] = "serving"

(* The socket may be another daemon's by now, or nobody's.  The request is   *)
(* written as soon as the connection is there.                               *)
Connect(q) ==
  /\ stage[q] = "connecting"
  /\ IF Listening(socket)
     THEN /\ Moves(q, "connecting", "waiting")
          /\ server' = [server EXCEPT ![q] = socket]
          /\ conn' = [conn EXCEPT ![q] = "queued"]
          /\ UNCHANGED told
     ELSE /\ Tells(q, "refused")
          /\ UNCHANGED <<server, conn>>
  /\ UNCHANGED <<vars, command, done>>

(* A response, or the end of the connection, which is not one. *)
Receive(q) ==
  /\ stage[q] = "waiting"
  /\ \/ conn[q] = "answered" /\ Tells(q, server[q])
     \/ conn[q] = "closed" /\ Tells(q, "lost")
  /\ UNCHANGED <<vars, command, connVars>>

(* IPC_TIMEOUT, which covers the connection as well. *)
GiveUp(q) ==
  /\ stage[q] \in {"connecting", "waiting"}
  /\ Tells(q, "timeout")
  /\ UNCHANGED <<vars, command, connVars>>

-----------------------------------------------------------------------------
(* The daemon's side of a connection: Controller::run accepts, and a task of *)
(* its own handles the request and responds.                                 *)
Accept(q) ==
  /\ conn[q] = "queued"
  /\ conn' = [conn EXCEPT ![q] = "accepted"]
  /\ UNCHANGED <<vars, clientVars, server, done>>

CarryOut(q) ==
  /\ conn[q] = "accepted"
  /\ conn' = [conn EXCEPT ![q] = "done"]
  /\ done' = [done EXCEPT ![q] = @ \cup {server[q]}]
  /\ UNCHANGED <<vars, clientVars, server>>

Respond(q) ==
  /\ conn[q] = "done"
  /\ conn' = [conn EXCEPT ![q] = "answered"]
  /\ UNCHANGED <<vars, clientVars, server, done>>

(* The connections to d that are in one of these states are closed. *)
Close(d, states) ==
  conn' = [q \in Clients |-> IF server[q] = d /\ conn[q] \in states THEN "closed" ELSE conn[q]]

(* The listener goes, with the connections nobody has accepted. *)
ListenerCloses(d) == StopServing(d) /\ Close(d, {"queued"})

ProcessEnds(d) == (Unlock(d) \/ Die(d)) /\ Close(d, {"queued", "accepted", "done"})

DaemonStepsOn(d) ==
  /\ \/ OpenLockFile(d) \/ Lock(d) \/ Refuse(d) \/ Truncate(d) \/ WritePid(d)
     \/ StartAdapter(d) \/ RemoveSocket(d) \/ Bind(d) \/ CleanupSocket(d)
  /\ UNCHANGED conn

-----------------------------------------------------------------------------
ClientStep(q) ==
  Begin(q) \/ Probe(q) \/ LookForSocket(q) \/ Connect(q) \/ Receive(q) \/ GiveUp(q)

ServerStep(q) == Accept(q) \/ CarryOut(q) \/ Respond(q)

(* The daemon that holds the lock, or nobody if no daemon does. *)
Holder == IF flock \in Daemons THEN flock ELSE Nobody

NobodyServes == \A d \in Daemons : pc[d] # "serving"

Watching(q) == stage[q] \notin {"new", "over"}

Watch ==
  /\ seen' = [q \in Clients |->
       IF Watching(q) THEN seen[q] \cup {Holder, Holder'} ELSE seen[q]]
  /\ quiet' = [q \in Clients |->
       quiet[q] \/ (Watching(q) /\ (NobodyServes \/ NobodyServes'))]

ClientNext ==
  /\ \/ \E q \in Clients : ClientStep(q) \/ ServerStep(q)
     \/ /\ \E d \in Daemons : DaemonStepsOn(d) \/ ListenerCloses(d) \/ ProcessEnds(d)
        /\ UNCHANGED <<clientVars, server, done>>
  /\ Watch

ClientSpec == ClientInit /\ [][ClientNext]_allVars

-----------------------------------------------------------------------------
(* What can be relied on in what `msx' tells.  `msx status' names a daemon   *)
(* that has held the lock while it ran, although the answer of               *)
(* is_daemon_running may be owed to another `msx status'; the "not running"  *)
(* it prints by itself means that the lock was free of daemons at some       *)
(* moment.  Without a socket every command says "Daemon is not running", and *)
(* that, like a refused connection, means less: at some moment no daemon was *)
(* serving, while one may have been starting, or stopping, all along.  A     *)
(* response means that the request was carried out, once; the errors other   *)
(* than a lost connection and the timeout mean that it was not and will not  *)
(* be, so that it can be repeated (send_request_to, connect_to and Status).  *)
MsxTellsTheTruth ==
  \A q \in Clients :
    /\ told[q] \in Daemons => done[q] = {told[q]} /\ told[q] \in seen[q]
    /\ told[q] = "not running" => Nobody \in seen[q]
    /\ told[q] \in {"not running", "not running (no socket)", "refused"} => done[q] = {} /\ quiet[q]
=============================================================================
