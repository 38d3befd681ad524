----------------------------- MODULE DaemonLock -----------------------------
(***************************************************************************)
(* The lock file and the control socket of the daemon                      *)
(* (middlesox/src/control.rs, middlesox-cli/src/main.rs run_daemon).       *)
(*                                                                         *)
(* Several `msx run' processes may start, stop and die at any moment, and  *)
(* `msx status' tells whether a daemon runs by taking the same flock for   *)
(* an instant.  The kernel frees the flock of a process that dies; the     *)
(* lock file and the socket stay on disk.                                  *)
(***************************************************************************)
CONSTANTS
  Daemons,   \* `msx run' processes, each started once
  Probes,    \* processes that call is_daemon_running
  Nobody     \* no process

ASSUME ProcessesAssumption ==
  /\ Daemons \cap Probes = {}
  /\ Nobody \notin Daemons \cup Probes
  /\ {"absent", "empty"} \cap Daemons = {}

VARIABLES
  pc,        \* per process: how far it has come
  flock,     \* the process that holds the lock
  contents,  \* the lock file: absent, empty, or the process whose PID it holds
  socket,    \* the process that bound the socket file, if the file exists
  refusedBy, \* per daemon: who held the lock when it was refused
  answer     \* per probe: the latest result of is_daemon_running

vars == <<pc, flock, contents, socket, refusedBy, answer>>

Processes == Daemons \cup Probes

Locking == {"locked", "truncated", "named", "ready", "unbound", "serving", "stopped", "cleaned"}
Named   == {"named", "ready", "unbound", "serving", "stopped", "cleaned"}

TypeOK ==
  /\ pc \in [Processes -> {"idle", "opened", "refused", "ended", "testing"} \cup Locking]
  /\ flock \in Processes \cup {Nobody}
  /\ contents \in Daemons \cup {"absent", "empty"}
  /\ socket \in Daemons \cup {Nobody}
  /\ refusedBy \in [Daemons -> Processes \cup {Nobody}]
  /\ answer \in [Probes -> {"none", "running", "not running"}]

Init ==
  /\ pc = [p \in Processes |-> "idle"]
  /\ flock = Nobody
  /\ contents = "absent"
  /\ socket = Nobody
  /\ refusedBy = [d \in Daemons |-> Nobody]
  /\ answer = [q \in Probes |-> "none"]

Goes(p, from, to) == pc[p] = from /\ pc' = [pc EXCEPT ![p] = to]

-----------------------------------------------------------------------------
(* acquire_lock_in: open or create the file without truncating it, try the  *)
(* lock once, and only then replace the PID.                                *)

(* Mutant of OpenLockFile: truncate(true).                                  *)
OpenTruncating(d) ==
  /\ Goes(d, "idle", "opened")
  /\ contents' = "empty"
  /\ UNCHANGED <<flock, socket, refusedBy, answer>>

OpenLockFile(d) ==
  /\ Goes(d, "idle", "opened")
  /\ contents' = IF contents = "absent" THEN "empty" ELSE contents
  /\ UNCHANGED <<flock, socket, refusedBy, answer>>

Lock(d) ==
  /\ flock = Nobody
  /\ Goes(d, "opened", "locked")
  /\ flock' = d
  /\ UNCHANGED <<contents, socket, refusedBy, answer>>

Refuse(d) ==
  /\ flock # Nobody
  /\ Goes(d, "opened", "refused")
  /\ refusedBy' = [refusedBy EXCEPT ![d] = flock]
  /\ UNCHANGED <<flock, contents, socket, answer>>

Truncate(d) ==
  /\ Goes(d, "locked", "truncated")
  /\ contents' = "empty"
  /\ UNCHANGED <<flock, socket, refusedBy, answer>>

WritePid(d) ==
  /\ Goes(d, "truncated", "named")
  /\ contents' = d
  /\ UNCHANGED <<flock, socket, refusedBy, answer>>

-----------------------------------------------------------------------------
(* run_daemon: the adapter starts, then create_listener_at removes what is  *)
(* at the socket's path and binds.                                          *)
StartAdapter(d) ==
  /\ Goes(d, "named", "ready")
  /\ UNCHANGED <<flock, contents, socket, refusedBy, answer>>

(* Mutant of RemoveSocket: an old socket is left in place.                  *)
KeepSocket(d) ==
  /\ Goes(d, "ready", "unbound")
  /\ UNCHANGED <<flock, contents, socket, refusedBy, answer>>

RemoveSocket(d) ==
  /\ Goes(d, "ready", "unbound")
  /\ socket' = Nobody
  /\ UNCHANGED <<flock, contents, refusedBy, answer>>

Bind(d) ==
  /\ socket = Nobody
  /\ Goes(d, "unbound", "serving")
  /\ socket' = d
  /\ UNCHANGED <<flock, contents, refusedBy, answer>>

(* Mutant of StopServing: the lock goes before the socket is cleaned up.    *)
StopUnlocked(d) ==
  /\ Goes(d, "serving", "stopped")
  /\ flock' = Nobody
  /\ UNCHANGED <<contents, socket, refusedBy, answer>>

(* controller.run returns and its listener is closed; the file stays until  *)
(* cleanup_socket, and _lock until run_daemon returns.                      *)
StopServing(d) ==
  /\ Goes(d, "serving", "stopped")
  /\ UNCHANGED <<flock, contents, socket, refusedBy, answer>>

CleanupSocket(d) ==
  /\ Goes(d, "stopped", "cleaned")
  /\ socket' = Nobody
  /\ UNCHANGED <<flock, contents, refusedBy, answer>>

Unlock(d) ==
  /\ Goes(d, "cleaned", "ended")
  /\ flock' = Nobody
  /\ UNCHANGED <<contents, socket, refusedBy, answer>>

(* A crash, or a step of run_daemon that returns an error: the process ends *)
(* without cleaning up.                                                     *)
Die(d) ==
  /\ pc[d] \in Locking \cup {"opened"}
  /\ pc' = [pc EXCEPT ![d] = "ended"]
  /\ flock' = IF flock = d THEN Nobody ELSE flock
  /\ UNCHANGED <<contents, socket, refusedBy, answer>>

-----------------------------------------------------------------------------
(* is_daemon_running. *)
FindNoLockFile(q) ==
  /\ pc[q] = "idle"
  /\ contents = "absent"
  /\ answer' = [answer EXCEPT ![q] = "not running"]
  /\ UNCHANGED <<pc, flock, contents, socket, refusedBy>>

OpenToProbe(q) ==
  /\ contents # "absent"
  /\ Goes(q, "idle", "opened")
  /\ UNCHANGED <<flock, contents, socket, refusedBy, answer>>

ProbeLocks(q) ==
  /\ flock = Nobody
  /\ Goes(q, "opened", "testing")
  /\ flock' = q
  /\ UNCHANGED <<contents, socket, refusedBy, answer>>

ProbeUnlocks(q) ==
  /\ Goes(q, "testing", "idle")
  /\ flock' = Nobody
  /\ answer' = [answer EXCEPT ![q] = "not running"]
  /\ UNCHANGED <<contents, socket, refusedBy>>

ProbeFindsLock(q) ==
  /\ flock # Nobody
  /\ Goes(q, "opened", "idle")
  /\ answer' = [answer EXCEPT ![q] = "running"]
  /\ UNCHANGED <<flock, contents, socket, refusedBy>>

-----------------------------------------------------------------------------
DaemonStep(d) ==
  \/ OpenLockFile(d) \/ Lock(d) \/ Refuse(d) \/ Truncate(d) \/ WritePid(d)
  \/ StartAdapter(d) \/ RemoveSocket(d) \/ Bind(d)
  \/ StopServing(d) \/ CleanupSocket(d) \/ Unlock(d) \/ Die(d)

ProbeStep(q) ==
  \/ FindNoLockFile(q) \/ OpenToProbe(q) \/ ProbeLocks(q) \/ ProbeUnlocks(q) \/ ProbeFindsLock(q)

Next ==
  \/ \E d \in Daemons : DaemonStep(d)
  \/ \E q \in Probes : ProbeStep(q)

Spec == Init /\ [][Next]_vars

-----------------------------------------------------------------------------
(* control.rs:92: the PID in the lock file is the running daemon's, from    *)
(* the moment it wrote it; whoever tries to start meanwhile, is refused or  *)
(* dies, leaves it alone.                                                   *)
LockFileNamesDaemon == \A d \in Daemons : pc[d] \in Named => contents = d

(* The socket file of a serving daemon is its own: neither a starting nor a *)
(* stopping daemon removes it or takes its place.                           *)
SocketIsTheServers == \A d \in Daemons : pc[d] = "serving" => socket = d

(* However the previous daemons ended, bind finds no file in its way.       *)
BindFindsNoSocket == \A d \in Daemons : pc[d] = "unbound" => socket = Nobody

(* control.rs:105, "Another instance is already running": a daemon that is  *)
(* refused met another daemon.                                              *)
RefusedByDaemon == \A d \in Daemons : pc[d] = "refused" => refusedBy[d] \in Daemons
=============================================================================
