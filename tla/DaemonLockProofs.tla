-------------------------- MODULE DaemonLockProofs --------------------------
(***************************************************************************)
(* Theorems about DaemonLock, and about ControlClient on top of it, for    *)
(* any number of daemons, probes and clients.                              *)
(*                                                                         *)
(* The invariant ties the lock to the processes' positions: whoever is     *)
(* between flock and the end of run_daemon holds it, so at most one        *)
(* process touches the lock file's contents and the socket.  What a client *)
(* is told follows from who holds the lock when it connects.               *)
(***************************************************************************)
EXTENDS ControlClient, TLAPS

HolderInv ==
  /\ \A d \in Daemons : pc[d] \in Locking => flock = d
  /\ \A q \in Probes : pc[q] = "testing" => flock = q

PositionInv ==
  /\ \A d \in Daemons : pc[d] # "testing"
  /\ \A q \in Probes : pc[q] \in {"idle", "opened", "testing"}

IInv == TypeOK /\ HolderInv /\ PositionInv
          /\ LockFileNamesDaemon /\ SocketIsTheServers /\ BindFindsNoSocket

LEMMA Initially == Init => IInv
BY ProcessesAssumption
DEF Init, IInv, TypeOK, Processes, Locking, Named, HolderInv, PositionInv,
    LockFileNamesDaemon, SocketIsTheServers, BindFindsNoSocket

(* A process's own step moves nobody else. *)
LEMMA OthersStay ==
  ASSUME TypeOK, NEW p \in Processes, NEW from, NEW to, Goes(p, from, to)
  PROVE  /\ pc[p] = from /\ pc'[p] = to
         /\ \A r \in Processes \ {p} : pc'[r] = pc[r]
BY DEF TypeOK, Goes

(* Two processes are never both inside the lock, so the one that is changes *)
(* the lock file and the socket alone.                                      *)
LEMMA DaemonStepKeeps ==
  ASSUME IInv, NEW d \in Daemons, DaemonStep(d)
  PROVE  IInv'
<1> USE DEF IInv
<1>0. d \in Processes /\ d \notin Probes /\ Daemons \subseteq Processes /\ Probes \subseteq Processes
  BY ProcessesAssumption DEF Processes
<1>1. CASE OpenLockFile(d)
  <2>1. /\ pc[d] = "idle" /\ pc'[d] = "opened"
        /\ \A r \in Processes \ {d} : pc'[r] = pc[r]
    BY <1>0, <1>1, OthersStay DEF OpenLockFile
  <2>3. TypeOK'
    BY <1>0, <1>1 DEF OpenLockFile, Goes, TypeOK, Locking
  <2>4. HolderInv' /\ PositionInv'
    BY <1>0, <1>1, <2>1 DEF OpenLockFile, HolderInv, PositionInv, Locking
  <2>5. LockFileNamesDaemon'
    BY <1>0, <1>1, <2>1, ProcessesAssumption DEF OpenLockFile, LockFileNamesDaemon, Named, Locking
  <2>6. SocketIsTheServers' /\ BindFindsNoSocket'
    BY <1>0, <1>1, <2>1 DEF OpenLockFile, SocketIsTheServers, BindFindsNoSocket, Locking
  <2> QED BY <2>3, <2>4, <2>5, <2>6
<1>2. CASE Lock(d)
  <2>1. /\ pc[d] = "opened" /\ pc'[d] = "locked"
        /\ \A r \in Processes \ {d} : pc'[r] = pc[r]
    BY <1>0, <1>2, OthersStay DEF Lock
  <2>2. /\ \A e \in Daemons : pc[e] \notin Locking
        /\ \A q \in Probes : pc[q] # "testing"
    BY <1>2, ProcessesAssumption DEF Lock, HolderInv
  <2>3. TypeOK'
    BY <1>0, <1>2 DEF Lock, Goes, TypeOK, Locking
  <2>4. HolderInv' /\ PositionInv'
    BY <1>0, <1>2, <2>1, <2>2 DEF Lock, HolderInv, PositionInv, Locking
  <2>5. LockFileNamesDaemon'
    BY <1>0, <1>2, <2>1, <2>2, ProcessesAssumption DEF Lock, LockFileNamesDaemon, Named, Locking
  <2>6. SocketIsTheServers' /\ BindFindsNoSocket'
    BY <1>0, <1>2, <2>1, <2>2 DEF Lock, SocketIsTheServers, BindFindsNoSocket, Locking
  <2> QED BY <2>3, <2>4, <2>5, <2>6
<1>3. CASE Refuse(d)
  <2>1. /\ pc[d] = "opened" /\ pc'[d] = "refused"
        /\ \A r \in Processes \ {d} : pc'[r] = pc[r]
    BY <1>0, <1>3, OthersStay DEF Refuse
  <2>3. TypeOK'
    BY <1>0, <1>3 DEF Refuse, Goes, TypeOK, Locking
  <2>4. HolderInv' /\ PositionInv'
    BY <1>0, <1>3, <2>1 DEF Refuse, HolderInv, PositionInv, Locking
  <2>5. LockFileNamesDaemon'
    BY <1>0, <1>3, <2>1, ProcessesAssumption DEF Refuse, LockFileNamesDaemon, Named, Locking
  <2>6. SocketIsTheServers' /\ BindFindsNoSocket'
    BY <1>0, <1>3, <2>1 DEF Refuse, SocketIsTheServers, BindFindsNoSocket, Locking
  <2> QED BY <2>3, <2>4, <2>5, <2>6
<1>4. CASE Truncate(d)
  <2>1. /\ pc[d] = "locked" /\ pc'[d] = "truncated"
        /\ \A r \in Processes \ {d} : pc'[r] = pc[r]
    BY <1>0, <1>4, OthersStay DEF Truncate
  <2>2. /\ flock = d
        /\ \A e \in Daemons \ {d} : pc[e] \notin Locking
        /\ \A q \in Probes : pc[q] # "testing"
    BY <1>0, <2>1 DEF HolderInv, Locking
  <2>3. TypeOK'
    BY <1>0, <1>4 DEF Truncate, Goes, TypeOK, Locking
  <2>4. HolderInv' /\ PositionInv'
    BY <1>0, <1>4, <2>1, <2>2 DEF Truncate, HolderInv, PositionInv, Locking
  <2>5. LockFileNamesDaemon'
    BY <1>0, <1>4, <2>1, <2>2, ProcessesAssumption DEF Truncate, LockFileNamesDaemon, Named, Locking
  <2>6. SocketIsTheServers' /\ BindFindsNoSocket'
    BY <1>0, <1>4, <2>1, <2>2 DEF Truncate, SocketIsTheServers, BindFindsNoSocket, Locking
  <2> QED BY <2>3, <2>4, <2>5, <2>6
<1>5. CASE WritePid(d)
  <2>1. /\ pc[d] = "truncated" /\ pc'[d] = "named"
        /\ \A r \in Processes \ {d} : pc'[r] = pc[r]
    BY <1>0, <1>5, OthersStay DEF WritePid
  <2>2. /\ flock = d
        /\ \A e \in Daemons \ {d} : pc[e] \notin Locking
        /\ \A q \in Probes : pc[q] # "testing"
    BY <1>0, <2>1 DEF HolderInv, Locking
  <2>3. TypeOK'
    BY <1>0, <1>5 DEF WritePid, Goes, TypeOK, Locking
  <2>4. HolderInv' /\ PositionInv'
    BY <1>0, <1>5, <2>1, <2>2 DEF WritePid, HolderInv, PositionInv, Locking
  <2>5. LockFileNamesDaemon'
    BY <1>0, <1>5, <2>1, <2>2, ProcessesAssumption DEF WritePid, LockFileNamesDaemon, Named, Locking
  <2>6. SocketIsTheServers' /\ BindFindsNoSocket'
    BY <1>0, <1>5, <2>1, <2>2 DEF WritePid, SocketIsTheServers, BindFindsNoSocket, Locking
  <2> QED BY <2>3, <2>4, <2>5, <2>6
<1>6. CASE StartAdapter(d)
  <2>1. /\ pc[d] = "named" /\ pc'[d] = "ready"
        /\ \A r \in Processes \ {d} : pc'[r] = pc[r]
    BY <1>0, <1>6, OthersStay DEF StartAdapter
  <2>2. /\ flock = d
        /\ \A e \in Daemons \ {d} : pc[e] \notin Locking
        /\ \A q \in Probes : pc[q] # "testing"
    BY <1>0, <2>1 DEF HolderInv, Locking
  <2>3. TypeOK'
    BY <1>0, <1>6 DEF StartAdapter, Goes, TypeOK, Locking
  <2>4. HolderInv' /\ PositionInv'
    BY <1>0, <1>6, <2>1, <2>2 DEF StartAdapter, HolderInv, PositionInv, Locking
  <2>5. LockFileNamesDaemon'
    BY <1>0, <1>6, <2>1, <2>2, ProcessesAssumption DEF StartAdapter, LockFileNamesDaemon, Named, Locking
  <2>6. SocketIsTheServers' /\ BindFindsNoSocket'
    BY <1>0, <1>6, <2>1, <2>2 DEF StartAdapter, SocketIsTheServers, BindFindsNoSocket, Locking
  <2> QED BY <2>3, <2>4, <2>5, <2>6
<1>7. CASE RemoveSocket(d)
  <2>1. /\ pc[d] = "ready" /\ pc'[d] = "unbound"
        /\ \A r \in Processes \ {d} : pc'[r] = pc[r]
    BY <1>0, <1>7, OthersStay DEF RemoveSocket
  <2>2. /\ flock = d
        /\ \A e \in Daemons \ {d} : pc[e] \notin Locking
        /\ \A q \in Probes : pc[q] # "testing"
    BY <1>0, <2>1 DEF HolderInv, Locking
  <2>3. TypeOK'
    BY <1>0, <1>7 DEF RemoveSocket, Goes, TypeOK, Locking
  <2>4. HolderInv' /\ PositionInv'
    BY <1>0, <1>7, <2>1, <2>2 DEF RemoveSocket, HolderInv, PositionInv, Locking
  <2>5. LockFileNamesDaemon'
    BY <1>0, <1>7, <2>1, <2>2, ProcessesAssumption DEF RemoveSocket, LockFileNamesDaemon, Named, Locking
  <2>6. SocketIsTheServers' /\ BindFindsNoSocket'
    BY <1>0, <1>7, <2>1, <2>2 DEF RemoveSocket, SocketIsTheServers, BindFindsNoSocket, Locking
  <2> QED BY <2>3, <2>4, <2>5, <2>6
<1>8. CASE Bind(d)
  <2>1. /\ pc[d] = "unbound" /\ pc'[d] = "serving"
        /\ \A r \in Processes \ {d} : pc'[r] = pc[r]
    BY <1>0, <1>8, OthersStay DEF Bind
  <2>2. /\ flock = d
        /\ \A e \in Daemons \ {d} : pc[e] \notin Locking
        /\ \A q \in Probes : pc[q] # "testing"
    BY <1>0, <2>1 DEF HolderInv, Locking
  <2>3. TypeOK'
    BY <1>0, <1>8 DEF Bind, Goes, TypeOK, Locking
  <2>4. HolderInv' /\ PositionInv'
    BY <1>0, <1>8, <2>1, <2>2 DEF Bind, HolderInv, PositionInv, Locking
  <2>5. LockFileNamesDaemon'
    BY <1>0, <1>8, <2>1, <2>2, ProcessesAssumption DEF Bind, LockFileNamesDaemon, Named, Locking
  <2>6. SocketIsTheServers' /\ BindFindsNoSocket'
    BY <1>0, <1>8, <2>1, <2>2 DEF Bind, SocketIsTheServers, BindFindsNoSocket, Locking
  <2> QED BY <2>3, <2>4, <2>5, <2>6
<1>9. CASE StopServing(d)
  <2>1. /\ pc[d] = "serving" /\ pc'[d] = "stopped"
        /\ \A r \in Processes \ {d} : pc'[r] = pc[r]
    BY <1>0, <1>9, OthersStay DEF StopServing
  <2>2. /\ flock = d
        /\ \A e \in Daemons \ {d} : pc[e] \notin Locking
        /\ \A q \in Probes : pc[q] # "testing"
    BY <1>0, <2>1 DEF HolderInv, Locking
  <2>3. TypeOK'
    BY <1>0, <1>9 DEF StopServing, Goes, TypeOK, Locking
  <2>4. HolderInv' /\ PositionInv'
    BY <1>0, <1>9, <2>1, <2>2 DEF StopServing, HolderInv, PositionInv, Locking
  <2>5. LockFileNamesDaemon'
    BY <1>0, <1>9, <2>1, <2>2, ProcessesAssumption DEF StopServing, LockFileNamesDaemon, Named, Locking
  <2>6. SocketIsTheServers' /\ BindFindsNoSocket'
    BY <1>0, <1>9, <2>1, <2>2 DEF StopServing, SocketIsTheServers, BindFindsNoSocket, Locking
  <2> QED BY <2>3, <2>4, <2>5, <2>6
<1>10. CASE CleanupSocket(d)
  <2>1. /\ pc[d] = "stopped" /\ pc'[d] = "cleaned"
        /\ \A r \in Processes \ {d} : pc'[r] = pc[r]
    BY <1>0, <1>10, OthersStay DEF CleanupSocket
  <2>2. /\ flock = d
        /\ \A e \in Daemons \ {d} : pc[e] \notin Locking
        /\ \A q \in Probes : pc[q] # "testing"
    BY <1>0, <2>1 DEF HolderInv, Locking
  <2>3. TypeOK'
    BY <1>0, <1>10 DEF CleanupSocket, Goes, TypeOK, Locking
  <2>4. HolderInv' /\ PositionInv'
    BY <1>0, <1>10, <2>1, <2>2 DEF CleanupSocket, HolderInv, PositionInv, Locking
  <2>5. LockFileNamesDaemon'
    BY <1>0, <1>10, <2>1, <2>2, ProcessesAssumption DEF CleanupSocket, LockFileNamesDaemon, Named, Locking
  <2>6. SocketIsTheServers' /\ BindFindsNoSocket'
    BY <1>0, <1>10, <2>1, <2>2 DEF CleanupSocket, SocketIsTheServers, BindFindsNoSocket, Locking
  <2> QED BY <2>3, <2>4, <2>5, <2>6
<1>11. CASE Unlock(d)
  <2>1. /\ pc[d] = "cleaned" /\ pc'[d] = "ended"
        /\ \A r \in Processes \ {d} : pc'[r] = pc[r]
    BY <1>0, <1>11, OthersStay DEF Unlock
  <2>2. /\ flock = d
        /\ \A e \in Daemons \ {d} : pc[e] \notin Locking
        /\ \A q \in Probes : pc[q] # "testing"
    BY <1>0, <2>1 DEF HolderInv, Locking
  <2>3. TypeOK'
    BY <1>0, <1>11 DEF Unlock, Goes, TypeOK, Locking
  <2>4. HolderInv' /\ PositionInv'
    BY <1>0, <1>11, <2>1, <2>2 DEF Unlock, HolderInv, PositionInv, Locking
  <2>5. LockFileNamesDaemon'
    BY <1>0, <1>11, <2>1, <2>2, ProcessesAssumption DEF Unlock, LockFileNamesDaemon, Named, Locking
  <2>6. SocketIsTheServers' /\ BindFindsNoSocket'
    BY <1>0, <1>11, <2>1, <2>2 DEF Unlock, SocketIsTheServers, BindFindsNoSocket, Locking
  <2> QED BY <2>3, <2>4, <2>5, <2>6
<1>12. CASE Die(d)
  <2>1. /\ pc'[d] = "ended" /\ pc[d] # "testing"
        /\ \A r \in Processes \ {d} : pc'[r] = pc[r]
    BY <1>0, <1>12 DEF Die, TypeOK, PositionInv
  <2>2. \A p \in Processes \ {d} : flock = p => flock' = p
    BY <1>12 DEF Die
  <2>3. TypeOK'
    BY <1>0, <1>12 DEF Die, TypeOK
  <2>4. HolderInv' /\ PositionInv'
    BY <1>0, <2>1, <2>2 DEF HolderInv, PositionInv, Locking
  <2>5. LockFileNamesDaemon' /\ SocketIsTheServers' /\ BindFindsNoSocket'
    BY <1>0, <1>12, <2>1 DEF Die, LockFileNamesDaemon, SocketIsTheServers, BindFindsNoSocket, Named
  <2> QED BY <2>3, <2>4, <2>5
<1> QED BY <1>1, <1>2, <1>3, <1>4, <1>5, <1>6, <1>7, <1>8, <1>9, <1>10, <1>11, <1>12 DEF DaemonStep

(* A probe moves the lock only when nobody, or the probe itself, holds it,  *)
(* and touches neither file.                                                *)
LEMMA ProbeStepKeeps ==
  ASSUME IInv, NEW q \in Probes, ProbeStep(q)
  PROVE  IInv'
<1> USE DEF IInv
<1>0. q \in Processes /\ q \notin Daemons /\ Daemons \subseteq Processes /\ Probes \subseteq Processes
  BY ProcessesAssumption DEF Processes
<1>1. /\ UNCHANGED <<contents, socket>>
      /\ \A r \in Processes \ {q} : pc'[r] = pc[r]
      /\ pc'[q] \in {"idle", "opened", "testing"}
  BY <1>0, OthersStay
  DEF ProbeStep, FindNoLockFile, OpenToProbe, ProbeLocks, ProbeUnlocks, ProbeFindsLock, PositionInv
<1>2. TypeOK'
  BY <1>0
  DEF ProbeStep, FindNoLockFile, OpenToProbe, ProbeLocks, ProbeUnlocks, ProbeFindsLock, Goes, TypeOK
<1>3. PositionInv'
  BY <1>0, <1>1 DEF PositionInv
<1>4. HolderInv'
  <2>1. CASE flock' = flock /\ pc'[q] # "testing"
    BY <1>0, <1>1, <2>1 DEF HolderInv
  <2>2. CASE ProbeLocks(q)
    <3>1. \A r \in Processes : r \in Daemons => pc[r] \notin Locking
      BY <2>2, ProcessesAssumption DEF ProbeLocks, HolderInv
    <3>2. \A r \in Probes : pc[r] # "testing"
      BY <2>2, ProcessesAssumption DEF ProbeLocks, HolderInv
    <3> QED BY <1>0, <1>1, <2>2, <3>1, <3>2 DEF ProbeLocks, HolderInv
  <2>3. CASE ProbeUnlocks(q)
    <3>1. pc[q] = "testing" /\ pc'[q] = "idle"
      BY <1>0, <2>3, OthersStay DEF ProbeUnlocks
    <3>2. flock = q
      BY <3>1 DEF HolderInv
    <3> QED BY <1>0, <1>1, <3>1, <3>2 DEF HolderInv
  <2>4. CASE FindNoLockFile(q)
    BY <1>0, <2>4 DEF FindNoLockFile, HolderInv
  <2>5. CASE OpenToProbe(q) \/ ProbeFindsLock(q)
    <3>1. flock' = flock /\ pc'[q] # "testing"
      BY <1>0, <2>5, OthersStay DEF OpenToProbe, ProbeFindsLock
    <3> QED BY <2>1, <3>1
  <2> QED BY <2>2, <2>3, <2>4, <2>5 DEF ProbeStep
<1>5. LockFileNamesDaemon' /\ SocketIsTheServers' /\ BindFindsNoSocket'
  BY <1>0, <1>1 DEF LockFileNamesDaemon, SocketIsTheServers, BindFindsNoSocket
<1> QED BY <1>2, <1>3, <1>4, <1>5

LEMMA Step == IInv /\ [Next]_vars => IInv'
<1> SUFFICES ASSUME IInv, [Next]_vars PROVE IInv'
  OBVIOUS
<1>1. CASE UNCHANGED vars
  BY <1>1
  DEF IInv, vars, TypeOK, HolderInv, PositionInv,
      LockFileNamesDaemon, SocketIsTheServers, BindFindsNoSocket
<1> QED BY <1>1, DaemonStepKeeps, ProbeStepKeeps DEF Next

LEMMA InductiveInvariant == Spec => []IInv
BY Initially, Step, PTL DEF Spec

-----------------------------------------------------------------------------
(* The state of the lock file, the socket and the processes keeps its type. *)
THEOREM LockTypeCorrect == Spec => []TypeOK
<1>1. IInv => TypeOK
  BY DEF IInv
<1> QED BY <1>1, InductiveInvariant, PTL

(* The PID in the lock file is the running daemon's, however many others    *)
(* try to start (acquire_lock_in truncates only after flock).               *)
THEOREM PidIsTheDaemons == Spec => []LockFileNamesDaemon
<1>1. IInv => LockFileNamesDaemon
  BY DEF IInv
<1> QED BY <1>1, InductiveInvariant, PTL

(* No other daemon removes or replaces a serving daemon's socket            *)
(* (cleanup_socket runs before _lock is dropped).                           *)
THEOREM SocketIsSafe == Spec => []SocketIsTheServers
<1>1. IInv => SocketIsTheServers
  BY DEF IInv
<1> QED BY <1>1, InductiveInvariant, PTL

(* A daemon always finds the socket's path free when it binds, also after a *)
(* crash (create_listener_at removes what the last daemon left).            *)
THEOREM BindFindsPathFree == Spec => []BindFindsNoSocket
<1>1. IInv => BindFindsNoSocket
  BY DEF IInv
<1> QED BY <1>1, InductiveInvariant, PTL

-----------------------------------------------------------------------------
(* The clients of the daemons. *)

(* A daemon that holds the lock is inside run_daemon, and the lock file      *)
(* exists from the moment that a daemon has opened it.                       *)
InsideInv ==
  /\ flock \in Daemons => pc[flock] \in Locking
  /\ contents = "absent" => \A d \in Daemons : pc[d] = "idle"

LEMMA InsideStep ==
  ASSUME IInv, InsideInv, [Next]_vars
  PROVE  InsideInv'
<1> USE DEF IInv
<1>0. Daemons \subseteq Processes /\ Probes \subseteq Processes
  BY DEF Processes
<1>1. ASSUME NEW q \in Probes, ProbeStep(q) PROVE InsideInv'
  <2>1. /\ q \in Processes /\ q \notin Daemons
        /\ contents' = contents
        /\ \A r \in Processes \ {q} : pc'[r] = pc[r]
        /\ flock' \in {flock, q, Nobody}
    BY <1>0, <1>1, ProcessesAssumption, OthersStay
    DEF ProbeStep, FindNoLockFile, OpenToProbe, ProbeLocks, ProbeUnlocks, ProbeFindsLock
  <2> QED BY <1>0, <2>1, ProcessesAssumption DEF InsideInv
<1>2. ASSUME NEW d \in Daemons, DaemonStep(d) PROVE InsideInv'
  <2>1. d \in Processes /\ Nobody \notin Daemons
    BY <1>0, ProcessesAssumption
  <2>2. CASE Die(d)
    <3>1. /\ pc'[d] = "ended" /\ pc[d] # "idle" /\ contents' = contents
          /\ \A r \in Processes \ {d} : pc'[r] = pc[r]
      BY <2>1, <2>2 DEF Die, TypeOK, Locking
    <3>2. flock' # d /\ flock' \in {flock, Nobody}
      BY <2>1, <2>2 DEF Die
    <3> QED BY <1>0, <2>1, <3>1, <3>2 DEF InsideInv
  <2>3. CASE ~Die(d)
    <3>1. \A r \in Processes \ {d} : pc'[r] = pc[r]
      BY <1>2, <2>1, <2>3, OthersStay
      DEF DaemonStep, OpenLockFile, Lock, Refuse, Truncate, WritePid, StartAdapter, RemoveSocket,
          Bind, StopServing, CleanupSocket, Unlock
    <3>2. \/ flock' = flock /\ (pc'[d] \in Locking \/ pc[d] \notin Locking)
          \/ flock' = d /\ pc'[d] \in Locking
          \/ flock' = Nobody
      BY <1>2, <2>1, <2>3, OthersStay
      DEF DaemonStep, OpenLockFile, Lock, Refuse, Truncate, WritePid, StartAdapter, RemoveSocket,
          Bind, StopServing, CleanupSocket, Unlock, Locking
    <3>3. /\ contents' # "absent"
          /\ contents' = contents \/ contents' \in Daemons \cup {"empty"}
      BY <1>2, <2>1, <2>3, ProcessesAssumption
      DEF DaemonStep, OpenLockFile, Lock, Refuse, Truncate, WritePid, StartAdapter, RemoveSocket,
          Bind, StopServing, CleanupSocket, Unlock, InsideInv, Goes
    <3> QED BY <1>0, <2>1, <3>1, <3>2, <3>3 DEF InsideInv
  <2> QED BY <2>2, <2>3
<1>3. CASE UNCHANGED vars
  BY <1>3 DEF vars, InsideInv
<1> QED BY <1>1, <1>2, <1>3 DEF Next

(* The daemons and the probes do what they do in DaemonLock.                 *)
LEMMA ClientStepIsLockStep == [ClientNext]_allVars => [Next]_vars
<1> SUFFICES ASSUME [ClientNext]_allVars PROVE [Next]_vars
  OBVIOUS
<1>1. ASSUME NEW q \in Clients, ClientStep(q) PROVE [Next]_vars
  <2>1. CASE Probe(q)
    BY <2>1 DEF Probe, Clients, Next, ProbeStep
  <2>2. CASE Begin(q) \/ LookForSocket(q) \/ Connect(q) \/ Receive(q) \/ GiveUp(q)
    BY <2>2 DEF Begin, LookForSocket, Connect, Receive, GiveUp
  <2> QED BY <1>1, <2>1, <2>2 DEF ClientStep
<1>2. ASSUME NEW q \in Clients, ServerStep(q) PROVE [Next]_vars
  BY <1>2 DEF ServerStep, Accept, CarryOut, Respond
<1>3. ASSUME NEW d \in Daemons, DaemonStepsOn(d) \/ ListenerCloses(d) \/ ProcessEnds(d)
      PROVE  [Next]_vars
  BY <1>3 DEF DaemonStepsOn, ListenerCloses, ProcessEnds, Next, DaemonStep
<1>4. CASE UNCHANGED allVars
  BY <1>4 DEF allVars
<1> QED BY <1>1, <1>2, <1>3, <1>4 DEF ClientNext

(* Among its clients the daemons behave as DaemonLock describes, so that all *)
(* that is proved of it holds of ControlClient (control.rs: a connection     *)
(* touches neither the lock file nor the socket's file).                     *)
THEOREM ClientsLeaveTheLock == ClientSpec => Spec
<1>1. ClientInit => Init
  BY DEF ClientInit
<1> QED BY <1>1, ClientStepIsLockStep, PTL DEF ClientSpec, Spec

Errors == {"not running", "not running (no socket)", "refused", "timeout", "lost"}

ClientTypeOK ==
  /\ stage \in [Clients -> {"new", "probing", "looking", "connecting", "waiting", "over"}]
  /\ told \in [Clients -> {"nothing"} \cup Errors \cup Daemons]
  /\ server \in [Clients -> Daemons \cup {Nobody}]
  /\ conn \in [Clients -> {"none", "queued", "accepted", "done", "answered", "closed"}]
  /\ done \in [Clients -> SUBSET Daemons]
  /\ seen \in [Clients -> SUBSET (Daemons \cup {Nobody})]
  /\ quiet \in [Clients -> BOOLEAN]

(* What a client and the daemon it is connected to know of each other.       *)
Record(q) ==
  /\ stage[q] # "over" => told[q] = "nothing"
  /\ stage[q] \notin {"waiting", "over"} => conn[q] = "none"
  /\ conn[q] \in {"none", "queued", "accepted"} => done[q] = {}
  /\ conn[q] \in {"done", "answered"} => done[q] = {server[q]}
  /\ conn[q] # "none" => /\ server[q] \in Daemons /\ server[q] \in seen[q]
                         /\ told[q] \notin {"not running", "not running (no socket)", "refused"}
  /\ told[q] \in Daemons => conn[q] = "answered" /\ told[q] = server[q]
  /\ told[q] = "not running" => Nobody \in seen[q]
  /\ told[q] \in {"not running", "not running (no socket)", "refused"} => quiet[q]

ClientInv == IInv /\ InsideInv /\ ClientTypeOK /\ \A q \in Clients : Record(q)

LEMMA WatchGrows ==
  ASSUME ClientTypeOK, Watch, NEW q \in Clients
  PROVE  /\ seen[q] \subseteq seen'[q]
         /\ stage[q] \notin {"new", "over"} => Holder \in seen'[q] /\ Holder' \in seen'[q]
         /\ seen' \in [Clients -> SUBSET (Daemons \cup {Nobody})]
         /\ quiet[q] => quiet'[q]
         /\ stage[q] \notin {"new", "over"} /\ NobodyServes => quiet'[q]
         /\ quiet' \in [Clients -> BOOLEAN]
<1>1. /\ seen[q] \subseteq seen'[q]
      /\ stage[q] \notin {"new", "over"} => Holder \in seen'[q] /\ Holder' \in seen'[q]
      /\ seen' \in [Clients -> SUBSET (Daemons \cup {Nobody})]
  BY DEF ClientTypeOK, Watch, Watching, Holder
<1>2. \A r \in Clients :
        quiet'[r] = (quiet[r] \/ (Watching(r) /\ (NobodyServes \/ NobodyServes')))
  BY DEF Watch
<1>3. \A r \in Clients : quiet'[r] \in BOOLEAN
  BY <1>2 DEF ClientTypeOK
<1>4. quiet' = [r \in Clients |-> quiet'[r]]
  BY DEF Watch
<1>5. quiet' \in [Clients -> BOOLEAN]
  BY <1>3, <1>4
<1>6. /\ quiet[q] => quiet'[q]
      /\ stage[q] \notin {"new", "over"} /\ NobodyServes => quiet'[q]
  BY <1>2 DEF Watching
<1> QED BY <1>1, <1>5, <1>6

(* Where there is no socket, or nobody listens at it, no daemon serves; nor  *)
(* while the lock is free of daemons.                                        *)
LEMMA NobodyServesThere ==
  ASSUME IInv
  PROVE  /\ socket = Nobody \/ ~Listening(socket) => NobodyServes
         /\ Holder = Nobody => NobodyServes
BY ProcessesAssumption
DEF IInv, SocketIsTheServers, HolderInv, Listening, NobodyServes, Holder, Locking

(* A client that nothing happens to keeps its record. *)
LEMMA RecordKept ==
  ASSUME ClientTypeOK, Watch, NEW q \in Clients, Record(q),
         stage'[q] = stage[q], told'[q] = told[q], server'[q] = server[q],
         conn'[q] = conn[q], done'[q] = done[q]
  PROVE  Record(q)'
BY WatchGrows DEF Record

(* What a command prints is true if its connection and the lock say so.      *)
LEMMA TellsTruth ==
  ASSUME ClientTypeOK, Watch, NEW q \in Clients, Record(q), NEW what, Tells(q, what),
         what \in Errors \cup Daemons, UNCHANGED connVars,
         what \in Daemons => conn[q] = "answered" /\ what = server[q],
         what = "not running" => Nobody \in seen'[q],
         what \in {"not running", "not running (no socket)", "refused"} => conn[q] = "none" /\ quiet'[q]
  PROVE  ClientTypeOK' /\ Record(q)'
<1> USE AnswersAssumption
<1>1. ClientTypeOK'
  BY WatchGrows DEF ClientTypeOK, Tells, connVars
<1>2. /\ stage'[q] = "over" /\ told'[q] = what /\ seen[q] \subseteq seen'[q]
      /\ conn'[q] = conn[q] /\ done'[q] = done[q] /\ server'[q] = server[q]
  BY WatchGrows DEF ClientTypeOK, Tells, connVars
<1>3. Record(q)'
  BY <1>2 DEF Record
<1> QED BY <1>1, <1>3

(* A command that goes on from one stage to another tells nothing yet.       *)
LEMMA MovesOn ==
  ASSUME ClientTypeOK, Watch, NEW q \in Clients, Record(q), NEW from, NEW to,
         Moves(q, from, to), from \notin {"waiting", "over"},
         to \in {"probing", "looking", "connecting"}, UNCHANGED <<told, connVars>>
  PROVE  ClientTypeOK' /\ Record(q)'
<1>1. ClientTypeOK'
  BY WatchGrows DEF ClientTypeOK, Moves, connVars
<1>2. /\ stage[q] = from /\ stage'[q] = to /\ told'[q] = told[q] /\ seen[q] \subseteq seen'[q]
      /\ conn'[q] = conn[q] /\ done'[q] = done[q] /\ server'[q] = server[q]
  BY WatchGrows DEF ClientTypeOK, Moves, connVars
<1>3. Record(q)'
  BY <1>2 DEF Record
<1> QED BY <1>1, <1>3

LEMMA ClientStepKeeps ==
  ASSUME ClientInv, Watch, NEW q \in Clients, ClientStep(q)
  PROVE  ClientTypeOK' /\ \A r \in Clients : Record(r)'
<1> USE DEF ClientInv
<1>1. ASSUME NEW r \in Clients, r # q PROVE Record(r)'
  <2>1. /\ stage'[r] = stage[r] /\ told'[r] = told[r] /\ server'[r] = server[r]
        /\ conn'[r] = conn[r] /\ done'[r] = done[r]
    BY <1>1 DEF ClientStep, Begin, Probe, LookForSocket, Connect, Receive, GiveUp, Tells, Moves,
       connVars, ClientTypeOK
  <2> QED BY <1>1, <2>1, RecordKept
<1> SUFFICES ClientTypeOK' /\ Record(q)'
  BY <1>1
<1>2. CASE Begin(q)
  BY <1>2, MovesOn DEF Begin
<1>3. CASE Probe(q)
  <2>1. stage[q] = "probing" /\ UNCHANGED connVars /\ conn[q] = "none"
    BY <1>3 DEF Probe, Record
  <2>2. CASE (FindNoLockFile(q) \/ ProbeUnlocks(q)) /\ Tells(q, "not running")
    <3>1. Holder = Nobody
      <4>1. CASE FindNoLockFile(q)
        BY <4>1 DEF FindNoLockFile, InsideInv, Holder, Locking
      <4>2. CASE ProbeUnlocks(q)
        BY <4>2, ProcessesAssumption DEF ProbeUnlocks, Goes, IInv, HolderInv, Holder, Clients
      <4> QED BY <2>2, <4>1, <4>2
    <3>2. Nobody \in seen'[q] /\ quiet'[q]
      BY <2>1, <3>1, WatchGrows, NobodyServesThere
    <3> QED BY <2>1, <2>2, <3>2, TellsTruth, AnswersAssumption DEF Errors
  <2>3. CASE Moves(q, "probing", "looking") /\ UNCHANGED told
    BY <2>1, <2>3, MovesOn
  <2>4. CASE UNCHANGED <<stage, told>>
    <3>1. Record(q)'
      BY <2>1, <2>4, RecordKept DEF connVars
    <3>2. ClientTypeOK'
      BY <2>1, <2>4, WatchGrows DEF connVars, ClientTypeOK
    <3> QED BY <3>1, <3>2
  <2> QED BY <1>3, <2>2, <2>3, <2>4 DEF Probe
<1>4. CASE LookForSocket(q)
  <2>1. stage[q] = "looking" /\ UNCHANGED connVars /\ conn[q] = "none"
    BY <1>4 DEF LookForSocket, Record
  <2>2. socket = Nobody => quiet'[q]
    BY <2>1, WatchGrows, NobodyServesThere
  <2> QED BY <1>4, <2>1, <2>2, TellsTruth, MovesOn, AnswersAssumption DEF LookForSocket, Errors
<1>5. CASE Connect(q)
  <2>1. stage[q] = "connecting" /\ conn[q] = "none" /\ told[q] = "nothing" /\ done[q] = {}
    BY <1>5 DEF Connect, Record
  <2>2. CASE Listening(socket)
    <3>1. socket \in Daemons /\ flock = socket
      BY <2>2 DEF Listening, IInv, TypeOK, HolderInv, Locking
    <3>2. socket \in seen'[q]
      BY <2>1, <3>1, WatchGrows DEF Holder
    <3>3. ClientTypeOK'
      BY <1>5, <2>2, <3>1, WatchGrows DEF Connect, Moves, ClientTypeOK
    <3>4. /\ stage'[q] = "waiting" /\ conn'[q] = "queued" /\ server'[q] = socket
          /\ told'[q] = told[q] /\ done'[q] = done[q]
      BY <1>5, <2>2 DEF Connect, Moves, ClientTypeOK
    <3>5. Record(q)'
      BY <2>1, <3>1, <3>2, <3>4, AnswersAssumption DEF Record
    <3> QED BY <3>3, <3>5
  <2>3. CASE ~Listening(socket)
    <3>1. Tells(q, "refused") /\ UNCHANGED connVars
      BY <1>5, <2>3 DEF Connect, connVars
    <3>2. quiet'[q]
      BY <2>1, <2>3, WatchGrows, NobodyServesThere
    <3> QED BY <2>1, <3>1, <3>2, TellsTruth, AnswersAssumption DEF Errors
  <2> QED BY <2>2, <2>3
<1>6. CASE Receive(q)
  <2>1. stage[q] = "waiting" /\ UNCHANGED connVars
    BY <1>6 DEF Receive
  <2>2. CASE conn[q] = "answered" /\ Tells(q, server[q])
    BY <2>1, <2>2, TellsTruth, AnswersAssumption DEF Record, Errors
  <2>3. CASE conn[q] = "closed" /\ Tells(q, "lost")
    BY <2>1, <2>3, TellsTruth, AnswersAssumption DEF Errors
  <2> QED BY <1>6, <2>2, <2>3 DEF Receive
<1>7. CASE GiveUp(q)
  BY <1>7, TellsTruth, AnswersAssumption DEF GiveUp, Errors
<1> QED BY <1>2, <1>3, <1>4, <1>5, <1>6, <1>7 DEF ClientStep

(* The daemon's side takes a connection from one state to the next, or       *)
(* closes it; it carries a request out once.                                 *)
LEMMA ServerStepKeeps ==
  ASSUME ClientInv, Watch, UNCHANGED clientVars,
         \/ \E q \in Clients : ServerStep(q)
         \/ /\ \E d \in Daemons : DaemonStepsOn(d) \/ ListenerCloses(d) \/ ProcessEnds(d)
            /\ UNCHANGED <<server, done>>
  PROVE  ClientTypeOK' /\ \A r \in Clients : Record(r)'
<1> USE DEF ClientInv
<1>1. ASSUME NEW q \in Clients, ServerStep(q) PROVE ClientTypeOK' /\ \A r \in Clients : Record(r)'
  <2>1. server' = server /\ stage' = stage /\ told' = told
    BY <1>1 DEF ServerStep, Accept, CarryOut, Respond, clientVars
  <2>2. server[q] \in Daemons /\ server[q] \in seen[q]
    BY <1>1 DEF ServerStep, Accept, CarryOut, Respond, Record
  <2>3. ClientTypeOK'
    BY <1>1, <2>1, <2>2, WatchGrows DEF ServerStep, Accept, CarryOut, Respond, ClientTypeOK
  <2>4. ASSUME NEW r \in Clients, r # q PROVE Record(r)'
    <3>1. conn'[r] = conn[r] /\ done'[r] = done[r]
      BY <1>1, <2>4 DEF ServerStep, Accept, CarryOut, Respond, ClientTypeOK
    <3> QED BY <2>1, <2>4, <3>1, RecordKept
  <2>5. \/ conn[q] = "queued" /\ conn'[q] = "accepted" /\ done'[q] = done[q]
        \/ conn[q] = "accepted" /\ conn'[q] = "done" /\ done'[q] = done[q] \cup {server[q]}
        \/ conn[q] = "done" /\ conn'[q] = "answered" /\ done'[q] = done[q]
    BY <1>1 DEF ServerStep, Accept, CarryOut, Respond, ClientTypeOK
  <2>6. Record(q)'
    BY <2>1, <2>2, <2>5, WatchGrows DEF Record
  <2> QED BY <2>3, <2>4, <2>6
<1>2. ASSUME NEW d \in Daemons, DaemonStepsOn(d) \/ ListenerCloses(d) \/ ProcessEnds(d),
             UNCHANGED <<server, done>>
      PROVE  ClientTypeOK' /\ \A r \in Clients : Record(r)'
  <2>1. ASSUME NEW r \in Clients
        PROVE  \/ conn'[r] = conn[r]
               \/ conn[r] \in {"queued", "accepted", "done"} /\ conn'[r] = "closed"
    BY <1>2 DEF DaemonStepsOn, ListenerCloses, ProcessEnds, Close
  <2>2. ClientTypeOK'
    <3>1. conn' \in [Clients -> {"none", "queued", "accepted", "done", "answered", "closed"}]
      BY <1>2 DEF DaemonStepsOn, ListenerCloses, ProcessEnds, Close, ClientTypeOK
    <3>2. seen' \in [Clients -> SUBSET (Daemons \cup {Nobody})] /\ quiet' \in [Clients -> BOOLEAN]
      <4>1. CASE Clients = {}
        BY <4>1 DEF Watch, ClientTypeOK
      <4>2. CASE Clients # {}
        BY <4>2, WatchGrows
      <4> QED BY <4>1, <4>2
    <3> QED BY <1>2, <3>1, <3>2 DEF ClientTypeOK, clientVars
  <2>3. ASSUME NEW r \in Clients PROVE Record(r)'
    BY <1>2, <2>1, WatchGrows DEF Record, clientVars
  <2> QED BY <2>2, <2>3
<1> QED BY <1>1, <1>2

LEMMA ClientsSafe == ClientSpec => []ClientInv
<1>1. ClientInit => ClientInv
  <2> SUFFICES ASSUME ClientInit PROVE ClientInv
    OBVIOUS
  <2>1. IInv /\ InsideInv
    BY Initially, ProcessesAssumption DEF ClientInit, Init, InsideInv, Processes
  <2>2. ClientTypeOK
    BY DEF ClientInit, ClientTypeOK
  <2>3. \A q \in Clients : Record(q)
    BY AnswersAssumption DEF ClientInit, Record
  <2> QED BY <2>1, <2>2, <2>3 DEF ClientInv
<1>2. ClientInv /\ [ClientNext]_allVars => ClientInv'
  <2> SUFFICES ASSUME ClientInv, [ClientNext]_allVars PROVE ClientInv'
    OBVIOUS
  <2>1. IInv' /\ InsideInv'
    BY ClientStepIsLockStep, Step, InsideStep DEF ClientInv
  <2>2. CASE UNCHANGED allVars
    BY <2>1, <2>2 DEF allVars, clientVars, connVars, watchVars, ClientInv, ClientTypeOK, Record
  <2>3. CASE ClientNext
    <3>1. Watch
      BY <2>3 DEF ClientNext
    <3>2. CASE \E q \in Clients : ClientStep(q)
      BY <2>1, <3>1, <3>2, ClientStepKeeps DEF ClientInv
    <3>3. CASE ~\E q \in Clients : ClientStep(q)
      <4>1. UNCHANGED clientVars
        BY <2>3, <3>3 DEF ClientNext, ServerStep, Accept, CarryOut, Respond
      <4> QED BY <2>1, <2>3, <3>1, <3>3, <4>1, ServerStepKeeps DEF ClientNext, ClientInv
    <3> QED BY <3>2, <3>3
  <2> QED BY <2>2, <2>3
<1> QED BY <1>1, <1>2, PTL DEF ClientSpec

(* An answer comes from a daemon that carried the request out, once, and     *)
(* held the lock while the command ran; no other error than the timeout and  *)
(* a lost connection is told of a request that has been carried out.  Of the *)
(* daemons, "not running" says that the lock was free of them at a moment    *)
(* while the command ran if it comes from is_daemon_running, and only that   *)
(* none was serving at a moment if it is the error for a missing socket.     *)
THEOREM AnswersAreTrue == ClientSpec => []MsxTellsTheTruth
<1>1. ClientInv => MsxTellsTheTruth
  BY AnswersAssumption DEF ClientInv, ClientTypeOK, Record, MsxTellsTheTruth
<1> QED BY <1>1, ClientsSafe, PTL
=============================================================================
