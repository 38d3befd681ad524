-------------------------- MODULE ScriptPoolProofs --------------------------
(***************************************************************************)
(* Theorems about ScriptPool for every number of slots and permits.        *)
(*                                                                         *)
(* The invariant says that the queue holds the queued tasks, that no       *)
(* permit is idle while it does, that permits are conserved, and that a    *)
(* shell script runs only while its task holds a permit.                   *)
(***************************************************************************)
EXTENDS ScriptPool, FiniteSetTheorems, TLAPS

-----------------------------------------------------------------------------
(* What sending to a queue, and receiving from it, does to its elements and  *)
(* to their being distinct.                                                  *)
LEMMA QueueSend ==
  ASSUME NEW S, NEW s \in Seq(S), NEW x \in S, IsInjective(s), x \notin Range(s)
  PROVE  Range(Append(s, x)) = Range(s) \cup {x} /\ IsInjective(Append(s, x))
<1>1. /\ Len(s) \in Nat /\ DOMAIN s = 1..Len(s) /\ DOMAIN Append(s, x) = 1..(Len(s) + 1)
      /\ \A i \in 1..Len(s) : Append(s, x)[i] = s[i]
      /\ Append(s, x)[Len(s) + 1] = x
  OBVIOUS
<1> DEFINE t == Append(s, x)
<1> HIDE DEF t
<1>2. Range(t) = Range(s) \cup {x}
  BY <1>1 DEF Range, t
<1>3. IsInjective(t)
  BY <1>1 DEF IsInjective, Range, t
<1> QED BY <1>2, <1>3 DEF t

LEMMA QueueReceive ==
  ASSUME NEW S, NEW s \in Seq(S), s # <<>>, IsInjective(s)
  PROVE  /\ Range(s) = {Head(s)} \cup Range(Tail(s)) /\ Head(s) \notin Range(Tail(s))
         /\ IsInjective(Tail(s))
<1> DEFINE t == Tail(s)
<1>1. /\ Len(s) \in Nat \ {0} /\ DOMAIN s = 1..Len(s) /\ DOMAIN t = 1..(Len(s) - 1) /\ Head(s) = s[1]
      /\ \A i \in DOMAIN t : i + 1 \in DOMAIN s /\ t[i] = s[i + 1]
      /\ \A i \in DOMAIN s : i = 1 \/ (i - 1 \in DOMAIN t /\ t[i - 1] = s[i])
  OBVIOUS
<1> HIDE DEF t
<1>2. Range(s) = {Head(s)} \cup Range(t)
  BY <1>1 DEF Range
<1>3. Head(s) \notin Range(t) /\ IsInjective(t)
  BY <1>1 DEF Range, IsInjective
<1> QED BY <1>2, <1>3 DEF t

-----------------------------------------------------------------------------
TypeInv ==
  /\ task \in [Slots -> {"none", "spawned", "queued", "running", "done"}]
  /\ kind \in [Slots -> {"rhai", "shell"}]
  /\ body \in [Slots -> {"none", "running", "ended", "killed"}]
  /\ permits \in Nat
  /\ queue \in Seq(Watchers)

ShellRunsWithPermit ==
  \A w \in Watchers : kind[w] = "shell" /\ body[w] = "running" => task[w] = "running"

(* The queue holds the queued tasks, once each, and only while no permit is *)
(* free, as the semaphore has it.                                           *)
QueueInv ==
  /\ queue # <<>> => permits = 0
  /\ IsInjective(queue)
  /\ Range(queue) = {w \in Watchers : task[w] = "queued"}

IInv == TypeInv /\ PermitsAreConserved /\ QueueInv /\ ShellRunsWithPermit

LEMMA HoldersFinite == IsFiniteSet(Holders) /\ Cardinality(Holders) \in Nat
<1>1. Holders \subseteq Watchers
  BY DEF Holders
<1> QED BY <1>1, SlotsAssumption, FS_Subset, FS_CardinalityType

LEMMA Initially == Init => IInv
<1> SUFFICES ASSUME Init PROVE IInv
  OBVIOUS
<1>1. TypeInv
  BY PermitsAssumption DEF Init, TypeInv, Slots
<1>2. Holders = {}
  BY DEF Init, Holders, Slots
<1>3. PermitsAreConserved
  BY <1>2, FS_EmptySet, PermitsAssumption DEF Init, PermitsAreConserved
<1>4. QueueInv
  BY DEF Init, QueueInv, IsInjective, Range, Slots
<1>5. ShellRunsWithPermit
  BY DEF Init, ShellRunsWithPermit, Slots
<1> QED BY <1>1, <1>3, <1>4, <1>5 DEF IInv

-----------------------------------------------------------------------------
(* The end of a task hands its permit on or gives it back, and takes no     *)
(* other task's permit away.                                                *)
LEMMA EndOfWatcher ==
  ASSUME IInv, NEW w \in Watchers, task[w] = "running", EndTask(w)
  PROVE  /\ task' \in [Slots -> {"none", "spawned", "queued", "running", "done"}]
         /\ permits' \in Nat
         /\ queue' \in Seq(Watchers)
         /\ PermitsAreConserved'
         /\ QueueInv'
         /\ \A v \in Watchers \ {w} : task[v] = "running" => task'[v] = "running"
<1> USE DEF IInv, TypeInv
<1>1. w \in Slots /\ w \in Holders
  BY DEF Slots, Holders
<1>2. Cardinality(Holders \ {w}) = Cardinality(Holders) - 1 /\ IsFiniteSet(Holders \ {w})
  BY <1>1, HoldersFinite, FS_RemoveElement
<1>3. CASE queue = <<>>
  <2>1. /\ task' = [task EXCEPT ![w] = "done"]
        /\ permits' = permits + 1
        /\ queue' = queue
    BY <1>3 DEF EndTask
  <2>2. Holders' = Holders \ {w}
    BY <1>1, <2>1 DEF Holders, Slots
  <2>3. PermitsAreConserved'
    BY <1>2, <2>1, <2>2, HoldersFinite, PermitsAssumption DEF PermitsAreConserved
  <2>4. {v \in Watchers : task'[v] = "queued"} = {v \in Watchers : task[v] = "queued"}
    BY <1>1, <2>1 DEF Slots
  <2>5. QueueInv'
    BY <1>3, <2>1, <2>4 DEF QueueInv
  <2> QED BY <1>1, <2>1, <2>3, <2>5 DEF Slots
<1>4. CASE queue # <<>>
  <2> DEFINE h == Head(queue)
  <2>1. /\ task' = [task EXCEPT ![w] = "done", ![h] = "running"]
        /\ permits' = permits
        /\ queue' = Tail(queue)
    BY <1>4 DEF EndTask
  <2>2. h \in Watchers /\ queue' \in Seq(Watchers)
    BY <1>4, <2>1
  <2>3. /\ Range(queue) = {h} \cup Range(queue')
        /\ IsInjective(queue')
        /\ h \notin Range(queue')
    BY <1>4, <2>1, QueueReceive DEF QueueInv
  <2>4. task[h] = "queued" /\ h # w /\ h \in Slots
    BY <2>2, <2>3 DEF QueueInv, Slots
  <2>5. /\ task'[h] = "running" /\ task'[w] = "done"
        /\ \A v \in Slots \ {w, h} : task'[v] = task[v]
        /\ task' \in [Slots -> {"none", "spawned", "queued", "running", "done"}]
    BY <1>1, <2>1, <2>4
  <2>6. Holders' = (Holders \ {w}) \cup {h} /\ h \notin Holders \ {w}
    BY <1>1, <2>2, <2>4, <2>5 DEF Holders, Slots
  <2>7. Cardinality(Holders') = Cardinality(Holders)
    <3>1. Cardinality((Holders \ {w}) \cup {h}) = Cardinality(Holders \ {w}) + 1
      BY <1>2, <2>6, FS_AddElement
    <3> QED BY <1>2, <2>6, <3>1, HoldersFinite
  <2>8. PermitsAreConserved'
    BY <2>1, <2>7 DEF PermitsAreConserved
  <2>9. {v \in Watchers : task'[v] = "queued"} = {v \in Watchers : task[v] = "queued"} \ {h}
    <3>1. \A v \in Watchers : task'[v] = "queued" <=> task[v] = "queued" /\ v # h
      BY <1>1, <2>5 DEF Slots
    <3> QED BY <3>1
  <2>10. QueueInv'
    <3>1. permits' = 0
      BY <1>4, <2>1 DEF QueueInv
    <3>2. Range(queue') = Range(queue) \ {h}
      BY <2>3
    <3>3. Range(queue') = {v \in Watchers : task'[v] = "queued"}
      BY <2>9, <3>2 DEF QueueInv
    <3> QED BY <2>3, <3>1, <3>3 DEF QueueInv
  <2> QED BY <2>1, <2>2, <2>4, <2>5, <2>8, <2>10 DEF Slots
<1> QED BY <1>3, <1>4

(* The same of a task of either kind. *)
LEMMA EndOfTask ==
  ASSUME IInv, NEW s \in Slots, task[s] = "running", End(s)
  PROVE  /\ task' \in [Slots -> {"none", "spawned", "queued", "running", "done"}]
         /\ permits' \in Nat
         /\ queue' \in Seq(Watchers)
         /\ PermitsAreConserved'
         /\ QueueInv'
         /\ \A v \in Watchers \ {s} : task[v] = "running" => task'[v] = "running"
<1>1. CASE s \in Watchers
  BY <1>1, EndOfWatcher DEF End
<1>2. CASE s \notin Watchers
  <2>1. task' = [task EXCEPT ![s] = "done"] /\ UNCHANGED <<permits, queue>>
    BY <1>2 DEF End, EndExec
  <2>2. \A v \in Watchers : task'[v] = task[v]
    BY <1>2, <2>1 DEF IInv, TypeInv, Slots
  <2>3. Holders' = Holders
    BY <2>2 DEF Holders
  <2>4. {v \in Watchers : task'[v] = "queued"} = {v \in Watchers : task[v] = "queued"}
    BY <2>2
  <2> QED BY <2>1, <2>2, <2>3, <2>4 DEF IInv, TypeInv, PermitsAreConserved, QueueInv
<1> QED BY <1>1, <1>2

(* What a step that keeps every holder and every waiter keeps.              *)
LEMMA SameHolders ==
  ASSUME IInv, TypeInv', UNCHANGED <<permits, queue>>,
         \A w \in Watchers : task'[w] = "running" <=> task[w] = "running",
         \A w \in Watchers : task'[w] = "queued" <=> task[w] = "queued",
         ShellRunsWithPermit'
  PROVE  IInv'
<1>1. Holders' = Holders
  BY DEF Holders
<1>2. {w \in Watchers : task'[w] = "queued"} = {w \in Watchers : task[w] = "queued"}
  OBVIOUS
<1> QED BY <1>1, <1>2 DEF IInv, PermitsAreConserved, QueueInv

LEMMA Step == IInv /\ [Next]_vars => IInv'
<1> SUFFICES ASSUME IInv, [Next]_vars PROVE IInv'
  OBVIOUS
<1> USE DEF IInv
<1>1. ASSUME NEW w \in Watchers, Trigger(w) PROVE IInv'
  <2>1. TypeInv'
    BY <1>1 DEF Trigger, TypeInv
  <2>2. w \in Slots /\ \A v \in Watchers \ {w} : v \in Slots
    BY DEF Slots
  <2>3. ShellRunsWithPermit'
    BY <1>1, <2>2 DEF Trigger, TypeInv, ShellRunsWithPermit
  <2> QED BY <1>1, <2>1, <2>2, <2>3, SameHolders DEF Trigger, Free, TypeInv
<1>2. ASSUME NEW w \in Watchers, Acquire(w) PROVE IInv'
  <2>1. w \in Slots /\ w \notin Holders
    BY <1>2 DEF Slots, Acquire, Holders
  <2>2. TypeInv'
    BY <1>2, <2>1 DEF Acquire, TypeInv
  <2>3. Holders' = Holders \cup {w}
    BY <1>2, <2>1 DEF Acquire, TypeInv, Holders, Slots
  <2>4. PermitsAreConserved'
    <3>1. Cardinality(Holders') = Cardinality(Holders) + 1
      BY <2>1, <2>3, HoldersFinite, FS_AddElement
    <3>2. permits \in Nat /\ permits' = permits - 1
      BY <1>2 DEF Acquire, TypeInv
    <3> QED BY <3>1, <3>2, HoldersFinite, PermitsAssumption DEF PermitsAreConserved
  <2>5. queue = <<>>
    BY <1>2 DEF Acquire, QueueInv, TypeInv
  <2>6. {v \in Watchers : task'[v] = "queued"} = {v \in Watchers : task[v] = "queued"}
    BY <1>2, <2>1 DEF Acquire, TypeInv, Slots
  <2>7. QueueInv'
    BY <1>2, <2>5, <2>6 DEF Acquire, QueueInv
  <2>8. ShellRunsWithPermit'
    BY <1>2, <2>1 DEF Acquire, ShellRunsWithPermit, TypeInv, Slots
  <2> QED BY <2>2, <2>4, <2>7, <2>8
<1>3. ASSUME NEW w \in Watchers, Enqueue(w) PROVE IInv'
  <2>1. w \in Slots /\ w \notin Range(queue)
    BY <1>3 DEF Slots, Enqueue, QueueInv
  <2>2. TypeInv'
    BY <1>3, <2>1 DEF Enqueue, TypeInv
  <2>3. Range(queue') = Range(queue) \cup {w} /\ IsInjective(queue')
    BY <1>3, <2>1, QueueSend DEF Enqueue, QueueInv, TypeInv
  <2>4. {v \in Watchers : task'[v] = "queued"} = {v \in Watchers : task[v] = "queued"} \cup {w}
    BY <1>3, <2>1 DEF Enqueue, TypeInv, Slots
  <2>5. QueueInv'
    BY <1>3, <2>3, <2>4 DEF Enqueue, QueueInv
  <2>6. Holders' = Holders
    BY <1>3, <2>1 DEF Enqueue, TypeInv, Holders, Slots
  <2>7. PermitsAreConserved'
    BY <1>3, <2>6 DEF Enqueue, PermitsAreConserved
  <2>8. ShellRunsWithPermit'
    BY <1>3, <2>1 DEF Enqueue, ShellRunsWithPermit, TypeInv, Slots
  <2> QED BY <2>2, <2>5, <2>7, <2>8
<1>4. ASSUME NEW x \in Execs, Exec(x) PROVE IInv'
  <2>1. x \in Slots /\ x \notin Watchers /\ Watchers \subseteq Slots
    BY SlotsAssumption DEF Slots
  <2>2. TypeInv'
    BY <1>4, <2>1 DEF Exec, TypeInv
  <2>3. \A w \in Watchers : task'[w] = task[w] /\ kind'[w] = kind[w] /\ body'[w] = body[w]
    BY <1>4, <2>1 DEF Exec, TypeInv
  <2> QED BY <1>4, <2>2, <2>3, SameHolders DEF Exec, ShellRunsWithPermit
<1>5. ASSUME NEW s \in Slots, StartBody(s) PROVE IInv'
  <2>1. TypeInv'
    BY <1>5 DEF StartBody, TypeInv
  <2>2. ShellRunsWithPermit'
    BY <1>5 DEF StartBody, TypeInv, ShellRunsWithPermit, Slots
  <2> QED BY <1>5, <2>1, <2>2, SameHolders DEF StartBody
<1>6. ASSUME NEW s \in Slots, BodyEnds(s) PROVE IInv'
  <2>1. TypeInv'
    BY <1>6 DEF BodyEnds, TypeInv
  <2>2. ShellRunsWithPermit'
    BY <1>6 DEF BodyEnds, TypeInv, ShellRunsWithPermit, Slots
  <2> QED BY <1>6, <2>1, <2>2, SameHolders DEF BodyEnds
<1>7. ASSUME NEW s \in Slots, StartFails(s) \/ Finish(s) PROVE IInv'
  <2>1. task[s] = "running" /\ End(s) /\ body[s] # "running" /\ UNCHANGED <<kind, body>>
    BY <1>7 DEF StartFails, Finish
  <2> QED BY <2>1, EndOfTask DEF TypeInv, ShellRunsWithPermit
<1>8. ASSUME NEW s \in Slots, TimesOut(s) PROVE IInv'
  <2>1. task[s] = "running" /\ End(s) /\ kind' = kind
    BY <1>8 DEF TimesOut
  <2>2. /\ body' \in [Slots -> {"none", "running", "ended", "killed"}]
        /\ \A v \in Slots \ {s} : body'[v] = body[v]
        /\ kind[s] = "shell" => body'[s] # "running"
    BY <1>8 DEF TimesOut, TypeInv
  <2>3. ShellRunsWithPermit'
    BY <2>1, <2>2, EndOfTask DEF ShellRunsWithPermit, Slots
  <2> QED BY <2>1, <2>2, <2>3, EndOfTask DEF TypeInv
<1>9. CASE UNCHANGED vars
  <2>1. UNCHANGED <<permits, queue, task, kind, body>>
    BY <1>9 DEF vars
  <2> QED BY <2>1, SameHolders DEF TypeInv, ShellRunsWithPermit
<1> QED BY <1>1, <1>2, <1>3, <1>4, <1>5, <1>6, <1>7, <1>8, <1>9 DEF Next

LEMMA InductiveInvariant == Spec => []IInv
BY Initially, Step, PTL DEF Spec

-----------------------------------------------------------------------------
(* Permits are neither lost nor multiplied, whatever ends a task            *)
(* (run_script and run_shell_script hold the permit in `_permit').          *)
THEOREM PermitsConserved == Spec => []PermitsAreConserved
<1>1. IInv => PermitsAreConserved
  BY DEF IInv
<1> QED BY <1>1, InductiveInvariant, PTL

(* At most MaxScripts child processes of event scripts run at a time.       *)
THEOREM ShellScriptsBounded == Spec => []ShellScriptsAreBounded
<1>1. IInv => ShellScriptsAreBounded
  <2> SUFFICES ASSUME IInv PROVE ShellScriptsAreBounded
    OBVIOUS
  <2> DEFINE Shells == {w \in Watchers : kind[w] = "shell" /\ body[w] = "running"}
  <2>1. Shells \subseteq Holders
    BY DEF IInv, ShellRunsWithPermit, Holders
  <2>2. Cardinality(Shells) \in Nat /\ Cardinality(Shells) <= Cardinality(Holders)
    BY <2>1, HoldersFinite, FS_Subset, FS_CardinalityType
  <2>3. Cardinality(Holders) <= MaxScripts
    BY HoldersFinite, PermitsAssumption DEF IInv, TypeInv, PermitsAreConserved
  <2>4. Cardinality(Shells) <= MaxScripts
    BY <2>2, <2>3, HoldersFinite, PermitsAssumption
  <2> QED BY <2>4 DEF ShellScriptsAreBounded
<1> QED BY <1>1, InductiveInvariant, PTL

(* The state of the pool keeps its type, permits within the semaphore.      *)
THEOREM PoolTypeCorrect == Spec => []TypeOK
<1>1. IInv => TypeOK
  BY HoldersFinite, PermitsAssumption DEF IInv, TypeInv, PermitsAreConserved, TypeOK
<1> QED BY <1>1, InductiveInvariant, PTL
=============================================================================
