----------------------------- MODULE ScriptPool -----------------------------
(***************************************************************************)
(* The scripts the controller runs (middlesox/src/controller.rs: run_script, *)
(* run_shell_script, execute_script; middlesox/src/engine.rs).             *)
(*                                                                         *)
(* A watch that matches an event spawns a task that takes a permit of the  *)
(* script semaphore, runs the script under a timeout and gives the permit  *)
(* back.  `msx exec' runs a script without a permit.  A shell script is a  *)
(* child process that dies with the future that awaits it; a Rhai script   *)
(* runs on a blocking thread, which nothing can interrupt.                 *)
(***************************************************************************)
EXTENDS Naturals, Sequences, FiniteSets, Functions

CONSTANTS
  Watchers,   \* slots for the scripts started by events
  Execs,      \* slots for the scripts started by `msx exec'
  MaxScripts  \* MAX_CONCURRENT_SCRIPTS (8 in the code)

ASSUME SlotsAssumption   == Watchers \cap Execs = {} /\ IsFiniteSet(Watchers)
ASSUME PermitsAssumption == MaxScripts \in Nat \ {0}

VARIABLES
  task,     \* per slot: where the task that runs the script is
  kind,     \* per slot: the script is Rhai or shell
  body,     \* per slot: the script's own execution, in its process or thread
  permits,  \* the semaphore's free permits
  queue     \* the tasks waiting for a permit, first come first served

vars == <<task, kind, body, permits, queue>>

Slots == Watchers \cup Execs

TypeOK ==
  /\ task \in [Slots -> {"none", "spawned", "queued", "running", "done"}]
  /\ kind \in [Slots -> {"rhai", "shell"}]
  /\ body \in [Slots -> {"none", "running", "ended", "killed"}]
  /\ permits \in 0..MaxScripts
  /\ queue \in Seq(Watchers)

Init ==
  /\ task = [s \in Slots |-> "none"]
  /\ kind = [s \in Slots |-> "shell"]
  /\ body = [s \in Slots |-> "none"]
  /\ permits = MaxScripts
  /\ queue = <<>>

-----------------------------------------------------------------------------
(* A slot is free when its task is over and its script is, too. *)
Free(s) == task[s] \in {"none", "done"} /\ body[s] # "running"

(* run_script and run_shell_script, up to tokio::spawn. *)
Trigger(w) ==
  /\ Free(w)
  /\ \E k \in {"rhai", "shell"} : kind' = [kind EXCEPT ![w] = k]
  /\ task' = [task EXCEPT ![w] = "spawned"]
  /\ body' = [body EXCEPT ![w] = "none"]
  /\ UNCHANGED <<permits, queue>>

(* semaphore.acquire(): at once, or in the semaphore's queue. *)
Acquire(w) ==
  /\ task[w] = "spawned"
  /\ permits > 0
  /\ permits' = permits - 1
  /\ task' = [task EXCEPT ![w] = "running"]
  /\ UNCHANGED <<kind, body, queue>>

Enqueue(w) ==
  /\ task[w] = "spawned"
  /\ permits = 0
  /\ queue' = Append(queue, w)
  /\ task' = [task EXCEPT ![w] = "queued"]
  /\ UNCHANGED <<kind, body, permits>>

(* Dropping _permit, when w's task ends.  That it goes to the first waiter  *)
(* at once is what tokio's semaphore does with it, not the controller.      *)
EndTask(w) ==
  IF queue = <<>>
  THEN /\ task' = [task EXCEPT ![w] = "done"]
       /\ permits' = permits + 1
       /\ UNCHANGED queue
  ELSE /\ task' = [task EXCEPT ![w] = "done", ![Head(queue)] = "running"]
       /\ queue' = Tail(queue)
       /\ UNCHANGED permits

-----------------------------------------------------------------------------
(* execute_script: found, and run without a permit. *)
Exec(x) ==
  /\ Free(x)
  /\ \E k \in {"rhai", "shell"} : kind' = [kind EXCEPT ![x] = k]
  /\ task' = [task EXCEPT ![x] = "running"]
  /\ body' = [body EXCEPT ![x] = "none"]
  /\ UNCHANGED <<permits, queue>>

EndExec(x) ==
  /\ task' = [task EXCEPT ![x] = "done"]
  /\ UNCHANGED <<permits, queue>>

End(s) == IF s \in Watchers THEN EndTask(s) ELSE EndExec(s)

(* The process is spawned, or the file read and spawn_blocking called; a    *)
(* failure of either ends the task.                                         *)
StartBody(s) ==
  /\ task[s] = "running"
  /\ body[s] = "none"
  /\ body' = [body EXCEPT ![s] = "running"]
  /\ UNCHANGED <<task, kind, permits, queue>>

StartFails(s) ==
  /\ task[s] = "running"
  /\ body[s] = "none"
  /\ End(s)
  /\ UNCHANGED <<kind, body>>

(* The script ends by itself, whether or not a task still awaits it.        *)
BodyEnds(s) ==
  /\ body[s] = "running"
  /\ body' = [body EXCEPT ![s] = "ended"]
  /\ UNCHANGED <<task, kind, permits, queue>>

Finish(s) ==
  /\ task[s] = "running"
  /\ body[s] = "ended"
  /\ End(s)
  /\ UNCHANGED <<kind, body>>

(* Mutants of TimesOut: without kill_on_drop; with a permit that is         *)
(* forgotten; without a timeout for Rhai scripts.                           *)
TimesOutWithoutKill(s) ==
  /\ task[s] = "running"
  /\ body[s] = "running" \/ (body[s] = "none" /\ kind[s] = "rhai")
  /\ s \in Watchers \/ kind[s] = "shell"
  /\ End(s)
  /\ UNCHANGED <<kind, body>>

TimesOutKeepingPermit(s) ==
  /\ task[s] = "running"
  /\ body[s] = "running" \/ (body[s] = "none" /\ kind[s] = "rhai")
  /\ s \in Watchers \/ kind[s] = "shell"
  /\ task' = [task EXCEPT ![s] = "done"]
  /\ UNCHANGED <<kind, body, permits, queue>>

TimesOutShellOnly(s) ==
  /\ task[s] = "running"
  /\ body[s] = "running"
  /\ kind[s] = "shell"
  /\ End(s)
  /\ body' = [body EXCEPT ![s] = "killed"]
  /\ UNCHANGED kind

(* SCRIPT_TIMEOUT, RHAI_SCRIPT_TIMEOUT and, for shell scripts only,         *)
(* EXEC_TIMEOUT: the future is dropped.  kill_on_drop kills the process;    *)
(* the blocking thread runs on.                                             *)
TimesOut(s) ==
  /\ task[s] = "running"
  /\ body[s] = "running" \/ (body[s] = "none" /\ kind[s] = "rhai")
  /\ s \in Watchers \/ kind[s] = "shell"
  /\ End(s)
  /\ body' = IF kind[s] = "shell" /\ body[s] = "running"
             THEN [body EXCEPT ![s] = "killed"] ELSE body
  /\ UNCHANGED kind

-----------------------------------------------------------------------------
Next ==
  \/ \E w \in Watchers : Trigger(w) \/ Acquire(w) \/ Enqueue(w)
  \/ \E x \in Execs : Exec(x)
  \/ \E s \in Slots : StartBody(s) \/ StartFails(s) \/ BodyEnds(s) \/ Finish(s) \/ TimesOut(s)

Spec == Init /\ [][Next]_vars

(* The runtime polls every task, and timers fire.  A script need not end.   *)
Fairness ==
  /\ \A w \in Watchers : WF_vars(Acquire(w) \/ Enqueue(w))
  /\ \A s \in Slots : WF_vars(StartBody(s) \/ StartFails(s) \/ Finish(s)) /\ WF_vars(TimesOut(s))

FairSpec == Spec /\ Fairness

-----------------------------------------------------------------------------
Holders == {w \in Watchers : task[w] = "running"}

(* Every permit is free or held by a task that is running: no way out of a  *)
(* task (success, failure to start, timeout) loses one or returns it twice. *)
PermitsAreConserved == permits + Cardinality(Holders) = MaxScripts

(* The child processes of event scripts never exceed the semaphore's size,  *)
(* because a timeout kills the process before the permit goes on.           *)
ShellScriptsAreBounded ==
  Cardinality({w \in Watchers : kind[w] = "shell" /\ body[w] = "running"}) <= MaxScripts

(* The task of every event's script ends, and so does every `msx exec' of a *)
(* shell script, also when the script itself never does.                    *)
EveryTaskEnds ==
  \A s \in Slots :
    task[s] \in {"spawned", "queued", "running"} /\ ~(s \in Execs /\ kind[s] = "rhai")
      ~> task[s] = "done"

(* controller.rs:19, "Maximum number of concurrent script executions (shell *)
(* and Rhai)", for the scripts that take a permit.                          *)
EventScriptsAreBounded ==
  Cardinality({w \in Watchers : body[w] = "running"}) <= MaxScripts
=============================================================================
