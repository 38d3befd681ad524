--------------------------- MODULE AtomicAdapter ---------------------------
(***************************************************************************)
(* What the adapter handle promises its callers: the adapter behaves as    *)
(* one atomic object.  A call takes effect once, at one moment between its *)
(* start and its return; or it fails, which happens only after the adapter *)
(* has been shut down, and then it never had an effect.  Nothing touches   *)
(* the adapter after its shutdown.                                         *)
(***************************************************************************)
CONSTANTS Clients, Keys, Values, NoValue, Requests, Results

VARIABLES
  phase,   \* per client: no call, called, or taken effect but not yet returned
  request, \* per client: the request of the latest call
  result,  \* per client: the answer of the latest call
  store,   \* the adapter's state
  life     \* "up" until the adapter is shut down, then "down"

vars == <<phase, request, result, store, life>>

Plain(status) == [status |-> status, value |-> NoValue]

Init ==
  /\ phase = [c \in Clients |-> "idle"]
  /\ request = [c \in Clients |-> [op |-> "manifest"]]
  /\ result = [c \in Clients |-> Plain("none")]
  /\ store \in [Keys -> Values]
  /\ life = "up"

Invoke(c, r) ==
  /\ phase[c] = "idle"
  /\ phase' = [phase EXCEPT ![c] = "called"]
  /\ request' = [request EXCEPT ![c] = r]
  /\ result' = [result EXCEPT ![c] = Plain("none")]
  /\ UNCHANGED <<store, life>>

(* The effect of a request on the adapter and the answers it can give.     *)
Effect(r, answer) ==
  \/ /\ r.op = "get"
     /\ answer \in {[status |-> "ok", value |-> store[r.key]], Plain("error")}
     /\ UNCHANGED <<store, life>>
  \/ /\ r.op = "set"
     /\ store' = [store EXCEPT ![r.key] = r.value] \/ (answer = Plain("error") /\ store' = store)
     /\ answer \in {Plain("ok"), Plain("error")}
     /\ UNCHANGED life
  \/ /\ r.op = "manifest"
     /\ answer = Plain("ok")
     /\ UNCHANGED <<store, life>>
  \/ /\ r.op = "shutdown"
     /\ answer \in {Plain("ok"), Plain("error")}
     /\ life' = "down"
     /\ UNCHANGED store

TakeEffect(c) ==
  /\ phase[c] = "called"
  /\ life = "up"
  /\ phase' = [phase EXCEPT ![c] = "done"]
  /\ \E answer \in Results :
       /\ Effect(request[c], answer)
       /\ result' = [result EXCEPT ![c] = answer]
  /\ UNCHANGED request

Return(c) ==
  /\ phase[c] = "done"
  /\ phase' = [phase EXCEPT ![c] = "idle"]
  /\ UNCHANGED <<request, result, store, life>>

(* A call the adapter will never serve.  For shutdown this is a success.   *)
Fail(c) ==
  /\ phase[c] = "called"
  /\ life = "down"
  /\ phase' = [phase EXCEPT ![c] = "idle"]
  /\ \E status \in IF request[c].op = "shutdown" THEN {"ok"} ELSE {"dropped", "closed"} :
       result' = [result EXCEPT ![c] = Plain(status)]
  /\ UNCHANGED <<request, store, life>>

(* The window manager changes by itself, until the adapter is shut down.   *)
Environment ==
  /\ life = "up"
  /\ \E k \in Keys, v \in Values : store' = [store EXCEPT ![k] = v]
  /\ UNCHANGED <<phase, request, result, life>>

GoDown ==
  /\ life = "up"
  /\ life' = "down"
  /\ UNCHANGED <<phase, request, result, store>>

Next ==
  \/ \E c \in Clients :
       \/ \E r \in Requests : Invoke(c, r)
       \/ TakeEffect(c) \/ Return(c) \/ Fail(c)
  \/ Environment \/ GoDown

Spec == Init /\ [][Next]_vars
=============================================================================
