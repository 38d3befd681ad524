-------------------------- MODULE MangoWakeProofs --------------------------
(***************************************************************************)
(* Proofs about MangoWake and MangoSet: no lost wake-up, no call that      *)
(* waits for an answer nobody will give, and sets that do what was asked,  *)
(* for every interleaving of the adapter, the Wayland thread and the       *)
(* compositor, every value and every width of its integers.                *)
(***************************************************************************)
EXTENDS MangoSet, FiniteSetTheorems, WellFoundedInduction, TLAPS

(* The variables have their types. *)
THEOREM TypeInvariant == Spec => []TypeOK
<1>1. Init => TypeOK
  <2>1. /\ <<>> \in Seq({"GetState", "Set", "Shutdown"})
        /\ [wake |-> FALSE, readable |-> FALSE] \in [wake : BOOLEAN, readable : BOOLEAN]
    OBVIOUS
  <2> QED
    BY <2>1 DEF Init, TypeOK, Methods
<1>2. TypeOK /\ [Next]_vars => TypeOK'
  <2> SUFFICES ASSUME TypeOK, [Next]_vars PROVE TypeOK'
    OBVIOUS
  <2> USE DEF TypeOK
  <2>0. \A m \in Methods \ {"subscribe"} : Command(m) \in {"GetState", "Set", "Shutdown"}
    BY DEF Methods, Command
  <2>1. ASSUME NEW m \in Methods \ {"subscribe"}, SendCommand(m)
        PROVE channel' \in Seq({"GetState", "Set", "Shutdown"})
    BY <2>0, <2>1 DEF SendCommand
  <2>2. CASE \E m \in Methods \ {"subscribe"} : Start(m)
    <3>1. PICK m \in Methods \ {"subscribe"} : Start(m)
      BY <2>2
    <3>2. CASE SendCommand(m)
      BY <2>1, <3>1, <3>2 DEF Start, SendCommand
    <3>3. CASE ~SendCommand(m)
      BY <3>1, <3>3 DEF Start
    <3> QED
      BY <3>2, <3>3
  <2>3. CASE Notify
    BY <2>3 DEF Notify
  <2>4. CASE Return
    <3>1. CASE method' = "set" /\ SendCommand("set")
      <4>1. "set" \in Methods \ {"subscribe"}
        BY DEF Methods
      <4>2. channel' \in Seq({"GetState", "Set", "Shutdown"})
        BY <2>1, <3>1, <4>1
      <4> QED
        BY <2>4, <3>1, <4>1, <4>2 DEF Return, SendCommand
    <3>2. CASE ~(method' = "set" /\ SendCommand("set"))
      BY <2>4, <3>2 DEF Return
    <3> QED
      BY <3>1, <3>2
  <2>5. CASE Drop
    BY <2>5 DEF Drop
  <2>6. CASE DropSender
    BY <2>6 DEF DropSender
  <2>7. ASSUME End PROVE TypeOK'
    BY <2>7 DEF End
  <2>8. CASE InitThread
    BY <2>8 DEF InitThread
  <2>9. CASE ServeCommand
    <3>1. CASE End
      BY <2>7, <3>1
    <3>2. CASE ~End
      <4>1. /\ Answer /\ channel # <<>> /\ channel' = Tail(channel)
            /\ UNCHANGED <<thread, polled, sender, wake, readable, method, call>>
        BY <2>9, <3>2 DEF ServeCommand
      <4>2. reply' \in {"ok", "err"}
        BY <4>1 DEF Answer
      <4>3. unsent' \in BOOLEAN
        BY <4>1, Zenon DEF Answer
      <4>4. channel' \in Seq({"GetState", "Set", "Shutdown"})
        BY <4>1
      <4> QED
        BY <4>1, <4>2, <4>3, <4>4
    <3> QED
      BY <3>1, <3>2
  <2>10. CASE ChannelEmpty
    BY <2>7, <2>10 DEF ChannelEmpty
  <2>11. CASE Flush
    BY <2>7, <2>11 DEF Flush
  <2>12. CASE Poll
    BY <2>7, <2>12 DEF Poll
  <2>13. CASE Clear
    BY <2>13 DEF Clear
  <2>14. CASE Dispatch
    BY <2>7, <2>14 DEF Dispatch
  <2>15. CASE CompositorSends
    BY <2>15 DEF CompositorSends
  <2>16. CASE UNCHANGED vars
    BY <2>16 DEF vars
  <2> QED
    BY <2>2, <2>3, <2>4, <2>5, <2>6, <2>8, <2>9, <2>10, <2>11, <2>12, <2>13, <2>14,
       <2>15, <2>16 DEF Next
<1> QED
  BY <1>1, <1>2, PTL DEF Spec

(* The thread never sleeps on a command (CommandSender::send and the loop of *)
(* run_wayland_loop).  The invariant is inductive: the eventfd is cleared    *)
(* only on the way to the drain, and a command is only sent by a method that *)
(* still owes its wake-up.                                                   *)
THEOREM NoWakeupIsLost == Spec => []NoLostWakeup
<1>1. Init => NoLostWakeup
  BY DEF Init, NoLostWakeup
<1>2. TypeOK /\ NoLostWakeup /\ [Next]_vars => NoLostWakeup'
  <2> SUFFICES ASSUME TypeOK, NoLostWakeup, [Next]_vars PROVE NoLostWakeup'
    OBVIOUS
  <2> USE DEF NoLostWakeup
  <2>1. CASE \E m \in Methods \ {"subscribe"} : Start(m)
    BY <2>1 DEF Start, SendCommand, Receiving
  <2>2. CASE Notify
    BY <2>2 DEF Notify
  <2>3. CASE Return
    BY <2>3 DEF Return, SendCommand
  <2>4. CASE Drop
    BY <2>4 DEF Drop
  <2>5. CASE DropSender
    BY <2>5 DEF DropSender
  <2>6. CASE InitThread \/ ServeCommand \/ ChannelEmpty
    BY <2>6 DEF InitThread, ServeCommand, ChannelEmpty, End
  <2>7. CASE Flush \/ Poll
    BY <2>7 DEF Flush, Poll, End
  <2>8. CASE Clear \/ Dispatch
    BY <2>8 DEF Clear, Dispatch, End
  <2>9. CASE CompositorSends \/ UNCHANGED vars
    BY <2>9 DEF CompositorSends, vars
  <2> QED
    BY <2>1, <2>2, <2>3, <2>4, <2>5, <2>6, <2>7, <2>8, <2>9 DEF Next
<1> QED
  BY <1>1, <1>2, TypeInvariant, PTL DEF Spec

(* An answered set leaves the buffer before the thread sleeps                *)
(* (run_wayland_loop): the thread is between the answer and the flush, or    *)
(* has ended, as long as there is something in the buffer.                   *)
THEOREM NoSetIsForgotten == Spec => []NoUnsentSleep
<1>1. Init => NoUnsentSleep
  BY DEF Init, NoUnsentSleep
<1>2. NoUnsentSleep /\ [Next]_vars => NoUnsentSleep'
  <2> SUFFICES ASSUME NoUnsentSleep, [Next]_vars PROVE NoUnsentSleep'
    OBVIOUS
  <2> USE DEF NoUnsentSleep
  <2>1. CASE \E m \in Methods \ {"subscribe"} : Start(m)
    BY <2>1 DEF Start, SendCommand
  <2>2. CASE Notify \/ Return \/ Drop \/ DropSender
    BY <2>2 DEF Notify, Return, SendCommand, Drop, DropSender
  <2>3. CASE InitThread \/ ServeCommand
    BY <2>3 DEF InitThread, ServeCommand, Answer, End
  <2>4. CASE ChannelEmpty \/ Flush \/ Poll
    BY <2>4 DEF ChannelEmpty, Flush, Poll, End
  <2>5. CASE Clear \/ Dispatch
    BY <2>5 DEF Clear, Dispatch, End
  <2>6. CASE CompositorSends \/ UNCHANGED vars
    BY <2>6 DEF CompositorSends, vars
  <2> QED
    BY <2>1, <2>2, <2>3, <2>4, <2>5, <2>6 DEF Next
<1> QED
  BY <1>1, <1>2, PTL DEF Spec

-----------------------------------------------------------------------------
(* Where the command of a method is.  Until subscribe has its answer there   *)
(* is none; after that a method that waits has exactly one, in the channel,  *)
(* until it is answered.                                                     *)
OneCommand ==
  /\ method = "subscribe" => channel = <<>> /\ call # "notify"
  /\ method = "subscribe" /\ call = "await" /\ reply = "none" => thread = "init"
  /\ thread = "init" => method = "subscribe" /\ call = "await" /\ reply = "none"
  /\ call = "idle" => channel = <<>>
  /\ thread = "ended" => channel = <<>>
  /\ call \in {"notify", "await"} /\ method # "subscribe" =>
       IF reply = "none" THEN Len(channel) = 1 ELSE channel = <<>>

LEMMA CommandIsSingle == Spec => []OneCommand
<1>1. Init => OneCommand
  BY DEF Init, OneCommand
<1>2. TypeOK /\ OneCommand /\ [Next]_vars => OneCommand'
  <2> SUFFICES ASSUME TypeOK, OneCommand, [Next]_vars PROVE OneCommand'
    OBVIOUS
  <2> USE DEF OneCommand
  <2>0. channel = <<>> => \A m \in Methods : Len(Append(channel, Command(m))) = 1
    BY DEF TypeOK
  <2>1. ASSUME NEW m \in Methods \ {"subscribe"}, Start(m) PROVE OneCommand'
    BY <2>0, <2>1 DEF Start, SendCommand, Receiving
  <2>2. CASE Notify
    BY <2>2 DEF Notify, TypeOK
  <2>3. CASE Return
    <3>1. CASE method = "set_layout_name" /\ method' = "set" /\ SendCommand("set")
      <4>1. channel = <<>> /\ "set" \in Methods
        BY <2>3, <3>1 DEF Return, Methods
      <4>2. Len(channel') = 1 /\ method' = "set" /\ call' = "notify" /\ reply' = "none"
        BY <2>0, <3>1, <4>1 DEF SendCommand
      <4>3. thread' = thread /\ thread \notin {"init", "ended"}
        BY <2>3, <3>1 DEF Return, SendCommand, Receiving
      <4> QED
        BY <4>2, <4>3
    <3>2. CASE call' = "idle" /\ UNCHANGED <<channel, method, reply>>
      <4>1. channel = <<>> /\ thread' = thread /\ thread # "init"
        BY <2>3, <3>2 DEF Return
      <4> QED
        BY <3>2, <4>1
    <3> QED
      BY <2>3, <3>1, <3>2 DEF Return
  <2>4. CASE Drop
    BY <2>4 DEF Drop
  <2>5. CASE DropSender
    BY <2>5 DEF DropSender
  <2>6. ASSUME End, thread # "init" PROVE OneCommand'
    BY <2>6 DEF End, TypeOK
  <2>7. CASE InitThread
    BY <2>7 DEF InitThread, TypeOK
  <2>8. CASE ServeCommand
    <3>1. CASE End
      BY <2>6, <2>8, <3>1 DEF ServeCommand
    <3>2. CASE ~End
      <4>1. /\ channel # <<>> /\ channel' = Tail(channel)
            /\ reply' # "none"
            /\ UNCHANGED <<thread, method, call>>
        BY <2>8, <3>2 DEF ServeCommand, Answer
      <4>2. Len(channel) = 1 => Tail(channel) = <<>>
        BY <4>1 DEF TypeOK
      <4>3. call \in {"notify", "await"} => Len(channel) = 1
        BY <4>1 DEF TypeOK
      <4> QED
        BY <4>1, <4>2, <4>3
    <3> QED
      BY <3>1, <3>2
  <2>9. CASE ChannelEmpty \/ Flush \/ Poll
    BY <2>6, <2>9 DEF ChannelEmpty, Flush, Poll
  <2>10. CASE Clear \/ Dispatch
    BY <2>6, <2>10 DEF Clear, Dispatch
  <2>11. CASE CompositorSends \/ UNCHANGED vars
    BY <2>11 DEF CompositorSends, vars
  <2> QED
    BY <2>1, <2>2, <2>3, <2>4, <2>5, <2>7, <2>8, <2>9, <2>10, <2>11 DEF Next
<1> QED
  BY <1>1, <1>2, TypeInvariant, PTL DEF Spec

(* No call is orphaned: while a method waits without an answer, its command  *)
(* is in the channel (get, set and the oneshots of WaylandCommand).          *)
THEOREM NoCallIsOrphaned == Spec => []NoOrphanedCall
<1>1. OneCommand => NoOrphanedCall
  BY DEF OneCommand, NoOrphanedCall, Receiving
<1> QED
  BY <1>1, CommandIsSingle, PTL

(* A shutdown's command stays in the channel until the thread takes it and  *)
(* ends, and the method does not come back for another.                     *)
ShutdownIsQueued ==
  method = "shutdown" =>
    /\ call \in {"notify", "drop", "dropping", "gone"}
    /\ Receiving => channel = <<"Shutdown">>

LEMMA NextShutdownIsQueued == OneCommand /\ ShutdownIsQueued /\ [Next]_vars => ShutdownIsQueued'
<1> SUFFICES ASSUME OneCommand, ShutdownIsQueued, [Next]_vars, method' = "shutdown"
             PROVE  /\ call' \in {"notify", "drop", "dropping", "gone"}
                    /\ thread' # "ended" => channel' = <<"Shutdown">>
  BY DEF ShutdownIsQueued, Receiving
<1> USE DEF ShutdownIsQueued, Receiving
<1>1. ASSUME NEW m \in Methods \ {"subscribe"}, Start(m)
      PROVE  call' \in {"notify", "drop"} /\ (thread' # "ended" => channel' = <<"Shutdown">>)
  <2>1. m = "shutdown" /\ channel = <<>> /\ UNCHANGED thread
    BY <1>1 DEF Start, OneCommand
  <2>2. Append(<<>>, Command(m)) = <<"Shutdown">>
    BY <2>1 DEF Command
  <2> QED BY <1>1, <2>1, <2>2 DEF Start, SendCommand
<1>2. CASE Notify \/ Return \/ Drop \/ DropSender
  BY <1>2 DEF Notify, Return, SendCommand, Drop, DropSender
<1>3. CASE InitThread \/ ServeCommand \/ ChannelEmpty
  BY <1>3 DEF InitThread, ServeCommand, ChannelEmpty, End
<1>4. CASE Flush \/ Poll \/ Clear \/ Dispatch
  BY <1>4 DEF Flush, Poll, Clear, Dispatch, End
<1>5. CASE CompositorSends \/ UNCHANGED vars
  BY <1>5 DEF CompositorSends, vars
<1> QED BY <1>1, <1>2, <1>3, <1>4, <1>5 DEF Next

(* Whoever waits for the thread, waits for a thread that goes on: it does    *)
(* not sleep while a method awaits its answer, nor once a shutdown has       *)
(* written to the eventfd, however long the compositor is silent.            *)
ThreadIsAwake == Receiving /\ (thread = "poll" => wake)

WaitersKeepThreadAwake ==
  /\ call = "await" /\ reply = "none" => ThreadIsAwake
  /\ method = "shutdown" /\ call # "notify" /\ Receiving => ThreadIsAwake

THEOREM NobodyWaitsForASleeper == Spec => []WaitersKeepThreadAwake
<1>1. Init => ShutdownIsQueued
  BY DEF Init, ShutdownIsQueued
<1>2. ASSUME TypeOK, OneCommand, NoLostWakeup, ShutdownIsQueued
      PROVE  WaitersKeepThreadAwake
  <2>1. channel # <<>> /\ call # "notify" => ThreadIsAwake
    BY <1>2 DEF OneCommand, NoLostWakeup, ThreadIsAwake, Receiving
  <2>2. call = "await" /\ reply = "none" => ThreadIsAwake
    <3>1. CASE method = "subscribe"
      BY <1>2, <3>1 DEF OneCommand, ThreadIsAwake, Receiving
    <3>2. CASE method # "subscribe"
      BY <1>2, <2>1, <3>2 DEF OneCommand
    <3> QED BY <3>1, <3>2
  <2>3. method = "shutdown" /\ call # "notify" /\ Receiving => ThreadIsAwake
    BY <1>2, <2>1 DEF ShutdownIsQueued
  <2> QED BY <2>2, <2>3 DEF WaitersKeepThreadAwake
<1> QED
  BY <1>1, <1>2, NextShutdownIsQueued, TypeInvariant, CommandIsSingle, NoWakeupIsLost, PTL DEF Spec

-----------------------------------------------------------------------------
(* Each step of a set is one of MangoWake's, or leaves it alone: what holds  *)
(* of every method holds while values are parsed and layouts looked up (set, *)
(* and the thread's answers to it).                                          *)
THEOREM SetsAreCalls == SetSpec => Spec
<1>1. SetInit => Init
  BY DEF SetInit
<1>2. [SetNext]_<<vars, setVars>> => [Next]_vars
  <2> SUFFICES ASSUME [SetNext]_<<vars, setVars>> PROVE [Next]_vars
    OBVIOUS
  <2>1. \A m \in {"get", "set", "set_layout_name", "shutdown"} : m \in Methods \ {"subscribe"}
    BY DEF Methods
  <2>2. ASSUME NEW a \in Asked, StartSet(a) PROVE Next
    BY <2>1, <2>2 DEF StartSet, Next
  <2>3. ASSUME NEW a \in Asked, RefuseSet(a) PROVE UNCHANGED vars
    BY <2>3 DEF RefuseSet
  <2>4. ASSUME NEW m \in {"get", "shutdown"}, StartOther(m) PROVE Next
    BY <2>1, <2>4 DEF StartOther, Next
  <2>5. CASE Returns
    BY <2>5 DEF Returns, Next
  <2>6. CASE ThreadServes
    BY <2>6 DEF ThreadServes, Next
  <2>7. CASE \/ Notify \/ Drop \/ DropSender
             \/ InitThread \/ ChannelEmpty \/ Flush \/ Poll \/ Clear \/ Dispatch
             \/ CompositorSends
    BY <2>7 DEF Next
  <2>8. CASE UNCHANGED <<vars, setVars>>
    BY <2>8
  <2> QED
    BY <2>2, <2>3, <2>4, <2>5, <2>6, <2>7, <2>8 DEF SetNext
<1> QED
  BY <1>1, <1>2, PTL DEF SetSpec, Spec

-----------------------------------------------------------------------------
(* A power of two counts the subsets of a set with as many elements. *)
LEMMA PowerCounts ==
  ASSUME NEW n \in Nat
  PROVE  /\ IsFiniteSet(SUBSET (1..n)) /\ Cardinality(SUBSET (1..n)) = 2^n
         /\ 2^n \in Nat /\ 2^n # 0
<1>1. IsFiniteSet(1..n) /\ Cardinality(1..n) = n
  BY FS_Interval
<1>2. IsFiniteSet(SUBSET (1..n)) /\ Cardinality(SUBSET (1..n)) = 2^n
  BY <1>1, FS_SUBSET
<1>3. Cardinality(SUBSET (1..n)) # 0
  <2> DEFINE S == SUBSET (1..n)
  <2>1. S # {} /\ IsFiniteSet(S)
    BY <1>2
  <2> HIDE DEF S
  <2>2. Cardinality(S) # 0
    BY <2>1, FS_EmptySet
  <2> QED BY <2>2 DEF S
<1> QED BY <1>2, <1>3, FS_CardinalityType

LEMMA PowerGrows ==
  ASSUME NEW m \in Nat, NEW n \in Nat, m <= n
  PROVE  2^m <= 2^n
<1>1. SUBSET (1..m) \subseteq SUBSET (1..n)
  OBVIOUS
<1>2. Cardinality(SUBSET (1..m)) <= Cardinality(SUBSET (1..n))
  BY <1>1, PowerCounts, FS_Subset
<1> QED BY <1>2, PowerCounts

(* A number of 32 bits is one of 64, with a sign or without, and keeps its   *)
(* value when it is cut to 32; the mask of zero is empty.                    *)
LEMMA NarrowNumbers ==
  /\ U32 \subseteq Nat /\ U32 \subseteq U64 /\ U32 \subseteq I64 /\ U64 \subseteq Nat
  /\ \A n \in U32 : n % 2^Bits32 = n
  /\ 0 \in U32
  /\ Mask(0) = {}
<1>1. Bits32 \in Nat /\ Bits64 \in Nat /\ Bits64 - 1 \in Nat /\ Bits32 <= Bits64 - 1
  BY WidthsAssumption
<1>2. 2^Bits32 \in Nat /\ 2^(Bits64 - 1) \in Nat /\ 2^Bits64 \in Nat /\ 2^Bits32 # 0
  BY <1>1, PowerCounts
<1>3. 2^Bits32 <= 2^(Bits64 - 1) /\ 2^Bits32 <= 2^Bits64
  BY <1>1, PowerGrows
<1>4. U32 \subseteq U64 /\ U32 \subseteq I64 /\ U64 \subseteq Nat /\ U32 \subseteq Nat /\ 0 \in U32
  BY <1>2, <1>3 DEF U32, U64, I64
<1>5. \A n \in U32 : n % 2^Bits32 = n
  BY <1>2 DEF U32
<1>6. Mask(0) = {}
  <2> SUFFICES ASSUME NEW i \in Places PROVE (0 \div 2^i) % 2 # 1
    BY DEF Mask
  <2>1. i \in Nat
    BY <1>1 DEF Places
  <2>2. 2^i \in Nat /\ 2^i # 0
    BY <2>1, PowerCounts
  <2>3. 0 \div 2^i = 0
    BY <2>2
  <2> QED BY <2>3
<1> QED BY <1>4, <1>5, <1>6

(* What a conversion owes a scalar m that has become v: an integer is the    *)
(* one that was written, and one of 32 bits remains; a text stays, and truth.*)
Kept(v, m) ==
  /\ IsU64(v) => m[1] = "integer" /\ v[2] = m[2]
  /\ m[1] = "integer" /\ m[2] \in U32 => v[1] = "integer" /\ v[2] = m[2]
  /\ v[1] = "string" => m[1] = "string" /\ v[2] = m[2]

KeptTruth(v, m) == v = Truth(TRUE) <=> m = Truth(TRUE)

LEMMA KeptTwice ==
  ASSUME NEW v, NEW u, NEW m, Kept(v, u), Kept(u, m)
  PROVE  Kept(v, m) /\ (KeptTruth(v, u) /\ KeptTruth(u, m) => KeptTruth(v, m))
BY DEF Kept, KeptTruth, IsU64

LEMMA TruthIsBool == Truth(TRUE)[1] = "bool" /\ Truth(FALSE)[1] = "bool"
BY DEF Truth

(* A script that copies a scalar keeps it, or makes a float of an integer    *)
(* that Rhai does not have (json_to_dynamic, dynamic_to_json).               *)
LEMMA CopyKeepsScalars ==
  ASSUME NEW m, IsScalar(m)
  PROVE  /\ Kept(ScalarToJson(ScalarToDynamic(m)), m) /\ KeptTruth(ScalarToJson(ScalarToDynamic(m)), m)
         /\ ScalarToJson(ScalarToDynamic(m))[1] # "object"
         /\ m[1] = "string" => ScalarToJson(ScalarToDynamic(m)) = m
<1> DEFINE d == ScalarToDynamic(m)
           v == ScalarToJson(d)
<1> SUFFICES Kept(v, m) /\ KeptTruth(v, m) /\ v[1] # "object" /\ (m[1] = "string" => v = m)
  OBVIOUS
<1>1. CASE m[1] = "integer" /\ m[2] \in I64
  <2>1. d = <<"i64", m[2]>>
    BY <1>1 DEF ScalarToDynamic, NumberToDynamic
  <2>2. v = <<"integer", m[2]>>
    BY <2>1 DEF ScalarToJson, IntegerValue
  <2>3. v[1] = "integer" /\ v[2] = m[2]
    BY <2>2
  <2> HIDE DEF v
  <2> QED BY <1>1, <2>3, TruthIsBool DEF Kept, KeptTruth, IsU64
<1>2. CASE m[1] = "integer" /\ m[2] \notin I64
  <2>1. d = <<"f64", Nearest(m[2])>>
    BY <1>2 DEF ScalarToDynamic, NumberToDynamic
  <2>2. v = <<"float", Nearest(m[2])>>
    BY <2>1 DEF ScalarToJson, FloatValue
  <2>3. v[1] = "float"
    BY <2>2
  <2> HIDE DEF v
  <2> QED BY <1>2, <2>3, NarrowNumbers, TruthIsBool DEF Kept, KeptTruth, IsU64
<1>3. CASE m[1] = "float"
  <2>1. d = <<"f64", m[2]>>
    BY <1>3 DEF ScalarToDynamic
  <2>2. v = <<"float", m[2]>>
    BY <2>1 DEF ScalarToJson, FloatValue
  <2>3. v[1] = "float"
    BY <2>2
  <2> HIDE DEF v
  <2> QED BY <1>3, <2>3, TruthIsBool DEF Kept, KeptTruth, IsU64
<1>4. CASE m[1] = "null"
  <2>1. d = <<"unit", 0>>
    BY <1>4 DEF ScalarToDynamic
  <2>2. v = Null
    BY <2>1 DEF ScalarToJson
  <2>3. v[1] = "null"
    BY <2>2 DEF Null
  <2> HIDE DEF v
  <2> QED BY <1>4, <2>3, TruthIsBool DEF Kept, KeptTruth, IsU64
<1>5. CASE m[1] \in {"string", "bool"}
  <2>1. d = m
    BY <1>5 DEF ScalarToDynamic
  <2>2. v = m
    BY <1>5, <2>1 DEF ScalarToJson
  <2> QED BY <1>5, <2>2 DEF Kept, KeptTruth, IsU64
<1> QED BY <1>1, <1>2, <1>3, <1>4, <1>5 DEF IsScalar

(* So does a script that computes one. *)
LEMMA ScriptKeepsScalars ==
  ASSUME NEW d, IsRhaiScalar(d), NEW m, m = IF d[1] = "i64" THEN IntegerValue(d[2]) ELSE d
  PROVE  /\ Kept(ScalarToJson(d), m) /\ KeptTruth(ScalarToJson(d), m)
         /\ ScalarToJson(d)[1] # "object" /\ m[1] # "object"
         /\ m[1] = "string" => ScalarToJson(d) = m
<1> DEFINE v == ScalarToJson(d)
<1> SUFFICES /\ Kept(v, m) /\ KeptTruth(v, m) /\ v[1] # "object" /\ m[1] # "object"
             /\ (m[1] = "string" => v = m)
  OBVIOUS
<1>1. CASE d[1] = "i64"
  <2>1. v = <<"integer", d[2]>> /\ m = <<"integer", d[2]>>
    BY <1>1 DEF ScalarToJson, IntegerValue
  <2>2. v[1] = "integer" /\ m[1] = "integer" /\ v[2] = m[2]
    BY <2>1
  <2> HIDE DEF v
  <2> QED BY <2>2, TruthIsBool DEF Kept, KeptTruth, IsU64
<1>2. CASE d[1] = "f64"
  <2>1. v = <<"float", d[2]>>
    BY <1>2 DEF ScalarToJson, FloatValue
  <2>2. v[1] = "float" /\ m[1] = "f64"
    BY <1>2, <2>1
  <2> HIDE DEF v
  <2> QED BY <2>2, TruthIsBool DEF Kept, KeptTruth, IsU64
<1>3. CASE d[1] \in {"string", "bool"}
  <2>1. v = d /\ m = d
    BY <1>3 DEF ScalarToJson
  <2> HIDE DEF v
  <2> QED BY <1>3, <2>1 DEF Kept, KeptTruth, IsU64
<1>4. CASE d[1] \in {"unit", "char"}
  <2>1. v = Null
    BY <1>4 DEF ScalarToJson
  <2>2. v[1] = "null" /\ m[1] \in {"unit", "char"}
    BY <1>4, <2>1 DEF Null
  <2> HIDE DEF v
  <2> QED BY <2>2, TruthIsBool DEF Kept, KeptTruth, IsU64
<1> QED BY <1>1, <1>2, <1>3, <1>4 DEF IsRhaiScalar

(* The same of a whole value: the fields of an object one by one.            *)
KeptWhole(v, m) ==
  /\ v[1] = "object" <=> m[1] = "object"
  /\ IF m[1] = "object"
     THEN /\ DOMAIN v[2] = DOMAIN m[2]
          /\ \A f \in DOMAIN m[2] : Kept(v[2][f], m[2][f]) /\ KeptTruth(v[2][f], m[2][f])
     ELSE Kept(v, m)
  /\ m[1] = "string" /\ m[2] \notin {"True", "False"} => v[1] = "string" /\ v[2] = m[2]

(* A word of `msx set' is read as what was written (parse_value). *)
LEMMA WordsAreRead ==
  ASSUME NEW w, IsWord(w), NEW m,
         m = IF w[1] = "json" THEN w[2] ELSE IF w[1] = "digits" THEN IntegerValue(w[2]) ELSE Text(w[2])
  PROVE  KeptWhole(ParseValue(w), m) /\ IsJson(ParseValue(w))
<1> DEFINE v == ParseValue(w)
<1> SUFFICES KeptWhole(v, m) /\ IsJson(v)
  OBVIOUS
<1>1. ASSUME NEW n, v = Number(n) \/ v = ParsedNumber(n), m[1] = "integer", m[2] = n
      PROVE  KeptWhole(v, m) /\ IsJson(v)
  <2>1. v = <<"integer", n>> \/ (v = <<"float", Nearest(n)>> /\ n \notin I64)
    BY <1>1 DEF Number, ParsedNumber, IntegerValue, FloatValue
  <2>2. \/ v[1] = "integer" /\ v[2] = n
        \/ v[1] = "float" /\ n \notin I64
    BY <2>1
  <2> HIDE DEF v
  <2> QED BY <1>1, <2>2, NarrowNumbers DEF KeptWhole, Kept, IsU64, IsJson, IsScalar
<1>2. CASE w[1] = "json" /\ w[2][1] = "integer"
  <2>1. v = Number(m[2]) /\ m[1] = "integer"
    BY <1>2 DEF ParseValue
  <2> HIDE DEF v
  <2> QED BY <1>1, <2>1
<1>3. CASE w[1] = "json" /\ w[2][1] # "integer"
  <2>1. v = m /\ IsJson(m)
    BY <1>3 DEF ParseValue, IsWord
  <2> HIDE DEF v
  <2> QED BY <1>3, <2>1 DEF KeptWhole, Kept, KeptTruth, IsU64
<1>4. CASE w[1] = "digits"
  <2>1. v = ParsedNumber(w[2]) /\ m = <<"integer", w[2]>>
    BY <1>4 DEF ParseValue, IntegerValue
  <2>2. m[1] = "integer" /\ m[2] = w[2]
    BY <2>1
  <2> HIDE DEF v
  <2> QED BY <1>1, <2>1, <2>2
<1>5. CASE w[1] = "word"
  <2>1. m = <<"string", w[2]>>
    BY <1>5 DEF Text
  <2>2. m[1] = "string" /\ m[2] = w[2]
    BY <2>1
  <2>3. CASE w[2] \in {"True", "False"}
    <3>1. v = Truth(TRUE) \/ v = Truth(FALSE)
      BY <1>5, <2>3 DEF ParseValue
    <3>2. v[1] = "bool"
      <4> HIDE DEF v
      <4> QED BY <3>1, TruthIsBool
    <3> HIDE DEF v
    <3> QED BY <2>2, <2>3, <3>2 DEF KeptWhole, Kept, IsU64, IsJson, IsScalar
  <2>4. CASE w[2] \notin {"True", "False"}
    <3>1. v = m
      BY <1>5, <2>4 DEF ParseValue
    <3> HIDE DEF v
    <3> QED BY <2>2, <3>1 DEF KeptWhole, Kept, IsU64, IsJson, IsScalar
  <2> QED BY <2>3, <2>4
<1> QED BY <1>2, <1>3, <1>4, <1>5 DEF IsWord

(* A script that copies a value keeps it. *)
LEMMA CopiesAreKept ==
  ASSUME NEW u, IsJson(u), NEW m, KeptWhole(u, m)
  PROVE  KeptWhole(DynamicToJson(JsonToDynamic(u)), m)
<1> DEFINE v == DynamicToJson(JsonToDynamic(u))
<1> SUFFICES KeptWhole(v, m)
  OBVIOUS
<1>1. CASE u[1] = "object"
  <2>1. \A f \in DOMAIN u[2] : IsScalar(u[2][f])
    BY <1>1 DEF IsJson, IsScalar
  <2>2. JsonToDynamic(u) = <<"map", [f \in DOMAIN u[2] |-> ScalarToDynamic(u[2][f])]>>
    BY <1>1 DEF JsonToDynamic
  <2>3. v = <<"object", [f \in DOMAIN u[2] |-> ScalarToJson(ScalarToDynamic(u[2][f]))]>>
    <3> DEFINE g == [f \in DOMAIN u[2] |-> ScalarToDynamic(u[2][f])]
    <3>1. v = DynamicToJson(<<"map", g>>)
      BY <2>2
    <3>2. DynamicToJson(<<"map", g>>) = <<"object", [f \in DOMAIN g |-> ScalarToJson(g[f])]>>
      BY DEF DynamicToJson, Object
    <3>3. [f \in DOMAIN g |-> ScalarToJson(g[f])] = [f \in DOMAIN u[2] |-> ScalarToJson(ScalarToDynamic(u[2][f]))]
      OBVIOUS
    <3> HIDE DEF v, g
    <3> QED BY <3>1, <3>2, <3>3
  <2>4. /\ v[1] = "object" /\ DOMAIN v[2] = DOMAIN u[2]
        /\ \A f \in DOMAIN u[2] : v[2][f] = ScalarToJson(ScalarToDynamic(u[2][f]))
    BY <2>3
  <2> HIDE DEF v
  <2>5. \A f \in DOMAIN u[2] : Kept(v[2][f], u[2][f]) /\ KeptTruth(v[2][f], u[2][f])
    BY <2>1, <2>4, CopyKeepsScalars
  <2>6. m[1] = "object" /\ DOMAIN u[2] = DOMAIN m[2]
        /\ \A f \in DOMAIN m[2] : Kept(u[2][f], m[2][f]) /\ KeptTruth(u[2][f], m[2][f])
    BY <1>1 DEF KeptWhole
  <2>7. \A f \in DOMAIN m[2] : Kept(v[2][f], m[2][f]) /\ KeptTruth(v[2][f], m[2][f])
    BY <2>5, <2>6, KeptTwice
  <2> QED BY <2>4, <2>6, <2>7 DEF KeptWhole
<1>2. CASE u[1] # "object"
  <2>1. IsScalar(u) /\ m[1] # "object" /\ Kept(u, m)
    BY <1>2 DEF IsJson, KeptWhole
  <2>2. JsonToDynamic(u) = ScalarToDynamic(u)
    BY <1>2 DEF JsonToDynamic
  <2>3. ScalarToDynamic(u)[1] # "map"
    BY <2>1 DEF IsScalar, ScalarToDynamic, NumberToDynamic
  <2>4. v = ScalarToJson(ScalarToDynamic(u))
    BY <2>2, <2>3 DEF DynamicToJson
  <2> HIDE DEF v
  <2>5. Kept(v, u) /\ v[1] # "object" /\ (u[1] = "string" => v = u)
    BY <2>1, <2>4, CopyKeepsScalars
  <2>6. Kept(v, m)
    BY <2>1, <2>5, KeptTwice
  <2>7. m[1] = "string" /\ m[2] \notin {"True", "False"} => u[1] = "string" /\ u[2] = m[2]
    BY DEF KeptWhole
  <2> QED BY <2>1, <2>5, <2>6, <2>7 DEF KeptWhole
<1> QED BY <1>1, <1>2

(* What reaches the adapter is what was meant, whichever way it came. *)
LEMMA ValuesAreKept ==
  ASSUME NEW a \in Asked
  PROVE  KeptWhole(ValueOf(a), Meant(a))
<1>1. CASE a.via \in {"msx", "copy"} /\ IsWord(a.word)
  <2> DEFINE m == IF a.word[1] = "json" THEN a.word[2]
                  ELSE IF a.word[1] = "digits" THEN IntegerValue(a.word[2]) ELSE Text(a.word[2])
             u == ParseValue(a.word)
  <2>1. Meant(a) = m
    BY <1>1 DEF Meant, IsWord
  <2>2. KeptWhole(u, m) /\ IsJson(u)
    BY <1>1, WordsAreRead
  <2>3. ValueOf(a) = u \/ ValueOf(a) = DynamicToJson(JsonToDynamic(u))
    BY <1>1 DEF ValueOf
  <2> HIDE DEF m, u
  <2> QED BY <2>1, <2>2, <2>3, CopiesAreKept
<1>2. CASE a.via = "script" /\ IsRhaiScalar(a.word)
  <2> DEFINE d == a.word
             m == IF d[1] = "i64" THEN IntegerValue(d[2]) ELSE d
  <2>1. Meant(a) = m
    BY <1>2 DEF Meant, IsRhaiScalar
  <2>2. ValueOf(a) = ScalarToJson(d)
    BY <1>2 DEF ValueOf, DynamicToJson, IsRhaiScalar
  <2>3. /\ Kept(ScalarToJson(d), m)
        /\ ScalarToJson(d)[1] # "object" /\ m[1] # "object"
        /\ m[1] = "string" => ScalarToJson(d) = m
    <3> HIDE DEF d
    <3>1. IsRhaiScalar(d)
      BY <1>2 DEF d
    <3> QED BY <3>1, ScriptKeepsScalars
  <2> HIDE DEF m, d
  <2> QED BY <2>1, <2>2, <2>3 DEF KeptWhole
<1>3. CASE a.via = "script" /\ ~IsRhaiScalar(a.word) /\ IsDynamic(a.word)
  <2> DEFINE e == a.word[2]
             g == [f \in DOMAIN e |-> IF e[f][1] = "i64" THEN IntegerValue(e[f][2]) ELSE e[f]]
             h == [f \in DOMAIN e |-> ScalarToJson(e[f])]
  <2>1. a.word[1] = "map" /\ \A f \in DOMAIN e : IsRhaiScalar(e[f])
    BY <1>3 DEF IsDynamic
  <2>2. Meant(a) = <<"object", g>>
    BY <2>1 DEF Meant, Object
  <2>3. ValueOf(a) = <<"object", h>>
    BY <1>3, <2>1 DEF ValueOf, DynamicToJson, Object
  <2>4. \A f \in DOMAIN e : Kept(h[f], g[f]) /\ KeptTruth(h[f], g[f])
    BY <2>1, ScriptKeepsScalars
  <2>5. DOMAIN h = DOMAIN e /\ DOMAIN g = DOMAIN e
    OBVIOUS
  <2> HIDE DEF g, h, e
  <2>6. Meant(a)[1] = "object" /\ Meant(a)[2] = g /\ ValueOf(a)[1] = "object" /\ ValueOf(a)[2] = h
    BY <2>2, <2>3
  <2> QED BY <2>4, <2>5, <2>6 DEF KeptWhole
<1> QED BY <1>1, <1>2, <1>3, AskedAssumption

-----------------------------------------------------------------------------
(* The content of an integer that fits is not changed. *)
LEMMA FittingIsLow ==
  ASSUME NEW v, FitsU32(v)
  PROVE  Low(v) = v[2] /\ v[1] = "integer" /\ IsU64(v)
BY NarrowNumbers DEF FitsU32, Low, IsU64

LEMMA FittingIsMeant ==
  ASSUME NEW v, NEW m, Kept(v, m)
  PROVE  /\ FitsU32(v) => Low(v) = m[2]
         /\ m[1] = "integer" /\ m[2] \in U32 => FitsU32(v)
BY FittingIsLow, NarrowNumbers DEF Kept, FitsU32, IsU64

LEMMA NothingDoesNotFit == ~FitsU32(Absent)
BY DEF FitsU32, IsU64, Absent

LEMMA EffectOfTags ==
  ASSUME NEW n, NEW b \in BOOLEAN, NEW S
  PROVE  Effect(<<"set_tags", n, b>>, S) = <<"tags", IF b THEN Flip(S, Mask(n)) ELSE Mask(n)>>
<1>1. CASE b = TRUE
  <2> DEFINE r == <<"set_tags", n, TRUE>>
  <2>1. r[1] = "set_tags" /\ r[2] = n /\ r[3]
    OBVIOUS
  <2> HIDE DEF r
  <2>2. Effect(r, S) = <<"tags", Flip(S, Mask(n))>>
    BY <2>1 DEF Effect
  <2> QED BY <1>1, <2>2 DEF r
<1>2. CASE b = FALSE
  <2> DEFINE r == <<"set_tags", n, FALSE>>
  <2>1. r[1] = "set_tags" /\ r[2] = n /\ ~r[3]
    OBVIOUS
  <2> HIDE DEF r
  <2>2. Effect(r, S) = <<"tags", Mask(n)>>
    BY <2>1 DEF Effect
  <2> QED BY <1>2, <2>2 DEF r
<1> QED BY <1>1, <1>2

LEMMA EffectOfMasks ==
  ASSUME NEW n, NEW k, NEW S
  PROVE  Effect(<<"set_client_tags", n, k>>, S) = <<"client_tags", Flip(S \cap Mask(n), Mask(k))>>
<1> DEFINE r == <<"set_client_tags", n, k>>
<1>1. r[1] = "set_client_tags" /\ r[2] = n /\ r[3] = k
  OBVIOUS
<1> HIDE DEF r
<1>2. Effect(r, S) = <<"client_tags", Flip(S \cap Mask(n), Mask(k))>>
  BY <1>1 DEF Effect
<1> QED BY <1>2 DEF r

(* The tags of the output become what was meant (parse_tags_value). *)
LEMMA TagsAsMeant ==
  ASSUME NEW v, NEW m, KeptWhole(v, m), NEW S
  PROVE  /\ TagsRequest(v) # Refused => Effect(TagsRequest(v), S) = Wished("tags", m, S)
         /\ TagsRequest(v) = Refused => ~(m[1] = "integer" /\ m[2] \in U32)
<1> DEFINE mask == IF v[1] # "object" THEN v
                   ELSE IF "tagmask" \in DOMAIN v[2] THEN v[2]["tagmask"] ELSE Field(v, "tags")
           toggle == v[1] = "object" /\ Field(v, "toggle") = Truth(TRUE)
           new == IF m[1] # "object" THEN Mask(m[2])
                  ELSE Mask((IF "tagmask" \in DOMAIN m[2] THEN m[2]["tagmask"] ELSE m[2]["tags"])[2])
<1>1. TagsRequest(v) = IF FitsU32(mask) THEN <<"set_tags", Low(mask), toggle>> ELSE Refused
  BY DEF TagsRequest
<1>2. toggle <=> m[1] = "object" /\ Field(m, "toggle") = Truth(TRUE)
  <2>1. CASE m[1] = "object"
    <3>1. Absent # Truth(TRUE)
      <4>1. Absent[1] = "absent"
        BY DEF Absent
      <4> QED BY <4>1, TruthIsBool
    <3>2. v[1] = "object" /\ DOMAIN v[2] = DOMAIN m[2]
      BY <2>1 DEF KeptWhole
    <3>3. CASE "toggle" \in DOMAIN m[2]
      <4>1. KeptTruth(v[2]["toggle"], m[2]["toggle"])
        BY <2>1, <3>3 DEF KeptWhole
      <4> QED BY <2>1, <3>2, <3>3, <4>1 DEF Field, KeptTruth
    <3>4. CASE "toggle" \notin DOMAIN m[2]
      BY <2>1, <3>1, <3>2, <3>4 DEF Field
    <3> QED BY <3>3, <3>4
  <2>2. CASE m[1] # "object"
    BY <2>2 DEF KeptWhole
  <2> QED BY <2>1, <2>2
<1>3. FitsU32(mask) => Mask(Low(mask)) = new
  <2>1. CASE m[1] = "object"
    <3>1. \A f \in DOMAIN m[2] : FitsU32(v[2][f]) => Low(v[2][f]) = m[2][f][2]
      BY <2>1, FittingIsMeant DEF KeptWhole
    <3>2. v[1] = "object" /\ DOMAIN v[2] = DOMAIN m[2]
      BY <2>1 DEF KeptWhole
    <3> QED BY <2>1, <3>1, <3>2, NothingDoesNotFit DEF Field
  <2>2. CASE m[1] # "object"
    BY <2>2, FittingIsMeant DEF KeptWhole
  <2> QED BY <2>1, <2>2
<1>4. m[1] = "integer" /\ m[2] \in U32 => FitsU32(mask)
  BY FittingIsMeant DEF KeptWhole
<1>5. Wished("tags", m, S) = <<"tags", IF toggle THEN Flip(S, new) ELSE new>>
  <2>1. CASE m[1] # "object"
    BY <1>2, <2>1 DEF Wished
  <2>2. CASE m[1] = "object"
    BY <1>2, <2>2 DEF Wished
  <2> QED BY <2>1, <2>2
<1>6. toggle \in BOOLEAN
  OBVIOUS
<1> HIDE DEF mask, toggle, new
<1>7. Effect(<<"set_tags", Low(mask), toggle>>, S) = <<"tags", IF toggle THEN Flip(S, Mask(Low(mask))) ELSE Mask(Low(mask))>>
  BY <1>6, EffectOfTags
<1>8. <<"set_tags", Low(mask), toggle>> # Refused
  BY DEF Refused
<1>9. CASE FitsU32(mask)
  <2>1. Mask(Low(mask)) = new /\ TagsRequest(v) = <<"set_tags", Low(mask), toggle>>
    BY <1>1, <1>3, <1>9
  <2> QED BY <1>5, <1>7, <1>8, <2>1
<1> QED BY <1>1, <1>4, <1>9

LEMMA MaskSet ==
  ASSUME NEW n, NEW S
  PROVE  Flip(S \cap Mask(0), Mask(n)) = Mask(n)
BY NarrowNumbers DEF Flip

(* What two masks do to the tags of a client. *)
LEMMA MasksAsMeant ==
  ASSUME NEW v, NEW w, NEW S
  PROVE  /\ Masks(v, w) # Refused <=> FitsU32(v) /\ FitsU32(w)
         /\ Masks(v, w) # Refused =>
              Effect(Masks(v, w), S) = <<"client_tags", Flip(S \cap Mask(Low(v)), Mask(Low(w)))>>
<1> DEFINE r == <<"set_client_tags", Low(v), Low(w)>>
<1>1. r # Refused
  BY DEF Refused
<1>2. Masks(v, w) = IF FitsU32(v) /\ FitsU32(w) THEN r ELSE Refused
  BY DEF Masks
<1>3. Effect(r, S) = <<"client_tags", Flip(S \cap Mask(Low(v)), Mask(Low(w)))>>
  BY EffectOfMasks
<1> HIDE DEF r
<1> QED BY <1>1, <1>2, <1>3

LEMMA MaskAsMeant ==
  ASSUME NEW v, NEW m, Kept(v, m), NEW S
  PROVE  /\ Masks(IntegerValue(0), v) # Refused =>
              Effect(Masks(IntegerValue(0), v), S) = <<"client_tags", Mask(m[2])>>
         /\ m[1] = "integer" /\ m[2] \in U32 => Masks(IntegerValue(0), v) # Refused
<1>1. FitsU32(IntegerValue(0)) /\ Low(IntegerValue(0)) = 0
  BY NarrowNumbers DEF FitsU32, Low, IsU64, IntegerValue
<1>2. Flip(S \cap Mask(0), Mask(m[2])) = Mask(m[2])
  BY MaskSet
<1> QED BY <1>1, <1>2, MasksAsMeant, FittingIsMeant

(* The tags of the client become what was meant (parse_client_tags_value). *)
LEMMA ClientTagsAsMeant ==
  ASSUME NEW v, NEW m, KeptWhole(v, m), NEW S
  PROVE  /\ ClientTagsRequest(v) # Refused => Effect(ClientTagsRequest(v), S) = Wished("client_tags", m, S)
         /\ ClientTagsRequest(v) = Refused => ~(m[1] = "integer" /\ m[2] \in U32)
<1>1. CASE m[1] # "object"
  <2>1. v[1] # "object" /\ Kept(v, m)
    BY <1>1 DEF KeptWhole
  <2>2. ClientTagsRequest(v) = Masks(IntegerValue(0), v)
    BY <2>1 DEF ClientTagsRequest
  <2>3. Wished("client_tags", m, S) = <<"client_tags", Mask(m[2])>>
    BY <1>1 DEF Wished
  <2> QED BY <2>1, <2>2, <2>3, MaskAsMeant
<1>2. CASE m[1] = "object"
  <2>1. /\ v[1] = "object" /\ DOMAIN v[2] = DOMAIN m[2]
        /\ \A f \in DOMAIN m[2] : Kept(v[2][f], m[2][f])
    BY <1>2 DEF KeptWhole
  <2>2. CASE "tags" \in DOMAIN m[2]
    <3>1. ClientTagsRequest(v) = Masks(IntegerValue(0), v[2]["tags"])
      BY <2>1, <2>2 DEF ClientTagsRequest
    <3>2. Wished("client_tags", m, S) = <<"client_tags", Mask(m[2]["tags"][2])>>
      BY <1>2, <2>2 DEF Wished
    <3> QED BY <1>2, <2>1, <2>2, <3>1, <3>2, MaskAsMeant
  <2>3. CASE "tags" \notin DOMAIN m[2]
    <3> DEFINE and == Field(v, "and_tags")
               xor == Field(v, "xor_tags")
    <3>1. ClientTagsRequest(v) = Masks(and, xor)
      BY <2>1, <2>3 DEF ClientTagsRequest
    <3>2. Wished("client_tags", m, S) = <<"client_tags", Flip(S \cap Mask(m[2]["and_tags"][2]), Mask(m[2]["xor_tags"][2]))>>
      BY <1>2, <2>3 DEF Wished
    <3>3. FitsU32(and) => Low(and) = m[2]["and_tags"][2]
      BY <2>1, FittingIsMeant, NothingDoesNotFit DEF Field
    <3>4. FitsU32(xor) => Low(xor) = m[2]["xor_tags"][2]
      BY <2>1, FittingIsMeant, NothingDoesNotFit DEF Field
    <3> HIDE DEF and, xor
    <3> QED BY <1>2, <3>1, <3>2, <3>3, <3>4, MasksAsMeant
  <2> QED BY <2>2, <2>3
<1> QED BY <1>1, <1>2

(* The layout with an index is as meant, or the index did not fit. *)
LEMMA LayoutAsMeant ==
  ASSUME NEW v, NEW m, KeptWhole(v, m)
  PROVE  /\ LayoutRequest(v) # Refused =>
              \/ m[2] \in U32 /\ \A S : Effect(LayoutRequest(v), S) = Wished("layout", m, S)
              \/ m[2] \notin U32 /\ LayoutRequest(v) = <<"set_layout", m[2] % 2^Bits32>>
         /\ LayoutRequest(v) = Refused => ~(m[1] = "integer" /\ m[2] \in U32)
<1> DEFINE r == <<"set_layout", Low(v)>>
<1>1. r # Refused
  BY DEF Refused
<1>2. LayoutRequest(v) = IF IsU64(v) THEN r ELSE Refused
  BY DEF LayoutRequest
<1>3. \A S : Effect(r, S) = <<"layout", Low(v)>>
  <2>1. r[1] = "set_layout" /\ r[2] = Low(v)
    OBVIOUS
  <2> HIDE DEF r
  <2> QED BY <2>1 DEF Effect
<1>4. IsU64(v) => v[1] = "integer" /\ m[1] # "object"
  BY DEF KeptWhole, IsU64
<1>5. IsU64(v) => Low(v) = m[2] % 2^Bits32
  BY <1>4 DEF KeptWhole, Kept, Low
<1>6. \A S : Wished("layout", m, S) = <<"layout", m[2]>>
  BY DEF Wished
<1>8. IsU64(v) /\ m[2] \in U32 => Low(v) = m[2]
  BY <1>4, FittingIsMeant DEF KeptWhole, Kept, FitsU32
<1>7. m[1] = "integer" /\ m[2] \in U32 => IsU64(v)
  BY NarrowNumbers DEF KeptWhole, Kept, IsU64
<1>9. Low(v) = m[2] % 2^Bits32 => r = <<"set_layout", m[2] % 2^Bits32>>
  OBVIOUS
<1> HIDE DEF r
<1> QED BY <1>1, <1>2, <1>3, <1>5, <1>6, <1>7, <1>8, <1>9

-----------------------------------------------------------------------------
(* A set of natural numbers that is not empty has a least one. *)
LEMMA LeastOf ==
  ASSUME NEW S \in SUBSET Nat, S # {}
  PROVE  \E n \in S : \A m \in S : n <= m
<1> DEFINE R == OpToRel(<, Nat)
<1>1. IsWellFoundedOn(R, Nat)
  BY NatLessThanWellFounded, Zenon
<1>2. R = {p \in Nat \X Nat : p[1] < p[2]}
  BY DEF OpToRel
<1> HIDE DEF R
<1>3. PICK n \in S : \A m \in S : <<m, n>> \notin R
  BY <1>1, WFMin
<1>4. ASSUME NEW m \in S PROVE n <= m
  <2>1. <<m, n>> \in Nat \X Nat /\ <<m, n>>[1] = m /\ <<m, n>>[2] = n
    OBVIOUS
  <2>2. ~(m < n)
    BY <1>2, <1>3, <2>1
  <2> QED BY <2>2
<1> QED BY <1>4

(* A layout matches by its code or by its name (layout_matches), so that one *)
(* is found if there is one.                                                 *)
LEMMA LayoutFound ==
  ASSUME NEW w
  PROVE  /\ LayoutNamed(w) = Refused <=> Called(w) = {}
         /\ LayoutNamed(w) # Refused => LayoutNamed(w) \in {<<"set_layout", i - 1>> : i \in Called(w)}
<1> DEFINE matching == {i \in DOMAIN Layouts : LayoutMatches(Layouts[i], w)}
           first == CHOOSE i \in matching : \A j \in matching : i <= j
<1>1. ASSUME NEW code
      PROVE  LayoutMatches(code, w) <=>
               SameWord(code, w) \/ SameWord(NameOfLayout(code), NameOfLayout(w))
  BY LayoutsAssumption DEF LayoutMatches, NameOfLayout, SameWord
<1>2. matching = Called(w)
  BY <1>1 DEF Called
<1>3. matching \subseteq Nat
  BY LayoutsAssumption
<1>4. LayoutNamed(w) = IF matching = {} THEN Refused ELSE <<"set_layout", first - 1>>
  BY DEF LayoutNamed
<1>5. \A n : <<"set_layout", n>> # Refused
  BY DEF Refused
<1> HIDE DEF matching
<1>6. matching # {} => first \in matching
  BY <1>3, LeastOf
<1> HIDE DEF first
<1> QED BY <1>2, <1>4, <1>5, <1>6

-----------------------------------------------------------------------------
(* What the compositor is to get, or the refusal: the index of a layout is   *)
(* only known when its name has been looked up.                              *)
Result(a) == IF Parsed[a] # Refused /\ a.key = "layout_name" THEN LayoutNamed(Parsed[a][2]) ELSE Parsed[a]

(* What the parsing makes of a set is what was meant. *)
LEMMA ResultAsMeant ==
  ASSUME NEW a \in Asked
  PROVE  /\ Result(a) # Refused =>
              IF a.key = "layout_name"
              THEN Result(a) \in {<<"set_layout", i - 1>> : i \in Called(Meant(a)[2])}
              ELSE \/ \A S \in SUBSET Places : Effect(Result(a), S) = Wished(a.key, Meant(a), S)
                   \/ /\ a.key = "layout" /\ Meant(a)[2] \notin U32
                      /\ Result(a) = <<"set_layout", Meant(a)[2] % 2^Bits32>>
         /\ Result(a) = Refused =>
              IF a.key = "layout_name"
              THEN Meant(a)[1] = "string" /\ Meant(a)[2] \notin {"True", "False"} => Called(Meant(a)[2]) = {}
              ELSE ~(Meant(a)[1] = "integer" /\ Meant(a)[2] \in U32)
<1> DEFINE v == ValueOf(a)
           m == Meant(a)
           p == Parsed[a]
<1>1. KeptWhole(v, m)
  BY ValuesAreKept
<1>2. p = Parse(a.key, v)
  BY DEF Parsed
<1> HIDE DEF v, m
<1>3. CASE a.key = "tags"
  <2>1. p = TagsRequest(v)
    BY <1>2, <1>3 DEF Parse
  <2> HIDE DEF p
  <2>2. Result(a) = p
    BY <1>3 DEF Result, p
  <2> QED BY <1>1, <1>3, <2>1, <2>2, TagsAsMeant DEF m
<1>4. CASE a.key = "client_tags"
  <2>1. p = ClientTagsRequest(v)
    BY <1>2, <1>4 DEF Parse
  <2> HIDE DEF p
  <2>2. Result(a) = p
    BY <1>4 DEF Result, p
  <2> QED BY <1>1, <1>4, <2>1, <2>2, ClientTagsAsMeant DEF m
<1>5. CASE a.key = "layout"
  <2>1. p = LayoutRequest(v)
    BY <1>2, <1>5 DEF Parse
  <2> HIDE DEF p
  <2>2. Result(a) = p
    BY <1>5 DEF Result, p
  <2> QED BY <1>1, <1>5, <2>1, <2>2, LayoutAsMeant DEF m
<1>6. CASE a.key = "layout_name"
  <2>1. p = IF v[1] = "string" THEN v ELSE Refused
    BY <1>2, <1>6 DEF Parse
  <2> HIDE DEF p
  <2>2. Result(a) = IF p # Refused THEN LayoutNamed(p[2]) ELSE p
    BY <1>6 DEF Result, p
  <2>3. v[1] = "string" => v # Refused
    BY DEF Refused
  <2>4. v[1] = "string" => v[2] = m[2]
    BY <1>1 DEF KeptWhole, Kept
  <2>5. m[1] = "string" /\ m[2] \notin {"True", "False"} => v[1] = "string"
    BY <1>1 DEF KeptWhole
  <2> QED BY <1>6, <2>1, <2>2, <2>3, <2>4, <2>5, LayoutFound DEF m
<1> QED BY <1>3, <1>4, <1>5, <1>6, AskedAssumption

(* The command in the channel is that of the method, which waits for it      *)
(* unless it is a shutdown; ...                                              *)
ChannelInv ==
  channel = <<>> \/ (channel = <<Command(method)>> /\ (method = "shutdown" \/ call \in {"notify", "await"}))

(* ... a set that runs carries what its value was parsed to, and so does the *)
(* request that the compositor gets.                                         *)
CarriedInv ==
  /\ call \in {"notify", "await"} /\ method \in {"set", "set_layout_name"} =>
       /\ asked \in Asked /\ Parsed[asked] # Refused
       /\ method = "set_layout_name" => asked.key = "layout_name" /\ request = Parsed[asked]
       /\ method = "set" => request = Result(asked)
  /\ outcome # None => asked \in Asked /\ outcome = Result(asked)

LEMMA ChannelNext ==
  ASSUME TypeOK, OneCommand, ChannelInv, [Next]_vars
  PROVE  ChannelInv'
<1>1. ASSUME NEW m, SendCommand(m), method' = m, channel = <<>> PROVE ChannelInv'
  <2>1. channel' = <<Command(m)>> /\ call' = "notify"
    BY <1>1 DEF SendCommand
  <2> QED BY <1>1, <2>1 DEF ChannelInv
<1>2. ASSUME End PROVE ChannelInv'
  BY <1>2 DEF End, ChannelInv
<1>3. ASSUME UNCHANGED <<channel, method, call>> PROVE ChannelInv'
  BY <1>3 DEF ChannelInv
<1>4. ASSUME NEW m \in Methods \ {"subscribe"}, Start(m) PROVE ChannelInv'
  <2>1. channel = <<>>
    BY <1>4 DEF Start, OneCommand
  <2>2. method' = m /\ (SendCommand(m) \/ channel' = channel)
    BY <1>4 DEF Start
  <2>3. CASE SendCommand(m)
    BY <1>1, <2>1, <2>2, <2>3
  <2>4. CASE channel' = channel
    BY <2>1, <2>4 DEF ChannelInv
  <2> QED BY <2>2, <2>3, <2>4
<1>5. CASE Notify
  BY <1>5 DEF Notify, ChannelInv
<1>6. CASE Return
  <2>1. channel = <<>>
    BY <1>6 DEF Return, OneCommand
  <2>2. CASE method' = "set" /\ SendCommand("set")
    BY <1>1, <2>1, <2>2
  <2>3. CASE channel' = channel
    BY <2>1, <2>3 DEF ChannelInv
  <2> QED BY <1>6, <2>2, <2>3 DEF Return
<1>7. CASE Drop
  BY <1>7 DEF Drop, ChannelInv, OneCommand
<1>8. CASE DropSender
  BY <1>8 DEF DropSender, ChannelInv
<1>9. CASE InitThread
  BY <1>3, <1>9 DEF InitThread
<1>10. CASE ServeCommand
  <2>1. CASE channel' = Tail(channel) /\ channel # <<>>
    <3>1. PICK c : channel = <<c>>
      BY <2>1 DEF ChannelInv
    <3>2. channel' = <<>>
      BY <2>1, <3>1
    <3> QED BY <3>2 DEF ChannelInv
  <2> QED BY <1>2, <1>10, <2>1 DEF ServeCommand
<1>11. CASE ChannelEmpty
  BY <1>2, <1>3, <1>11 DEF ChannelEmpty
<1>12. CASE Flush
  BY <1>2, <1>3, <1>12 DEF Flush
<1>13. CASE Poll
  BY <1>2, <1>3, <1>13 DEF Poll
<1>14. CASE Clear
  BY <1>3, <1>14 DEF Clear
<1>15. CASE Dispatch
  BY <1>2, <1>3, <1>15 DEF Dispatch
<1>16. CASE CompositorSends \/ UNCHANGED vars
  BY <1>3, <1>16 DEF CompositorSends, vars
<1> QED BY <1>4, <1>5, <1>6, <1>7, <1>8, <1>9, <1>10, <1>11, <1>12, <1>13, <1>14, <1>15, <1>16 DEF Next

LEMMA CarriedNext ==
  ASSUME TypeOK, OneCommand, ChannelInv, CarriedInv, [SetNext]_<<vars, setVars>>
  PROVE  CarriedInv'
<1>1. ASSUME UNCHANGED <<method, setVars>>, call' \in {"notify", "await"} => call' = call \/ call = "notify"
      PROVE  CarriedInv'
  BY <1>1 DEF CarriedInv, setVars
<1>2. ASSUME End, UNCHANGED setVars PROVE CarriedInv'
  BY <1>1, <1>2 DEF End
<1>3. ASSUME NEW a \in Asked, StartSet(a) PROVE CarriedInv'
  <2>1. /\ asked' = a /\ request' = Parsed[a] /\ outcome' = None /\ Parsed[a] # Refused
        /\ method' = IF a.key = "layout_name" THEN "set_layout_name" ELSE "set"
    BY <1>3 DEF StartSet, Start
  <2>2. a.key # "layout_name" => Result(a) = Parsed[a]
    BY DEF Result
  <2> QED BY <2>1, <2>2 DEF CarriedInv
<1>4. ASSUME NEW a \in Asked, RefuseSet(a) PROVE CarriedInv'
  <2>1. /\ asked' = a /\ outcome' = Refused /\ Parsed[a] = Refused
        /\ call' = "idle" /\ method' = method
    BY <1>4 DEF RefuseSet, vars
  <2>2. Result(a) = Refused
    BY <2>1 DEF Result
  <2> QED BY <2>1, <2>2 DEF CarriedInv
<1>5. ASSUME NEW m \in {"get", "shutdown"}, StartOther(m) PROVE CarriedInv'
  BY <1>5 DEF StartOther, Start, CarriedInv
<1>6. CASE Returns
  <2> DEFINE found == LayoutNamed(request[2])
             looksUp == method = "set_layout_name" /\ reply = "ok"
  <2>1. call = "await" /\ (call' = "idle" \/ (call' = "notify" /\ method' = "set" /\ looksUp /\ Receiving))
    BY <1>6 DEF Returns, Return, SendCommand
  <2>2. looksUp => asked \in Asked /\ Result(asked) = found
    BY <2>1 DEF CarriedInv, Result
  <2> HIDE DEF found
  <2>3. CASE looksUp /\ found = Refused /\ call' = "idle" /\ asked' = asked /\ outcome' = Refused
    BY <2>2, <2>3 DEF CarriedInv
  <2>4. CASE looksUp /\ found # Refused /\ call' = "notify" /\ asked' = asked /\ request' = found /\ outcome' = outcome
    <3>1. method' = "set" /\ asked' \in Asked /\ Parsed[asked'] # Refused /\ request' = Result(asked')
      BY <2>1, <2>2, <2>4 DEF CarriedInv
    <3>2. outcome' # None => outcome' = Result(asked')
      BY <2>4 DEF CarriedInv
    <3> QED BY <3>1, <3>2 DEF CarriedInv
  <2>5. CASE (looksUp => ~Receiving) /\ asked' = Nothing /\ outcome' = None
    <3>1. call' = "idle"
      BY <2>1, <2>5
    <3> QED BY <2>5, <3>1 DEF CarriedInv
  <2> QED BY <1>6, <2>3, <2>4, <2>5 DEF Returns, found
<1>7. CASE ThreadServes
  <2>1. asked' = asked /\ request' = request /\ method' = method /\ call' = call
    BY <1>7 DEF ThreadServes, ServeCommand, End
  <2>2. CASE outcome' = outcome
    BY <1>1, <2>1, <2>2 DEF setVars
  <2>3. CASE outcome' = request /\ Head(channel) = "Set"
    <3>1. channel # <<>> /\ method # "subscribe"
      BY <1>7 DEF ThreadServes, ServeCommand, OneCommand
    <3>2. Command(method) = "Set" /\ (method = "shutdown" \/ call \in {"notify", "await"})
      BY <2>3, <3>1 DEF ChannelInv
    <3>3. method = "set" /\ call \in {"notify", "await"}
      BY <3>1, <3>2 DEF Command, TypeOK, Methods
    <3> QED BY <2>1, <2>3, <3>3 DEF CarriedInv
  <2> QED BY <1>7, <2>2, <2>3 DEF ThreadServes
<1>8. CASE Notify /\ UNCHANGED setVars
  BY <1>1, <1>8 DEF Notify
<1>9. CASE (Drop \/ DropSender) /\ UNCHANGED setVars
  BY <1>1, <1>9 DEF Drop, DropSender
<1>10. CASE (InitThread \/ ChannelEmpty \/ Flush) /\ UNCHANGED setVars
  BY <1>1, <1>2, <1>10 DEF InitThread, ChannelEmpty, Flush
<1>11. CASE (Poll \/ Clear \/ Dispatch \/ CompositorSends) /\ UNCHANGED setVars
  BY <1>1, <1>2, <1>11 DEF Poll, Clear, Dispatch, CompositorSends
<1>12. CASE UNCHANGED <<vars, setVars>>
  BY <1>1, <1>12 DEF vars
<1> QED BY <1>3, <1>4, <1>5, <1>6, <1>7, <1>8, <1>9, <1>10, <1>11, <1>12 DEF SetNext

(* A set that reaches the compositor makes of the tags, or of the layout,    *)
(* what was asked, but for a layout's index that does not fit into 32 bits,  *)
(* of which the lower ones are sent; and what can be done is not refused     *)
(* (parse_value, dynamic_to_json, set of mangowc), whatever the widths of    *)
(* the integers, the layouts and the values.                                 *)
THEOREM SetsDoWhatWasAsked == SetSpec => []SetsWhatWasAsked
<1>1. SetInit => ChannelInv /\ CarriedInv
  BY DEF SetInit, Init, ChannelInv, CarriedInv
<1>2. TypeOK /\ OneCommand /\ ChannelInv /\ CarriedInv /\ [SetNext]_<<vars, setVars>> /\ [Next]_vars
        => (ChannelInv /\ CarriedInv)'
  BY ChannelNext, CarriedNext
<1>3. CarriedInv => SetsWhatWasAsked
  <2> SUFFICES ASSUME CarriedInv PROVE SetsWhatWasAsked
    OBVIOUS
  <2>1. Refused # None
    BY DEF Refused, None
  <2>2. outcome # None => asked \in Asked /\ outcome = Result(asked)
    BY DEF CarriedInv
  <2> QED BY <2>1, <2>2, ResultAsMeant DEF SetsWhatWasAsked, IndexIsCut
<1> QED BY <1>1, <1>2, <1>3, SetsAreCalls, TypeInvariant, CommandIsSingle, PTL DEF SetSpec, Spec
=============================================================================
