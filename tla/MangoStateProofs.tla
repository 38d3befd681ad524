-------------------------- MODULE MangoStateProofs --------------------------
(***************************************************************************)
(* Proofs about MangoState.                                                *)
(***************************************************************************)
EXTENDS MangoState, SequenceTheorems, FiniteSetTheorems, TLAPS

USE OutputsAssumption, FieldsAssumption, CountsAssumption, NamesAssumption

-----------------------------------------------------------------------------
(* Types. *)

Messages ==
  [kind : {"manager", "done", "tags"}, id : {NoId}]
    \cup [kind : {"output", "removed", "frame"}, id : Ids]
    \cup [kind : {"name"}, id : Ids, name : Names]
    \cup [kind : {"active"}, id : Ids, on : BOOLEAN]
    \cup [kind : {"tag"}, id : Ids, tag : Tags, on : BOOLEAN]
    \cup {Update(id, f, v) : id \in Ids, f \in Fields, v \in Values}

Requests ==
  [kind : {"sync", "bind_manager"}, id : {NoId}]
    \cup [kind : {"bind_output", "get_output"}, id : Ids]
    \cup {SetRequest(r.id, r.f, r.v) : r \in {q \in [id : Ids, f : Facts, v : (SUBSET Tags) \cup Values] :
                                               q.v \in FactValues(q.f)}}

ServerTypeOK ==
  /\ DOMAIN plugged \subseteq Ids
  /\ plugged \in [DOMAIN plugged -> Names]
  /\ truth \in [Ids -> FactSets]
  /\ active \in Ids \cup {NoId}
  /\ bound \subseteq Ids
  /\ unused \subseteq Ids
  /\ wire \in Seq(Messages)
  /\ requests \in Seq(Requests)

ClientTypeOK ==
  /\ phase \in {"globals", "state", "ready", "failed"}
  /\ DOMAIN outputs \subseteq Ids
  /\ outputs \in [DOMAIN outputs -> [name : AllNames, ipc : BOOLEAN]]
  /\ deferred \in Seq(Ids)
  /\ tagCount \in {0, NTags}
  /\ DOMAIN committed \subseteq AllNames
  /\ committed \in [DOMAIN committed -> OutputStates]
  /\ DOMAIN pending \subseteq AllNames
  /\ pending \in [DOMAIN pending -> OutputStates]
  /\ focusedName \in AllNames \cup {NoName}
  /\ focusedId \in Ids \cup {NoId}

LEMMA FactTypes ==
  /\ "title" \in Facts /\ "tags" \in Facts /\ Fields \subseteq Facts /\ Facts = Fields \cup {"tags"}
  /\ FactValues("tags") = SUBSET Tags
  /\ \A f \in Fields : FactValues(f) = Values
BY DEF Facts, FactValues

LEMMA NoFactsTypes == NoFacts \in FactSets /\ NewOutput \in FactSets
<1>1. NoFacts \in [Facts -> (SUBSET Tags) \cup Values]
  BY DEF NoFacts
<1>2. NoFacts \in FactSets
  BY <1>1 DEF FactSets, NoFacts, FactValues, Facts
<1>3. NewOutput \in FactSets
  <2>1. Tags \cap {0} \in SUBSET Tags
    OBVIOUS
  <2>2. NewOutput = [NoFacts EXCEPT !["tags"] = Tags \cap {0}]
    BY DEF NewOutput
  <2> QED BY <1>2, <2>1, <2>2, FactTypes DEF FactSets
<1> QED BY <1>2, <1>3

(* Replacing one fact keeps the type. *)
LEMMA FactUpdate ==
  ASSUME NEW g \in FactSets, NEW f \in Facts, NEW v \in FactValues(f)
  PROVE  [g EXCEPT ![f] = v] \in FactSets
<1>1. v \in (SUBSET Tags) \cup Values
  BY DEF FactValues
<1> QED BY <1>1 DEF FactSets

(* The fields have an order, so there is one to choose. *)
LEMMA FieldsOrdered ==
  /\ Cardinality(Fields) \in Nat
  /\ FieldOrder \in [1..Cardinality(Fields) -> Fields]
  /\ \A f \in Fields : \E i \in 1..Cardinality(Fields) : FieldOrder[i] = f
<1>1. Cardinality(Fields) \in Nat /\ ExistsBijection(1..Cardinality(Fields), Fields)
  BY FS_NatBijection, FS_CountingElements, FS_CardinalityType
<1>2. PICK s \in Bijection(1..Cardinality(Fields), Fields) : TRUE
  BY <1>1 DEF ExistsBijection
<1>3. s \in [1..Cardinality(Fields) -> Fields] /\ \A f \in Fields : \E i \in 1..Cardinality(Fields) : s[i] = f
  BY <1>2 DEF Bijection, Injection, Surjection
<1>4. \E t \in [1..Cardinality(Fields) -> Fields] : \A f \in Fields : \E i \in DOMAIN t : t[i] = f
  BY <1>3
<1>5. /\ FieldOrder \in [1..Cardinality(Fields) -> Fields]
      /\ \A f \in Fields : \E i \in DOMAIN FieldOrder : FieldOrder[i] = f
  BY <1>4 DEF FieldOrder
<1> QED BY <1>1, <1>5

(* A status is a sequence of messages about its output. *)
LEMMA StatusTypes ==
  ASSUME NEW id \in Ids, NEW g \in FactSets, NEW on \in BOOLEAN
  PROVE  /\ StatusOf(id, g, on) \in Seq(Messages)
         /\ \A i \in DOMAIN StatusOf(id, g, on) :
              StatusOf(id, g, on)[i].kind \in IPCKinds /\ StatusOf(id, g, on)[i].id = id
<1> DEFINE M == {m \in Messages : m.kind \in IPCKinds /\ m.id = id}
           tagMsgs == [i \in 1..NTags |-> TagMsg(id, i - 1, i - 1 \in g["tags"])]
           fieldMsgs == [i \in 1..Cardinality(Fields) |-> Update(id, FieldOrder[i], g[FieldOrder[i]])]
<1>1. ActiveMsg(id, on) \in M
  BY DEF ActiveMsg, Messages, IPCKinds
<1>2. Msg("frame", id) \in M
  BY DEF Msg, Messages, IPCKinds
<1>3. \A i \in 1..NTags : TagMsg(id, i - 1, i - 1 \in g["tags"]) \in M
  <2> SUFFICES ASSUME NEW i \in 1..NTags PROVE TagMsg(id, i - 1, i - 1 \in g["tags"]) \in M
    OBVIOUS
  <2>1. i - 1 \in Tags
    BY DEF Tags
  <2>2. (i - 1 \in g["tags"]) \in BOOLEAN
    OBVIOUS
  <2> DEFINE b == i - 1 \in g["tags"]
  <2>3. b \in BOOLEAN
    OBVIOUS
  <2> HIDE DEF b
  <2>4. TagMsg(id, i - 1, b) \in Messages /\ TagMsg(id, i - 1, b).kind = "tag" /\ TagMsg(id, i - 1, b).id = id
    BY <2>1, <2>3 DEF TagMsg, Messages
  <2>5. TagMsg(id, i - 1, b) \in M
    BY <2>4 DEF IPCKinds
  <2> QED BY <2>5 DEF b
<1>4. \A i \in 1..Cardinality(Fields) : Update(id, FieldOrder[i], g[FieldOrder[i]]) \in M
  <2> SUFFICES ASSUME NEW i \in 1..Cardinality(Fields) PROVE Update(id, FieldOrder[i], g[FieldOrder[i]]) \in M
    OBVIOUS
  <2>1. FieldOrder[i] \in Fields
    BY FieldsOrdered
  <2>2. g[FieldOrder[i]] \in Values
    BY <2>1, FactTypes DEF FactSets
  <2>3. Update(id, FieldOrder[i], g[FieldOrder[i]]) \in Messages
    BY <2>1, <2>2 DEF Messages
  <2> QED BY <2>3 DEF Update, IPCKinds
<1> HIDE DEF M
<1>5. tagMsgs \in Seq(M)
  BY <1>3, IsASeq
<1>6. fieldMsgs \in Seq(M)
  BY <1>4, FieldsOrdered, IsASeq
<1>7. StatusOf(id, g, on) = <<ActiveMsg(id, on)>> \o tagMsgs \o fieldMsgs \o <<Msg("frame", id)>>
  BY DEF StatusOf
<1> HIDE DEF tagMsgs, fieldMsgs
<1>8. StatusOf(id, g, on) \in Seq(M)
  BY <1>1, <1>2, <1>5, <1>6, <1>7
<1>9. M \subseteq Messages /\ \A m \in M : m.kind \in IPCKinds /\ m.id = id
  BY DEF M
<1> QED BY <1>8, <1>9

LEMMA MessageTypes ==
  /\ \A k \in {"manager", "done", "tags"} : Msg(k, NoId) \in Messages
  /\ \A k \in {"output", "removed", "frame"}, id \in Ids : Msg(k, id) \in Messages
  /\ \A id \in Ids, n \in Names : NameMsg(id, n) \in Messages
  /\ \A k \in {"sync", "bind_manager"} : Request(k, NoId) \in Requests
  /\ \A k \in {"bind_output", "get_output"}, id \in Ids : Request(k, id) \in Requests
  /\ \A id \in Ids, f \in Facts : \A v : v \in FactValues(f) => SetRequest(id, f, v) \in Requests
<1>1. /\ \A k \in {"manager", "done", "tags"} : Msg(k, NoId) \in Messages
      /\ \A k \in {"output", "removed", "frame"}, id \in Ids : Msg(k, id) \in Messages
  BY DEF Msg, Messages
<1>2. \A id \in Ids, n \in Names : NameMsg(id, n) \in Messages
  BY DEF NameMsg, Messages
<1>3. /\ \A k \in {"sync", "bind_manager"} : Request(k, NoId) \in Requests
      /\ \A k \in {"bind_output", "get_output"}, id \in Ids : Request(k, id) \in Requests
  BY DEF Request, Requests
<1>4. ASSUME NEW id \in Ids, NEW f \in Facts, NEW v \in FactValues(f)
      PROVE  SetRequest(id, f, v) \in Requests
  <2> DEFINE q == [id |-> id, f |-> f, v |-> v]
  <2>1. q \in [id : Ids, f : Facts, v : (SUBSET Tags) \cup Values] /\ q.v \in FactValues(q.f)
    BY DEF FactValues
  <2>2. SetRequest(q.id, q.f, q.v) \in Requests
    BY <2>1 DEF Requests
  <2> QED BY <2>2
<1> QED BY <1>1, <1>2, <1>3, <1>4

(* What a message of each kind carries. *)
LEMMA MessageShapes ==
  ASSUME NEW m \in Messages
  PROVE  /\ m.kind \in {"manager", "done", "tags"} \/ m.kind \in {"output", "removed", "name"} \/ m.kind \in IPCKinds
         /\ m.kind \notin {"manager", "done", "tags"} => m.id \in Ids
         /\ m.kind = "name" => m.name \in Names
         /\ m.kind = "active" => m.on \in BOOLEAN
         /\ m.kind = "tag" => m.tag \in Tags
         /\ m.kind = "field" => m.field \in Fields /\ m.value \in Values
BY DEF Messages, Update, IPCKinds

LEMMA RequestShapes ==
  ASSUME NEW r \in Requests
  PROVE  /\ r.kind \notin {"sync", "bind_manager"} => r.id \in Ids
         /\ r.kind \in {"sync", "bind_manager", "bind_output", "get_output", "set"}
         /\ r.kind = "set" => r.id \in Ids /\ r.fact \in Facts /\ r.value \in FactValues(r.fact)
BY DEF Requests, SetRequest

LEMMA StatusesTyped ==
  ASSUME ServerTypeOK, NEW id \in Ids \cup {NoId}, NEW g \in FactSets, NEW on \in BOOLEAN
  PROVE  /\ Status(id, g, on) \in Seq(Messages)
         /\ \A i \in DOMAIN Status(id, g, on) :
              id \in bound /\ Status(id, g, on)[i].kind \in IPCKinds /\ Status(id, g, on)[i].id = id
<1>1. CASE id \in bound
  BY <1>1, StatusTypes DEF Status, ServerTypeOK
<1>2. CASE id \notin bound
  <2>1. Status(id, g, on) = <<>>
    BY <1>2 DEF Status
  <2> QED BY <2>1
<1> QED BY <1>1, <1>2

(* A change of a fact sends statuses only, and of the output that changed. *)
LEMMA SetFactTypes ==
  ASSUME ServerTypeOK, NEW id \in Ids, NEW f \in Facts, NEW v \in FactValues(f), SetFact(id, f, v)
  PROVE  /\ truth' \in [Ids -> FactSets]
         /\ \E s \in Seq(Messages) :
              /\ wire' = wire \o s
              /\ \A i \in DOMAIN s : id \in bound /\ s[i].kind \in IPCKinds /\ s[i].id = id
<1>1. truth[id] \in FactSets /\ truth' = [truth EXCEPT ![id] = [truth[id] EXCEPT ![f] = v]]
  BY DEF SetFact, ServerTypeOK
<1>2. truth' \in [Ids -> FactSets]
  BY <1>1, FactUpdate DEF ServerTypeOK
<1>3. truth'[id] \in FactSets /\ (active = id) \in BOOLEAN
  BY <1>2
<1> DEFINE s == Status(id, truth'[id], active = id)
<1>4. s \in Seq(Messages) /\ \A i \in DOMAIN s : id \in bound /\ s[i].kind \in IPCKinds /\ s[i].id = id
  <2> DEFINE h == truth'[id]
             on == (active = id)
  <2>1. h \in FactSets /\ on \in BOOLEAN
    BY <1>3
  <2>2. s = Status(id, h, on)
    OBVIOUS
  <2> HIDE DEF h, on, s
  <2>3. /\ Status(id, h, on) \in Seq(Messages)
        /\ \A i \in DOMAIN Status(id, h, on) : /\ id \in bound
                                             /\ Status(id, h, on)[i].kind \in IPCKinds
                                             /\ Status(id, h, on)[i].id = id
    BY <2>1, StatusesTyped
  <2> QED BY ONLY <2>2, <2>3
<1>5. wire' = wire \o s
  BY DEF SetFact
<1> HIDE DEF s
<1> QED BY <1>2, <1>4, <1>5

(* Statuses of outputs that are bound. *)
Statuses(s) ==
  s \in Seq(Messages) /\ \A i \in DOMAIN s : s[i].kind \in IPCKinds /\ s[i].id \in bound

LEMMA OneStatus ==
  ASSUME ServerTypeOK, NEW id \in Ids, NEW g \in FactSets, NEW on \in BOOLEAN
  PROVE  Statuses(Status(id, g, on))
<1> DEFINE s == Status(id, g, on)
<1>1. s \in Seq(Messages) /\ \A i \in DOMAIN s : id \in bound /\ s[i].kind \in IPCKinds /\ s[i].id = id
  BY StatusesTyped
<1> HIDE DEF s
<1>2. Statuses(s)
  BY <1>1 DEF Statuses
<1> QED BY <1>2 DEF s

LEMMA MoreStatuses ==
  ASSUME NEW t, Statuses(t), NEW u, Statuses(u)
  PROVE  t \o u \in Seq(Messages) /\ Statuses(t \o u)
<1>1. t \in Seq(Messages) /\ u \in Seq(Messages)
  BY DEF Statuses
<1>2. \A i \in DOMAIN (t \o u) : (i \in DOMAIN t /\ (t \o u)[i] = t[i])
        \/ (i - Len(t) \in DOMAIN u /\ (t \o u)[i] = u[i - Len(t)])
  BY <1>1
<1> QED BY <1>1, <1>2 DEF Statuses

LEMMA PlugEffect ==
  ASSUME ServerTypeOK, NEW id \in Ids, Plug(id)
  PROVE  /\ ServerTypeOK'
         /\ id \in unused /\ unused' = unused \ {id}
         /\ DOMAIN plugged' = DOMAIN plugged \cup {id}
         /\ \A x \in DOMAIN plugged \ {id} : plugged'[x] = plugged[x] /\ plugged'[id] # plugged[x]
         /\ wire' = Append(wire, Msg("output", id))
         /\ UNCHANGED <<bound, requests, client, observer>>
<1>1. PICK n \in Names \ {plugged[i] : i \in DOMAIN plugged} : plugged' = With(plugged, id, n)
  BY DEF Plug
<1>2. /\ DOMAIN plugged' = DOMAIN plugged \cup {id} /\ plugged'[id] = n
      /\ plugged' \in [DOMAIN plugged' -> Names]
      /\ \A x \in DOMAIN plugged \ {id} : plugged'[x] = plugged[x]
  <2>1. plugged \in [DOMAIN plugged -> Names] /\ n \in Names
    BY DEF ServerTypeOK
  <2> DEFINE p == With(plugged, id, n)
  <2>2. /\ DOMAIN p = DOMAIN plugged \cup {id} /\ p \in [DOMAIN plugged \cup {id} -> Names] /\ p[id] = n
        /\ \A x \in DOMAIN plugged \ {id} : p[x] = plugged[x]
    BY <2>1 DEF With
  <2> HIDE DEF p
  <2>3. plugged' = p
    BY <1>1 DEF p
  <2> QED BY <2>2, <2>3
<1>3. wire' \in Seq(Messages)
  BY MessageTypes DEF Plug, ServerTypeOK
<1>4. ServerTypeOK'
  BY <1>2, <1>3 DEF Plug, ServerTypeOK
<1> QED BY <1>1, <1>2, <1>4 DEF Plug

LEMMA UnplugEffect ==
  ASSUME ServerTypeOK, NEW id \in Ids, Unplug(id)
  PROVE  /\ ServerTypeOK'
         /\ id \in DOMAIN plugged /\ DOMAIN plugged' = DOMAIN plugged \ {id}
         /\ \A x \in DOMAIN plugged \ {id} : plugged'[x] = plugged[x]
         /\ bound' = bound \ {id}
         /\ \E s \in Seq(Messages) : Statuses(s) /\ wire' = Append(wire, Msg("removed", id)) \o s
         /\ UNCHANGED <<unused, requests, client, observer>>
<1>1. /\ DOMAIN plugged' = DOMAIN plugged \ {id} /\ plugged' \in [DOMAIN plugged' -> Names]
      /\ \A x \in DOMAIN plugged \ {id} : plugged'[x] = plugged[x]
  <2>1. plugged \in [DOMAIN plugged -> Names] /\ plugged' = Without(plugged, id)
    BY DEF Unplug, ServerTypeOK
  <2> DEFINE p == Without(plugged, id)
  <2>2. /\ DOMAIN p = DOMAIN plugged \ {id} /\ p \in [DOMAIN plugged \ {id} -> Names]
        /\ \A x \in DOMAIN plugged \ {id} : p[x] = plugged[x]
    BY <2>1 DEF Without
  <2> HIDE DEF p
  <2> QED BY <2>1, <2>2 DEF p
<1>2. active' \in Ids \cup {NoId}
  BY DEF Unplug, ServerTypeOK
<1> DEFINE first == Status(id, truth[id], FALSE)
           second == Status(active', truth[active'], TRUE)
<1>3. PICK t \in {<<>>, first} : wire' = wire \o <<Msg("removed", id)>> \o t
                 \o (IF active' \in {active, NoId} THEN <<>> ELSE second)
  BY DEF Unplug
<1>4. Statuses(<<>>)
  BY DEF Statuses
<1>5. Statuses(first)
  BY OneStatus DEF ServerTypeOK
<1>6. active' # NoId => Statuses(second)
  BY <1>2, OneStatus DEF ServerTypeOK
<1> HIDE DEF first, second
<1> DEFINE u == IF active' \in {active, NoId} THEN <<>> ELSE second
<1>7. Statuses(t) /\ Statuses(u)
  BY <1>3, <1>4, <1>5, <1>6
<1>8. wire' = wire \o <<Msg("removed", id)>> \o t \o u
  BY <1>3
<1> HIDE DEF u
<1>9. t \o u \in Seq(Messages) /\ Statuses(t \o u)
  BY <1>7, MoreStatuses
<1>10. Msg("removed", id) \in Messages
  BY MessageTypes
<1>11. wire' = Append(wire, Msg("removed", id)) \o (t \o u)
  <2>1. t \in Seq(Messages) /\ u \in Seq(Messages) /\ wire \in Seq(Messages)
    BY <1>7 DEF Statuses, ServerTypeOK
  <2>2. wire \o <<Msg("removed", id)>> = Append(wire, Msg("removed", id))
    BY <1>10, <2>1, AppendIsConcat
  <2>3. wire \o <<Msg("removed", id)>> \in Seq(Messages)
    BY <1>10, <2>1
  <2> DEFINE w == wire \o <<Msg("removed", id)>>
  <2> HIDE DEF w
  <2>4. w \o t \o u = w \o (t \o u)
    <3>1. w \in Seq(Messages)
      BY <2>3 DEF w
    <3> QED BY ONLY <2>1, <3>1, ConcatAssociative, SMTT(30)
  <2> QED BY <1>8, <2>2, <2>4 DEF w
<1>12. wire' \in Seq(Messages)
  BY <1>9, <1>10, <1>11 DEF ServerTypeOK
<1>13. ServerTypeOK'
  BY <1>1, <1>2, <1>12 DEF Unplug, ServerTypeOK
<1> QED BY <1>1, <1>9, <1>11, <1>13 DEF Unplug

LEMMA StatusStepEffect ==
  ASSUME ServerTypeOK, NEW id \in Ids, Change(id) \/ Focus(id)
  PROVE  /\ ServerTypeOK'
         /\ \E s \in Seq(Messages) : Statuses(s) /\ wire' = wire \o s
         /\ UNCHANGED <<plugged, bound, unused, requests, client, observer>>
<1>1. CASE Change(id)
  <2>0. PICK f \in Facts : \E v \in FactValues(f) : SetFact(id, f, v)
    BY <1>1 DEF Change
  <2>1. PICK v \in FactValues(f) : SetFact(id, f, v)
    BY <2>0
  <2>2. truth' \in [Ids -> FactSets] /\ \E s \in Seq(Messages) : Statuses(s) /\ wire' = wire \o s
    BY <2>1, SetFactTypes DEF Statuses
  <2>3. wire' \in Seq(Messages)
    BY <2>2 DEF ServerTypeOK
  <2> QED BY <1>1, <2>2, <2>3 DEF Change, ServerTypeOK
<1>2. CASE Focus(id)
  <2> DEFINE t == Status(active, truth[active], FALSE)
             u == Status(id, truth[id], TRUE)
  <2>1. Statuses(u)
    BY OneStatus DEF ServerTypeOK
  <2>2. Statuses(t)
    <3>1. CASE active \in Ids
      BY <3>1, OneStatus DEF ServerTypeOK
    <3>2. CASE active \notin Ids
      <4>1. t = <<>>
        BY <3>2 DEF Status, ServerTypeOK
      <4>2. Statuses(<<>>)
        BY DEF Statuses
      <4> HIDE DEF t
      <4> QED BY <4>1, <4>2
    <3> QED BY <3>1, <3>2
  <2>3. wire' = wire \o t \o u /\ wire \in Seq(Messages)
    BY <1>2 DEF Focus, ServerTypeOK
  <2> HIDE DEF t, u
  <2>4. t \o u \in Seq(Messages) /\ Statuses(t \o u)
    BY <2>1, <2>2, MoreStatuses
  <2>5. wire' = wire \o (t \o u)
    BY <2>1, <2>2, <2>3, ConcatAssociative DEF Statuses
  <2>6. wire' \in Seq(Messages)
    BY <2>4, <2>5 DEF ServerTypeOK
  <2>7. UNCHANGED <<plugged, truth, bound, unused, requests, client, observer>> /\ active' = id
    BY <1>2 DEF Focus
  <2>8. ServerTypeOK'
    BY <2>6, <2>7 DEF ServerTypeOK
  <2> QED BY <2>4, <2>5, <2>7, <2>8
<1> QED BY <1>1, <1>2

LEMMA HandleEffect ==
  ASSUME ServerTypeOK, HandleRequest
  PROVE  /\ ServerTypeOK'
         /\ requests # <<>> /\ requests' = Tail(requests) /\ Head(requests) \in Requests
         /\ UNCHANGED <<plugged, unused, client, observer>>
         /\ LET r == Head(requests)
            IN  \/ /\ r.kind \in {"sync", "bind_manager"}
                   /\ \E k \in {"done", "tags"} : wire' = Append(wire, Msg(k, NoId))
                   /\ UNCHANGED bound
                \/ /\ r.kind = "bind_output" /\ r.id \in DOMAIN plugged
                   /\ wire' = Append(wire, NameMsg(r.id, plugged[r.id]))
                   /\ UNCHANGED bound
                \/ /\ r.kind \in {"get_output", "set"} /\ r.id \in DOMAIN plugged \cup bound
                   /\ bound' = bound \cup {r.id}
                   /\ \E s \in Seq(Messages) :
                        /\ wire' = wire \o s
                        /\ \A i \in DOMAIN s : s[i].kind \in IPCKinds /\ s[i].id = r.id
                \/ /\ r.kind \in {"bind_output", "get_output", "set"} /\ r.id \notin DOMAIN plugged
                   /\ UNCHANGED <<wire, bound>>
<1> DEFINE r == Head(requests)
<1>1. requests # <<>> /\ requests' = Tail(requests) /\ UNCHANGED <<plugged, active, unused, client, observer>>
  BY DEF HandleRequest
<1>2. r \in Requests /\ requests' \in Seq(Requests)
  BY <1>1 DEF ServerTypeOK
<1> HIDE DEF r
<1>3. CASE r.kind \in {"sync", "bind_manager"}
  <2>1. PICK k \in {"done", "tags"} : wire' = Append(wire, Msg(k, NoId)) /\ UNCHANGED <<truth, bound>>
    BY <1>3 DEF HandleRequest, r
  <2>2. wire' \in Seq(Messages)
    BY <2>1, MessageTypes DEF ServerTypeOK
  <2>3. ServerTypeOK'
    BY <1>1, <1>2, <2>1, <2>2 DEF ServerTypeOK
  <2> QED BY <1>1, <1>2, <1>3, <2>1, <2>3 DEF r
<1>4. CASE r.kind = "bind_output"
  <2>1. /\ wire' = IF r.id \in DOMAIN plugged THEN Append(wire, NameMsg(r.id, plugged[r.id])) ELSE wire
        /\ UNCHANGED <<truth, bound>>
    BY <1>4 DEF HandleRequest, r
  <2>2. r.id \in DOMAIN plugged => NameMsg(r.id, plugged[r.id]) \in Messages
    BY MessageTypes DEF ServerTypeOK
  <2>3. wire' \in Seq(Messages)
    BY <2>1, <2>2 DEF ServerTypeOK
  <2>4. ServerTypeOK'
    BY <1>1, <1>2, <2>1, <2>3 DEF ServerTypeOK
  <2> QED BY <1>1, <1>2, <1>4, <2>1, <2>4 DEF r
<1>5. CASE r.kind = "get_output" /\ r.id \in DOMAIN plugged
  <2> DEFINE s == StatusOf(r.id, truth[r.id], active = r.id)
  <2>1. wire' = wire \o s /\ bound' = bound \cup {r.id} /\ UNCHANGED truth
    BY <1>5 DEF HandleRequest, r
  <2>2. s \in Seq(Messages) /\ \A i \in DOMAIN s : s[i].kind \in IPCKinds /\ s[i].id = r.id
    <3> DEFINE b == active = r.id
    <3>1. r.id \in Ids /\ truth[r.id] \in FactSets /\ b \in BOOLEAN
      BY <1>5 DEF ServerTypeOK
    <3>2. s = StatusOf(r.id, truth[r.id], b)
      OBVIOUS
    <3> HIDE DEF b, s
    <3> QED BY <3>1, <3>2, StatusTypes
  <2> HIDE DEF s
  <2>3. wire' \in Seq(Messages)
    BY <2>1, <2>2 DEF ServerTypeOK
  <2>4. ServerTypeOK'
    BY <1>1, <1>2, <1>5, <2>1, <2>3 DEF ServerTypeOK
  <2> QED BY <1>1, <1>2, <1>5, <2>1, <2>2, <2>4 DEF r
<1>6. CASE r.kind = "set" /\ r.id \in bound /\ SetFact(r.id, r.fact, r.value) /\ UNCHANGED bound
  <2>1. SetFact(r.id, r.fact, r.value) /\ UNCHANGED bound
    BY <1>6
  <2>2. r.id \in Ids /\ r.fact \in Facts /\ r.value \in FactValues(r.fact)
    BY <1>2, <1>6, RequestShapes
  <2>3. truth' \in [Ids -> FactSets] /\ bound' = bound \cup {r.id}
    BY <1>6, <2>1, <2>2, SetFactTypes
  <2>4. PICK s \in Seq(Messages) : wire' = wire \o s /\ \A i \in DOMAIN s : s[i].kind \in IPCKinds /\ s[i].id = r.id
    BY <2>1, <2>2, SetFactTypes
  <2>5. wire' \in Seq(Messages)
    BY <2>4 DEF ServerTypeOK
  <2>6. ServerTypeOK'
    BY <1>1, <1>2, <2>1, <2>3, <2>5 DEF ServerTypeOK
  <2> QED BY <1>1, <1>2, <1>6, <2>3, <2>4, <2>6 DEF r
<1>7. CASE r.kind \in {"get_output", "set"} /\ r.id \notin DOMAIN plugged /\ UNCHANGED <<wire, truth, bound>>
  <2>1. ServerTypeOK'
    BY <1>1, <1>2, <1>7 DEF ServerTypeOK
  <2> QED BY <1>1, <1>2, <1>7, <2>1 DEF r
<1> QED
  <2>1. r.kind \in {"sync", "bind_manager", "bind_output", "get_output", "set"}
    BY <1>2, RequestShapes
  <2>2. r.kind = "get_output" => r.id \in DOMAIN plugged \/ (r.id \notin DOMAIN plugged /\ UNCHANGED <<wire, truth, bound>>)
    BY DEF HandleRequest, r
  <2>3. r.kind = "set" => \/ r.id \in bound /\ SetFact(r.id, r.fact, r.value) /\ UNCHANGED bound
                         \/ (r.id \notin DOMAIN plugged /\ UNCHANGED <<wire, truth, bound>>)
    BY DEF HandleRequest, r
  <2> QED BY <1>3, <1>4, <1>5, <1>6, <1>7, <2>1, <2>2, <2>3

(* The adapter's steps. *)
ObserverTypeOK ==
  /\ told \in [AllNames -> FactSets]
  /\ toldFocus \in [output : AllNames \cup {NoName}, title : Values]

LEMMA StateTypes ==
  /\ \A n \in Nat : Blank(n) \in OutputStates
  /\ \A p \in OutputStates, f \in Facts : \A v : v \in FactValues(f) =>
       /\ [p EXCEPT !.facts[f] = v] \in OutputStates
       /\ [p EXCEPT !.facts[f] = v].ntags = p.ntags
       /\ [p EXCEPT !.facts[f] = v].facts = [p.facts EXCEPT ![f] = v]
  /\ \A p \in OutputStates, n \in Nat : [p EXCEPT !.ntags = n] \in OutputStates
<1>1. \A n \in Nat : Blank(n) \in OutputStates
  BY NoFactsTypes DEF Blank, OutputStates
<1>2. ASSUME NEW p \in OutputStates, NEW f \in Facts, NEW v \in FactValues(f)
      PROVE  /\ [p EXCEPT !.facts[f] = v] \in OutputStates
             /\ [p EXCEPT !.facts[f] = v].ntags = p.ntags
             /\ [p EXCEPT !.facts[f] = v].facts = [p.facts EXCEPT ![f] = v]
  <2>1. [p.facts EXCEPT ![f] = v] \in FactSets
    BY FactUpdate DEF OutputStates
  <2>2. [p EXCEPT !.facts[f] = v] = [p EXCEPT !.facts = [p.facts EXCEPT ![f] = v]]
    BY DEF OutputStates
  <2> QED BY <2>1, <2>2 DEF OutputStates
<1>3. \A p \in OutputStates, n \in Nat : [p EXCEPT !.ntags = n] \in OutputStates
  BY DEF OutputStates
<1> QED BY <1>1, <1>2, <1>3

LEMMA PendingStateTypes ==
  ASSUME ClientTypeOK, NEW n
  PROVE  PendingState(n) \in OutputStates
BY StateTypes DEF PendingState, ClientTypeOK

(* A message is dispatched. *)
LEMMA DispatchTypes ==
  ASSUME ServerTypeOK, NEW k, Arrived(k), Dispatched
  PROVE  /\ wire # <<>> /\ Message \in Messages /\ Message = wire[1] /\ Message.kind = k
         /\ wire' = Tail(wire) /\ wire' \in Seq(Messages) /\ phase # "failed"
BY DEF Arrived, Dispatched, Message, ServerTypeOK

LEMMA IpcTypes ==
  ASSUME ServerTypeOK, ClientTypeOK, NEW k, Ipc(k)
  PROVE  /\ wire # <<>> /\ Message \in Messages /\ Message = wire[1] /\ Message.kind = k
         /\ wire' = Tail(wire) /\ ServerTypeOK'
         /\ Message.id \in DOMAIN outputs /\ Message.id \in Ids
         /\ NameOf \in AllNames /\ PendingState(NameOf) \in OutputStates
         /\ UNCHANGED <<phase, manager, outputs, deferred, tagCount, requests, server>>
<1>1. Arrived(k) /\ Dispatched /\ Message.id \in DOMAIN outputs
  BY DEF Ipc
<1>2. UNCHANGED <<phase, manager, outputs, deferred, tagCount, requests, server>>
  BY DEF Ipc
<1>3. Message.id \in Ids /\ NameOf \in AllNames /\ PendingState(NameOf) \in OutputStates
  BY <1>1, PendingStateTypes DEF ClientTypeOK, NameOf
<1>4. ServerTypeOK'
  BY <1>1, <1>2, DispatchTypes DEF ServerTypeOK, server
<1> QED BY <1>1, <1>2, <1>3, <1>4, DispatchTypes

LEMMA StoreTypes ==
  ASSUME NEW f, f \in [DOMAIN f -> OutputStates], NEW n, NEW v \in OutputStates
  PROVE  /\ DOMAIN With(f, n, v) = DOMAIN f \cup {n} /\ DOMAIN Without(f, n) = DOMAIN f \ {n}
         /\ With(f, n, v) \in [DOMAIN f \cup {n} -> OutputStates]
         /\ Without(f, n) \in [DOMAIN f \ {n} -> OutputStates]
         /\ With(f, n, v)[n] = v
         /\ \A m \in DOMAIN f \ {n} : With(f, n, v)[m] = f[m] /\ Without(f, n)[m] = f[m]
BY DEF With, Without

LEMMA RenamedTypes ==
  ASSUME NEW f, f \in [DOMAIN f -> OutputStates], NEW old, NEW n
  PROVE  /\ Renamed(f, old, n) \in [DOMAIN Renamed(f, old, n) -> OutputStates]
         /\ DOMAIN Renamed(f, old, n) \subseteq DOMAIN f \cup {n}
         /\ old \notin DOMAIN f => Renamed(f, old, n) = f
<1>1. CASE old # n /\ old \in DOMAIN f
  <2>1. Renamed(f, old, n) = With(Without(f, old), n, f[old])
    BY <1>1 DEF Renamed
  <2> QED BY <1>1, <2>1 DEF With, Without
<1>2. CASE ~(old # n /\ old \in DOMAIN f)
  BY <1>2 DEF Renamed
<1> QED BY <1>1, <1>2

(* Collecting an update: pending gets a state of the output it is about. *)
LEMMA CollectTypes ==
  ASSUME ServerTypeOK, ClientTypeOK, ObserverTypeOK, NEW k, Ipc(k), NEW v \in OutputStates,
         pending' = With(pending, NameOf, v), UNCHANGED committed,
         focusedName' \in {focusedName, NameOf}, focusedId' \in {focusedId, Message.id}
  PROVE  ServerTypeOK' /\ ClientTypeOK'
<1>1. DOMAIN pending' = DOMAIN pending \cup {NameOf} /\ pending' \in [DOMAIN pending \cup {NameOf} -> OutputStates]
  BY StoreTypes DEF ClientTypeOK
<1> QED BY <1>1, IpcTypes DEF ClientTypeOK

LEMMA ActiveTypes ==
  ASSUME ServerTypeOK, ClientTypeOK, ObserverTypeOK, OnActive
  PROVE  ServerTypeOK' /\ ClientTypeOK' /\ ObserverTypeOK'
<1>1. ServerTypeOK' /\ ClientTypeOK'
  BY IpcTypes, CollectTypes DEF OnActive
<1>2. told' = told
  BY DEF OnActive, TellFocus, observer
<1>3. toldFocus' = toldFocus \/ toldFocus' = [output |-> NameOf, title |-> TitleOf(NameOf)]
  BY DEF OnActive, TellFocus, observer
<1>4. TitleOf(NameOf) \in Values /\ NameOf \in AllNames
  <2>1. NameOf \in AllNames
    BY IpcTypes DEF OnActive
  <2>2. ASSUME NEW n PROVE TitleOf(n) \in Values
    <3>1. CASE n \in DOMAIN committed
      <4>1. committed[n].facts \in FactSets
        BY <3>1 DEF ClientTypeOK, OutputStates
      <4> QED BY <3>1, <4>1, FactTypes DEF TitleOf, FactSets
    <3>2. CASE n \notin DOMAIN committed
      BY <3>2 DEF TitleOf
    <3> QED BY <3>1, <3>2
  <2> QED BY <2>1, <2>2
<1> QED BY <1>1, <1>2, <1>3, <1>4 DEF ObserverTypeOK

LEMMA TagTypes ==
  ASSUME ServerTypeOK, ClientTypeOK, ObserverTypeOK, OnTag
  PROVE  ServerTypeOK' /\ ClientTypeOK' /\ ObserverTypeOK'
<1> DEFINE p == PendingState(NameOf)
           t == p.facts["tags"]
           u == IF Message.on THEN t \cup {Message.tag} ELSE t \ {Message.tag}
           v == IF Message.tag >= p.ntags THEN p ELSE [p EXCEPT !.facts["tags"] = u]
<1>1. p \in OutputStates /\ Message.tag \in Tags
  BY IpcTypes, MessageShapes DEF OnTag, IPCKinds
<1>2. u \in SUBSET Tags
  BY <1>1, FactTypes DEF OutputStates, FactSets
<1>3. v \in OutputStates
  BY <1>1, <1>2, FactTypes, StateTypes
<1>4. Ipc("tag") /\ pending' = With(pending, NameOf, v) /\ UNCHANGED <<committed, focusedName, focusedId, observer>>
  BY DEF OnTag
<1> HIDE DEF v
<1> QED BY <1>3, <1>4, CollectTypes DEF observer, ObserverTypeOK

LEMMA FieldTypes ==
  ASSUME ServerTypeOK, ClientTypeOK, ObserverTypeOK, OnField
  PROVE  ServerTypeOK' /\ ClientTypeOK' /\ ObserverTypeOK'
<1> DEFINE v == [PendingState(NameOf) EXCEPT !.facts[Message.field] = Message.value]
<1>1. PendingState(NameOf) \in OutputStates /\ Message.field \in Fields /\ Message.value \in Values
  BY IpcTypes, MessageShapes DEF OnField, IPCKinds
<1>2. v \in OutputStates
  BY <1>1, FactTypes, StateTypes
<1>3. Ipc("field") /\ pending' = With(pending, NameOf, v) /\ UNCHANGED <<committed, focusedName, focusedId, observer>>
  BY DEF OnField
<1> HIDE DEF v
<1> QED BY <1>2, <1>3, CollectTypes DEF observer, ObserverTypeOK

LEMMA FrameTypes ==
  ASSUME ServerTypeOK, ClientTypeOK, ObserverTypeOK, OnFrame
  PROVE  ServerTypeOK' /\ ClientTypeOK' /\ ObserverTypeOK'
<1> DEFINE n == NameOf
           p == PendingState(NameOf)
<1>1. Ipc("frame") /\ TellFacts(n, p.facts) /\ committed' = With(committed, n, p)
      /\ pending' = Without(pending, n) /\ UNCHANGED <<focusedName, focusedId>>
  BY DEF OnFrame
<1>2. n \in AllNames /\ p \in OutputStates /\ p.facts \in FactSets
  BY <1>1, IpcTypes DEF OutputStates
<1> HIDE DEF n, p
<1>3. /\ DOMAIN committed' = DOMAIN committed \cup {n}
      /\ committed' \in [DOMAIN committed \cup {n} -> OutputStates]
  BY <1>1, <1>2, StoreTypes DEF ClientTypeOK
<1>4. /\ DOMAIN pending' = DOMAIN pending \ {n}
      /\ pending' \in [DOMAIN pending \ {n} -> OutputStates]
  BY <1>1, <1>2, StoreTypes DEF ClientTypeOK
<1>5. ServerTypeOK' /\ ClientTypeOK'
  BY <1>1, <1>2, <1>3, <1>4, IpcTypes DEF ClientTypeOK
<1>6. PICK heard \in SUBSET Facts :
        /\ told' = [told EXCEPT ![n] = [f \in Facts |-> IF f \in heard THEN p.facts[f] ELSE told[n][f]]]
        /\ toldFocus' = IF "title" \in heard THEN [toldFocus EXCEPT !.title = p.facts["title"]] ELSE toldFocus
  <2>1. PICK lost \in SUBSET Emitted(n) :
          LET heard == Emitted(n) \ lost
          IN /\ told' = [told EXCEPT ![n] = [f \in Facts |-> IF f \in heard THEN p.facts[f] ELSE @[f]]]
             /\ toldFocus' = IF "title" \in heard THEN [toldFocus EXCEPT !.title = p.facts["title"]] ELSE toldFocus
    BY <1>1 DEF TellFacts
  <2>2. Emitted(n) \ lost \in SUBSET Facts
    BY DEF Emitted
  <2> QED BY <2>1, <2>2
<1>7. [f \in Facts |-> IF f \in heard THEN p.facts[f] ELSE told[n][f]] \in FactSets
  BY <1>2 DEF FactSets, ObserverTypeOK
<1>8. told' \in [AllNames -> FactSets]
  BY <1>6, <1>7 DEF ObserverTypeOK
<1>9. toldFocus' \in [output : AllNames \cup {NoName}, title : Values]
  BY <1>2, <1>6, FactTypes DEF ObserverTypeOK, FactSets
<1> QED BY <1>5, <1>8, <1>9 DEF ObserverTypeOK

LEMMA DoneTypes ==
  ASSUME ServerTypeOK, ClientTypeOK, ObserverTypeOK, OnDone
  PROVE  ServerTypeOK' /\ ClientTypeOK' /\ ObserverTypeOK'
<1>1. Arrived("done") /\ Dispatched /\ UNCHANGED <<server, observer>>
      /\ UNCHANGED <<outputs, deferred, tagCount, committed, pending, focusedName, focusedId>>
  BY DEF OnDone
<1>2. requests' \in {requests, Append(requests, Request("sync", NoId))} /\ phase' \in {"state", "ready", "failed"}
  BY DEF OnDone
<1>3. Request("sync", NoId) \in Requests
  BY MessageTypes
<1>4. requests' \in Seq(Requests)
  <2>1. requests \in Seq(Requests)
    BY DEF ServerTypeOK
  <2> QED BY ONLY <1>2, <1>3, <2>1
<1>5. ServerTypeOK'
  BY <1>1, <1>4, DispatchTypes DEF ServerTypeOK, server
<1>6. ClientTypeOK'
  BY <1>1, <1>2 DEF ClientTypeOK
<1>7. ObserverTypeOK'
  BY <1>1 DEF ObserverTypeOK, observer
<1> QED BY <1>5, <1>6, <1>7

LEMMA ManagerTypes ==
  ASSUME ServerTypeOK, ClientTypeOK, ObserverTypeOK, OnManager
  PROVE  ServerTypeOK' /\ ClientTypeOK' /\ ObserverTypeOK'
<1>1. Arrived("manager") /\ Dispatched /\ UNCHANGED <<server, observer>> /\ deferred' = <<>>
      /\ UNCHANGED <<phase, tagCount, committed, pending, focusedName, focusedId>>
  BY DEF OnManager
<1> DEFINE gets == [i \in DOMAIN deferred |-> Request("get_output", deferred[i])]
<1>2. requests' = Append(requests, Request("bind_manager", NoId)) \o gets
  BY DEF OnManager
<1>3. \A i \in 1..Len(deferred) : Request("get_output", deferred[i]) \in Requests
  BY MessageTypes DEF ClientTypeOK
<1>4. gets \in Seq(Requests)
  <2>1. Len(deferred) \in Nat /\ gets = [i \in 1..Len(deferred) |-> Request("get_output", deferred[i])]
    BY DEF ClientTypeOK
  <2> HIDE DEF gets
  <2> QED BY <1>3, <2>1, IsASeq
<1> HIDE DEF gets
<1>5. requests' \in Seq(Requests)
  BY <1>2, <1>4, MessageTypes DEF ServerTypeOK
<1>6. ServerTypeOK'
  BY <1>1, <1>5, DispatchTypes DEF ServerTypeOK, server
<1>7. DOMAIN outputs' \subseteq Ids /\ outputs' \in [DOMAIN outputs' -> [name : AllNames, ipc : BOOLEAN]]
  <2>1. outputs' = [id \in DOMAIN outputs \cup {deferred[i] : i \in DOMAIN deferred} |->
                   IF \E i \in DOMAIN deferred : deferred[i] = id
                   THEN [name |-> Provisional(id), ipc |-> TRUE] ELSE outputs[id]]
    BY DEF OnManager
  <2>2. \A i \in DOMAIN deferred : deferred[i] \in Ids
    BY DEF ClientTypeOK
  <2>3. DOMAIN outputs' \subseteq Ids
    BY <2>1, <2>2 DEF ClientTypeOK
  <2>4. ASSUME NEW id \in DOMAIN outputs'
        PROVE  outputs'[id] \in [name : AllNames, ipc : BOOLEAN]
    <3>1. CASE \E i \in DOMAIN deferred : deferred[i] = id
      <4>1. outputs'[id] = [name |-> Provisional(id), ipc |-> TRUE] /\ Provisional(id) \in AllNames
        BY <2>1, <2>3, <3>1 DEF AllNames
      <4> QED BY <4>1
    <3>2. CASE ~\E i \in DOMAIN deferred : deferred[i] = id
      <4>1. outputs'[id] = outputs[id] /\ id \in DOMAIN outputs
        BY <2>1, <3>2
      <4> QED BY <4>1 DEF ClientTypeOK
    <3> QED BY <3>1, <3>2
  <2> QED BY <2>1, <2>3, <2>4
<1>8. ClientTypeOK'
  BY <1>1, <1>7 DEF ClientTypeOK
<1>9. ObserverTypeOK'
  BY <1>1 DEF ObserverTypeOK, observer
<1> QED BY <1>6, <1>8, <1>9

LEMMA OutputTypes ==
  ASSUME ServerTypeOK, ClientTypeOK, ObserverTypeOK, manager \in BOOLEAN, OnOutput
  PROVE  ServerTypeOK' /\ ClientTypeOK' /\ ObserverTypeOK'
<1> DEFINE id == Message.id
<1>1. Arrived("output") /\ Dispatched /\ UNCHANGED <<server, observer>>
      /\ UNCHANGED <<phase, tagCount, committed, pending, focusedName, focusedId>>
  BY DEF OnOutput
<1>0. id \in Ids
  BY <1>1, DispatchTypes, MessageShapes
<1>2. /\ outputs' = With(outputs, id, [name |-> Provisional(id), ipc |-> manager])
      /\ requests' \in {requests \o <<Request("bind_output", id), Request("get_output", id)>>,
                        requests \o <<Request("bind_output", id)>>}
      /\ deferred' \in {deferred, Append(deferred, id)}
  BY DEF OnOutput
<1>3. requests' \in Seq(Requests)
  <2>1. Request("bind_output", id) \in Requests /\ Request("get_output", id) \in Requests
    BY <1>0, MessageTypes
  <2>2. ASSUME NEW q \in Requests, NEW u \in Requests PROVE requests \o <<q, u>> \in Seq(Requests) /\ requests \o <<q>> \in Seq(Requests)
    BY DEF ServerTypeOK
  <2> QED BY <1>2, <2>1, <2>2
<1>4. ServerTypeOK'
  BY <1>1, <1>3, DispatchTypes DEF ServerTypeOK, server
<1>5. DOMAIN outputs' \subseteq Ids /\ outputs' \in [DOMAIN outputs' -> [name : AllNames, ipc : BOOLEAN]]
  <2>1. [name |-> Provisional(id), ipc |-> manager] \in [name : AllNames, ipc : BOOLEAN]
    BY <1>0 DEF AllNames
  <2> DEFINE o == [name |-> Provisional(id), ipc |-> manager]
  <2> HIDE DEF o
  <2> QED BY <1>0, <1>2, <2>1 DEF o, With, ClientTypeOK
<1>6. ClientTypeOK'
  <2>1. deferred' \in Seq(Ids)
    <3>1. ASSUME NEW x \in Ids PROVE Append(deferred, x) \in Seq(Ids)
      BY DEF ClientTypeOK
    <3>2. Append(deferred, id) \in Seq(Ids)
      BY <1>0, <3>1
    <3> QED BY <1>2, <3>2 DEF ClientTypeOK
  <2> QED BY <1>1, <1>5, <2>1 DEF ClientTypeOK
<1>7. ObserverTypeOK'
  BY <1>1 DEF ObserverTypeOK, observer
<1> QED BY <1>4, <1>6, <1>7

LEMMA RemovedTypes ==
  ASSUME ServerTypeOK, ClientTypeOK, ObserverTypeOK, OnRemoved
  PROVE  ServerTypeOK' /\ ClientTypeOK' /\ ObserverTypeOK'
<1>1. Arrived("removed") /\ Dispatched /\ UNCHANGED <<server>> /\ Message.id \in DOMAIN outputs
      /\ UNCHANGED <<phase, deferred, tagCount, pending, focusedName, focusedId, requests>>
      /\ outputs' = Without(outputs, Message.id) /\ committed' = Without(committed, NameOf)
      /\ UNCHANGED <<told, toldFocus>>
  BY DEF OnRemoved, Unannounced
<1>2. ServerTypeOK'
  BY <1>1, DispatchTypes DEF ServerTypeOK, server
<1>3. ClientTypeOK'
  <2>1. DOMAIN outputs' \subseteq Ids /\ outputs' \in [DOMAIN outputs' -> [name : AllNames, ipc : BOOLEAN]]
    BY <1>1 DEF Without, ClientTypeOK
  <2>2. DOMAIN committed' \subseteq AllNames /\ committed' \in [DOMAIN committed' -> OutputStates]
    BY <1>1 DEF Without, ClientTypeOK
  <2> QED BY <1>1, <2>1, <2>2 DEF ClientTypeOK
<1>4. ObserverTypeOK'
  BY <1>1 DEF ObserverTypeOK
<1> QED BY <1>2, <1>3, <1>4

LEMMA NameTypes ==
  ASSUME ServerTypeOK, ClientTypeOK, ObserverTypeOK, manager \in BOOLEAN, OnName
  PROVE  ServerTypeOK' /\ ClientTypeOK' /\ ObserverTypeOK'
<1> DEFINE id == Message.id
           new == Message.name
           old == IF id \in DOMAIN outputs THEN outputs[id].name ELSE new
           moved == Renamed(committed, old, new)
<1>1. Arrived("name") /\ Dispatched /\ UNCHANGED <<server, observer>>
      /\ UNCHANGED <<phase, deferred, tagCount>>
  BY DEF OnName
<1>2. Message \in Messages /\ id \in Ids /\ new \in Names /\ new \in AllNames
  BY <1>1, DispatchTypes, MessageShapes DEF IPCKinds, AllNames
<1>3. /\ outputs' = IF id \in DOMAIN outputs
                    THEN [outputs EXCEPT ![id] = [name |-> new, ipc |-> @.ipc \/ manager]] ELSE outputs
      /\ requests' \in {requests, Append(requests, Request("get_output", id))}
      /\ pending' = Renamed(pending, old, new)
      /\ committed' = IF new \in DOMAIN moved THEN moved ELSE With(moved, new, Blank(tagCount))
      /\ focusedName' \in {focusedName, new} /\ focusedId' \in {focusedId, id}
  BY DEF OnName
<1>4. requests' \in Seq(Requests)
  <2>1. Request("get_output", id) \in Requests
    BY <1>2, MessageTypes
  <2>2. ASSUME NEW q \in Requests PROVE Append(requests, q) \in Seq(Requests)
    BY DEF ServerTypeOK
  <2> QED BY <1>3, <2>1, <2>2 DEF ServerTypeOK
<1>5. ServerTypeOK'
  BY <1>1, <1>4, DispatchTypes DEF ServerTypeOK, server
<1>6. DOMAIN outputs' \subseteq Ids /\ outputs' \in [DOMAIN outputs' -> [name : AllNames, ipc : BOOLEAN]]
  BY <1>2, <1>3 DEF ClientTypeOK
<1>7. DOMAIN pending' \subseteq AllNames /\ pending' \in [DOMAIN pending' -> OutputStates]
  BY <1>2, <1>3, RenamedTypes DEF ClientTypeOK
<1> HIDE DEF old, new, id
<1>8. DOMAIN moved \subseteq AllNames /\ moved \in [DOMAIN moved -> OutputStates]
  BY <1>2, RenamedTypes DEF ClientTypeOK
<1>9. Blank(tagCount) \in OutputStates
  BY StateTypes DEF ClientTypeOK
<1> HIDE DEF moved
<1>10. DOMAIN committed' \subseteq AllNames /\ committed' \in [DOMAIN committed' -> OutputStates]
  <2>1. CASE new \in DOMAIN moved
    BY <1>3, <1>8, <2>1
  <2>2. CASE new \notin DOMAIN moved
    <3>1. committed' = With(moved, new, Blank(tagCount))
      BY <1>3, <2>2
    <3>2. /\ DOMAIN With(moved, new, Blank(tagCount)) = DOMAIN moved \cup {new}
          /\ With(moved, new, Blank(tagCount)) \in [DOMAIN moved \cup {new} -> OutputStates]
      BY <1>8, <1>9, StoreTypes
    <3> QED BY <1>2, <1>8, <3>1, <3>2
  <2> QED BY <2>1, <2>2
<1>11. ClientTypeOK'
  BY <1>1, <1>2, <1>3, <1>6, <1>7, <1>10 DEF ClientTypeOK
<1>12. ObserverTypeOK'
  BY <1>1 DEF ObserverTypeOK, observer
<1> QED BY <1>5, <1>11, <1>12

LEMMA TagCountTypes ==
  ASSUME ServerTypeOK, ClientTypeOK, ObserverTypeOK, OnTags
  PROVE  ServerTypeOK' /\ ClientTypeOK' /\ ObserverTypeOK'
<1>1. Arrived("tags") /\ Dispatched /\ UNCHANGED <<server, observer>> /\ tagCount' = NTags
      /\ committed' = [n \in DOMAIN committed |-> [committed[n] EXCEPT !.ntags = NTags]]
      /\ UNCHANGED <<phase, outputs, deferred, pending, focusedName, focusedId, requests>>
  BY DEF OnTags
<1>2. ServerTypeOK'
  BY <1>1, DispatchTypes DEF ServerTypeOK, server
<1>3. DOMAIN committed' = DOMAIN committed /\ committed' \in [DOMAIN committed -> OutputStates]
  BY <1>1, StateTypes DEF ClientTypeOK
<1>4. ClientTypeOK'
  BY <1>1, <1>3 DEF ClientTypeOK
<1>5. ObserverTypeOK'
  BY <1>1 DEF ObserverTypeOK, observer
<1> QED BY <1>2, <1>4, <1>5

LEMMA StaleTypes ==
  ASSUME ServerTypeOK, ClientTypeOK, ObserverTypeOK, OnStale
  PROVE  ServerTypeOK' /\ ClientTypeOK' /\ ObserverTypeOK'
<1>1. PICK k \in IPCKinds : Arrived(k) /\ Dispatched
  BY DEF OnStale
<1>2. UNCHANGED <<client, requests, server, observer>>
  BY DEF OnStale
<1> QED BY <1>1, <1>2, DispatchTypes DEF ServerTypeOK, ClientTypeOK, ObserverTypeOK, client, server, observer

LEMMA ServeTypes ==
  ASSUME ServerTypeOK, ClientTypeOK, ObserverTypeOK, ServeSet
  PROVE  /\ ServerTypeOK' /\ ClientTypeOK' /\ ObserverTypeOK'
         /\ \E f \in Facts : \E v \in FactValues(f) :
              requests' = Append(requests, SetRequest(focusedId, f, v))
<1>1. PICK f \in Facts : \E v \in FactValues(f) : requests' = Append(requests, SetRequest(focusedId, f, v))
  BY DEF ServeSet
<1>2. PICK v \in FactValues(f) : requests' = Append(requests, SetRequest(focusedId, f, v))
  BY <1>1
<1>3. focusedId \in Ids /\ UNCHANGED <<client, wire, plugged, truth, active, bound, unused, observer>>
  BY DEF ServeSet, ClientTypeOK
<1>4. SetRequest(focusedId, f, v) \in Requests
  BY <1>3, MessageTypes
<1>5. requests' \in Seq(Requests)
  BY <1>2, <1>4 DEF ServerTypeOK
<1> QED BY <1>2, <1>3, <1>5 DEF ServerTypeOK, ClientTypeOK, ObserverTypeOK, client, observer

TypesInv == ServerTypeOK /\ ClientTypeOK /\ ObserverTypeOK /\ manager \in BOOLEAN

(* What the registry announces first. *)
LEMMA FirstMessages ==
  ASSUME Init
  PROVE  \E n \in Nat : \E order \in [1..n -> AtStart \cup {NoId}] :
           /\ \A i, j \in 1..n : order[i] = order[j] => i = j
           /\ wire \in Seq(Messages) /\ Len(wire) = n + 1
           /\ wire[n + 1] = Msg("done", NoId)
           /\ \A i \in 1..n : wire[i] = Msg(IF order[i] = NoId THEN "manager" ELSE "output", order[i])
<1>1. PICK globals \in {AtStart, AtStart \cup {NoId}} : wire \in Announcements(globals)
  BY DEF Init
<1>2. globals \in SUBSET (Ids \cup {NoId}) /\ globals \subseteq AtStart \cup {NoId} /\ IsFiniteSet(globals)
  BY FS_AddElement
<1>3. Cardinality(globals) \in Nat
  BY <1>2, FS_CardinalityType
<1>4. PICK order \in [1..Cardinality(globals) -> globals] :
        /\ \A i, j \in DOMAIN order : order[i] = order[j] => i = j
        /\ wire = Append([i \in DOMAIN order |-> Msg(IF order[i] = NoId THEN "manager" ELSE "output", order[i])],
                         Msg("done", NoId))
  BY <1>1 DEF Announcements
<1> DEFINE heads == [i \in DOMAIN order |-> Msg(IF order[i] = NoId THEN "manager" ELSE "output", order[i])]
           n == Cardinality(globals)
<1>5. heads \in [1..n -> Messages] /\ wire = Append(heads, Msg("done", NoId))
  BY <1>2, <1>4, MessageTypes
<1>6. \A i \in 1..n : heads[i] = Msg(IF order[i] = NoId THEN "manager" ELSE "output", order[i])
  OBVIOUS
<1> HIDE DEF heads, n
<1>7. n \in Nat
  BY <1>3 DEF n
<1>8. heads \in Seq(Messages) /\ Len(heads) = n
  <2>1. heads = [i \in 1..n |-> heads[i]] /\ \A i \in 1..n : heads[i] \in Messages
    BY <1>5
  <2> DEFINE h == [i \in 1..n |-> heads[i]]
  <2>2. h \in Seq(Messages)
    BY <1>7, <2>1, IsASeq
  <2>3. heads \in Seq(Messages) /\ DOMAIN heads = 1..n
    BY <1>5, <2>1, <2>2
  <2> QED BY <1>7, <2>3
<1>9. Msg("done", NoId) \in Messages
  BY MessageTypes
<1>10. /\ wire \in Seq(Messages) /\ Len(wire) = n + 1 /\ wire[n + 1] = Msg("done", NoId)
       /\ \A i \in 1..n : wire[i] = heads[i]
  BY <1>5, <1>7, <1>8, <1>9
<1>11. order \in [1..n -> AtStart \cup {NoId}] /\ \A i, j \in 1..n : order[i] = order[j] => i = j
  BY <1>2, <1>4 DEF n
<1>12. \A i \in 1..n : wire[i] = Msg(IF order[i] = NoId THEN "manager" ELSE "output", order[i])
  BY <1>6, <1>10
<1> HIDE DEF n
<1> QED BY <1>7, <1>10, <1>11, <1>12

LEMMA TypesInit == Init => TypesInv
<1> SUFFICES ASSUME Init PROVE TypesInv
  OBVIOUS
<1>1. wire \in Seq(Messages)
  BY FirstMessages
<1>2. ServerTypeOK
  <2>1. plugged \in [AtStart -> Names] /\ requests = <<>> /\ bound = {} /\ unused = Ids \ AtStart
    BY DEF Init
  <2>2. truth \in [Ids -> FactSets]
    BY NoFactsTypes DEF Init
  <2>3. active \in Ids \cup {NoId}
    BY DEF Init
  <2> QED BY <1>1, <2>1, <2>2, <2>3 DEF ServerTypeOK
<1>3. ClientTypeOK
  BY DEF Init, ClientTypeOK
<1>4. ObserverTypeOK
  BY NoFactsTypes DEF Init, ObserverTypeOK
<1>5. manager \in BOOLEAN
  BY DEF Init
<1> QED BY <1>2, <1>3, <1>4, <1>5 DEF TypesInv

LEMMA TypesNext == TypesInv /\ [Next]_vars => TypesInv'
<1> SUFFICES ASSUME TypesInv, [Next]_vars PROVE TypesInv'
  OBVIOUS
<1>1. ServerTypeOK /\ ClientTypeOK /\ ObserverTypeOK /\ manager \in BOOLEAN
  BY DEF TypesInv
<1>2. ASSUME UNCHANGED client PROVE (ClientTypeOK /\ manager \in BOOLEAN)'
  <2>1. UNCHANGED manager
    BY <1>2 DEF client
  <2>2. (manager \in BOOLEAN)'
    BY <1>1, <2>1, Zenon
  <2>3. ClientTypeOK'
    BY <1>1, <1>2 DEF ClientTypeOK, client
  <2> QED BY <2>2, <2>3
<1>3. ASSUME UNCHANGED observer PROVE ObserverTypeOK'
  BY <1>1, <1>3 DEF ObserverTypeOK, observer
<1>4. ASSUME NEW id \in Ids, Plug(id) \/ Unplug(id) \/ Change(id) \/ Focus(id) PROVE TypesInv'
  BY <1>1, <1>2, <1>3, <1>4, PlugEffect, UnplugEffect, StatusStepEffect DEF TypesInv
<1>5. CASE HandleRequest
  BY <1>1, <1>2, <1>3, <1>5, HandleEffect DEF TypesInv
<1>6. CASE OnDone
  BY <1>1, <1>6, DoneTypes DEF TypesInv, OnDone
<1>7. CASE OnManager
  BY <1>1, <1>7, ManagerTypes DEF TypesInv, OnManager
<1>8. CASE OnOutput
  BY <1>1, <1>8, OutputTypes DEF TypesInv, OnOutput
<1>9. CASE OnRemoved
  BY <1>1, <1>9, RemovedTypes DEF TypesInv, OnRemoved
<1>10. CASE OnName
  BY <1>1, <1>10, NameTypes DEF TypesInv, OnName
<1>11. CASE OnTags
  BY <1>1, <1>11, TagCountTypes DEF TypesInv, OnTags
<1>12. CASE OnStale
  BY <1>1, <1>2, <1>12, StaleTypes DEF TypesInv, OnStale
<1>13. CASE OnActive
  BY <1>1, <1>13, ActiveTypes DEF TypesInv, OnActive, Ipc
<1>14. CASE OnTag
  BY <1>1, <1>14, TagTypes DEF TypesInv, OnTag, Ipc
<1>15. CASE OnField
  BY <1>1, <1>15, FieldTypes DEF TypesInv, OnField, Ipc
<1>16. CASE OnFrame
  BY <1>1, <1>16, FrameTypes DEF TypesInv, OnFrame, Ipc
<1>17. CASE ServeSet
  BY <1>1, <1>2, <1>17, ServeTypes DEF TypesInv, ServeSet
<1>18. CASE UNCHANGED vars
  BY <1>1, <1>2, <1>3, <1>18 DEF TypesInv, vars, server, ServerTypeOK
<1> QED BY <1>4, <1>5, <1>6, <1>7, <1>8, <1>9, <1>10, <1>11, <1>12, <1>13, <1>14, <1>15, <1>16, <1>17, <1>18 DEF Next

(* The adapter's state stays within its types, whatever is plugged, renamed, *)
(* removed or sent: no output, no name and no fact is stored that the        *)
(* protocol does not know (mangowc/src/lib.rs, WaylandState).                *)
THEOREM MangoTypeCorrect == Spec => []TypeOK
<1>1. TypesInv => TypeOK
  BY DEF TypesInv, ClientTypeOK, TypeOK
<1> QED BY <1>1, TypesInit, TypesNext, PTL DEF Spec

-----------------------------------------------------------------------------
(* The life of an output, as the two queues see it.  The compositor makes    *)
(* it known with `output'; the adapter asks for its name and then for its    *)
(* IPC object; the name comes before the first status, and `removed' after   *)
(* all of these.                                                             *)

Wires(k, id) == {i \in 1..Len(wire) : wire[i].kind = k /\ wire[i].id = id}
Ipcs(id)     == {i \in 1..Len(wire) : wire[i].kind \in IPCKinds /\ wire[i].id = id}
Asked(k, id) == {i \in 1..Len(requests) : requests[i].kind = k /\ requests[i].id = id}

(* Until the manager is found nothing but outputs under provisional names is *)
(* known, and it is only found in the first roundtrip.                       *)
StartInv ==
  /\ phase = "globals" =>
       /\ focusedId = NoId /\ focusedName = NoName /\ DOMAIN committed = {} /\ DOMAIN pending = {}
       /\ \A id \in DOMAIN outputs : outputs[id].name = Provisional(id)
       /\ \A i \in 1..Len(deferred) : deferred[i] \in DOMAIN outputs
       /\ \E d \in 1..Len(wire) :
            /\ wire[d].kind = "done"
            /\ \A i \in 1..Len(wire) : i < d => wire[i].kind \in {"manager", "output"}
            /\ \A i \in 1..Len(wire) : i > d => wire[i].kind # "manager"
  /\ phase # "globals" => \A i \in 1..Len(wire) : wire[i].kind # "manager"

(* Of an output that is not announced, or not yet, nothing is known.         *)
FreshInv(id) ==
  /\ id \in unused \/ Wires("output", id) # {} =>
       /\ Wires("name", id) = {} /\ Ipcs(id) = {}
       /\ \A k \in {"bind_output", "get_output", "set"} : Asked(k, id) = {}
       /\ id \notin DOMAIN outputs /\ id \notin bound /\ focusedId # id
       /\ \A i \in 1..Len(deferred) : deferred[i] # id
  /\ id \in unused =>
       Wires("output", id) = {} /\ Wires("removed", id) = {} /\ id \notin DOMAIN plugged
  /\ \A i, j \in Wires("output", id) : i = j

(* The name is asked for once, and before the IPC object.                    *)
BindInv(id) ==
  \A i \in Asked("bind_output", id) :
    /\ \A j \in Asked("bind_output", id) : i = j
    /\ \A j \in Asked("get_output", id) : i < j
    /\ Wires("name", id) = {} /\ Ipcs(id) = {} /\ id \notin bound /\ focusedId # id
    /\ id \in DOMAIN outputs => outputs[id].name = Provisional(id)

(* The name comes once, before any status, while the output has no other and *)
(* no focus.                                                                 *)
NamingInv(id) ==
  \A i \in Wires("name", id) :
    /\ \A j \in Wires("name", id) : i = j
    /\ \A j \in Ipcs(id) : i < j
    /\ focusedId # id
    /\ id \in DOMAIN outputs => outputs[id].name = Provisional(id)
    /\ id \in DOMAIN plugged => wire[i].name = plugged[id]

(* An output has its own name or its provisional one, and in that case its   *)
(* own is asked for or under way, ahead of every status.                     *)
NamedInv(id) ==
  id \in DOMAIN outputs =>
    /\ outputs[id].name \in Names \cup {Provisional(id)}
    /\ id \in DOMAIN plugged /\ outputs[id].name \in Names => outputs[id].name = plugged[id]
    /\ outputs[id].name \notin Names =>
         /\ id \in DOMAIN plugged => Asked("bind_output", id) # {} \/ Wires("name", id) # {}
         /\ Ipcs(id) # {} => Wires("name", id) # {}

(* What is gone at the compositor, the adapter will hear of, last of all.    *)
GoneInv(id) ==
  /\ id \in bound => id \in DOMAIN plugged
  /\ \A j \in Wires("removed", id) :
       /\ id \notin DOMAIN plugged
       /\ \A i \in Wires("name", id) \cup Wires("output", id) : i < j
  /\ id \notin DOMAIN plugged
       /\ (id \in DOMAIN outputs \/ Wires("name", id) # {} \/ Wires("output", id) # {})
       => Wires("removed", id) # {}

LifeInv(id) ==
  FreshInv(id) /\ BindInv(id) /\ NamingInv(id) /\ NamedInv(id) /\ GoneInv(id)

(* How the positions change when the head of the wire is dispatched.         *)
LEMMA WireShift ==
  ASSUME wire \in Seq(Messages), wire # <<>>, wire' = Tail(wire)
  PROVE  /\ \A k, id : \A i \in Wires(k, id)' : i + 1 \in Wires(k, id) /\ wire'[i] = wire[i + 1]
         /\ \A k, id : \A i \in Wires(k, id) : i # 1 => i - 1 \in Wires(k, id)'
         /\ \A id : \A i \in Ipcs(id)' : i + 1 \in Ipcs(id)
         /\ \A k, id : 1 \in Wires(k, id) <=> Message.kind = k /\ Message.id = id
         /\ \A id : 1 \in Ipcs(id) <=> Message.kind \in IPCKinds /\ Message.id = id
         /\ \A k, id : Wires(k, id) \subseteq Nat \ {0} /\ Wires(k, id)' \subseteq Nat \ {0}
         /\ \A id : Ipcs(id) \subseteq Nat \ {0} /\ Ipcs(id)' \subseteq Nat \ {0}
<1>1. Len(wire) \in Nat \ {0} /\ Len(wire') = Len(wire) - 1 /\ Message = wire[1]
  BY DEF Message
<1>2. \A i \in 1..Len(wire') : wire'[i] = wire[i + 1]
  OBVIOUS
<1> QED BY <1>1, <1>2 DEF Wires, Ipcs

(* ... and when messages are sent. *)
LEMMA WireGrows ==
  ASSUME wire \in Seq(Messages), NEW s \in Seq(Messages), wire' = wire \o s
  PROVE  /\ \A k, id : \A i \in Wires(k, id) : i \in Wires(k, id)' /\ wire'[i] = wire[i]
         /\ \A id : \A i \in Ipcs(id) : i \in Ipcs(id)'
         /\ \A k, id : \A i \in Wires(k, id)' : i \in Wires(k, id)
              \/ \E j \in DOMAIN s : i = Len(wire) + j /\ wire'[i] = s[j] /\ s[j].kind = k /\ s[j].id = id
         /\ \A id : \A i \in Ipcs(id)' : i \in Ipcs(id)
              \/ \E j \in DOMAIN s : i = Len(wire) + j /\ s[j].kind \in IPCKinds /\ s[j].id = id
         /\ \A k, id, j : j \in DOMAIN s /\ s[j].kind = k /\ s[j].id = id => Len(wire) + j \in Wires(k, id)'
         /\ \A k, id : Wires(k, id) \subseteq 1..Len(wire) /\ Wires(k, id)' \subseteq Nat \ {0}
         /\ \A id : Ipcs(id) \subseteq 1..Len(wire) /\ Ipcs(id)' \subseteq Nat \ {0}
<1>1. /\ Len(wire) \in Nat /\ Len(s) \in Nat /\ Len(wire') = Len(wire) + Len(s)
      /\ \A i \in 1..Len(wire) : wire'[i] = wire[i]
  OBVIOUS
<1>2. DOMAIN s = 1..Len(s) /\ \A j \in 1..Len(s) : Len(wire) + j \in 1..Len(wire') /\ wire'[Len(wire) + j] = s[j]
  OBVIOUS
<1>3. \A i \in 1..Len(wire') : i \notin 1..Len(wire) => i - Len(wire) \in 1..Len(s) /\ i = Len(wire) + (i - Len(wire))
  BY <1>1
<1>4. /\ \A k, id : \A i \in Wires(k, id) : i \in Wires(k, id)' /\ wire'[i] = wire[i]
      /\ \A id : \A i \in Ipcs(id) : i \in Ipcs(id)'
  BY <1>1 DEF Wires, Ipcs
<1>5. \A i \in 1..Len(wire') : i \in 1..Len(wire) \/ \E j \in DOMAIN s : i = Len(wire) + j /\ wire'[i] = s[j]
  BY <1>2, <1>3
<1>6. ASSUME NEW k, NEW id, NEW i \in Wires(k, id)'
      PROVE  i \in Wires(k, id)
              \/ \E j \in DOMAIN s : i = Len(wire) + j /\ wire'[i] = s[j] /\ s[j].kind = k /\ s[j].id = id
  BY <1>1, <1>5 DEF Wires
<1>7. ASSUME NEW id, NEW i \in Ipcs(id)'
      PROVE  i \in Ipcs(id)
              \/ \E j \in DOMAIN s : i = Len(wire) + j /\ s[j].kind \in IPCKinds /\ s[j].id = id
  BY <1>1, <1>5 DEF Ipcs
<1>8. \A k, id, j : j \in DOMAIN s /\ s[j].kind = k /\ s[j].id = id => Len(wire) + j \in Wires(k, id)'
  BY <1>1, <1>2 DEF Wires
<1>9. /\ \A k, id : Wires(k, id) \subseteq 1..Len(wire) /\ Wires(k, id)' \subseteq Nat \ {0}
      /\ \A id : Ipcs(id) \subseteq 1..Len(wire) /\ Ipcs(id)' \subseteq Nat \ {0}
  BY <1>1 DEF Wires, Ipcs
<1> QED BY <1>4, <1>6, <1>7, <1>8, <1>9

LEMMA StatusesSent ==
  ASSUME wire \in Seq(Messages), NEW s \in Seq(Messages), wire' = wire \o s, NEW S,
         \A j \in DOMAIN s : s[j].kind \in IPCKinds /\ s[j].id \in S
  PROVE  /\ \A k \in {"output", "name", "removed"} : \A id : Wires(k, id)' = Wires(k, id)
         /\ \A id : \A i \in Wires("name", id) : wire'[i] = wire[i] /\ i \in 1..Len(wire)
         /\ \A id : \A i \in Ipcs(id)' : i \in Nat /\ (i \in Ipcs(id) \/ (i > Len(wire) /\ id \in S))
<1>1. s \in Seq(Messages) /\ \A j \in DOMAIN s : j > 0 /\ s[j].kind \in IPCKinds /\ s[j].id \in S
  OBVIOUS
<1>2. Len(wire) \in Nat
  OBVIOUS
<1>3. /\ \A k, id : \A i \in Wires(k, id) : i \in Wires(k, id)' /\ wire'[i] = wire[i]
      /\ \A k, id : Wires(k, id) \subseteq 1..Len(wire)
  BY <1>1, WireGrows
<1>4. \A k \in {"output", "name", "removed"} : \A id : \A i \in Wires(k, id)' : i \in Wires(k, id)
  <2>1. \A k, id : \A i \in Wires(k, id)' : i \in Wires(k, id)
          \/ \E j \in DOMAIN s : i = Len(wire) + j /\ wire'[i] = s[j] /\ s[j].kind = k /\ s[j].id = id
    BY <1>1, WireGrows
  <2> QED BY <1>1, <2>1 DEF IPCKinds
<1>5. ASSUME NEW id, NEW i \in Ipcs(id)'
      PROVE  i \in Nat /\ (i \in Ipcs(id) \/ (i > Len(wire) /\ id \in S))
  <2>0. i \in Nat
    BY <1>1, WireGrows
  <2>1. i \in Ipcs(id) \/ \E j \in DOMAIN s : i = Len(wire) + j /\ s[j].kind \in IPCKinds /\ s[j].id = id
    BY <1>1, WireGrows
  <2>2. DOMAIN s \subseteq Nat
    BY <1>1
  <2>3. CASE i \notin Ipcs(id)
    <3>1. PICK j \in DOMAIN s : i = Len(wire) + j /\ s[j].kind \in IPCKinds /\ s[j].id = id
      BY <2>1, <2>3
    <3>2. j > 0 /\ j \in Nat /\ s[j].id \in S
      BY <1>1, <2>2
    <3> QED BY <1>2, <3>1, <3>2
  <2> QED BY <2>0, <2>3
<1>6. ASSUME NEW k \in {"output", "name", "removed"}, NEW id
      PROVE  Wires(k, id)' = Wires(k, id)
  <2>1. \A i \in Wires(k, id)' : i \in Wires(k, id)
    BY <1>4
  <2>2. \A i \in Wires(k, id) : i \in Wires(k, id)'
    BY <1>3
  <2> QED BY <2>1, <2>2, Zenon
<1>7. \A id : \A i \in Wires("name", id) : wire'[i] = wire[i] /\ i \in 1..Len(wire)
  BY <1>3
<1> QED BY <1>5, <1>6, <1>7

LEMMA OneSent ==
  ASSUME wire \in Seq(Messages), NEW m \in Messages, wire' = Append(wire, m)
  PROVE  /\ Len(wire) \in Nat
         /\ \A k, id : Wires(k, id)' = Wires(k, id) \cup (IF m.kind = k /\ m.id = id THEN {Len(wire) + 1} ELSE {})
         /\ \A k, id : \A i \in Wires(k, id) : wire'[i] = wire[i] /\ i \in 1..Len(wire)
         /\ wire'[Len(wire) + 1] = m
         /\ \A id : \A i \in Ipcs(id) : i \in 1..Len(wire)
         /\ m.kind \notin IPCKinds => \A id : Ipcs(id)' = Ipcs(id)
<1>1. <<m>> \in Seq(Messages) /\ wire' = wire \o <<m>> /\ DOMAIN <<m>> = {1} /\ <<m>>[1] = m
  BY AppendIsConcat
<1>2. Len(wire) \in Nat /\ wire'[Len(wire) + 1] = m
  OBVIOUS
<1> DEFINE s == <<m>>
<1> HIDE DEF s
<1>3. s \in Seq(Messages) /\ wire' = wire \o s /\ DOMAIN s = {1} /\ s[1] = m
  BY <1>1 DEF s
<1>4. /\ \A k, id : \A i \in Wires(k, id) : i \in Wires(k, id)' /\ wire'[i] = wire[i] /\ i \in 1..Len(wire)
      /\ \A id : \A i \in Ipcs(id) : i \in Ipcs(id)' /\ i \in 1..Len(wire)
  BY <1>3, WireGrows
<1>5. ASSUME NEW k, NEW id
      PROVE  Wires(k, id)' = Wires(k, id) \cup (IF m.kind = k /\ m.id = id THEN {Len(wire) + 1} ELSE {})
  <2>1. \A i \in Wires(k, id)' : i \in Wires(k, id)
              \/ \E j \in DOMAIN s : i = Len(wire) + j /\ wire'[i] = s[j] /\ s[j].kind = k /\ s[j].id = id
    BY <1>3, WireGrows
  <2>2. m.kind = k /\ m.id = id => Len(wire) + 1 \in Wires(k, id)'
    BY <1>3, WireGrows
  <2> QED BY <1>3, <1>4, <2>1, <2>2
<1>6. ASSUME m.kind \notin IPCKinds, NEW id
      PROVE  Ipcs(id)' = Ipcs(id)
  <2>1. \A i \in Ipcs(id)' : i \in Ipcs(id) \/ \E j \in DOMAIN s : i = Len(wire) + j /\ s[j].kind \in IPCKinds /\ s[j].id = id
    BY <1>3, WireGrows
  <2> QED BY <1>3, <1>4, <1>6, <2>1
<1> QED BY <1>2, <1>4, <1>5, <1>6

(* The requests queue up in the same way. *)
LEMMA RequestsShift ==
  ASSUME requests \in Seq(Requests), requests # <<>>, requests' = Tail(requests)
  PROVE  /\ \A k, id : \A i \in Asked(k, id)' : i + 1 \in Asked(k, id)
         /\ \A k, id : \A i \in Asked(k, id) : i # 1 => i - 1 \in Asked(k, id)'
         /\ \A k, id : 1 \in Asked(k, id) <=> Head(requests).kind = k /\ Head(requests).id = id
         /\ \A k, id : Asked(k, id) \subseteq Nat \ {0} /\ Asked(k, id)' \subseteq Nat \ {0}
<1>1. Len(requests) \in Nat \ {0} /\ Len(requests') = Len(requests) - 1 /\ Head(requests) = requests[1]
  OBVIOUS
<1>2. \A i \in 1..Len(requests') : requests'[i] = requests[i + 1]
  OBVIOUS
<1> QED BY <1>1, <1>2 DEF Asked

LEMMA RequestsGrow ==
  ASSUME requests \in Seq(Requests), NEW s \in Seq(Requests), requests' = requests \o s
  PROVE  /\ Len(requests) \in Nat /\ DOMAIN s \subseteq Nat \ {0}
         /\ \A k, id : Asked(k, id) \subseteq Asked(k, id)' /\ Asked(k, id) \subseteq 1..Len(requests)
         /\ \A k, id : \A i \in Asked(k, id)' : i \in Asked(k, id)
              \/ \E j \in DOMAIN s : i = Len(requests) + j /\ s[j].kind = k /\ s[j].id = id
         /\ \A k, id, j : j \in DOMAIN s /\ s[j].kind = k /\ s[j].id = id => Len(requests) + j \in Asked(k, id)'
<1>1. /\ Len(requests) \in Nat /\ Len(s) \in Nat /\ Len(requests') = Len(requests) + Len(s)
      /\ \A i \in 1..Len(requests) : requests'[i] = requests[i]
  OBVIOUS
<1>2. DOMAIN s = 1..Len(s) /\ \A j \in 1..Len(s) : Len(requests) + j \in 1..Len(requests') /\ requests'[Len(requests) + j] = s[j]
  OBVIOUS
<1>3. \A i \in 1..Len(requests') : i \notin 1..Len(requests) => i - Len(requests) \in 1..Len(s) /\ i = Len(requests) + (i - Len(requests))
  BY <1>1
<1>4. \A i \in 1..Len(requests') : i \in 1..Len(requests) \/ \E j \in DOMAIN s : i = Len(requests) + j /\ requests'[i] = s[j]
  BY <1>2, <1>3
<1>5. ASSUME NEW k, NEW id, NEW i \in Asked(k, id)'
      PROVE  i \in Asked(k, id)
              \/ \E j \in DOMAIN s : i = Len(requests) + j /\ s[j].kind = k /\ s[j].id = id
  BY <1>1, <1>4 DEF Asked
<1>6. \A k, id : Asked(k, id) \subseteq Asked(k, id)' /\ Asked(k, id) \subseteq 1..Len(requests)
  BY <1>1 DEF Asked
<1>7. \A k, id, j : j \in DOMAIN s /\ s[j].kind = k /\ s[j].id = id => Len(requests) + j \in Asked(k, id)'
  BY <1>1, <1>2 DEF Asked
<1> QED BY <1>1, <1>2, <1>5, <1>6, <1>7

LEMMA OneAsked ==
  ASSUME requests \in Seq(Requests), NEW r \in Requests, requests' = Append(requests, r)
  PROVE  /\ Len(requests) \in Nat
         /\ \A k, id : Asked(k, id)' = Asked(k, id) \cup (IF r.kind = k /\ r.id = id THEN {Len(requests) + 1} ELSE {})
         /\ \A k, id : Asked(k, id) \subseteq 1..Len(requests)
<1>1. <<r>> \in Seq(Requests) /\ requests' = requests \o <<r>> /\ DOMAIN <<r>> = {1} /\ <<r>>[1] = r
  BY AppendIsConcat
<1> DEFINE s == <<r>>
<1> HIDE DEF s
<1>2. s \in Seq(Requests) /\ requests' = requests \o s /\ DOMAIN s = {1} /\ s[1] = r
  BY <1>1 DEF s
<1>3. ASSUME NEW k, NEW id
      PROVE  Asked(k, id)' = Asked(k, id) \cup (IF r.kind = k /\ r.id = id THEN {Len(requests) + 1} ELSE {})
  <2>1. /\ Asked(k, id) \subseteq Asked(k, id)'
        /\ \A i \in Asked(k, id)' : i \in Asked(k, id)
              \/ \E j \in DOMAIN s : i = Len(requests) + j /\ s[j].kind = k /\ s[j].id = id
    BY <1>2, RequestsGrow
  <2>2. r.kind = k /\ r.id = id => Len(requests) + 1 \in Asked(k, id)'
    BY <1>2, RequestsGrow
  <2> QED BY <1>2, <2>1, <2>2
<1>4. Len(requests) \in Nat /\ \A k, id : Asked(k, id) \subseteq 1..Len(requests)
  BY <1>2, RequestsGrow
<1> QED BY <1>3, <1>4

LEMMA Unmoved ==
  /\ UNCHANGED wire => \A k, id : Wires(k, id)' = Wires(k, id) /\ Ipcs(id)' = Ipcs(id)
  /\ UNCHANGED requests => \A k, id : Asked(k, id)' = Asked(k, id)
BY DEF Wires, Ipcs, Asked

(* A step that neither takes nor brings the name of an output. *)
LEMMA NamingKept ==
  ASSUME NEW x \in Ids, NamingInv(x), UNCHANGED <<outputs, focusedId>>,
         Wires("name", x)' = Wires("name", x),
         \A i \in Wires("name", x) : wire'[i] = wire[i],
         \A i \in Wires("name", x), j \in Ipcs(x)' : j \in Ipcs(x) \/ i < j,
         \A i \in Wires("name", x) : x \in DOMAIN plugged' => x \in DOMAIN plugged /\ plugged'[x] = plugged[x]
  PROVE  NamingInv(x)'
<1> SUFFICES ASSUME NEW i \in Wires("name", x)'
             PROVE  /\ \A j \in Wires("name", x)' : i = j
                    /\ \A j \in Ipcs(x)' : i < j
                    /\ focusedId' # x
                    /\ x \in DOMAIN outputs' => outputs'[x].name = Provisional(x)
                    /\ x \in DOMAIN plugged' => wire'[i].name = plugged'[x]
  BY DEF NamingInv
<1>1. i \in Wires("name", x) /\ wire'[i] = wire[i]
  OBVIOUS
<1>2. (\A j \in Wires("name", x)' : i = j) /\ (\A j \in Ipcs(x)' : i < j)
  BY <1>1 DEF NamingInv
<1>3. focusedId' # x /\ (x \in DOMAIN outputs' => outputs'[x].name = Provisional(x))
  BY <1>1 DEF NamingInv
<1>4. x \in DOMAIN plugged' => wire'[i].name = plugged'[x]
  BY <1>1 DEF NamingInv
<1> QED BY <1>2, <1>3, <1>4

(* The compositor's steps. *)
LEMMA PlugLife ==
  ASSUME ServerTypeOK, NEW id \in Ids, Plug(id), NEW x \in Ids, LifeInv(x)
  PROVE  LifeInv(x)'
<1> DEFINE m == Msg("output", id)
<1>1. /\ id \in unused /\ unused' = unused \ {id} /\ DOMAIN plugged' = DOMAIN plugged \cup {id}
      /\ \A y \in DOMAIN plugged \ {id} : plugged'[y] = plugged[y]
      /\ wire' = Append(wire, m) /\ wire \in Seq(Messages)
      /\ UNCHANGED <<bound, requests, client>>
  BY PlugEffect DEF ServerTypeOK
<1>2. m \in Messages /\ m.kind = "output" /\ m.id = id /\ m.kind \notin IPCKinds
  BY MessageTypes DEF Msg, IPCKinds
<1> HIDE DEF m
<1>3. /\ Len(wire) \in Nat
      /\ \A k, y : Wires(k, y)' = Wires(k, y) \cup (IF k = "output" /\ y = id THEN {Len(wire) + 1} ELSE {})
      /\ \A k, y : \A i \in Wires(k, y) : wire'[i] = wire[i]
      /\ \A y : Ipcs(y)' = Ipcs(y)
  BY <1>1, <1>2, OneSent
<1>4. \A k, y : Asked(k, y)' = Asked(k, y)
  BY <1>1, Unmoved
<1>5. UNCHANGED <<outputs, deferred, focusedId, bound>>
  BY <1>1 DEF client
<1>6. FreshInv(x)'
  BY <1>1, <1>3, <1>4, <1>5 DEF LifeInv, FreshInv
<1>7. BindInv(x)'
  BY <1>1, <1>3, <1>4, <1>5 DEF LifeInv, FreshInv, BindInv
<1>8. NamingInv(x)'
  <2>1. Wires("name", x)' = Wires("name", x)
    BY <1>3
  <2>2. \A i \in Wires("name", x) : wire'[i] = wire[i] /\ x # id
    BY <1>1, <1>3 DEF LifeInv, FreshInv
  <2> QED BY <1>1, <1>3, <1>5, <2>1, <2>2, NamingKept DEF LifeInv
<1>9. NamedInv(x)'
  BY <1>1, <1>3, <1>4, <1>5 DEF LifeInv, FreshInv, NamedInv
<1>10. GoneInv(x)'
  BY <1>1, <1>3, <1>4, <1>5 DEF LifeInv, FreshInv, GoneInv
<1> QED BY <1>6, <1>7, <1>8, <1>9, <1>10 DEF LifeInv

LEMMA StatusLife ==
  ASSUME ServerTypeOK, NEW id \in Ids, Change(id) \/ Focus(id), NEW x \in Ids, LifeInv(x)
  PROVE  LifeInv(x)'
<1>1. UNCHANGED <<plugged, bound, unused, requests, client>> /\ wire \in Seq(Messages)
  BY StatusStepEffect DEF ServerTypeOK
<1>2. PICK s \in Seq(Messages) : Statuses(s) /\ wire' = wire \o s
  BY StatusStepEffect
<1>3. /\ \A k \in {"output", "name", "removed"} : \A y : Wires(k, y)' = Wires(k, y)
      /\ \A y : \A i \in Wires("name", y) : wire'[i] = wire[i] /\ i \in 1..Len(wire)
      /\ \A y : \A i \in Ipcs(y)' : i \in Nat /\ (i \in Ipcs(y) \/ (i > Len(wire) /\ y \in bound))
      /\ Len(wire) \in Nat
  <2>1. \A j \in DOMAIN s : s[j].kind \in IPCKinds /\ s[j].id \in bound
    BY <1>2 DEF Statuses
  <2>2. /\ \A k \in {"output", "name", "removed"} : \A y : Wires(k, y)' = Wires(k, y)
        /\ \A y : \A i \in Wires("name", y) : wire'[i] = wire[i] /\ i \in 1..Len(wire)
        /\ \A y : \A i \in Ipcs(y)' : i \in Nat /\ (i \in Ipcs(y) \/ (i > Len(wire) /\ y \in bound))
    BY <1>1, <1>2, <2>1, StatusesSent
  <2>3. Len(wire) \in Nat
    BY <1>1
  <2> QED BY <2>2, <2>3
<1>4. \A k, y : Asked(k, y)' = Asked(k, y)
  BY <1>1, Unmoved
<1>5. UNCHANGED <<outputs, deferred, focusedId, bound>>
  BY <1>1 DEF client
<1>6. FreshInv(x)' /\ BindInv(x)'
  BY <1>1, <1>3, <1>4, <1>5 DEF LifeInv, FreshInv, BindInv
<1>7. NamingInv(x)'
  <2>1. \A i \in Wires("name", x), j \in Ipcs(x)' : j \in Ipcs(x) \/ i < j
    BY <1>3
  <2> QED BY <1>1, <1>3, <1>5, <2>1, NamingKept DEF LifeInv
<1>8. NamedInv(x)'
  BY <1>1, <1>3, <1>4, <1>5 DEF LifeInv, BindInv, GoneInv, NamedInv
<1>9. GoneInv(x)'
  BY <1>1, <1>3, <1>4, <1>5 DEF LifeInv, GoneInv
<1> QED BY <1>6, <1>7, <1>8, <1>9 DEF LifeInv

LEMMA UnplugLife ==
  ASSUME ServerTypeOK, NEW id \in Ids, Unplug(id), NEW x \in Ids, LifeInv(x)
  PROVE  LifeInv(x)'
<1>1. /\ id \in DOMAIN plugged /\ DOMAIN plugged' = DOMAIN plugged \ {id}
      /\ \A y \in DOMAIN plugged \ {id} : plugged'[y] = plugged[y]
      /\ bound' = bound \ {id} /\ wire \in Seq(Messages)
      /\ UNCHANGED <<unused, requests, client>>
  BY UnplugEffect DEF ServerTypeOK
<1>2. PICK s \in Seq(Messages) : Statuses(s) /\ wire' = Append(wire, Msg("removed", id)) \o s
  BY UnplugEffect
<1> DEFINE t == <<Msg("removed", id)>> \o s
<1>3. Msg("removed", id) \in Messages /\ Msg("removed", id).kind = "removed" /\ Msg("removed", id).id = id
  BY MessageTypes DEF Msg
<1>4. t \in Seq(Messages) /\ wire' = wire \o t
  <2>1. Append(wire, Msg("removed", id)) = wire \o <<Msg("removed", id)>>
    BY <1>1, <1>3, AppendIsConcat
  <2>2. <<Msg("removed", id)>> \in Seq(Messages)
    BY <1>3
  <2> QED BY <1>1, <1>2, <2>1, <2>2, ConcatAssociative
<1>5. /\ Len(wire) \in Nat /\ DOMAIN t \subseteq Nat \ {0} /\ 1 \in DOMAIN t /\ t[1] = Msg("removed", id)
      /\ \A j \in DOMAIN t : j # 1 => t[j].kind \in IPCKinds /\ t[j].id \in bound
  <2>1. /\ DOMAIN t = 1..(1 + Len(s)) /\ Len(s) \in Nat /\ t[1] = Msg("removed", id)
        /\ \A j \in 2..(1 + Len(s)) : t[j] = s[j - 1] /\ j - 1 \in DOMAIN s
    BY <1>3
  <2> QED BY <1>1, <1>2, <2>1 DEF Statuses
<1> HIDE DEF t
<1>6. /\ \A k \in {"output", "name"} : \A y : Wires(k, y)' = Wires(k, y)
      /\ \A y : Wires("removed", y)' = Wires("removed", y) \cup (IF y = id THEN {Len(wire) + 1} ELSE {})
      /\ \A k, y : \A i \in Wires(k, y) : wire'[i] = wire[i] /\ i \in 1..Len(wire)
      /\ \A y : \A i \in Ipcs(y)' : i \in Nat /\ (i \in Ipcs(y) \/ (i > Len(wire) /\ y \in bound))
  <2>1. /\ \A k, y : \A i \in Wires(k, y) : i \in Wires(k, y)' /\ wire'[i] = wire[i] /\ i \in 1..Len(wire)
        /\ \A k, y : \A i \in Wires(k, y)' : i \in Wires(k, y)
             \/ \E j \in DOMAIN t : i = Len(wire) + j /\ wire'[i] = t[j] /\ t[j].kind = k /\ t[j].id = y
        /\ \A k, y, j : j \in DOMAIN t /\ t[j].kind = k /\ t[j].id = y => Len(wire) + j \in Wires(k, y)'
    <3>1. wire \in Seq(Messages)
      BY <1>1
    <3>2. \A k, y : \A i \in Wires(k, y) : i \in Wires(k, y)' /\ wire'[i] = wire[i]
      BY ONLY <3>1, <1>4, WireGrows
    <3>3. \A k, y : Wires(k, y) \subseteq 1..Len(wire)
      BY ONLY <3>1, <1>4, WireGrows
    <3>4. \A k, y : \A i \in Wires(k, y)' : i \in Wires(k, y)
             \/ \E j \in DOMAIN t : i = Len(wire) + j /\ wire'[i] = t[j] /\ t[j].kind = k /\ t[j].id = y
      BY ONLY <3>1, <1>4, WireGrows
    <3>5. \A k, y, j : j \in DOMAIN t /\ t[j].kind = k /\ t[j].id = y => Len(wire) + j \in Wires(k, y)'
      BY ONLY <3>1, <1>4, WireGrows
    <3> QED BY <3>2, <3>3, <3>4, <3>5
  <2>2. \A y : /\ \A i \in Ipcs(y)' : i \in Ipcs(y)
                   \/ \E j \in DOMAIN t : i = Len(wire) + j /\ t[j].kind \in IPCKinds /\ t[j].id = y
              /\ \A i \in Ipcs(y)' : i \in Nat
    <3>1. \A y : \A i \in Ipcs(y)' : i \in Ipcs(y)
             \/ \E j \in DOMAIN t : i = Len(wire) + j /\ t[j].kind \in IPCKinds /\ t[j].id = y
      BY <1>1, <1>4, WireGrows
    <3>2. \A y : Ipcs(y)' \subseteq Nat \ {0}
      BY <1>1, <1>4, WireGrows
    <3> QED BY <3>1, <3>2
  <2>3. ASSUME NEW k \in {"output", "name"}, NEW y PROVE Wires(k, y)' = Wires(k, y)
    <3>1. \A i \in Wires(k, y)' : i \in Wires(k, y)
      BY <1>3, <1>5, <2>1 DEF IPCKinds
    <3>2. \A i \in Wires(k, y) : i \in Wires(k, y)'
      BY <2>1
    <3> QED BY <3>1, <3>2, Zenon
  <2>4. ASSUME NEW y PROVE Wires("removed", y)' = Wires("removed", y) \cup (IF y = id THEN {Len(wire) + 1} ELSE {})
    <3>1. \A i \in Wires("removed", y)' : i \in Wires("removed", y) \/ (y = id /\ i = Len(wire) + 1)
      BY <1>3, <1>5, <2>1 DEF IPCKinds
    <3>2. \A i \in Wires("removed", y) : i \in Wires("removed", y)'
      BY <2>1
    <3>3. Len(wire) + 1 \in Wires("removed", id)'
      BY <1>3, <1>5, <2>1
    <3> QED BY <3>1, <3>2, <3>3
  <2>5. ASSUME NEW y, NEW i \in Ipcs(y)'
        PROVE  i \in Nat /\ (i \in Ipcs(y) \/ (i > Len(wire) /\ y \in bound))
    <3>1. CASE i \notin Ipcs(y)
      <4>1. PICK j \in DOMAIN t : i = Len(wire) + j /\ t[j].kind \in IPCKinds /\ t[j].id = y
        BY <2>2, <3>1
      <4>2. j # 1 /\ j \in Nat \ {0}
        BY <1>3, <1>5, <4>1 DEF IPCKinds
      <4>3. t[j].id \in bound
        BY <1>5, <4>2
      <4> QED BY <1>5, <2>2, <4>1, <4>2, <4>3
    <3> QED BY <2>2, <3>1
  <2> QED BY <2>1, <2>3, <2>4, <2>5
<1>7. \A k, y : Asked(k, y)' = Asked(k, y)
  BY <1>1, Unmoved
<1>8. UNCHANGED <<outputs, deferred, focusedId>>
  BY <1>1 DEF client
<1>9. FreshInv(x)' /\ BindInv(x)'
  BY <1>1, <1>6, <1>7, <1>8 DEF LifeInv, FreshInv, BindInv
<1>10. NamingInv(x)'
  <2>1. \A i \in Wires("name", x), j \in Ipcs(x)' : j \in Ipcs(x) \/ i < j
    BY <1>5, <1>6
  <2> QED BY <1>1, <1>6, <1>8, <2>1, NamingKept DEF LifeInv
<1>11. NamedInv(x)'
  BY <1>1, <1>6, <1>7, <1>8 DEF LifeInv, BindInv, GoneInv, NamedInv
<1>12. GoneInv(x)'
  <2>1. \A j \in Wires("removed", x)' : x \notin DOMAIN plugged' /\ \A i \in Wires("name", x)' \cup Wires("output", x)' : i < j
    BY <1>1, <1>5, <1>6 DEF LifeInv, GoneInv
  <2>2. x \in bound' => x \in DOMAIN plugged'
    BY <1>1 DEF LifeInv, GoneInv
  <2>3. x \notin DOMAIN plugged' /\ (x \in DOMAIN outputs' \/ Wires("name", x)' # {} \/ Wires("output", x)' # {})
         => Wires("removed", x)' # {}
    BY <1>1, <1>6, <1>8 DEF LifeInv, GoneInv
  <2> QED BY <2>1, <2>2, <2>3 DEF GoneInv
<1> QED BY <1>9, <1>10, <1>11, <1>12 DEF LifeInv

LEMMA HandleLife ==
  ASSUME ServerTypeOK, HandleRequest, NEW x \in Ids, LifeInv(x)
  PROVE  LifeInv(x)'
<1> DEFINE r == Head(requests)
<1>1. /\ requests # <<>> /\ requests' = Tail(requests) /\ requests \in Seq(Requests) /\ wire \in Seq(Messages)
      /\ UNCHANGED <<plugged, unused, client>> /\ r \in Requests
  BY HandleEffect DEF ServerTypeOK
<1>2. /\ \A k, y : \A i \in Asked(k, y)' : i + 1 \in Asked(k, y)
      /\ \A k, y : \A i \in Asked(k, y) : i # 1 => i - 1 \in Asked(k, y)'
      /\ \A k, y : 1 \in Asked(k, y) <=> r.kind = k /\ r.id = y
      /\ \A k, y : Asked(k, y) \subseteq Nat \ {0} /\ Asked(k, y)' \subseteq Nat \ {0}
  BY <1>1, RequestsShift
<1>3. UNCHANGED <<outputs, deferred, focusedId>>
  BY <1>1 DEF client
<1> HIDE DEF r
<1>9. /\ \A k : Asked(k, x) = {} => Asked(k, x)' = {}
      /\ \A k : Asked(k, x) # {} /\ ~(r.kind = k /\ r.id = x) => Asked(k, x)' # {}
  <2>1. ASSUME NEW k, Asked(k, x) = {} PROVE Asked(k, x)' = {}
    BY <1>2, <2>1
  <2>2. ASSUME NEW k, Asked(k, x) # {}, ~(r.kind = k /\ r.id = x) PROVE Asked(k, x)' # {}
    <3>1. PICK i \in Asked(k, x) : TRUE
      BY <2>2
    <3>2. i # 1
      BY <1>2, <2>2, <3>1
    <3> QED BY <1>2, <3>1, <3>2
  <2> QED BY <2>1, <2>2
<1>10. ASSUME NEW i \in Asked("bind_output", x)'
       PROVE  /\ \A j \in Asked("bind_output", x)' : i = j
              /\ \A j \in Asked("get_output", x)' : i < j
              /\ Wires("name", x) = {} /\ Ipcs(x) = {} /\ x \notin bound /\ focusedId' # x
              /\ x \in DOMAIN outputs' => outputs'[x].name = Provisional(x)
              /\ ~(r.kind \in {"bind_output", "get_output"} /\ r.id = x)
  <2>1. i + 1 \in Asked("bind_output", x) /\ i \in Nat \ {0}
    BY <1>2
  <2>2. \A j \in Asked("bind_output", x) : i + 1 = j
    BY <2>1 DEF LifeInv, BindInv
  <2>3. \A j \in Asked("get_output", x) : i + 1 < j
    BY <2>1 DEF LifeInv, BindInv
  <2>4. /\ Wires("name", x) = {} /\ Ipcs(x) = {} /\ x \notin bound /\ focusedId' # x
        /\ x \in DOMAIN outputs' => outputs'[x].name = Provisional(x)
    BY <1>3, <2>1 DEF LifeInv, BindInv
  <2>5. \A j \in Asked("bind_output", x)' : i = j
    <3> TAKE j \in Asked("bind_output", x)'
    <3>1. j + 1 \in Asked("bind_output", x) /\ j \in Nat
      BY <1>2
    <3>2. i + 1 = j + 1
      BY <2>2, <3>1
    <3> QED BY <2>1, <3>1, <3>2
  <2>6. \A j \in Asked("get_output", x)' : i < j
    <3> TAKE j \in Asked("get_output", x)'
    <3>1. j + 1 \in Asked("get_output", x) /\ j \in Nat
      BY <1>2
    <3>2. i + 1 < j + 1
      BY <2>3, <3>1
    <3> QED BY <2>1, <3>1, <3>2
  <2>7. ~(r.kind \in {"bind_output", "get_output"} /\ r.id = x)
    <3>1. 1 \notin Asked("bind_output", x)
      BY <2>1, <2>2
    <3>2. 1 \notin Asked("get_output", x)
      BY <2>1, <2>3
    <3> QED BY <1>2, <3>1, <3>2
  <2> QED BY <2>4, <2>5, <2>6, <2>7
<1>4. Len(wire) \in Nat /\ (r.id \in DOMAIN plugged => plugged[r.id] \in Names)
  BY <1>1 DEF ServerTypeOK
<1>5. CASE r.kind \in {"sync", "bind_manager"}
  <2>1. PICK k \in {"done", "tags"} : wire' = Append(wire, Msg(k, NoId)) /\ UNCHANGED bound
    BY <1>5, HandleEffect DEF r
  <2> DEFINE m == Msg(k, NoId)
  <2>2. m \in Messages /\ m.kind = k /\ m.kind \notin IPCKinds
    BY MessageTypes DEF Msg, IPCKinds
  <2> HIDE DEF m
  <2>3. /\ \A l \in {"output", "name", "removed"} : \A y : Wires(l, y)' = Wires(l, y)
        /\ \A l, y : \A i \in Wires(l, y) : wire'[i] = wire[i]
        /\ \A y : Ipcs(y)' = Ipcs(y)
    <3>1. wire' = Append(wire, m)
      BY <2>1 DEF m
    <3>2. m.kind \notin {"output", "name", "removed"}
      BY <2>2
    <3>3. /\ \A l, y : Wires(l, y)' = Wires(l, y) \cup (IF m.kind = l /\ m.id = y THEN {Len(wire) + 1} ELSE {})
          /\ \A l, y : \A i \in Wires(l, y) : wire'[i] = wire[i]
          /\ \A y : Ipcs(y)' = Ipcs(y)
      BY <1>1, <2>2, <3>1, OneSent
    <3>4. ASSUME NEW l \in {"output", "name", "removed"}, NEW y PROVE Wires(l, y)' = Wires(l, y)
      BY <3>2, <3>3
    <3> QED BY <3>3, <3>4
  <2>4. r.kind \notin {"bind_output", "get_output", "set"}
    BY <1>5
  <2>5. FreshInv(x)'
    BY <1>1, <1>3, <1>9, <2>1, <2>3 DEF LifeInv, FreshInv
  <2>6. BindInv(x)'
    BY <1>10, <2>1, <2>3 DEF BindInv
  <2>7. NamingInv(x)'
    BY <1>1, <1>3, <2>3, NamingKept DEF LifeInv
  <2>8. GoneInv(x)'
    BY <1>1, <1>3, <2>1, <2>3 DEF LifeInv, GoneInv
  <2>9. NamedInv(x)'
    BY <1>1, <1>3, <1>9, <2>3, <2>4 DEF LifeInv, NamedInv
  <2> QED BY <2>5, <2>6, <2>7, <2>8, <2>9 DEF LifeInv
<1>6. CASE r.kind = "bind_output" /\ r.id \in DOMAIN plugged /\ UNCHANGED bound
           /\ wire' = Append(wire, NameMsg(r.id, plugged[r.id]))
  <2> DEFINE m == NameMsg(r.id, plugged[r.id])
  <2>1. m \in Messages /\ m.kind = "name" /\ m.id = r.id /\ m.name = plugged[r.id] /\ m.kind \notin IPCKinds
    <3>1. r.id \in Ids
      BY <1>6 DEF ServerTypeOK
    <3> QED BY <1>4, <1>6, <3>1, MessageTypes DEF NameMsg, IPCKinds
  <2> HIDE DEF m
  <2>2. wire' = Append(wire, m)
    BY <1>6 DEF m
  <2>3. /\ \A l, y : Wires(l, y)' = Wires(l, y) \cup (IF m.kind = l /\ m.id = y THEN {Len(wire) + 1} ELSE {})
        /\ \A l, y : \A i \in Wires(l, y) : wire'[i] = wire[i] /\ i \in 1..Len(wire)
        /\ wire'[Len(wire) + 1] = m
        /\ \A y : Ipcs(y)' = Ipcs(y)
    BY <1>1, <2>1, <2>2, OneSent
  <2>4. /\ Wires("output", x)' = Wires("output", x) /\ Wires("removed", x)' = Wires("removed", x)
        /\ x # r.id => Wires("name", x)' = Wires("name", x)
        /\ x = r.id => Wires("name", x)' = Wires("name", x) \cup {Len(wire) + 1}
    BY <2>1, <2>3
  <2>5. x = r.id => 1 \in Asked("bind_output", x)
    BY <1>2, <1>6
  <2>6. FreshInv(x)'
    BY <1>1, <1>3, <1>6, <1>9, <2>3, <2>4, <2>5 DEF LifeInv, FreshInv
  <2>7. BindInv(x)'
    BY <1>6, <1>10, <2>3, <2>4 DEF BindInv
  <2>8. NamingInv(x)'
    <3>1. CASE x # r.id
      BY <1>1, <1>3, <2>3, <2>4, <3>1, NamingKept DEF LifeInv
    <3>2. CASE x = r.id
      <4>1. /\ Wires("name", x) = {} /\ Ipcs(x) = {} /\ focusedId # x
            /\ x \in DOMAIN outputs => outputs[x].name = Provisional(x)
        BY <2>5, <3>2 DEF LifeInv, BindInv
      <4>2. Wires("name", x)' = {Len(wire) + 1} /\ Ipcs(x)' = {}
        BY <2>3, <2>4, <3>2, <4>1
      <4>3. wire'[Len(wire) + 1].name = plugged'[x]
        BY <1>1, <2>1, <2>3, <3>2
      <4> QED BY <1>3, <4>1, <4>2, <4>3 DEF NamingInv
    <3> QED BY <3>1, <3>2
  <2>9. GoneInv(x)'
    BY <1>1, <1>3, <1>4, <1>6, <2>3, <2>4 DEF LifeInv, GoneInv
  <2>10. NamedInv(x)'
    <3>1. x # r.id => (Asked("bind_output", x) # {} => Asked("bind_output", x)' # {})
      BY <1>9
    <3> QED BY <1>1, <1>3, <2>3, <2>4, <3>1 DEF LifeInv, NamedInv
  <2> QED BY <2>6, <2>7, <2>8, <2>9, <2>10 DEF LifeInv
<1>7. CASE r.kind \in {"get_output", "set"} /\ r.id \in DOMAIN plugged \cup bound /\ bound' = bound \cup {r.id}
           /\ \E s \in Seq(Messages) :
                /\ wire' = wire \o s
                /\ \A i \in DOMAIN s : s[i].kind \in IPCKinds /\ s[i].id = r.id
  <2>1. PICK s \in Seq(Messages) :
                /\ wire' = wire \o s
                /\ \A i \in DOMAIN s : s[i].kind \in IPCKinds /\ s[i].id = r.id
    BY <1>7
  <2>2. /\ \A k \in {"output", "name", "removed"} : \A y : Wires(k, y)' = Wires(k, y)
        /\ \A y : \A i \in Wires("name", y) : wire'[i] = wire[i] /\ i \in 1..Len(wire)
        /\ \A y : \A i \in Ipcs(y)' : i \in Nat /\ (i \in Ipcs(y) \/ (i > Len(wire) /\ y = r.id))
    <3>1. \A i \in DOMAIN s : s[i].kind \in IPCKinds /\ s[i].id \in {r.id}
      BY <2>1
    <3>2. /\ \A k \in {"output", "name", "removed"} : \A y : Wires(k, y)' = Wires(k, y)
          /\ \A y : \A i \in Wires("name", y) : wire'[i] = wire[i] /\ i \in 1..Len(wire)
          /\ \A y : \A i \in Ipcs(y)' : i \in Nat /\ (i \in Ipcs(y) \/ (i > Len(wire) /\ y \in {r.id}))
      BY <1>1, <2>1, <3>1, StatusesSent
    <3> QED BY <3>2
  <2>3. x = r.id => 1 \in Asked(r.kind, x)
    BY <1>2
  <2>4. FreshInv(x)'
    <3>1. x = r.id => x \notin unused /\ Wires("output", x) = {}
      BY <1>7, <2>3 DEF LifeInv, FreshInv
    <3> QED BY <1>1, <1>3, <1>7, <1>9, <2>2, <3>1 DEF LifeInv, FreshInv
  <2>5. x = r.id /\ x \notin bound => r.kind = "get_output"
    <3>1. r.kind = "set" => r.id \in bound \/ r.id \notin DOMAIN plugged
      BY DEF HandleRequest, r
    <3> QED BY <1>7, <3>1
  <2>6. x = r.id => Asked("bind_output", x)' = {} /\ Asked("bind_output", x) = {}
    <3>1. ASSUME x = r.id, x \notin bound, NEW i \in Asked("bind_output", x) PROVE FALSE
      <4>1. 1 \in Asked("get_output", x)
        BY <2>3, <2>5, <3>1
      <4>2. i < 1
        BY <3>1, <4>1 DEF LifeInv, BindInv
      <4> QED BY <1>2, <4>2
    <3>2. x \in bound => Asked("bind_output", x) = {}
      BY DEF LifeInv, BindInv
    <3> QED BY <1>9, <3>1, <3>2
  <2>7. BindInv(x)'
    <3>1. CASE x = r.id
      BY <2>6, <3>1 DEF BindInv
    <3>2. CASE x # r.id
      <4>1. \A i \in Ipcs(x)' : i \in Ipcs(x)
        BY <2>2, <3>2
      <4> QED BY <1>7, <1>10, <2>2, <3>2, <4>1 DEF BindInv
    <3> QED BY <3>1, <3>2
  <2>8. NamingInv(x)'
    <3>1. \A i \in Wires("name", x), j \in Ipcs(x)' : j \in Ipcs(x) \/ i < j
      BY <1>4, <2>2
    <3> QED BY <1>1, <1>3, <2>2, <3>1, NamingKept DEF LifeInv
  <2>9. GoneInv(x)'
    BY <1>1, <1>3, <1>7, <2>2 DEF LifeInv, GoneInv
  <2>10. NamedInv(x)'
    <3>1. x # r.id =>
            /\ Asked("bind_output", x) # {} => Asked("bind_output", x)' # {}
            /\ Ipcs(x)' # {} => Ipcs(x) # {}
      BY <1>9, <2>2
    <3>2. x = r.id => x \in DOMAIN plugged
      BY <1>7 DEF LifeInv, GoneInv
    <3>3. CASE x # r.id
      <4>1. /\ x \in DOMAIN outputs => outputs[x].name \in Names \cup {Provisional(x)}
            /\ x \in DOMAIN outputs /\ x \in DOMAIN plugged /\ outputs[x].name \in Names
                 => outputs[x].name = plugged[x]
        BY DEF LifeInv, NamedInv
      <4>2. x \in DOMAIN outputs /\ outputs[x].name \notin Names =>
              /\ x \in DOMAIN plugged => Asked("bind_output", x)' # {} \/ Wires("name", x) # {}
              /\ Ipcs(x)' # {} => Wires("name", x) # {}
        <5>1. /\ Asked("bind_output", x) # {} => Asked("bind_output", x)' # {}
              /\ Ipcs(x)' # {} => Ipcs(x) # {}
          BY <3>1, <3>3
        <5>2. x \in DOMAIN outputs /\ outputs[x].name \notin Names =>
                /\ x \in DOMAIN plugged => Asked("bind_output", x) # {} \/ Wires("name", x) # {}
                /\ Ipcs(x) # {} => Wires("name", x) # {}
          BY DEF LifeInv, NamedInv
        <5> QED BY <5>1, <5>2
      <4>3. Wires("name", x)' = Wires("name", x)
        BY <2>2
      <4> QED BY <1>1, <1>3, <4>1, <4>2, <4>3 DEF NamedInv
    <3>4. CASE x = r.id
      <4>1. x \in DOMAIN outputs /\ outputs[x].name \notin Names => Wires("name", x) # {}
        BY <2>6, <3>2, <3>4 DEF LifeInv, NamedInv
      <4>2. x \in DOMAIN outputs =>
              /\ outputs[x].name \in Names \cup {Provisional(x)}
              /\ x \in DOMAIN plugged /\ outputs[x].name \in Names => outputs[x].name = plugged[x]
        BY DEF LifeInv, NamedInv
      <4> QED BY <1>1, <1>3, <2>2, <4>1, <4>2 DEF NamedInv
    <3> QED BY <3>3, <3>4
  <2> QED BY <2>4, <2>7, <2>8, <2>9, <2>10 DEF LifeInv
<1>8. CASE r.kind \in {"bind_output", "get_output", "set"} /\ r.id \notin DOMAIN plugged /\ UNCHANGED <<wire, bound>>
  <2>1. \A k, y : Wires(k, y)' = Wires(k, y) /\ Ipcs(y)' = Ipcs(y)
    BY <1>8, Unmoved
  <2>2. FreshInv(x)' /\ BindInv(x)'
    BY <1>1, <1>3, <1>8, <1>9, <1>10, <2>1 DEF LifeInv, FreshInv, BindInv
  <2>3. NamingInv(x)' /\ GoneInv(x)'
    BY <1>1, <1>3, <1>8, <2>1, NamingKept DEF LifeInv, GoneInv
  <2>4. NamedInv(x)'
    <3>1. x \in DOMAIN plugged => (Asked("bind_output", x) # {} => Asked("bind_output", x)' # {})
      BY <1>8, <1>9
    <3> QED BY <1>1, <1>3, <2>1, <3>1 DEF LifeInv, NamedInv
  <2> QED BY <2>2, <2>3, <2>4 DEF LifeInv
<1> QED BY <1>5, <1>6, <1>7, <1>8, HandleEffect DEF r

(* What is still true of the messages behind the one that is dispatched. *)
LEMMA TailLife ==
  ASSUME wire \in Seq(Messages), wire # <<>>, wire' = Tail(wire), NEW x \in Ids, LifeInv(x)
  PROVE  /\ \A k : Wires(k, x) = {} => Wires(k, x)' = {}
         /\ \A k : Wires(k, x) # {} /\ ~(Message.kind = k /\ Message.id = x) => Wires(k, x)' # {}
         /\ Ipcs(x) = {} => Ipcs(x)' = {}
         /\ Message.kind = "output" /\ Message.id = x => Wires("output", x)' = {}
         /\ Message.kind = "name" /\ Message.id = x => Wires("name", x)' = {}
         /\ Message.kind = "removed" /\ Message.id = x => Wires("name", x)' = {} /\ Wires("output", x)' = {}
         /\ Message.kind \in IPCKinds /\ Message.id = x => Wires("name", x)' = {} /\ Ipcs(x) # {}
         /\ \A i, j \in Wires("output", x)' : i = j
         /\ \A i \in Wires("name", x)' :
              /\ \A j \in Wires("name", x)' : i = j
              /\ \A j \in Ipcs(x)' : i < j
              /\ focusedId # x
              /\ x \in DOMAIN outputs => outputs[x].name = Provisional(x)
              /\ x \in DOMAIN plugged => wire'[i].name = plugged[x]
         /\ \A j \in Wires("removed", x)' :
              x \notin DOMAIN plugged /\ \A i \in Wires("name", x)' \cup Wires("output", x)' : i < j
<1>1. /\ \A k : \A i \in Wires(k, x)' : i + 1 \in Wires(k, x) /\ wire'[i] = wire[i + 1]
      /\ \A k : \A i \in Wires(k, x) : i # 1 => i - 1 \in Wires(k, x)'
      /\ \A i \in Ipcs(x)' : i + 1 \in Ipcs(x)
      /\ \A k : 1 \in Wires(k, x) <=> Message.kind = k /\ Message.id = x
      /\ 1 \in Ipcs(x) <=> Message.kind \in IPCKinds /\ Message.id = x
      /\ \A k : Wires(k, x) \subseteq Nat \ {0} /\ Wires(k, x)' \subseteq Nat \ {0}
      /\ Ipcs(x) \subseteq Nat \ {0} /\ Ipcs(x)' \subseteq Nat \ {0}
  BY WireShift
<1>2. ASSUME NEW k, Wires(k, x) = {} PROVE Wires(k, x)' = {}
  BY <1>1, <1>2
<1>3. ASSUME NEW k, Wires(k, x) # {}, ~(Message.kind = k /\ Message.id = x) PROVE Wires(k, x)' # {}
  <2>1. PICK i \in Wires(k, x) : TRUE
    BY <1>3
  <2>2. i # 1
    BY <1>1, <1>3, <2>1
  <2> QED BY <1>1, <2>1, <2>2
<1>4. Ipcs(x) = {} => Ipcs(x)' = {}
  BY <1>1
<1>5. ASSUME NEW i \in Wires("output", x)', NEW j \in Wires("output", x)'
      PROVE  i = j /\ 1 \notin Wires("output", x)
  <2>1. i + 1 \in Wires("output", x) /\ j + 1 \in Wires("output", x) /\ i \in Nat \ {0} /\ j \in Nat \ {0}
    BY <1>1
  <2>2. i + 1 = j + 1 /\ (1 \in Wires("output", x) => i + 1 = 1)
    BY <2>1 DEF LifeInv, FreshInv
  <2> QED BY <2>1, <2>2
<1>6. ASSUME NEW i \in Wires("name", x)'
      PROVE  /\ \A j \in Wires("name", x)' : i = j
             /\ \A j \in Ipcs(x)' : i < j
             /\ focusedId # x
             /\ x \in DOMAIN outputs => outputs[x].name = Provisional(x)
             /\ x \in DOMAIN plugged => wire'[i].name = plugged[x]
             /\ 1 \notin Wires("name", x) /\ 1 \notin Ipcs(x)
  <2>1. i + 1 \in Wires("name", x) /\ i \in Nat \ {0} /\ wire'[i] = wire[i + 1]
    BY <1>1
  <2>2. \A j \in Wires("name", x) : i + 1 = j
    BY <2>1 DEF LifeInv, NamingInv
  <2>3. \A j \in Ipcs(x) : i + 1 < j
    BY <2>1 DEF LifeInv, NamingInv
  <2>4. /\ focusedId # x
        /\ x \in DOMAIN outputs => outputs[x].name = Provisional(x)
        /\ x \in DOMAIN plugged => wire'[i].name = plugged[x]
    BY <2>1 DEF LifeInv, NamingInv
  <2>5. ASSUME NEW j \in Wires("name", x)' PROVE i = j
    <3>1. j + 1 \in Wires("name", x) /\ j \in Nat
      BY <1>1
    <3>2. i + 1 = j + 1
      BY <2>2, <3>1
    <3> QED BY <2>1, <3>1, <3>2
  <2>6. ASSUME NEW j \in Ipcs(x)' PROVE i < j
    <3>1. j + 1 \in Ipcs(x) /\ j \in Nat
      BY <1>1
    <3>2. i + 1 < j + 1
      BY <2>3, <3>1
    <3> QED BY <2>1, <3>1, <3>2
  <2>7. 1 \notin Wires("name", x) /\ 1 \notin Ipcs(x)
    BY <2>1, <2>2, <2>3
  <2> QED BY <2>4, <2>5, <2>6, <2>7
<1>7. ASSUME NEW j \in Wires("removed", x)'
      PROVE  x \notin DOMAIN plugged /\ \A i \in Wires("name", x)' \cup Wires("output", x)' : i < j
  <2>1. j + 1 \in Wires("removed", x) /\ j \in Nat
    BY <1>1
  <2>2. x \notin DOMAIN plugged /\ \A i \in Wires("name", x) \cup Wires("output", x) : i < j + 1
    BY <2>1 DEF LifeInv, GoneInv
  <2>3. ASSUME NEW i \in Wires("name", x)' \cup Wires("output", x)' PROVE i < j
    <3>1. i + 1 \in Wires("name", x) \cup Wires("output", x) /\ i \in Nat
      BY <1>1
    <3>2. i + 1 < j + 1
      BY <2>2, <3>1
    <3> QED BY <2>1, <3>1, <3>2
  <2> QED BY <2>2, <2>3
<1>8. 1 \in Wires("removed", x) => Wires("name", x)' = {} /\ Wires("output", x)' = {}
  <2>1. ASSUME 1 \in Wires("removed", x), NEW i \in Wires("name", x)' \cup Wires("output", x)' PROVE FALSE
    <3>1. i + 1 \in Wires("name", x) \cup Wires("output", x) /\ i \in Nat
      BY <1>1
    <3>2. i + 1 < 1
      BY <2>1, <3>1 DEF LifeInv, GoneInv
    <3> QED BY <3>1, <3>2
  <2> QED BY <2>1
<1>9. Message.kind = "output" /\ Message.id = x => Wires("output", x)' = {}
  BY <1>1, <1>5
<1>10. Message.kind = "name" /\ Message.id = x => Wires("name", x)' = {}
  BY <1>1, <1>6
<1>11. Message.kind = "removed" /\ Message.id = x => Wires("name", x)' = {} /\ Wires("output", x)' = {}
  BY <1>1, <1>8
<1>12. Message.kind \in IPCKinds /\ Message.id = x => Wires("name", x)' = {} /\ Ipcs(x) # {}
  BY <1>1, <1>6
<1>13. \A i, j \in Wires("output", x)' : i = j
  BY <1>5
<1> QED BY ONLY <1>2, <1>3, <1>4, <1>6, <1>7, <1>9, <1>10, <1>11, <1>12, <1>13

(* A message that neither brings nor names nor removes an output. *)
LEMMA PlainLife ==
  ASSUME ServerTypeOK, wire # <<>>, wire' = Tail(wire), Message.kind \notin {"output", "name", "removed"},
         UNCHANGED <<plugged, bound, unused, outputs, deferred>>,
         focusedId' = focusedId \/ (Message.kind = "active" /\ focusedId' = Message.id),
         NEW x \in Ids, LifeInv(x),
         \A k \in {"bind_output", "get_output", "set"} : Asked(k, x)' = Asked(k, x)
  PROVE  LifeInv(x)'
<1> USE TailLife DEF ServerTypeOK
<1>1. /\ \A k : Wires(k, x) = {} => Wires(k, x)' = {}
      /\ \A k \in {"output", "name", "removed"} : Wires(k, x) # {} => Wires(k, x)' # {}
      /\ Ipcs(x) = {} => Ipcs(x)' = {}
      /\ Message.kind = "active" /\ Message.id = x => Wires("name", x)' = {} /\ Ipcs(x) # {}
  BY DEF IPCKinds
<1>2. FreshInv(x)'
  <2>1. \A i, j \in Wires("output", x)' : i = j
    OBVIOUS
  <2>2. Wires("output", x)' # {} => Wires("output", x) # {}
    BY <1>1
  <2> QED BY <1>1, <2>1, <2>2 DEF LifeInv, FreshInv
<1>3. BindInv(x)'
  BY <1>1 DEF LifeInv, BindInv
<1>4. NamingInv(x)'
  <2>1. \A i \in Wires("name", x)' :
              /\ \A j \in Wires("name", x)' : i = j
              /\ \A j \in Ipcs(x)' : i < j
              /\ focusedId # x
              /\ x \in DOMAIN outputs => outputs[x].name = Provisional(x)
              /\ x \in DOMAIN plugged => wire'[i].name = plugged[x]
    OBVIOUS
  <2> QED BY <1>1, <2>1 DEF NamingInv
<1>5. NamedInv(x)'
  <2>1. Ipcs(x)' # {} => Ipcs(x) # {}
    BY <1>1
  <2> QED BY <1>1, <2>1 DEF LifeInv, NamedInv
<1>6. GoneInv(x)'
  <2>1. \A j \in Wires("removed", x)' :
              x \notin DOMAIN plugged /\ \A i \in Wires("name", x)' \cup Wires("output", x)' : i < j
    OBVIOUS
  <2> QED BY <1>1, <2>1 DEF LifeInv, GoneInv
<1> QED BY <1>2, <1>3, <1>4, <1>5, <1>6 DEF LifeInv

LEMMA RemovedLife ==
  ASSUME ServerTypeOK, ClientTypeOK, OnRemoved, NEW x \in Ids, LifeInv(x)
  PROVE  LifeInv(x)'
<1>1. /\ wire \in Seq(Messages) /\ wire # <<>> /\ wire' = Tail(wire) /\ Message.kind = "removed"
      /\ UNCHANGED <<plugged, bound, unused, deferred, requests, focusedId>>
      /\ outputs' = Without(outputs, Message.id)
  BY DispatchTypes DEF OnRemoved, ServerTypeOK, server
<1>2. /\ DOMAIN outputs' = DOMAIN outputs \ {Message.id}
      /\ \A y \in DOMAIN outputs' : outputs'[y] = outputs[y]
  BY <1>1 DEF Without
<1>3. /\ \A k : Wires(k, x) = {} => Wires(k, x)' = {}
      /\ \A k \in {"output", "name"} : Wires(k, x) # {} => Wires(k, x)' # {}
      /\ Message.id # x => (Wires("removed", x) # {} => Wires("removed", x)' # {})
      /\ Message.id = x => Wires("name", x)' = {} /\ Wires("output", x)' = {}
      /\ Ipcs(x) = {} => Ipcs(x)' = {}
  BY <1>1, TailLife
<1>4. \A k : Asked(k, x)' = Asked(k, x)
  BY <1>1, Unmoved
<1>5. FreshInv(x)'
  <2>1. \A i, j \in Wires("output", x)' : i = j
    BY <1>1, TailLife
  <2>2. Wires("output", x)' # {} => Wires("output", x) # {}
    BY <1>3
  <2> QED BY <1>1, <1>2, <1>3, <1>4, <2>1, <2>2 DEF LifeInv, FreshInv
<1>6. BindInv(x)'
  BY <1>1, <1>2, <1>3, <1>4 DEF LifeInv, BindInv
<1>7. NamingInv(x)'
  <2>1. \A i \in Wires("name", x)' :
              /\ \A j \in Wires("name", x)' : i = j
              /\ \A j \in Ipcs(x)' : i < j
              /\ focusedId # x
              /\ x \in DOMAIN outputs => outputs[x].name = Provisional(x)
              /\ x \in DOMAIN plugged => wire'[i].name = plugged[x]
    BY <1>1, TailLife
  <2> QED BY <1>1, <1>2, <2>1 DEF NamingInv
<1>8. NamedInv(x)'
  <2>1. Ipcs(x)' # {} => Ipcs(x) # {}
    BY <1>3
  <2> QED BY <1>1, <1>2, <1>3, <1>4, <2>1 DEF LifeInv, NamedInv
<1>9. GoneInv(x)'
  <2>1. \A j \in Wires("removed", x)' :
              x \notin DOMAIN plugged /\ \A i \in Wires("name", x)' \cup Wires("output", x)' : i < j
    BY <1>1, TailLife
  <2> QED BY <1>1, <1>2, <1>3, <2>1 DEF LifeInv, GoneInv
<1> QED BY <1>5, <1>6, <1>7, <1>8, <1>9 DEF LifeInv

LEMMA OutputLife ==
  ASSUME ServerTypeOK, ClientTypeOK, OnOutput, NEW x \in Ids, LifeInv(x)
  PROVE  LifeInv(x)'
<1> DEFINE id == Message.id
           s == IF manager THEN <<Request("bind_output", id), Request("get_output", id)>>
                           ELSE <<Request("bind_output", id)>>
<1>1. /\ wire \in Seq(Messages) /\ wire # <<>> /\ wire' = Tail(wire) /\ Message.kind = "output"
      /\ UNCHANGED <<plugged, bound, unused, focusedId>>
      /\ outputs' = With(outputs, id, [name |-> Provisional(id), ipc |-> manager])
      /\ requests' = requests \o s
      /\ deferred' = (IF manager THEN deferred ELSE Append(deferred, id))
  BY DispatchTypes DEF OnOutput, ServerTypeOK, server
<1>0. id \in Ids
  BY <1>1, DispatchTypes, MessageShapes DEF OnOutput
<1>2. /\ DOMAIN outputs' = DOMAIN outputs \cup {id} /\ outputs'[id].name = Provisional(id)
      /\ \A y \in DOMAIN outputs \ {id} : outputs'[y] = outputs[y]
  BY <1>1 DEF With
<1>3. /\ s \in Seq(Requests) /\ DOMAIN s \in {{1}, {1, 2}}
      /\ s[1] = Request("bind_output", id) /\ (2 \in DOMAIN s => s[2] = Request("get_output", id))
  <2>1. Request("bind_output", id) \in Requests /\ Request("get_output", id) \in Requests
    BY <1>0, MessageTypes
  <2>2. ASSUME NEW q \in Requests, NEW u \in Requests
        PROVE  /\ <<q, u>> \in Seq(Requests) /\ DOMAIN <<q, u>> = {1, 2}
               /\ <<q>> \in Seq(Requests) /\ DOMAIN <<q>> = {1}
    OBVIOUS
  <2> QED BY <2>1, <2>2
<1>4. \A y \in Ids : \A i \in 1..Len(deferred') : y # id /\ deferred'[i] = y => \E j \in 1..Len(deferred) : deferred[j] = y
  <2>1. CASE manager
    BY <1>1, <2>1
  <2>2. CASE ~manager
    BY <1>0, <1>1, <2>2 DEF ClientTypeOK
  <2> QED BY <2>1, <2>2
<1> HIDE DEF s, id
<1>5. /\ \A k : Asked(k, x) \subseteq Asked(k, x)' /\ Asked(k, x) \subseteq 1..Len(requests)
      /\ \A k : \A i \in Asked(k, x)' : i \in Asked(k, x)
           \/ \E j \in DOMAIN s : i = Len(requests) + j /\ s[j].kind = k /\ s[j].id = x
      /\ \A k, j : j \in DOMAIN s /\ s[j].kind = k /\ s[j].id = x => Len(requests) + j \in Asked(k, x)'
      /\ Len(requests) \in Nat
  <2>1. requests \in Seq(Requests) /\ s \in Seq(Requests) /\ requests' = requests \o s
    BY <1>1, <1>3 DEF ServerTypeOK
  <2>2. \A k : Asked(k, x) \subseteq Asked(k, x)' /\ Asked(k, x) \subseteq 1..Len(requests)
    BY ONLY <2>1, RequestsGrow
  <2>3. \A k : \A i \in Asked(k, x)' : i \in Asked(k, x)
           \/ \E j \in DOMAIN s : i = Len(requests) + j /\ s[j].kind = k /\ s[j].id = x
    BY ONLY <2>1, RequestsGrow
  <2>4. \A k, j : j \in DOMAIN s /\ s[j].kind = k /\ s[j].id = x => Len(requests) + j \in Asked(k, x)'
    BY ONLY <2>1, RequestsGrow
  <2> QED BY <2>1, <2>2, <2>3, <2>4
<1>6. /\ \A k : Wires(k, x) = {} => Wires(k, x)' = {}
      /\ \A k \in {"removed", "name"} : Wires(k, x) # {} => Wires(k, x)' # {}
      /\ id # x => (Wires("output", x) # {} => Wires("output", x)' # {})
      /\ id = x => Wires("output", x)' = {} /\ Wires("output", x) # {}
      /\ Ipcs(x) = {} => Ipcs(x)' = {}
      /\ \A i, j \in Wires("output", x)' : i = j
  <2>1. id = x => 1 \in Wires("output", x)
    BY <1>1, WireShift DEF id
  <2> QED BY <1>1, <2>1, TailLife DEF id
<1>7. CASE x # id
  <2>1. ASSUME NEW k PROVE Asked(k, x)' = Asked(k, x)
    <3>1. \A j \in DOMAIN s : s[j].id = id
      BY <1>3 DEF Request
    <3>2. \A i \in Asked(k, x)' : i \in Asked(k, x)
      BY <1>5, <1>7, <3>1
    <3>3. \A i \in Asked(k, x) : i \in Asked(k, x)'
      BY <1>5
    <3> QED BY <3>2, <3>3, Zenon
  <2>2. x \in DOMAIN outputs' <=> x \in DOMAIN outputs
    BY <1>2, <1>7
  <2>3. x \in DOMAIN outputs => outputs'[x] = outputs[x]
    BY <1>2, <1>7
  <2>4. FreshInv(x)'
    <3>1. Wires("output", x)' # {} => Wires("output", x) # {}
      BY <1>6
    <3> QED BY <1>1, <1>4, <1>6, <1>7, <2>1, <2>2, <3>1 DEF LifeInv, FreshInv
  <2>5. BindInv(x)'
    BY <1>1, <1>6, <2>1, <2>2, <2>3 DEF LifeInv, BindInv
  <2>6. NamingInv(x)'
    <3>1. \A i \in Wires("name", x)' :
              /\ \A j \in Wires("name", x)' : i = j
              /\ \A j \in Ipcs(x)' : i < j
              /\ focusedId # x
              /\ x \in DOMAIN outputs => outputs[x].name = Provisional(x)
              /\ x \in DOMAIN plugged => wire'[i].name = plugged[x]
      BY <1>1, TailLife
    <3> QED BY <1>1, <2>2, <2>3, <3>1 DEF NamingInv
  <2>7. NamedInv(x)'
    <3>1. Ipcs(x)' # {} => Ipcs(x) # {}
      BY <1>6
    <3> QED BY <1>1, <1>6, <2>1, <2>2, <2>3, <3>1 DEF LifeInv, NamedInv
  <2>8. GoneInv(x)'
    <3>1. \A j \in Wires("removed", x)' :
              x \notin DOMAIN plugged /\ \A i \in Wires("name", x)' \cup Wires("output", x)' : i < j
      BY <1>1, TailLife
    <3> QED BY <1>1, <1>6, <1>7, <2>2, <3>1 DEF LifeInv, GoneInv
  <2> QED BY <2>4, <2>5, <2>6, <2>7, <2>8 DEF LifeInv
<1>8. CASE x = id
  <2>1. /\ Wires("name", x) = {} /\ Ipcs(x) = {} /\ x \notin bound /\ focusedId # x /\ x \notin unused
        /\ Asked("bind_output", x) = {} /\ Asked("get_output", x) = {}
    BY <1>6, <1>8 DEF LifeInv, FreshInv
  <2>2. /\ Wires("name", x)' = {} /\ Ipcs(x)' = {} /\ Wires("output", x)' = {}
    BY <1>6, <1>8, <2>1
  <2>3. /\ \A i \in Asked("bind_output", x)' : i = Len(requests) + 1
        /\ \A i \in Asked("get_output", x)' : i = Len(requests) + 2
        /\ Len(requests) + 1 \in Asked("bind_output", x)'
    BY <1>3, <1>5, <1>8, <2>1 DEF Request
  <2>4. FreshInv(x)'
    BY <1>1, <2>1, <2>2 DEF FreshInv
  <2>5. BindInv(x)'
    BY <1>1, <1>2, <1>5, <1>8, <2>1, <2>2, <2>3 DEF BindInv
  <2>6. NamingInv(x)'
    BY <2>2 DEF NamingInv
  <2>7. NamedInv(x)'
    BY <1>2, <1>8, <2>2, <2>3 DEF NamedInv
  <2>8. GoneInv(x)'
    <3>1. x \notin DOMAIN plugged => Wires("removed", x)' # {}
      BY <1>6, <1>8 DEF LifeInv, GoneInv
    <3>2. \A j \in Wires("removed", x)' : x \notin DOMAIN plugged
      BY <1>1, TailLife
    <3> QED BY <1>1, <2>1, <2>2, <3>1, <3>2 DEF GoneInv
  <2> QED BY <2>4, <2>5, <2>6, <2>7, <2>8 DEF LifeInv
<1> QED BY <1>7, <1>8

LEMMA ServeLife ==
  ASSUME ServerTypeOK, ClientTypeOK, ObserverTypeOK, ServeSet, NEW x \in Ids, LifeInv(x)
  PROVE  LifeInv(x)'
<1>1. PICK f \in Facts : \E v \in FactValues(f) : requests' = Append(requests, SetRequest(focusedId, f, v))
  BY ServeTypes
<1>2. PICK v \in FactValues(f) : requests' = Append(requests, SetRequest(focusedId, f, v))
  BY <1>1
<1>3. UNCHANGED <<client, wire, plugged, unused, bound>> /\ focusedId \in DOMAIN outputs /\ focusedId \in Ids
  BY DEF ServeSet, ClientTypeOK
<1>4. UNCHANGED <<outputs, deferred, focusedId>>
  BY <1>3 DEF client
<1> DEFINE r == SetRequest(focusedId, f, v)
<1>5. r \in Requests /\ r.kind = "set" /\ r.id = focusedId
  BY <1>3, MessageTypes DEF SetRequest
<1> HIDE DEF r
<1>6. /\ \A k \in {"bind_output", "get_output"} : Asked(k, x)' = Asked(k, x)
      /\ x # focusedId => Asked("set", x)' = Asked("set", x)
  <2>1. \A k : Asked(k, x)' = Asked(k, x) \cup (IF r.kind = k /\ r.id = x THEN {Len(requests) + 1} ELSE {})
    BY <1>2, <1>5, OneAsked DEF r, ServerTypeOK
  <2> QED BY <1>5, <2>1
<1>7. \A k : Wires(k, x)' = Wires(k, x) /\ Ipcs(x)' = Ipcs(x)
  BY <1>3, Unmoved
<1>8. FreshInv(x)'
  BY <1>3, <1>4, <1>6, <1>7 DEF LifeInv, FreshInv
<1>9. BindInv(x)'
  BY <1>3, <1>4, <1>6, <1>7 DEF LifeInv, BindInv
<1>10. NamingInv(x)'
  BY <1>3, <1>4, <1>7, NamingKept DEF LifeInv
<1>11. NamedInv(x)'
  BY <1>3, <1>4, <1>6, <1>7 DEF LifeInv, NamedInv
<1>12. GoneInv(x)'
  BY <1>3, <1>4, <1>7 DEF LifeInv, GoneInv
<1> QED BY <1>8, <1>9, <1>10, <1>11, <1>12 DEF LifeInv

(* What the manager brings is asked for: the tags first, then the IPC        *)
(* objects of the outputs found before it.                                   *)
LEMMA ManagerAsks ==
  ASSUME ServerTypeOK, ClientTypeOK, OnManager
  PROVE  \E s \in Seq(Requests) :
           /\ requests' = requests \o s
           /\ 1 \in DOMAIN s /\ DOMAIN s \subseteq Nat \ {0} /\ s[1] = Request("bind_manager", NoId)
           /\ \A j \in DOMAIN s :
                s[j].kind = "bind_manager" \/ (s[j].kind = "get_output" /\ \E i \in 1..Len(deferred) : s[j].id = deferred[i])
<1> DEFINE gets == [i \in DOMAIN deferred |-> Request("get_output", deferred[i])]
           first == <<Request("bind_manager", NoId)>>
           s == first \o gets
<1>1. /\ gets \in Seq(Requests) /\ Len(gets) = Len(deferred)
      /\ \A i \in 1..Len(deferred) : gets[i] = Request("get_output", deferred[i])
  <2>1. Len(deferred) \in Nat /\ gets = [i \in 1..Len(deferred) |-> Request("get_output", deferred[i])]
    BY DEF ClientTypeOK
  <2>2. \A i \in 1..Len(deferred) : Request("get_output", deferred[i]) \in Requests
    BY MessageTypes DEF ClientTypeOK
  <2>3. \A i \in 1..Len(deferred) : gets[i] = Request("get_output", deferred[i])
    BY <2>1
  <2> HIDE DEF gets
  <2>4. gets \in Seq(Requests)
    BY <2>1, <2>2, IsASeq
  <2>5. DOMAIN gets = 1..Len(deferred)
    BY <2>1
  <2> QED BY <2>1, <2>3, <2>4, <2>5
<1>2. first \in Seq(Requests) /\ Len(first) = 1 /\ first[1] = Request("bind_manager", NoId)
  BY MessageTypes
<1>3. requests' = requests \o s /\ requests \in Seq(Requests)
  <2>1. requests' = Append(requests, Request("bind_manager", NoId)) \o gets
    BY DEF OnManager
  <2>2. Request("bind_manager", NoId) \in Requests /\ requests \in Seq(Requests)
    BY MessageTypes DEF ServerTypeOK
  <2>3. Append(requests, Request("bind_manager", NoId)) = requests \o first
    BY <2>2, AppendIsConcat
  <2> HIDE DEF gets, first
  <2>4. (requests \o first) \o gets = requests \o (first \o gets)
    <3>1. requests \in Seq(Requests) /\ first \in Seq(Requests) /\ gets \in Seq(Requests)
      BY <1>1, <1>2, <2>2
    <3> QED BY ONLY <3>1, ConcatAssociative
  <2>5. requests' = (requests \o first) \o gets
    BY <2>1, <2>3, Zenon
  <2> QED BY <2>2, <2>4, <2>5, Zenon
<1> HIDE DEF gets, first
<1>4. /\ s \in Seq(Requests) /\ DOMAIN s \subseteq Nat \ {0}
      /\ 1 \in DOMAIN s /\ s[1] = Request("bind_manager", NoId)
      /\ \A j \in DOMAIN s : \/ s[j] = Request("bind_manager", NoId)
                             \/ \E i \in 1..Len(deferred) : s[j] = Request("get_output", deferred[i])
  <2>1. /\ s \in Seq(Requests) /\ DOMAIN s = 1..(1 + Len(deferred)) /\ Len(deferred) \in Nat
        /\ s[1] = Request("bind_manager", NoId)
        /\ \A j \in 2..(1 + Len(deferred)) : s[j] = gets[j - 1] /\ j - 1 \in 1..Len(deferred)
    <3> DEFINE n == Len(deferred)
    <3>1. n \in Nat /\ Len(gets) = n /\ Len(first) = 1 /\ first \in Seq(Requests) /\ gets \in Seq(Requests)
      BY <1>1, <1>2 DEF ClientTypeOK
    <3> HIDE DEF n
    <3>2. /\ s \in Seq(Requests) /\ Len(s) = 1 + n /\ s[1] = first[1]
          /\ \A j \in 2..(1 + n) : s[j] = gets[j - 1] /\ j - 1 \in 1..n
      <4>0. ASSUME NEW a \in Seq(Requests), NEW b \in Seq(Requests), Len(a) = 1, Len(b) = n
            PROVE  /\ a \o b \in Seq(Requests) /\ Len(a \o b) = 1 + n
                   /\ \A j \in 1..(1 + n) : (a \o b)[j] = IF j <= 1 THEN a[j] ELSE b[j - 1]
        <5>1. /\ a \o b \in Seq(Requests) /\ Len(a \o b) = Len(a) + Len(b)
              /\ \A j \in 1..(Len(a) + Len(b)) : (a \o b)[j] = IF j <= Len(a) THEN a[j] ELSE b[j - Len(a)]
          BY ConcatProperties
        <5> HIDE DEF s
        <5>2. \A j \in 1..(1 + n) : (a \o b)[j] = IF j <= 1 THEN a[j] ELSE b[j - 1]
          BY <4>0, <5>1
        <5> QED BY <4>0, <5>1, <5>2
      <4>1. s \in Seq(Requests) /\ Len(s) = 1 + n
        BY <3>1, <4>0
      <4>2. \A j \in 1..(1 + n) : s[j] = IF j <= 1 THEN first[j] ELSE gets[j - 1]
        BY <3>1, <4>0
      <4>3. \A j \in 2..(1 + n) : j - 1 \in 1..n /\ j \in 1..(1 + n) /\ ~(j <= 1)
        BY <3>1
      <4>4. 1 \in 1..(1 + n)
        BY <3>1
      <4> QED BY <4>1, <4>2, <4>3, <4>4
    <3>3. DOMAIN s = 1..(1 + n)
      BY <3>1, <3>2
    <3> QED BY <1>2, <3>1, <3>2, <3>3 DEF n
  <2>2. ASSUME NEW j \in DOMAIN s
        PROVE  \/ s[j] = Request("bind_manager", NoId)
               \/ \E i \in 1..Len(deferred) : s[j] = Request("get_output", deferred[i])
    <3>1. j = 1 \/ j \in 2..(1 + Len(deferred))
      BY <2>1
    <3>2. CASE j \in 2..(1 + Len(deferred))
      BY <1>1, <2>1, <3>2
    <3> QED BY <2>1, <3>1, <3>2
  <2>3. DOMAIN s \subseteq Nat \ {0}
    BY <2>1
  <2>4. 1 \in DOMAIN s
    BY <2>1
  <2> QED BY <2>1, <2>2, <2>3, <2>4
<1> HIDE DEF s
<1>5. \A j \in DOMAIN s :
                s[j].kind = "bind_manager" \/ (s[j].kind = "get_output" /\ \E i \in 1..Len(deferred) : s[j].id = deferred[i])
  BY <1>4 DEF Request
<1> QED BY <1>3, <1>4, <1>5

(* The manager is found while every output has its provisional name.         *)
LEMMA ManagerEffect ==
  ASSUME ServerTypeOK, ClientTypeOK, StartInv, OnManager
  PROVE  /\ phase = "globals" /\ focusedId = NoId
         /\ DOMAIN outputs' = DOMAIN outputs
         /\ \A y \in DOMAIN outputs : outputs[y].name = Provisional(y) /\ outputs'[y].name = Provisional(y)
         /\ wire \in Seq(Messages) /\ wire # <<>> /\ wire' = Tail(wire) /\ Message.kind = "manager"
         /\ deferred' = <<>>
         /\ UNCHANGED <<plugged, bound, unused, phase, committed, pending, focusedId, focusedName, observer>>
         /\ \A k \in {"bind_output", "set"} : \A y : Asked(k, y)' = Asked(k, y)
         /\ \A y : Asked("get_output", y) \subseteq Asked("get_output", y)'
         /\ \A y : Asked("bind_output", y) \subseteq 1..Len(requests)
         /\ \A y : \A i \in Asked("get_output", y)' : i \in Asked("get_output", y)
              \/ (i \in Nat /\ i > Len(requests) /\ \E j \in 1..Len(deferred) : deferred[j] = y)
<1>1. /\ wire \in Seq(Messages) /\ wire # <<>> /\ wire' = Tail(wire) /\ Message.kind = "manager"
      /\ UNCHANGED <<plugged, bound, unused, phase, committed, pending, focusedId, focusedName, observer>>
      /\ deferred' = <<>>
  BY DispatchTypes DEF OnManager, ServerTypeOK, server
<1>2. phase = "globals" /\ focusedId = NoId
  <2>1. 1 \in 1..Len(wire) /\ wire[1].kind = "manager"
    BY <1>1 DEF Message
  <2> QED BY <2>1 DEF StartInv
<1>3. /\ \A y \in DOMAIN outputs : outputs[y].name = Provisional(y)
      /\ \A i \in 1..Len(deferred) : deferred[i] \in DOMAIN outputs
      /\ DOMAIN deferred = 1..Len(deferred)
  BY <1>2 DEF StartInv, ClientTypeOK
<1>4. outputs' = [id \in DOMAIN outputs \cup {deferred[i] : i \in DOMAIN deferred} |->
                   IF \E i \in DOMAIN deferred : deferred[i] = id
                   THEN [name |-> Provisional(id), ipc |-> TRUE] ELSE outputs[id]]
  BY DEF OnManager
<1>5. DOMAIN outputs' = DOMAIN outputs
  BY <1>3, <1>4
<1>6. \A y \in DOMAIN outputs : outputs'[y].name = Provisional(y)
  BY <1>3, <1>4, <1>5
<1>7. PICK s \in Seq(Requests) :
        /\ requests' = requests \o s /\ DOMAIN s \subseteq Nat \ {0}
        /\ \A j \in DOMAIN s :
                s[j].kind = "bind_manager" \/ (s[j].kind = "get_output" /\ \E i \in 1..Len(deferred) : s[j].id = deferred[i])
  BY ManagerAsks
<1>8. /\ Len(requests) \in Nat
      /\ \A k, y : Asked(k, y) \subseteq Asked(k, y)' /\ Asked(k, y) \subseteq 1..Len(requests)
      /\ \A k, y : \A i \in Asked(k, y)' : i \in Asked(k, y)
              \/ \E j \in DOMAIN s : i = Len(requests) + j /\ s[j].kind = k /\ s[j].id = y
  BY <1>7, RequestsGrow DEF ServerTypeOK
<1>9. ASSUME NEW k \in {"bind_output", "set"}, NEW y PROVE Asked(k, y)' = Asked(k, y)
  <2>1. \A i \in Asked(k, y)' : i \in Asked(k, y)
    BY <1>7, <1>8
  <2>2. \A i \in Asked(k, y) : i \in Asked(k, y)'
    BY <1>8
  <2> QED BY <2>1, <2>2, Zenon
<1>10. ASSUME NEW y, NEW i \in Asked("get_output", y)', i \notin Asked("get_output", y)
       PROVE  i \in Nat /\ i > Len(requests) /\ \E j \in 1..Len(deferred) : deferred[j] = y
  <2>1. PICK j \in DOMAIN s : i = Len(requests) + j /\ s[j].kind = "get_output" /\ s[j].id = y
    BY <1>8, <1>10
  <2>2. j \in Nat \ {0}
    BY <1>7
  <2>3. \E h \in 1..Len(deferred) : s[j].id = deferred[h]
    BY <1>7, <2>1
  <2> QED BY <1>8, <2>1, <2>2, <2>3
<1> QED BY <1>1, <1>2, <1>3, <1>5, <1>6, <1>8, <1>9, <1>10

LEMMA ManagerLife ==
  ASSUME ServerTypeOK, ClientTypeOK, StartInv, OnManager, NEW x \in Ids, LifeInv(x)
  PROVE  LifeInv(x)'
<1>1. /\ focusedId = NoId /\ focusedId' = NoId /\ DOMAIN outputs' = DOMAIN outputs
      /\ \A y \in DOMAIN outputs : outputs[y].name = Provisional(y) /\ outputs'[y].name = Provisional(y)
      /\ wire \in Seq(Messages) /\ wire # <<>> /\ wire' = Tail(wire) /\ Message.kind = "manager"
      /\ UNCHANGED <<plugged, bound, unused>>
      /\ \A i \in 1..Len(deferred') : FALSE
  BY ManagerEffect
<1>2. /\ \A k \in {"bind_output", "set"} : Asked(k, x)' = Asked(k, x)
      /\ Asked("get_output", x) \subseteq Asked("get_output", x)'
      /\ Asked("bind_output", x) \subseteq 1..Len(requests) /\ Len(requests) \in Nat
      /\ \A i \in Asked("get_output", x)' : i \in Asked("get_output", x)
              \/ (i \in Nat /\ i > Len(requests) /\ \E j \in 1..Len(deferred) : deferred[j] = x)
  BY ManagerEffect DEF ServerTypeOK
<1>3. /\ \A k : Wires(k, x) = {} => Wires(k, x)' = {}
      /\ \A k \in {"output", "name", "removed"} : Wires(k, x) # {} => Wires(k, x)' # {}
      /\ Ipcs(x) = {} => Ipcs(x)' = {}
  BY <1>1, TailLife
<1>4. FreshInv(x)'
  <2>1. \A i, j \in Wires("output", x)' : i = j
    BY <1>1, TailLife
  <2>2. Wires("output", x)' # {} => Wires("output", x) # {}
    BY <1>3
  <2> QED BY <1>1, <1>2, <1>3, <2>1, <2>2 DEF LifeInv, FreshInv
<1>5. BindInv(x)'
  <2>1. ASSUME NEW i \in Asked("bind_output", x), NEW j \in Asked("get_output", x)' PROVE i < j
    BY <1>2 DEF LifeInv, BindInv
  <2> QED BY <1>1, <1>2, <1>3, <2>1 DEF LifeInv, BindInv
<1>6. NamingInv(x)'
  <2>1. \A i \in Wires("name", x)' :
              /\ \A j \in Wires("name", x)' : i = j
              /\ \A j \in Ipcs(x)' : i < j
              /\ focusedId # x
              /\ x \in DOMAIN plugged => wire'[i].name = plugged[x]
    BY <1>1, TailLife
  <2> QED BY <1>1, <2>1 DEF NamingInv
<1>7. NamedInv(x)'
  <2>1. Ipcs(x)' # {} => Ipcs(x) # {}
    BY <1>3
  <2> QED BY <1>1, <1>2, <1>3, <2>1 DEF LifeInv, NamedInv
<1>8. GoneInv(x)'
  <2>1. \A j \in Wires("removed", x)' :
              x \notin DOMAIN plugged /\ \A i \in Wires("name", x)' \cup Wires("output", x)' : i < j
    BY <1>1, TailLife
  <2> QED BY <1>1, <1>3, <2>1 DEF LifeInv, GoneInv
<1> QED BY <1>4, <1>5, <1>6, <1>7, <1>8 DEF LifeInv

(* What the arrival of a name changes, besides the states of outputs. *)
LEMMA NameEffect ==
  ASSUME ServerTypeOK, ClientTypeOK, OnName
  PROVE  /\ wire \in Seq(Messages) /\ wire # <<>> /\ wire' = Tail(wire) /\ Message.kind = "name"
         /\ Message.id \in Ids /\ Message.name \in Names /\ 1 \in Wires("name", Message.id) /\ Message = wire[1]
         /\ UNCHANGED <<plugged, bound, unused, deferred, phase, tagCount, observer>>
         /\ DOMAIN outputs' = DOMAIN outputs
         /\ \A y \in DOMAIN outputs : y # Message.id => outputs'[y] = outputs[y]
         /\ Message.id \in DOMAIN outputs => outputs'[Message.id].name = Message.name
         /\ focusedName' = IF focusedName = NoName THEN Message.name ELSE focusedName
         /\ focusedId' = IF focusedName = NoName THEN Message.id ELSE focusedId
         /\ requests' \in {requests, Append(requests, Request("get_output", Message.id))}
<1>1. /\ wire \in Seq(Messages) /\ wire # <<>> /\ wire' = Tail(wire) /\ Message.kind = "name" /\ Message = wire[1]
      /\ Message \in Messages /\ UNCHANGED <<plugged, bound, unused, deferred, phase, tagCount, observer>>
  BY DispatchTypes DEF OnName, ServerTypeOK, server
<1>2. Message.id \in Ids /\ Message.name \in Names
  BY <1>1, MessageShapes
<1>3. 1 \in Wires("name", Message.id)
  BY <1>1, WireShift
<1>4. /\ outputs' = IF Message.id \in DOMAIN outputs
                    THEN [outputs EXCEPT ![Message.id] = [name |-> Message.name, ipc |-> @.ipc \/ manager]]
                    ELSE outputs
      /\ requests' \in {requests, Append(requests, Request("get_output", Message.id))}
      /\ focusedName' = IF focusedName = NoName THEN Message.name ELSE focusedName
      /\ focusedId' = IF focusedName = NoName THEN Message.id ELSE focusedId
  BY DEF OnName
<1>5. /\ DOMAIN outputs' = DOMAIN outputs
      /\ \A y \in DOMAIN outputs : y # Message.id => outputs'[y] = outputs[y]
      /\ Message.id \in DOMAIN outputs => outputs'[Message.id].name = Message.name
  BY <1>4
<1> QED BY <1>1, <1>2, <1>3, <1>4, <1>5

LEMMA NameLife ==
  ASSUME ServerTypeOK, ClientTypeOK, OnName, NEW x \in Ids, LifeInv(x)
  PROVE  LifeInv(x)'
<1> DEFINE id == Message.id
<1>1. /\ wire \in Seq(Messages) /\ wire # <<>> /\ wire' = Tail(wire) /\ Message.kind = "name"
      /\ id \in Ids /\ Message.name \in Names /\ 1 \in Wires("name", id) /\ Message = wire[1]
      /\ UNCHANGED <<plugged, bound, unused, deferred>>
      /\ DOMAIN outputs' = DOMAIN outputs
      /\ \A y \in DOMAIN outputs : y # id => outputs'[y] = outputs[y]
      /\ id \in DOMAIN outputs => outputs'[id].name = Message.name
      /\ focusedId' \in {focusedId, id}
      /\ requests' \in {requests, Append(requests, Request("get_output", id))}
  BY NameEffect
<1>2. Message.id = id
  OBVIOUS
<1> HIDE DEF id
<1>3. /\ \A k \in {"bind_output", "set"} : Asked(k, x)' = Asked(k, x)
      /\ x # id => Asked("get_output", x)' = Asked("get_output", x)
  <2> DEFINE r == Request("get_output", id)
  <2>1. r \in Requests /\ r.kind = "get_output" /\ r.id = id
    BY <1>1, MessageTypes DEF Request
  <2> HIDE DEF r
  <2>2. CASE requests' = requests
    BY <2>2, Unmoved
  <2>3. CASE requests' = Append(requests, r)
    <3>1. \A k : Asked(k, x)' = Asked(k, x) \cup (IF r.kind = k /\ r.id = x THEN {Len(requests) + 1} ELSE {})
      BY <2>1, <2>3, OneAsked DEF ServerTypeOK
    <3> QED BY <2>1, <3>1
  <2> QED BY <1>1, <2>2, <2>3 DEF r
<1>4. /\ \A k : Wires(k, x) = {} => Wires(k, x)' = {}
      /\ \A k \in {"output", "removed"} : Wires(k, x) # {} => Wires(k, x)' # {}
      /\ x # id => (Wires("name", x) # {} => Wires("name", x)' # {})
      /\ x = id => Wires("name", x)' = {} /\ Wires("name", x) # {}
      /\ Ipcs(x) = {} => Ipcs(x)' = {}
      /\ \A i, j \in Wires("output", x)' : i = j
      /\ Wires("output", x)' # {} => Wires("output", x) # {}
      /\ Ipcs(x)' # {} => Ipcs(x) # {}
      /\ Wires("name", x)' # {} => Wires("name", x) # {}
  BY <1>1, <1>2, TailLife
<1>5. x = id => /\ x \notin unused /\ Wires("output", x) = {} /\ Asked("bind_output", x) = {}
  BY <1>4 DEF LifeInv, FreshInv, BindInv
<1>6. FreshInv(x)'
  <2>1. CASE x = id
    BY <1>1, <1>4, <1>5, <2>1 DEF FreshInv
  <2>2. CASE x # id
    BY <1>1, <1>3, <1>4, <2>2 DEF LifeInv, FreshInv
  <2> QED BY <2>1, <2>2
<1>7. BindInv(x)'
  <2>1. CASE x = id
    BY <1>3, <1>5, <2>1 DEF BindInv
  <2>2. CASE x # id
    BY <1>1, <1>3, <1>4, <2>2 DEF LifeInv, BindInv
  <2> QED BY <2>1, <2>2
<1>8. NamingInv(x)'
  <2>1. CASE x = id
    BY <1>4, <2>1 DEF NamingInv
  <2>2. CASE x # id
    <3>1. \A i \in Wires("name", x)' :
              /\ \A j \in Wires("name", x)' : i = j
              /\ \A j \in Ipcs(x)' : i < j
              /\ focusedId # x
              /\ x \in DOMAIN outputs => outputs[x].name = Provisional(x)
              /\ x \in DOMAIN plugged => wire'[i].name = plugged[x]
      BY <1>1, TailLife
    <3> QED BY <1>1, <2>2, <3>1 DEF NamingInv
  <2> QED BY <2>1, <2>2
<1>9. NamedInv(x)'
  <2>1. CASE x = id
    <3>1. x \in DOMAIN plugged => Message.name = plugged[x]
      BY <1>1, <2>1 DEF LifeInv, NamingInv
    <3> QED BY <1>1, <2>1, <3>1 DEF NamedInv
  <2>2. CASE x # id
    BY <1>1, <1>3, <1>4, <2>2 DEF LifeInv, NamedInv
  <2> QED BY <2>1, <2>2
<1>10. GoneInv(x)'
  <2>1. \A j \in Wires("removed", x)' :
              x \notin DOMAIN plugged /\ \A i \in Wires("name", x)' \cup Wires("output", x)' : i < j
    BY <1>1, TailLife
  <2> QED BY <1>1, <1>4, <2>1 DEF LifeInv, GoneInv
<1> QED BY <1>6, <1>7, <1>8, <1>9, <1>10 DEF LifeInv

(* The start. *)
LEMMA StartGrows ==
  ASSUME StartInv, wire \in Seq(Messages), NEW s \in Seq(Messages), wire' = wire \o s,
         \A i \in DOMAIN s : s[i].kind # "manager", UNCHANGED client
  PROVE  StartInv'
<1>1. /\ Len(wire) \in Nat /\ Len(s) \in Nat /\ Len(wire') = Len(wire) + Len(s)
      /\ \A i \in 1..Len(wire) : wire'[i] = wire[i]
  OBVIOUS
<1>2. \A i \in 1..Len(wire') : i \notin 1..Len(wire) => wire'[i].kind # "manager"
  <2>1. ASSUME NEW i \in 1..Len(wire'), i \notin 1..Len(wire) PROVE i - Len(wire) \in DOMAIN s /\ wire'[i] = s[i - Len(wire)]
    BY <1>1, <2>1
  <2> QED BY <2>1
<1>3. UNCHANGED <<phase, focusedId, focusedName, committed, pending, outputs, deferred>>
  BY DEF client
<1>4. CASE phase = "globals"
  <2>1. PICK d \in 1..Len(wire) :
            /\ wire[d].kind = "done"
            /\ \A i \in 1..Len(wire) : i < d => wire[i].kind \in {"manager", "output"}
            /\ \A i \in 1..Len(wire) : i > d => wire[i].kind # "manager"
    BY <1>4 DEF StartInv
  <2>2. d \in 1..Len(wire') /\ wire'[d].kind = "done"
    BY <1>1, <2>1
  <2>3. \A i \in 1..Len(wire') : i < d => wire'[i].kind \in {"manager", "output"}
    BY <1>1, <2>1
  <2>4. \A i \in 1..Len(wire') : i > d => wire'[i].kind # "manager"
    BY <1>1, <1>2, <2>1
  <2> QED BY <1>3, <1>4, <2>2, <2>3, <2>4 DEF StartInv
<1>5. CASE phase # "globals"
  BY <1>1, <1>2, <1>3, <1>5 DEF StartInv
<1> QED BY <1>4, <1>5

LEMMA StartAppend ==
  ASSUME StartInv, wire \in Seq(Messages), NEW m \in Messages, wire' = Append(wire, m),
         m.kind # "manager", UNCHANGED client
  PROVE  StartInv'
<1>1. <<m>> \in Seq(Messages) /\ wire' = wire \o <<m>> /\ \A i \in DOMAIN <<m>> : <<m>>[i].kind # "manager"
  BY AppendIsConcat
<1> QED BY <1>1, StartGrows

(* What is next during the first roundtrip, and what is left. *)
LEMMA StartTail ==
  ASSUME StartInv, wire \in Seq(Messages), wire # <<>>, wire' = Tail(wire)
  PROVE  /\ phase = "globals" => Message.kind \in {"manager", "output", "done"}
         /\ phase = "globals" /\ Message.kind # "done" =>
              \E d \in 1..Len(wire') :
                /\ wire'[d].kind = "done"
                /\ \A i \in 1..Len(wire') : i < d => wire'[i].kind \in {"manager", "output"}
                /\ \A i \in 1..Len(wire') : i > d => wire'[i].kind # "manager"
         /\ phase # "globals" \/ Message.kind = "done" => \A i \in 1..Len(wire') : wire'[i].kind # "manager"
<1>1. /\ Len(wire) \in Nat \ {0} /\ Len(wire') = Len(wire) - 1 /\ Message = wire[1]
      /\ \A i \in 1..Len(wire') : wire'[i] = wire[i + 1] /\ i + 1 \in 1..Len(wire)
  BY DEF Message
<1>2. CASE phase = "globals"
  <2>1. PICK d \in 1..Len(wire) :
            /\ wire[d].kind = "done"
            /\ \A i \in 1..Len(wire) : i < d => wire[i].kind \in {"manager", "output"}
            /\ \A i \in 1..Len(wire) : i > d => wire[i].kind # "manager"
    BY <1>2 DEF StartInv
  <2>2. CASE d = 1
    <3>1. Message.kind = "done" /\ \A i \in 1..Len(wire') : wire'[i].kind # "manager"
      BY <1>1, <2>1, <2>2
    <3> QED BY <1>2, <3>1
  <2>3. CASE d # 1
    <3>1. Message.kind \in {"manager", "output"}
      BY <1>1, <2>1, <2>3
    <3>2. d - 1 \in 1..Len(wire') /\ wire'[d - 1].kind = "done"
      BY <1>1, <2>1, <2>3
    <3>3. \A i \in 1..Len(wire') : i < d - 1 => wire'[i].kind \in {"manager", "output"}
      BY <1>1, <2>1
    <3>4. \A i \in 1..Len(wire') : i > d - 1 => wire'[i].kind # "manager"
      BY <1>1, <2>1
    <3> QED BY <1>2, <3>1, <3>2, <3>3, <3>4
  <2> QED BY <2>2, <2>3
<1>3. CASE phase # "globals"
  BY <1>1, <1>3 DEF StartInv
<1> QED BY <1>2, <1>3

LEMMA StartInit == Init => StartInv
<1> SUFFICES ASSUME Init PROVE StartInv
  OBVIOUS
<1>1. PICK n \in Nat : \E order \in [1..n -> AtStart \cup {NoId}] :
           /\ \A i, j \in 1..n : order[i] = order[j] => i = j
           /\ wire \in Seq(Messages) /\ Len(wire) = n + 1
           /\ wire[n + 1] = Msg("done", NoId)
           /\ \A i \in 1..n : wire[i] = Msg(IF order[i] = NoId THEN "manager" ELSE "output", order[i])
  BY FirstMessages
<1>2. n + 1 \in 1..Len(wire) /\ wire[n + 1].kind = "done"
  BY <1>1 DEF Msg
<1>3. \A i \in 1..Len(wire) : i < n + 1 => wire[i].kind \in {"manager", "output"}
  <2>1. PICK order \in [1..n -> AtStart \cup {NoId}] :
           \A i \in 1..n : wire[i] = Msg(IF order[i] = NoId THEN "manager" ELSE "output", order[i])
    BY <1>1
  <2>2. \A i \in 1..Len(wire) : i < n + 1 => i \in 1..n
    BY <1>1
  <2>3. ASSUME NEW i \in 1..n PROVE wire[i].kind \in {"manager", "output"}
    <3>1. wire[i] = Msg(IF order[i] = NoId THEN "manager" ELSE "output", order[i])
      BY <2>1
    <3>2. wire[i].kind = IF order[i] = NoId THEN "manager" ELSE "output"
      BY <3>1 DEF Msg
    <3> QED BY <3>2
  <2> QED BY <2>2, <2>3
<1>4. \A i \in 1..Len(wire) : ~(i > n + 1)
  BY <1>1
<1>5. /\ phase = "globals" /\ outputs = <<>> /\ deferred = <<>> /\ committed = <<>> /\ pending = <<>>
      /\ focusedName = NoName /\ focusedId = NoId
  BY DEF Init
<1> QED BY <1>2, <1>3, <1>4, <1>5 DEF StartInv

LEMMA StartNext == TypesInv /\ StartInv /\ [Next]_vars => StartInv'
<1> SUFFICES ASSUME TypesInv, StartInv, [Next]_vars PROVE StartInv'
  OBVIOUS
<1>1. ServerTypeOK /\ ClientTypeOK /\ ObserverTypeOK /\ manager \in BOOLEAN /\ wire \in Seq(Messages)
  BY DEF TypesInv, ServerTypeOK
<1>2. ASSUME NEW id \in Ids, Plug(id) PROVE StartInv'
  <2>1. wire' = Append(wire, Msg("output", id)) /\ UNCHANGED client
    BY <1>1, <1>2, PlugEffect
  <2>2. Msg("output", id) \in Messages /\ Msg("output", id).kind # "manager"
    BY MessageTypes DEF Msg
  <2> QED BY <1>1, <2>1, <2>2, StartAppend
<1>3. ASSUME NEW id \in Ids, Unplug(id) PROVE StartInv'
  <2>1. PICK s \in Seq(Messages) : Statuses(s) /\ wire' = Append(wire, Msg("removed", id)) \o s
    BY <1>1, <1>3, UnplugEffect
  <2>2. UNCHANGED client
    BY <1>1, <1>3, UnplugEffect
  <2> DEFINE m == Msg("removed", id)
             t == <<m>> \o s
  <2>3. m \in Messages /\ m.kind = "removed"
    BY MessageTypes DEF Msg
  <2> HIDE DEF m
  <2>4. t \in Seq(Messages) /\ wire' = wire \o t
    <3>1. Append(wire, m) = wire \o <<m>> /\ <<m>> \in Seq(Messages)
      BY <1>1, <2>3, AppendIsConcat
    <3> QED BY <1>1, <2>1, <3>1, ConcatAssociative DEF m
  <2>5. \A j \in DOMAIN t : t[j].kind # "manager"
    <3>1. \A j \in DOMAIN t : t[j] = m \/ \E i \in DOMAIN s : t[j] = s[i]
      BY <2>3
    <3> QED BY <2>1, <2>3, <3>1 DEF Statuses, IPCKinds
  <2> HIDE DEF t
  <2> QED BY <1>1, <2>2, <2>4, <2>5, StartGrows
<1>4. ASSUME NEW id \in Ids, Change(id) \/ Focus(id) PROVE StartInv'
  <2>1. PICK s \in Seq(Messages) : Statuses(s) /\ wire' = wire \o s
    BY <1>1, <1>4, StatusStepEffect
  <2>2. UNCHANGED client
    BY <1>1, <1>4, StatusStepEffect
  <2>3. \A j \in DOMAIN s : s[j].kind # "manager"
    BY <2>1 DEF Statuses, IPCKinds
  <2> QED BY <1>1, <2>1, <2>2, <2>3, StartGrows
<1>5. CASE HandleRequest
  <2> DEFINE r == Head(requests)
  <2>1. UNCHANGED client
    BY <1>1, <1>5, HandleEffect
  <2>2. \/ UNCHANGED wire
        \/ \E m \in Messages : m.kind # "manager" /\ wire' = Append(wire, m)
        \/ \E s \in Seq(Messages) : wire' = wire \o s /\ \A i \in DOMAIN s : s[i].kind # "manager"
    <3>1. /\ \A k \in {"done", "tags"} : Msg(k, NoId) \in Messages /\ Msg(k, NoId).kind # "manager"
          /\ r.id \in DOMAIN plugged => /\ NameMsg(r.id, plugged[r.id]) \in Messages
                                        /\ NameMsg(r.id, plugged[r.id]).kind # "manager"
      BY <1>1, MessageTypes DEF Msg, NameMsg, ServerTypeOK
    <3> QED BY <1>1, <1>5, <3>1, HandleEffect DEF IPCKinds
  <2>3. CASE UNCHANGED wire
    BY <2>1, <2>3 DEF StartInv, client
  <2> QED BY <1>1, <2>1, <2>2, <2>3, StartAppend, StartGrows
<1>6. CASE ServeSet
  BY <1>6 DEF ServeSet, StartInv, client
<1>7. CASE UNCHANGED vars
  BY <1>7 DEF vars, StartInv, client
<1>8. ASSUME wire # <<>>, wire' = Tail(wire), phase # "globals", phase' # "globals" PROVE StartInv'
  BY <1>1, <1>8, StartTail DEF StartInv
<1>9. CASE OnDone
  <2>1. wire # <<>> /\ wire' = Tail(wire) /\ Message.kind = "done" /\ phase' # "globals"
    BY <1>1, <1>9, DispatchTypes DEF OnDone
  <2> QED BY <1>1, <2>1, StartTail DEF StartInv
<1>10. CASE OnManager
  <2>1. /\ phase = "globals" /\ phase' = phase /\ DOMAIN outputs' = DOMAIN outputs
        /\ \A y \in DOMAIN outputs : outputs'[y].name = Provisional(y)
        /\ wire # <<>> /\ wire' = Tail(wire) /\ Message.kind = "manager" /\ deferred' = <<>>
        /\ UNCHANGED <<committed, pending, focusedId, focusedName>>
    BY <1>1, <1>10, ManagerEffect
  <2>2. \E d \in 1..Len(wire') :
                /\ wire'[d].kind = "done"
                /\ \A i \in 1..Len(wire') : i < d => wire'[i].kind \in {"manager", "output"}
                /\ \A i \in 1..Len(wire') : i > d => wire'[i].kind # "manager"
    BY <1>1, <2>1, StartTail
  <2> QED BY <2>1, <2>2 DEF StartInv
<1>11. CASE OnOutput
  <2> DEFINE id == Message.id
  <2>1. /\ wire # <<>> /\ wire' = Tail(wire) /\ Message.kind = "output"
        /\ UNCHANGED <<phase, committed, pending, focusedId, focusedName>>
        /\ outputs' = With(outputs, id, [name |-> Provisional(id), ipc |-> manager])
        /\ deferred' = (IF manager THEN deferred ELSE Append(deferred, id))
    BY <1>1, <1>11, DispatchTypes DEF OnOutput
  <2>2. CASE phase = "globals"
    <3>1. \E d \in 1..Len(wire') :
                /\ wire'[d].kind = "done"
                /\ \A i \in 1..Len(wire') : i < d => wire'[i].kind \in {"manager", "output"}
                /\ \A i \in 1..Len(wire') : i > d => wire'[i].kind # "manager"
      BY <1>1, <2>1, <2>2, StartTail
    <3>2. /\ DOMAIN outputs' = DOMAIN outputs \cup {id} /\ outputs'[id].name = Provisional(id)
          /\ \A y \in DOMAIN outputs \ {id} : outputs'[y] = outputs[y]
      BY <2>1 DEF With
    <3>3. \A y \in DOMAIN outputs' : outputs'[y].name = Provisional(y)
      BY <2>2, <3>2 DEF StartInv
    <3>4. \A i \in 1..Len(deferred') : deferred'[i] \in DOMAIN outputs'
      <4>1. \A i \in 1..Len(deferred) : deferred[i] \in DOMAIN outputs'
        BY <2>2, <3>2 DEF StartInv
      <4>2. id \in Ids /\ id \in DOMAIN outputs'
        BY <1>1, <1>11, <2>1, <3>2, DispatchTypes, MessageShapes DEF OnOutput
      <4>3. ASSUME NEW y \in Ids, y \in DOMAIN outputs'
            PROVE  \A i \in 1..Len(Append(deferred, y)) : Append(deferred, y)[i] \in DOMAIN outputs'
        BY <1>1, <4>1, <4>3 DEF ClientTypeOK
      <4> HIDE DEF id
      <4> QED BY <2>1, <4>1, <4>2, <4>3
    <3> QED BY <2>1, <2>2, <3>1, <3>3, <3>4 DEF StartInv
  <2>3. CASE phase # "globals"
    BY <1>8, <2>1, <2>3
  <2> QED BY <2>2, <2>3
<1>12. ASSUME NEW k \in IPCKinds \cup {"removed", "name", "tags"}, Arrived(k), Dispatched, UNCHANGED phase
       PROVE  StartInv'
  <2>1. wire # <<>> /\ wire' = Tail(wire) /\ Message.kind = k
    BY <1>1, <1>12, DispatchTypes
  <2>2. phase # "globals"
    BY <1>1, <2>1, StartTail DEF IPCKinds
  <2> QED BY <1>8, <1>12, <2>1, <2>2
<1>13. CASE OnRemoved \/ OnName \/ OnTags
  BY <1>12, <1>13 DEF OnRemoved, OnName, OnTags
<1>14. CASE OnStale
  BY <1>12, <1>14 DEF OnStale, client
<1>15. CASE OnActive \/ OnTag \/ OnField \/ OnFrame
  BY <1>12, <1>15 DEF OnActive, OnTag, OnField, OnFrame, Ipc, IPCKinds
<1> QED BY <1>2, <1>3, <1>4, <1>5, <1>6, <1>7, <1>9, <1>10, <1>11, <1>13, <1>14, <1>15 DEF Next

LEMMA LifeInit == Init => \A x \in Ids : LifeInv(x)
<1> SUFFICES ASSUME Init, NEW x \in Ids PROVE LifeInv(x)
  OBVIOUS
<1>1. PICK n \in Nat : \E order \in [1..n -> AtStart \cup {NoId}] :
           /\ \A i, j \in 1..n : order[i] = order[j] => i = j
           /\ wire \in Seq(Messages) /\ Len(wire) = n + 1
           /\ wire[n + 1] = Msg("done", NoId)
           /\ \A i \in 1..n : wire[i] = Msg(IF order[i] = NoId THEN "manager" ELSE "output", order[i])
  BY FirstMessages
<1>2. PICK order \in [1..n -> AtStart \cup {NoId}] :
           /\ \A i, j \in 1..n : order[i] = order[j] => i = j
           /\ wire \in Seq(Messages) /\ Len(wire) = n + 1
           /\ wire[n + 1] = Msg("done", NoId)
           /\ \A i \in 1..n : wire[i] = Msg(IF order[i] = NoId THEN "manager" ELSE "output", order[i])
  BY <1>1
<1>3. \A i \in 1..Len(wire) : i = n + 1 \/ i \in 1..n
  BY <1>2
<1>10. ASSUME NEW i \in 1..n PROVE wire[i].kind \in {"manager", "output"} /\ wire[i].id = order[i]
  <2>1. wire[i] = Msg(IF order[i] = NoId THEN "manager" ELSE "output", order[i])
    BY <1>2
  <2>2. wire[i].kind = (IF order[i] = NoId THEN "manager" ELSE "output") /\ wire[i].id = order[i]
    BY <2>1 DEF Msg
  <2> QED BY <2>2
<1>11. wire[n + 1].kind = "done"
  BY <1>2 DEF Msg
<1>4. /\ outputs = <<>> /\ deferred = <<>> /\ requests = <<>> /\ bound = {} /\ focusedId = NoId
      /\ DOMAIN plugged = AtStart /\ unused = Ids \ AtStart
  BY DEF Init
<1>5. \A k : Asked(k, x) = {}
  BY <1>4 DEF Asked
<1>6. Wires("name", x) = {} /\ Wires("removed", x) = {} /\ Ipcs(x) = {}
  BY <1>3, <1>10, <1>11 DEF Wires, Ipcs, IPCKinds
<1>7. \A i \in Wires("output", x) : i \in 1..n /\ order[i] = x
  BY <1>3, <1>10, <1>11 DEF Wires
<1>8. \A i \in Wires("output", x) : x \in AtStart
  BY <1>7
<1>9. FreshInv(x)
  BY <1>2, <1>4, <1>5, <1>6, <1>7, <1>8 DEF FreshInv
<1> QED BY <1>4, <1>5, <1>6, <1>8, <1>9 DEF LifeInv, BindInv, NamingInv, NamedInv, GoneInv

LEMMA LifeNext == TypesInv /\ StartInv /\ (\A x \in Ids : LifeInv(x)) /\ [Next]_vars => \A x \in Ids : LifeInv(x)'
<1> SUFFICES ASSUME TypesInv, StartInv, [Next]_vars, NEW x \in Ids, LifeInv(x) PROVE LifeInv(x)'
  OBVIOUS
<1>1. ServerTypeOK /\ ClientTypeOK /\ ObserverTypeOK /\ manager \in BOOLEAN
  BY DEF TypesInv
<1>2. ASSUME NEW id \in Ids, Plug(id) \/ Unplug(id) \/ Change(id) \/ Focus(id) PROVE LifeInv(x)'
  BY <1>1, <1>2, PlugLife, UnplugLife, StatusLife
<1>3. CASE HandleRequest
  BY <1>1, <1>3, HandleLife
<1>4. ASSUME NEW k \in IPCKinds \cup {"done", "tags"}, Arrived(k), Dispatched,
             UNCHANGED <<plugged, bound, unused, outputs, deferred>>,
             focusedId' = focusedId \/ (k = "active" /\ focusedId' = Message.id),
             requests' \in {requests, Append(requests, Request("sync", NoId))}
      PROVE  LifeInv(x)'
  <2>1. wire # <<>> /\ wire' = Tail(wire) /\ Message.kind = k
    BY <1>1, <1>4, DispatchTypes
  <2>2. \A l \in {"bind_output", "get_output", "set"} : Asked(l, x)' = Asked(l, x)
    <3>1. CASE requests' = requests
      BY <3>1, Unmoved
    <3>2. CASE requests' = Append(requests, Request("sync", NoId))
      <4> DEFINE r == Request("sync", NoId)
      <4>1. r \in Requests /\ r.kind = "sync"
        BY MessageTypes DEF Request
      <4> HIDE DEF r
      <4>2. \A l : Asked(l, x)' = Asked(l, x) \cup (IF r.kind = l /\ r.id = x THEN {Len(requests) + 1} ELSE {})
        BY <1>1, <3>2, <4>1, OneAsked DEF r, ServerTypeOK
      <4>3. ASSUME NEW l \in {"bind_output", "get_output", "set"} PROVE Asked(l, x)' = Asked(l, x)
        BY <4>1, <4>2
      <4> QED BY <4>3
    <3> QED BY <1>4, <3>1, <3>2
  <2> QED BY <1>1, <1>4, <2>1, <2>2, PlainLife DEF IPCKinds
<1>5. CASE OnDone
  BY <1>4, <1>5 DEF OnDone, server
<1>6. CASE OnManager
  BY <1>1, <1>6, ManagerLife
<1>7. CASE OnOutput
  BY <1>1, <1>7, OutputLife
<1>8. CASE OnRemoved
  BY <1>1, <1>8, RemovedLife
<1>9. CASE OnName
  BY <1>1, <1>9, NameLife
<1>10. CASE OnTags
  BY <1>4, <1>10 DEF OnTags, server
<1>11. CASE OnStale
  BY <1>4, <1>11 DEF OnStale, server, client
<1>12. CASE OnActive
  BY <1>4, <1>12 DEF OnActive, Ipc, server, IPCKinds
<1>13. CASE OnTag \/ OnField \/ OnFrame
  BY <1>4, <1>13 DEF OnTag, OnField, OnFrame, Ipc, server, IPCKinds
<1>14. CASE ServeSet
  BY <1>1, <1>14, ServeLife
<1>15. CASE UNCHANGED vars
  BY <1>15 DEF vars, client, server, LifeInv, FreshInv, BindInv, NamingInv, NamedInv, GoneInv, Wires, Ipcs, Asked
<1> QED BY <1>2, <1>3, <1>5, <1>6, <1>7, <1>8, <1>9, <1>10, <1>11, <1>12, <1>13, <1>14, <1>15 DEF Next

-----------------------------------------------------------------------------
(* The focus by id and the focus by name are one output. *)

WorldInv == TypesInv /\ StartInv /\ \A x \in Ids : LifeInv(x)

LEMMA WorldInit == Init => WorldInv
BY TypesInit, StartInit, LifeInit DEF WorldInv

LEMMA WorldNext == WorldInv /\ [Next]_vars => WorldInv'
<1> SUFFICES ASSUME WorldInv, [Next]_vars PROVE WorldInv'
  OBVIOUS
<1>1. TypesInv' /\ StartInv' /\ \A x \in Ids : LifeInv(x)'
  BY TypesNext, StartNext, LifeNext DEF WorldInv
<1> QED BY <1>1 DEF WorldInv

LEMMA FocusNext == WorldInv /\ FocusIsOneOutput /\ [Next]_vars => FocusIsOneOutput'
<1> SUFFICES ASSUME WorldInv, FocusIsOneOutput, [Next]_vars PROVE FocusIsOneOutput'
  OBVIOUS
<1>1. ServerTypeOK /\ ClientTypeOK /\ ObserverTypeOK /\ manager \in BOOLEAN /\ StartInv
  BY DEF WorldInv, TypesInv
<1>2. \A x \in Ids : LifeInv(x)
  BY DEF WorldInv
<1>3. ASSUME UNCHANGED <<outputs, focusedId, focusedName>> PROVE FocusIsOneOutput'
  BY <1>3 DEF FocusIsOneOutput
<1>4. ASSUME NEW id \in Ids, Plug(id) \/ Unplug(id) \/ Change(id) \/ Focus(id) PROVE FocusIsOneOutput'
  BY <1>3, <1>4 DEF Plug, Unplug, Change, Focus, client
<1>5. CASE HandleRequest \/ ServeSet \/ OnStale \/ UNCHANGED vars
  BY <1>3, <1>5 DEF HandleRequest, ServeSet, OnStale, vars, client
<1>6. CASE OnDone \/ OnTags
  BY <1>3, <1>6 DEF OnDone, OnTags
<1>7. CASE OnTag \/ OnField \/ OnFrame
  BY <1>3, <1>7 DEF OnTag, OnField, OnFrame, Ipc
<1>8. CASE OnManager
  BY <1>1, <1>8, ManagerEffect DEF FocusIsOneOutput, ClientTypeOK
<1>9. CASE OnOutput
  <2>1. /\ wire \in Seq(Messages) /\ wire # <<>> /\ wire' = Tail(wire) /\ Message.kind = "output"
        /\ Message.id \in Ids
    <3>1. Arrived("output") /\ Dispatched
      BY <1>9 DEF OnOutput
    <3>2. wire # <<>> /\ wire' = Tail(wire) /\ Message.kind = "output" /\ Message \in Messages
      BY <1>1, <3>1, DispatchTypes
    <3> QED BY <1>1, <3>2, MessageShapes DEF ServerTypeOK
  <2>2. 1 \in Wires("output", Message.id)
    BY <2>1, WireShift
  <2>3. focusedId # Message.id
    BY <1>2, <2>1, <2>2 DEF LifeInv, FreshInv
  <2>4. outputs' = With(outputs, Message.id, [name |-> Provisional(Message.id), ipc |-> manager])
        /\ UNCHANGED <<focusedId, focusedName>>
    BY <1>9 DEF OnOutput
  <2> QED BY <2>3, <2>4 DEF FocusIsOneOutput, With
<1>10. CASE OnRemoved
  <2>1. outputs' = Without(outputs, Message.id) /\ UNCHANGED <<focusedId, focusedName>>
    BY <1>10 DEF OnRemoved
  <2> QED BY <2>1 DEF FocusIsOneOutput, Without
<1>11. CASE OnName
  <2>1. /\ 1 \in Wires("name", Message.id) /\ Message.id \in Ids
        /\ DOMAIN outputs' = DOMAIN outputs
        /\ \A y \in DOMAIN outputs : y # Message.id => outputs'[y] = outputs[y]
        /\ Message.id \in DOMAIN outputs => outputs'[Message.id].name = Message.name
        /\ focusedName' = IF focusedName = NoName THEN Message.name ELSE focusedName
        /\ focusedId' = IF focusedName = NoName THEN Message.id ELSE focusedId
    BY <1>1, <1>11, NameEffect
  <2>2. focusedId # Message.id
    BY <1>2, <2>1 DEF LifeInv, NamingInv
  <2> QED BY <2>1, <2>2 DEF FocusIsOneOutput
<1>12. CASE OnActive
  <2>1. /\ UNCHANGED outputs
        /\ focusedId' = IF Message.on THEN Message.id ELSE focusedId
        /\ Message.on => focusedName' = NameOf
        /\ ~Message.on => focusedName' = focusedName
    BY <1>12 DEF OnActive, Ipc
  <2> QED BY <2>1 DEF FocusIsOneOutput, NameOf
<1> QED BY <1>4, <1>5, <1>6, <1>7, <1>8, <1>9, <1>10, <1>11, <1>12 DEF Next

(* A command goes to the output that get describes: focused_output_id and    *)
(* focused_output never mean two different outputs, whatever is plugged,     *)
(* renamed or made active, because a name always arrives before the first    *)
(* status of its output and an id is never announced twice                   *)
(* (mangowc/src/lib.rs: Dispatch for ZdwlIpcOutputV2, run_wayland_loop).     *)
THEOREM FocusIsOne == Spec => []FocusIsOneOutput
<1>1. Init => FocusIsOneOutput
  BY DEF Init, FocusIsOneOutput
<1> QED BY <1>1, WorldInit, WorldNext, FocusNext, PTL DEF Spec

-----------------------------------------------------------------------------
(* Two outputs and one name: whoever had the name is removed first.          *)

(* x is known by name n, or will be when the messages before the i-th are    *)
(* dispatched.                                                               *)
Uses(x, n, i) ==
  \/ x \in DOMAIN outputs /\ outputs[x].name = n
  \/ \E h \in Wires("name", x) : h < i /\ wire[h].name = n

ApartInv(x, y) ==
  x # y =>
    /\ x \in DOMAIN plugged /\ y \in DOMAIN plugged => plugged[x] # plugged[y]
    /\ \A i \in Wires("name", y) :
         Uses(x, wire[i].name, i) => \E j \in Wires("removed", x) : j < i
    /\ x \in DOMAIN outputs /\ y \in DOMAIN outputs /\ outputs[x].name \in Names =>
         outputs[x].name # outputs[y].name

(* A name that an output is plugged with is used by another one only if that *)
(* one is on its way out.                                                    *)
LEMMA OthersAreLeaving ==
  ASSUME ServerTypeOK, NEW x \in Ids, NEW y \in Ids, x # y, LifeInv(x), ApartInv(x, y), y \in DOMAIN plugged,
         NEW i, Uses(x, plugged[y], i)
  PROVE  Wires("removed", x) # {}
<1>1. plugged[y] \in Names
  BY DEF ServerTypeOK
<1>2. x \in DOMAIN outputs \/ Wires("name", x) # {}
  BY DEF Uses
<1>3. CASE x \notin DOMAIN plugged
  BY <1>2, <1>3 DEF LifeInv, GoneInv
<1>4. CASE x \in DOMAIN plugged
  <2>1. plugged[x] # plugged[y]
    BY <1>4 DEF ApartInv
  <2>2. x \in DOMAIN outputs /\ outputs[x].name = plugged[y] => outputs[x].name = plugged[x]
    BY <1>1, <1>4 DEF LifeInv, NamedInv
  <2>3. \A h \in Wires("name", x) : wire[h].name = plugged[x]
    BY <1>4 DEF LifeInv, NamingInv
  <2> QED BY <2>1, <2>2, <2>3 DEF Uses
<1> QED BY <1>3, <1>4

(* Messages are sent, none of them a name. *)
LEMMA ApartGrows ==
  ASSUME NEW x, NEW y, ApartInv(x, y), UNCHANGED outputs,
         \A z \in {x, y} : Wires("name", z)' = Wires("name", z),
         \A z \in {x, y} : \A i \in Wires("name", z) : wire'[i] = wire[i],
         Wires("removed", x) \subseteq Wires("removed", x)',
         x # y /\ x \in DOMAIN plugged' /\ y \in DOMAIN plugged' => plugged'[x] # plugged'[y]
  PROVE  ApartInv(x, y)'
<1> SUFFICES ASSUME x # y
             PROVE  /\ \A i \in Wires("name", y)' :
                         Uses(x, wire[i].name, i)' => \E j \in Wires("removed", x)' : j < i
                    /\ x \in DOMAIN outputs' /\ y \in DOMAIN outputs' /\ outputs'[x].name \in Names =>
                         outputs'[x].name # outputs'[y].name
  BY DEF ApartInv
<1>1. ASSUME NEW i \in Wires("name", y)', Uses(x, wire[i].name, i)'
      PROVE  \E j \in Wires("removed", x)' : j < i
  <2>1. i \in Wires("name", y) /\ wire'[i] = wire[i]
    OBVIOUS
  <2>2. Uses(x, wire[i].name, i)
    BY <1>1, <2>1 DEF Uses
  <2> QED BY <2>1, <2>2 DEF ApartInv
<1> QED BY <1>1 DEF ApartInv

(* A message is dispatched. *)
LEMMA ApartShift ==
  ASSUME wire \in Seq(Messages), wire # <<>>, wire' = Tail(wire), UNCHANGED plugged,
         \A z \in DOMAIN outputs' : outputs'[z].name \in Names =>
            \/ z \in DOMAIN outputs /\ outputs'[z].name = outputs[z].name
            \/ Message.kind = "name" /\ Message.id = z /\ Message.name = outputs'[z].name,
         Message.kind = "removed" => Message.id \notin DOMAIN outputs',
         NEW x \in Ids, NEW y \in Ids, LifeInv(x), ApartInv(x, y), ApartInv(y, x)
  PROVE  ApartInv(x, y)'
<1> SUFFICES ASSUME x # y PROVE ApartInv(x, y)'
  BY DEF ApartInv
<1>1. /\ \A k, z : \A i \in Wires(k, z)' : i + 1 \in Wires(k, z) /\ wire'[i] = wire[i + 1]
      /\ \A k, z : \A i \in Wires(k, z) : i # 1 => i - 1 \in Wires(k, z)'
      /\ \A k, z : 1 \in Wires(k, z) <=> Message.kind = k /\ Message.id = z
      /\ \A k, z : Wires(k, z) \subseteq Nat \ {0} /\ Wires(k, z)' \subseteq Nat \ {0}
  BY WireShift
<1>2. Message = wire[1]
  BY DEF Message
<1>3. \A z : \A i \in Wires("name", z) : wire[i].name \in Names
  <2>1. \A i \in 1..Len(wire) : wire[i] \in Messages
    OBVIOUS
  <2> QED BY <2>1, MessageShapes DEF Wires
<1>4. ASSUME NEW i \in Wires("name", y)', Uses(x, wire[i].name, i)'
      PROVE  \E j \in Wires("removed", x)' : j < i
  <2>1. i + 1 \in Wires("name", y) /\ wire'[i] = wire[i + 1] /\ i \in Nat \ {0}
    BY <1>1
  <2> DEFINE n == wire[i + 1].name
  <2>2. n \in Names
    BY <1>3, <2>1
  <2>3. Uses(x, n, i + 1)
    <3>1. CASE x \in DOMAIN outputs' /\ outputs'[x].name = n
      <4>1. CASE x \in DOMAIN outputs /\ outputs[x].name = n
        BY <4>1 DEF Uses
      <4>2. CASE Message.kind = "name" /\ Message.id = x /\ Message.name = n
        <5>1. 1 \in Wires("name", x) /\ 1 < i + 1 /\ wire[1].name = n
          BY <1>1, <1>2, <2>1, <4>2
        <5> QED BY <5>1 DEF Uses
      <4> QED BY <2>2, <3>1, <4>1, <4>2
    <3>2. CASE \E h \in Wires("name", x)' : h < i /\ wire'[h].name = n
      <4>1. PICK h \in Wires("name", x)' : h < i /\ wire'[h].name = n
        BY <3>2
      <4>2. h + 1 \in Wires("name", x) /\ h + 1 < i + 1 /\ wire[h + 1].name = n
        BY <1>1, <2>1, <4>1
      <4> QED BY <4>2 DEF Uses
    <3> QED BY <1>4, <2>1, <3>1, <3>2 DEF Uses
  <2>4. PICK j \in Wires("removed", x) : j < i + 1
    BY <2>1, <2>3 DEF ApartInv
  <2>5. j # 1
    <3>1. ASSUME j = 1 PROVE FALSE
      <4>1. Message.kind = "removed" /\ Message.id = x
        BY <1>1, <2>4, <3>1
      <4>2. x \notin DOMAIN outputs' /\ Wires("name", x)' = {}
        BY <4>1, TailLife
      <4> QED BY <1>4, <4>2 DEF Uses
    <3> QED BY <3>1
  <2>6. j - 1 \in Wires("removed", x)' /\ j - 1 < i
    BY <1>1, <2>1, <2>4, <2>5
  <2> QED BY <2>6
<1>5. ASSUME x \in DOMAIN outputs', y \in DOMAIN outputs', outputs'[x].name \in Names,
             outputs'[x].name = outputs'[y].name
      PROVE  FALSE
  <2> DEFINE n == outputs'[x].name
  <2>1. CASE x \in DOMAIN outputs /\ outputs[x].name = n /\ y \in DOMAIN outputs /\ outputs[y].name = n
    BY <1>5, <2>1 DEF ApartInv
  <2>2. CASE /\ Message.kind = "name" /\ Message.id = y /\ Message.name = n
             /\ x \in DOMAIN outputs /\ outputs[x].name = n
    <3>1. 1 \in Wires("name", y) /\ wire[1].name = n /\ Uses(x, n, 1)
      BY <1>1, <1>2, <2>2 DEF Uses
    <3>2. PICK j \in Wires("removed", x) : j < 1
      BY <3>1 DEF ApartInv
    <3> QED BY <1>1, <3>2
  <2>3. CASE /\ Message.kind = "name" /\ Message.id = x /\ Message.name = n
             /\ y \in DOMAIN outputs /\ outputs[y].name = n
    <3>1. 1 \in Wires("name", x) /\ wire[1].name = n /\ Uses(y, n, 1)
      BY <1>1, <1>2, <2>3 DEF Uses
    <3>2. PICK j \in Wires("removed", y) : j < 1
      BY <3>1 DEF ApartInv
    <3> QED BY <1>1, <3>2
  <2> QED BY <1>5, <2>1, <2>2, <2>3
<1> QED BY <1>4, <1>5 DEF ApartInv

LEMMA ApartInit == Init => \A x, y \in Ids : ApartInv(x, y)
<1> SUFFICES ASSUME Init, NEW x \in Ids, NEW y \in Ids, x # y PROVE ApartInv(x, y)
  BY DEF ApartInv
<1>1. outputs = <<>> /\ DOMAIN plugged = AtStart /\ \A i, j \in AtStart : plugged[i] = plugged[j] => i = j
  BY DEF Init
<1>2. Wires("name", y) = {}
  <2>1. PICK n \in Nat : \E order \in [1..n -> AtStart \cup {NoId}] :
           /\ \A i, j \in 1..n : order[i] = order[j] => i = j
           /\ wire \in Seq(Messages) /\ Len(wire) = n + 1
           /\ wire[n + 1] = Msg("done", NoId)
           /\ \A i \in 1..n : wire[i] = Msg(IF order[i] = NoId THEN "manager" ELSE "output", order[i])
    BY FirstMessages
  <2>2. ASSUME NEW i \in 1..Len(wire) PROVE wire[i].kind # "name"
    <3>1. CASE i \in 1..n
      <4>1. PICK k \in {"manager", "output"}, id \in AtStart \cup {NoId} : wire[i] = Msg(k, id)
        BY <2>1, <3>1
      <4> QED BY <4>1 DEF Msg
    <3>2. CASE i = n + 1
      BY <2>1, <3>2 DEF Msg
    <3> QED BY <2>1, <3>1, <3>2
  <2> QED BY <2>2 DEF Wires
<1> QED BY <1>1, <1>2 DEF ApartInv

LEMMA ApartHandle ==
  ASSUME ServerTypeOK, HandleRequest, NEW x \in Ids, NEW y \in Ids, LifeInv(x), ApartInv(x, y)
  PROVE  ApartInv(x, y)'
<1> DEFINE r == Head(requests)
<1>1. /\ wire \in Seq(Messages) /\ UNCHANGED <<plugged, outputs>> /\ r \in Requests
      /\ \A z \in DOMAIN plugged : plugged[z] \in Names
  BY HandleEffect DEF ServerTypeOK, client
<1>2. CASE r.kind \in {"sync", "bind_manager"} /\ \E k \in {"done", "tags"} : wire' = Append(wire, Msg(k, NoId))
  <2>1. PICK k \in {"done", "tags"} : wire' = Append(wire, Msg(k, NoId))
    BY <1>2
  <2> DEFINE m == Msg(k, NoId)
  <2>2. m \in Messages /\ m.kind = k /\ m.kind \notin {"name", "removed"}
    BY MessageTypes DEF Msg
  <2> HIDE DEF m
  <2>3. /\ \A j, z : Wires(j, z)' = Wires(j, z) \cup (IF m.kind = j /\ m.id = z THEN {Len(wire) + 1} ELSE {})
        /\ \A j, z : \A i \in Wires(j, z) : wire'[i] = wire[i]
    BY <1>1, <2>1, <2>2, OneSent DEF m
  <2>4. /\ \A z : Wires("name", z)' = Wires("name", z)
        /\ \A z : \A i \in Wires("name", z) : wire'[i] = wire[i]
        /\ Wires("removed", x) \subseteq Wires("removed", x)'
    BY <2>2, <2>3
  <2> QED BY <1>1, <2>4, ApartGrows DEF ApartInv
<1>3. CASE r.kind = "bind_output" /\ r.id \in DOMAIN plugged /\ wire' = Append(wire, NameMsg(r.id, plugged[r.id]))
  <2> DEFINE m == NameMsg(r.id, plugged[r.id])
  <2>1. m \in Messages /\ m.kind = "name" /\ m.id = r.id /\ m.name = plugged[r.id]
    BY <1>1, <1>3, MessageTypes, RequestShapes DEF NameMsg
  <2> DEFINE id == r.id
  <2>2. wire' = Append(wire, m) /\ id \in DOMAIN plugged
    BY <1>3
  <2> HIDE DEF m, r, id
  <2>3. /\ Len(wire) \in Nat
        /\ \A k, z : Wires(k, z)' = Wires(k, z) \cup (IF m.kind = k /\ m.id = z THEN {Len(wire) + 1} ELSE {})
        /\ \A k, z : \A i \in Wires(k, z) : wire'[i] = wire[i] /\ i \in 1..Len(wire)
        /\ wire'[Len(wire) + 1] = m
    BY <1>1, <2>1, <2>2, OneSent
  <2>4. Wires("removed", x)' = Wires("removed", x)
    BY <2>1, <2>3
  <2> SUFFICES ASSUME x # y, NEW i \in Wires("name", y)', Uses(x, wire[i].name, i)'
               PROVE  \E j \in Wires("removed", x)' : j < i
    BY <1>1 DEF ApartInv
  <2>5. Uses(x, wire'[i].name, i) \/ (x = id /\ Len(wire) + 1 < i)
    <3>1. CASE x \in DOMAIN outputs' /\ outputs'[x].name = wire'[i].name
      BY <1>1, <3>1 DEF Uses
    <3>2. CASE \E h \in Wires("name", x)' : h < i /\ wire'[h].name = wire'[i].name
      <4>1. PICK h \in Wires("name", x)' : h < i /\ wire'[h].name = wire'[i].name
        BY <3>2
      <4>2. CASE h \in Wires("name", x)
        <5>1. wire'[h] = wire[h]
          BY <2>3, <4>2
        <5> QED BY <4>1, <4>2, <5>1 DEF Uses
      <4>3. CASE h \notin Wires("name", x)
        <5>1. x = id /\ h = Len(wire) + 1
          BY <2>1, <2>3, <4>3, <4>1 DEF id
        <5> QED BY <4>1, <5>1
      <4> QED BY <4>2, <4>3
    <3> QED BY <3>1, <3>2 DEF Uses
  <2>6. CASE i \in Wires("name", y)
    <3>1. wire'[i] = wire[i] /\ i \in 1..Len(wire)
      BY <2>3, <2>6
    <3>2. Uses(x, wire[i].name, i)
      BY <2>3, <2>5, <3>1
    <3> QED BY <2>4, <2>6, <3>2 DEF ApartInv
  <2>7. CASE i \notin Wires("name", y)
    <3>1. y = id /\ i = Len(wire) + 1 /\ wire'[i].name = plugged[y]
      BY <2>1, <2>3, <2>7 DEF id
    <3>2. Uses(x, plugged[y], i)
      BY <2>5, <3>1
    <3>3. Wires("removed", x) # {}
      BY <2>2, <3>1, <3>2, OthersAreLeaving
    <3> QED BY <2>3, <2>4, <3>1, <3>3
  <2> QED BY <2>6, <2>7
<1>4. CASE \E s \in Seq(Messages) :
             /\ wire' = wire \o s
             /\ \A i \in DOMAIN s : s[i].kind \in IPCKinds /\ s[i].id = r.id
  <2>1. PICK s \in Seq(Messages) : wire' = wire \o s /\ \A i \in DOMAIN s : s[i].kind \in IPCKinds /\ s[i].id = r.id
    BY <1>4
  <2> DEFINE S == {r.id}
  <2>2. \A j \in DOMAIN s : s[j].kind \in IPCKinds /\ s[j].id \in S
    BY <2>1
  <2> HIDE DEF S
  <2>3. /\ \A k \in {"output", "name", "removed"} : \A z : Wires(k, z)' = Wires(k, z)
        /\ \A z : \A i \in Wires("name", z) : wire'[i] = wire[i]
    BY <1>1, <2>1, <2>2, StatusesSent
  <2> QED BY <1>1, <2>3, ApartGrows DEF ApartInv
<1>5. CASE UNCHANGED wire
  <2>1. \A k, z : Wires(k, z)' = Wires(k, z)
    BY <1>5, Unmoved
  <2> QED BY <1>1, <1>5, <2>1, ApartGrows DEF ApartInv
<1> QED BY <1>2, <1>3, <1>4, <1>5, HandleEffect

LEMMA ApartCompositor ==
  ASSUME ServerTypeOK, NEW id \in Ids, Plug(id) \/ Unplug(id) \/ Change(id) \/ Focus(id),
         NEW x \in Ids, NEW y \in Ids, ApartInv(x, y)
  PROVE  ApartInv(x, y)'
<1>1. CASE Plug(id)
  <2> DEFINE m == Msg("output", id)
  <2>1. /\ DOMAIN plugged' = DOMAIN plugged \cup {id}
        /\ \A z \in DOMAIN plugged \ {id} : plugged'[z] = plugged[z] /\ plugged'[id] # plugged[z]
        /\ wire' = Append(wire, m) /\ wire \in Seq(Messages) /\ UNCHANGED outputs
    BY <1>1, PlugEffect DEF ServerTypeOK, client
  <2>2. m \in Messages /\ m.kind = "output"
    BY MessageTypes DEF Msg
  <2> HIDE DEF m
  <2>3. /\ \A k, z : Wires(k, z)' = Wires(k, z) \cup (IF m.kind = k /\ m.id = z THEN {Len(wire) + 1} ELSE {})
        /\ \A k, z : \A i \in Wires(k, z) : wire'[i] = wire[i]
    BY <2>1, <2>2, OneSent
  <2>4. /\ \A z : Wires("name", z)' = Wires("name", z)
        /\ \A z : \A i \in Wires("name", z) : wire'[i] = wire[i]
        /\ Wires("removed", x) \subseteq Wires("removed", x)'
    BY <2>2, <2>3
  <2>5. x # y /\ x \in DOMAIN plugged' /\ y \in DOMAIN plugged' => plugged'[x] # plugged'[y]
    BY <2>1 DEF ApartInv
  <2> QED BY <2>1, <2>4, <2>5, ApartGrows
<1>2. CASE Unplug(id)
  <2> DEFINE m == Msg("removed", id)
             w == Append(wire, m)
  <2>1. /\ DOMAIN plugged' = DOMAIN plugged \ {id}
        /\ \A z \in DOMAIN plugged \ {id} : plugged'[z] = plugged[z]
        /\ wire \in Seq(Messages) /\ UNCHANGED outputs
    BY <1>2, UnplugEffect DEF ServerTypeOK, client
  <2>2. PICK s \in Seq(Messages) : Statuses(s) /\ wire' = w \o s
    BY <1>2, UnplugEffect
  <2>3. m \in Messages /\ m.kind = "removed"
    BY MessageTypes DEF Msg
  <2> DEFINE t == <<m>> \o s
  <2>4. t \in Seq(Messages) /\ wire' = wire \o t
    <3>1. w = wire \o <<m>> /\ <<m>> \in Seq(Messages)
      BY <2>1, <2>3, AppendIsConcat
    <3> QED BY <2>1, <2>2, <3>1, ConcatAssociative
  <2>5. \A j \in DOMAIN t : t[j].kind # "name"
    <3>1. /\ DOMAIN t = 1..(1 + Len(s)) /\ Len(s) \in Nat /\ t[1] = m
          /\ \A j \in 2..(1 + Len(s)) : t[j] = s[j - 1] /\ j - 1 \in DOMAIN s
      BY <2>3
    <3>2. \A i \in DOMAIN s : s[i].kind # "name"
      BY <2>2 DEF Statuses, IPCKinds
    <3> HIDE DEF t, m
    <3>3. \A j \in DOMAIN t : j = 1 \/ j \in 2..(1 + Len(s))
      BY <3>1
    <3> QED BY <2>3, <3>1, <3>2, <3>3
  <2> HIDE DEF t
  <2>6. /\ \A k, z : \A i \in Wires(k, z) : i \in Wires(k, z)' /\ wire'[i] = wire[i]
        /\ \A k, z : \A i \in Wires(k, z)' : i \in Wires(k, z)
              \/ \E j \in DOMAIN t : i = Len(wire) + j /\ wire'[i] = t[j] /\ t[j].kind = k /\ t[j].id = z
    BY <2>1, <2>4, WireGrows
  <2>7. ASSUME NEW z PROVE Wires("name", z)' = Wires("name", z)
    <3>1. \A i \in Wires("name", z)' : i \in Wires("name", z)
      BY <2>5, <2>6
    <3>2. \A i \in Wires("name", z) : i \in Wires("name", z)'
      BY <2>6
    <3> QED BY <3>1, <3>2, Zenon
  <2>8. /\ \A z : \A i \in Wires("name", z) : wire'[i] = wire[i]
        /\ Wires("removed", x) \subseteq Wires("removed", x)'
    BY <2>6
  <2>9. x # y /\ x \in DOMAIN plugged' /\ y \in DOMAIN plugged' => plugged'[x] # plugged'[y]
    BY <2>1 DEF ApartInv
  <2> QED BY <2>1, <2>7, <2>8, <2>9, ApartGrows
<1>3. CASE Change(id) \/ Focus(id)
  <2>1. UNCHANGED <<plugged, outputs>> /\ wire \in Seq(Messages)
    BY <1>3, StatusStepEffect DEF ServerTypeOK, client
  <2>2. PICK s \in Seq(Messages) : Statuses(s) /\ wire' = wire \o s
    BY <1>3, StatusStepEffect
  <2>3. \A j \in DOMAIN s : s[j].kind \in IPCKinds /\ s[j].id \in bound
    BY <2>2 DEF Statuses
  <2>4. /\ \A k \in {"output", "name", "removed"} : \A z : Wires(k, z)' = Wires(k, z)
        /\ \A z : \A i \in Wires("name", z) : wire'[i] = wire[i]
    BY <2>1, <2>2, <2>3, StatusesSent
  <2> QED BY <2>1, <2>4, ApartGrows DEF ApartInv
<1> QED BY <1>1, <1>2, <1>3

LEMMA ApartNext == WorldInv /\ (\A x, y \in Ids : ApartInv(x, y)) /\ [Next]_vars => \A x, y \in Ids : ApartInv(x, y)'
<1> SUFFICES ASSUME WorldInv, \A x, y \in Ids : ApartInv(x, y), [Next]_vars, NEW x \in Ids, NEW y \in Ids
             PROVE  ApartInv(x, y)'
  OBVIOUS
<1>1. ServerTypeOK /\ ClientTypeOK /\ StartInv /\ LifeInv(x) /\ ApartInv(x, y) /\ ApartInv(y, x)
  BY DEF WorldInv, TypesInv
<1>2. ASSUME NEW k, Arrived(k), Dispatched, UNCHANGED plugged,
         \A z \in DOMAIN outputs' : outputs'[z].name \in Names =>
            \/ z \in DOMAIN outputs /\ outputs'[z].name = outputs[z].name
            \/ Message.kind = "name" /\ Message.id = z /\ Message.name = outputs'[z].name,
         k = "removed" => Message.id \notin DOMAIN outputs'
      PROVE ApartInv(x, y)'
  <2>1. wire \in Seq(Messages) /\ wire # <<>> /\ wire' = Tail(wire) /\ Message.kind = k
    BY <1>1, <1>2, DispatchTypes DEF ServerTypeOK
  <2> QED BY <1>1, <1>2, <2>1, ApartShift
<1>3. ASSUME NEW id \in Ids, Plug(id) \/ Unplug(id) \/ Change(id) \/ Focus(id) PROVE ApartInv(x, y)'
  BY <1>1, <1>3, ApartCompositor
<1>4. CASE HandleRequest
  BY <1>1, <1>4, ApartHandle
<1>5. ASSUME NEW k \in IPCKinds \cup {"done", "tags"}, Arrived(k), Dispatched, UNCHANGED <<plugged, outputs>>
      PROVE  ApartInv(x, y)'
  BY <1>2, <1>5 DEF IPCKinds
<1>6. CASE OnDone \/ OnTags
  BY <1>5, <1>6 DEF OnDone, OnTags, server
<1>7. CASE OnStale
  BY <1>5, <1>7 DEF OnStale, server, client
<1>8. CASE OnActive \/ OnTag \/ OnField \/ OnFrame
  BY <1>5, <1>8 DEF OnActive, OnTag, OnField, OnFrame, Ipc, server, IPCKinds
<1>9. CASE OnManager
  <2>1. /\ DOMAIN outputs' = DOMAIN outputs /\ UNCHANGED plugged
        /\ \A z \in DOMAIN outputs : outputs'[z].name = outputs[z].name
    BY <1>1, <1>9, ManagerEffect
  <2> QED BY <1>2, <1>9, <2>1 DEF OnManager
<1>10. CASE OnOutput
  <2>1. Arrived("output") /\ Dispatched /\ UNCHANGED plugged
        /\ outputs' = With(outputs, Message.id, [name |-> Provisional(Message.id), ipc |-> manager])
    BY <1>10 DEF OnOutput, server
  <2>2. Message.id \in Ids
    BY <1>1, <2>1, DispatchTypes, MessageShapes
  <2>3. \A z \in DOMAIN outputs' : outputs'[z].name \in Names =>
            z \in DOMAIN outputs /\ outputs'[z].name = outputs[z].name
    BY <2>1, <2>2 DEF With
  <2> QED BY <1>2, <2>1, <2>3
<1>11. CASE OnRemoved
  <2>1. Arrived("removed") /\ Dispatched /\ UNCHANGED plugged /\ outputs' = Without(outputs, Message.id)
    BY <1>11 DEF OnRemoved, server
  <2> QED BY <1>2, <2>1 DEF Without
<1>12. CASE OnName
  <2>1. /\ Message.kind = "name" /\ DOMAIN outputs' = DOMAIN outputs /\ UNCHANGED plugged
        /\ \A z \in DOMAIN outputs : z # Message.id => outputs'[z] = outputs[z]
        /\ Message.id \in DOMAIN outputs => outputs'[Message.id].name = Message.name
    BY <1>1, <1>12, NameEffect
  <2> QED BY <1>2, <1>12, <2>1 DEF OnName
<1>13. CASE ServeSet \/ UNCHANGED vars
  <2>1. UNCHANGED <<plugged, wire, outputs>>
    BY <1>13 DEF ServeSet, vars, client, server
  <2>2. \A k, z : Wires(k, z)' = Wires(k, z)
    BY <2>1, Unmoved
  <2> QED BY <1>1, <2>1, <2>2, ApartGrows DEF ApartInv
<1> QED BY <1>3, <1>4, <1>6, <1>7, <1>8, <1>9, <1>10, <1>11, <1>12, <1>13 DEF Next

-----------------------------------------------------------------------------
(* What a subscriber knows. *)

(* State is committed under connector names only, for every output that has  *)
(* one, and nothing is known of the focus before the first of them.          *)
CommittedInv ==
  /\ DOMAIN committed \subseteq Names /\ DOMAIN pending \subseteq Names
  /\ \A id \in DOMAIN outputs : outputs[id].name \in Names => outputs[id].name \in DOMAIN committed
  /\ focusedName \in Names \cup {NoName}
  /\ focusedName = NoName => DOMAIN committed = {} /\ toldFocus.output = NoName

(* The facts that would be told of n now. *)
Known(n) == IF n \in DOMAIN committed THEN committed[n].facts ELSE NoFacts

FocusToldInv ==
  {"output", "title"} \subseteq Subscribed =>
    /\ toldFocus.output \in {NoName, focusedName} \/ <<NoName, "output">> \in missed
    /\ toldFocus.title = Known(focusedName)["title"] \/ <<NoName, "title">> \in missed

FactsToldInv ==
  \A n \in Names, f \in (Facts \ {"title"}) \cap Subscribed :
    told[n][f] = Known(n)[f] \/ <<n, f>> \in missed

NamesInv == WorldInv /\ (\A x, y \in Ids : ApartInv(x, y)) /\ CommittedInv

(* The status of a known output is dispatched after its name. *)
LEMMA StatusNamed ==
  ASSUME NamesInv, NEW k \in IPCKinds, Ipc(k)
  PROVE  NameOf \in Names /\ NameOf \in DOMAIN committed /\ PendingState(NameOf) \in OutputStates
<1>1. /\ wire # <<>> /\ wire \in Seq(Messages) /\ wire' = Tail(wire) /\ Message.kind = k
      /\ Message.id \in DOMAIN outputs /\ Message.id \in Ids /\ PendingState(NameOf) \in OutputStates
  BY IpcTypes DEF NamesInv, WorldInv, TypesInv, ServerTypeOK
<1> DEFINE id == Message.id
<1>2. LifeInv(id)
  BY <1>1 DEF NamesInv, WorldInv
<1>3. 1 \in Ipcs(id) /\ Wires("name", id) \subseteq Nat \ {0}
  BY <1>1, WireShift
<1>4. Wires("name", id) = {}
  <2>1. ASSUME NEW i \in Wires("name", id) PROVE FALSE
    <3>1. i < 1
      BY <1>2, <1>3 DEF LifeInv, NamingInv
    <3> QED BY <1>3, <3>1
  <2> QED BY <2>1
<1>5. outputs[id].name \in Names
  BY <1>1, <1>2, <1>3, <1>4 DEF LifeInv, NamedInv
<1> QED BY <1>1, <1>5 DEF NameOf, NamesInv, CommittedInv

(* An output's own name brings it its own, blank, state, unless an output    *)
(* with that name was here before.                                           *)
LEMMA NameCommits ==
  ASSUME NamesInv, OnName
  PROVE  /\ Message.name \in Names /\ pending' = pending
         /\ committed' = IF Message.name \in DOMAIN committed THEN committed
                         ELSE With(committed, Message.name, Blank(tagCount))
<1>1. ServerTypeOK /\ ClientTypeOK
  BY DEF NamesInv, WorldInv, TypesInv
<1> DEFINE id  == Message.id
           new == Message.name
           old == IF id \in DOMAIN outputs THEN outputs[id].name ELSE new
<1>2. 1 \in Wires("name", id) /\ id \in Ids /\ new \in Names
  BY <1>1, NameEffect
<1>3. LifeInv(id)
  BY <1>2 DEF NamesInv, WorldInv
<1>4. old = new \/ (old \notin DOMAIN committed /\ old \notin DOMAIN pending)
  <2>1. id \in DOMAIN outputs => outputs[id].name = Provisional(id)
    BY <1>2, <1>3 DEF LifeInv, NamingInv
  <2> QED BY <1>2, <2>1 DEF NamesInv, CommittedInv
<1>5. Renamed(committed, old, new) = committed /\ Renamed(pending, old, new) = pending
  BY <1>4 DEF Renamed
<1>6. /\ pending' = Renamed(pending, old, new)
      /\ committed' = IF new \in DOMAIN Renamed(committed, old, new) THEN Renamed(committed, old, new)
                      ELSE With(Renamed(committed, old, new), new, Blank(tagCount))
  BY DEF OnName
<1> QED BY <1>2, <1>5, <1>6

LEMMA CommittedNext == NamesInv /\ [Next]_vars => CommittedInv'
<1> SUFFICES ASSUME NamesInv, [Next]_vars PROVE CommittedInv'
  OBVIOUS
<1>1. ServerTypeOK /\ ClientTypeOK /\ ObserverTypeOK /\ StartInv /\ CommittedInv
  BY DEF NamesInv, WorldInv, TypesInv
<1>2. ASSUME DOMAIN committed' = DOMAIN committed, UNCHANGED <<pending, focusedName, observer>>,
             \A z \in DOMAIN outputs' : outputs'[z].name \in Names =>
               z \in DOMAIN outputs /\ outputs'[z].name = outputs[z].name
      PROVE  CommittedInv'
  BY <1>1, <1>2 DEF CommittedInv, observer
<1>3. ASSUME UNCHANGED <<client, observer>> PROVE CommittedInv'
  BY <1>1, <1>2, <1>3 DEF client
<1>4. ASSUME NEW id \in Ids, Plug(id) \/ Unplug(id) \/ Change(id) \/ Focus(id) PROVE CommittedInv'
  BY <1>3, <1>4 DEF Plug, Unplug, Change, Focus
<1>5. CASE HandleRequest \/ ServeSet \/ OnStale \/ UNCHANGED vars
  BY <1>3, <1>5 DEF HandleRequest, ServeSet, OnStale, vars
<1>6. CASE OnDone
  BY <1>2, <1>6 DEF OnDone
<1>7. CASE OnTags
  <2>1. DOMAIN committed' = DOMAIN committed
    BY <1>7 DEF OnTags
  <2> QED BY <1>2, <1>7, <2>1 DEF OnTags
<1>8. CASE OnManager
  BY <1>1, <1>2, <1>8, ManagerEffect
<1>9. CASE OnOutput
  <2>1. Arrived("output") /\ Dispatched /\ UNCHANGED <<committed, pending, focusedName, observer>>
        /\ outputs' = With(outputs, Message.id, [name |-> Provisional(Message.id), ipc |-> manager])
    BY <1>9 DEF OnOutput
  <2>2. Message.id \in Ids
    BY <1>1, <2>1, DispatchTypes, MessageShapes
  <2>3. \A z \in DOMAIN outputs' : outputs'[z].name \in Names =>
            z \in DOMAIN outputs /\ outputs'[z].name = outputs[z].name
    BY <2>1, <2>2 DEF With
  <2> QED BY <1>2, <2>1, <2>3
<1>10. CASE OnRemoved
  <2>1. /\ outputs' = Without(outputs, Message.id) /\ committed' = Without(committed, NameOf)
        /\ UNCHANGED <<pending, focusedName>> /\ Message.id \in DOMAIN outputs
        /\ toldFocus' \in {toldFocus, [toldFocus EXCEPT !.title = Default]}
    BY <1>10 DEF OnRemoved, Unannounced
  <2>2. Message.id \in Ids /\ DOMAIN outputs \subseteq Ids /\ toldFocus'.output = toldFocus.output
    BY <1>1, <2>1 DEF ClientTypeOK, ObserverTypeOK
  <2>3. /\ DOMAIN outputs' = DOMAIN outputs \ {Message.id} /\ DOMAIN committed' = DOMAIN committed \ {NameOf}
        /\ \A z \in DOMAIN outputs' : outputs'[z] = outputs[z]
    BY <2>1 DEF Without
  <2>4. \A z \in DOMAIN outputs' : outputs[z].name \in Names => outputs[z].name # NameOf
    BY <2>1, <2>2, <2>3 DEF NamesInv, ApartInv, NameOf
  <2> QED BY <1>1, <2>1, <2>2, <2>3, <2>4 DEF CommittedInv
<1>11. CASE OnName
  <2>1. /\ Message.name \in Names /\ pending' = pending
        /\ committed' = IF Message.name \in DOMAIN committed THEN committed
                        ELSE With(committed, Message.name, Blank(tagCount))
    BY <1>11, NameCommits
  <2>2. DOMAIN committed' = DOMAIN committed \cup {Message.name}
    BY <2>1 DEF With
  <2>3. /\ DOMAIN outputs' = DOMAIN outputs
        /\ \A y \in DOMAIN outputs : y # Message.id => outputs'[y] = outputs[y]
        /\ Message.id \in DOMAIN outputs => outputs'[Message.id].name = Message.name
        /\ focusedName' = IF focusedName = NoName THEN Message.name ELSE focusedName
    BY <1>1, <1>11, NameEffect
  <2> QED BY <1>1, <2>1, <2>2, <2>3 DEF CommittedInv
<1>12. ASSUME NEW k \in IPCKinds, Ipc(k), DOMAIN committed' = DOMAIN committed \cup {NameOf},
              DOMAIN pending' \subseteq DOMAIN pending \cup {NameOf},
              focusedName' \in {focusedName, NameOf}
       PROVE  CommittedInv'
  <2>1. NameOf \in Names /\ NameOf \in DOMAIN committed
    BY <1>12, StatusNamed
  <2>2. UNCHANGED outputs
    BY <1>12 DEF Ipc
  <2> QED BY <1>1, <1>12, <2>1, <2>2 DEF CommittedInv
<1>13. \A f, n, v : DOMAIN With(f, n, v) = DOMAIN f \cup {n} /\ DOMAIN Without(f, n) = DOMAIN f \ {n}
  BY DEF With, Without
<1>14. ASSUME NEW k \in {"active", "tag", "field"}, Ipc(k), UNCHANGED committed, NEW v,
              pending' = With(pending, NameOf, v), focusedName' \in {focusedName, NameOf}
       PROVE  CommittedInv'
  <2>1. NameOf \in DOMAIN committed
    BY <1>14, StatusNamed DEF IPCKinds
  <2> QED BY <1>12, <1>13, <1>14, <2>1 DEF IPCKinds
<1>15. CASE OnActive
  BY <1>14, <1>15 DEF OnActive
<1>16. CASE OnTag
  BY <1>14, <1>16 DEF OnTag
<1>17. CASE OnField
  BY <1>14, <1>17 DEF OnField
<1>18. CASE OnFrame
  BY <1>12, <1>13, <1>18 DEF OnFrame, IPCKinds
<1> QED BY <1>4, <1>5, <1>6, <1>7, <1>8, <1>9, <1>10, <1>11, <1>15, <1>16, <1>17, <1>18 DEF Next

LEMMA NamesInit == Init => NamesInv
<1>1. Init => CommittedInv
  BY DEF Init, CommittedInv
<1> QED BY <1>1, WorldInit, ApartInit DEF NamesInv

LEMMA NamesNext == NamesInv /\ [Next]_vars => NamesInv'
<1> SUFFICES ASSUME NamesInv, [Next]_vars PROVE NamesInv'
  OBVIOUS
<1>1. WorldInv' /\ (\A x, y \in Ids : ApartInv(x, y)') /\ CommittedInv'
  BY WorldNext, ApartNext, CommittedNext DEF NamesInv
<1> QED BY <1>1 DEF NamesInv

LEMMA KnownTypes ==
  ASSUME ClientTypeOK, NEW n
  PROVE  Known(n) \in FactSets /\ Known(n)["title"] = TitleOf(n) /\ TitleOf(n) \in Values
<1>1. Known(n) \in FactSets
  BY NoFactsTypes DEF Known, ClientTypeOK, OutputStates
<1>2. Known(n)["title"] = TitleOf(n)
  BY FactTypes DEF Known, TitleOf, NoFacts
<1>3. Known(n)["title"] \in Values
  BY <1>1, FactTypes DEF FactSets
<1> QED BY <1>1, <1>2, <1>3

(* A frame: what it changes of the facts of its output is told, or missed,   *)
(* fact by fact, and nothing else is.                                        *)
LEMMA FrameTells ==
  ASSUME NamesInv, FactsToldInv, FocusToldInv, OnFrame
  PROVE  FactsToldInv' /\ FocusToldInv'
<1> DEFINE n == NameOf
           new == PendingState(NameOf).facts
           old == committed[n].facts
<1>1. ServerTypeOK /\ ClientTypeOK /\ ObserverTypeOK
  BY DEF NamesInv, WorldInv, TypesInv
<1>2. n \in Names /\ n \in DOMAIN committed /\ new \in FactSets /\ n \in AllNames
  BY StatusNamed DEF OnFrame, OutputStates, IPCKinds, AllNames
<1>3. Emitted(n) = {f \in Facts \cap Subscribed : old[f] # new[f] /\ (f = "title" => n = focusedName)}
  BY <1>2 DEF Emitted
<1>4. PICK lost \in SUBSET Emitted(n) :
          LET heard == Emitted(n) \ lost
          IN /\ told' = [told EXCEPT ![n] = [f \in Facts |-> IF f \in heard THEN new[f] ELSE @[f]]]
             /\ toldFocus' = IF "title" \in heard THEN [toldFocus EXCEPT !.title = new["title"]] ELSE toldFocus
             /\ missed' = (missed \ {Topic(n, f) : f \in heard}) \cup {Topic(n, f) : f \in lost}
  BY DEF OnFrame, TellFacts
<1> DEFINE heard == Emitted(n) \ lost
<1>5. /\ \A m : Known(m)' = IF m = n THEN new ELSE Known(m)
      /\ Known(n) = old /\ focusedName' = focusedName
  <2>1. committed' = With(committed, n, PendingState(n)) /\ focusedName' = focusedName
    BY DEF OnFrame
  <2>2. DOMAIN committed' = DOMAIN committed
    BY <1>2, <2>1 DEF With
  <2> QED BY <1>2, <2>1, <2>2 DEF With, Known
<1>6. /\ told' = [told EXCEPT ![n] = [f \in Facts |-> IF f \in heard THEN new[f] ELSE told[n][f]]]
      /\ toldFocus' = IF "title" \in heard THEN [toldFocus EXCEPT !.title = new["title"]] ELSE toldFocus
      /\ missed' = (missed \ {Topic(n, f) : f \in heard}) \cup {Topic(n, f) : f \in lost}
  BY <1>4
<1> HIDE DEF n, new, old, heard
<1>7. lost \subseteq Emitted(n) /\ Emitted(n) = heard \cup lost /\ heard \cap lost = {}
  BY <1>4 DEF heard
<1>8. ASSUME NEW m \in Names, NEW f \in (Facts \ {"title"}) \cap Subscribed
      PROVE  told'[m][f] = Known(m)'[f] \/ <<m, f>> \in missed'
  <2>1. \A g : Topic(n, g) = <<m, f>> <=> n = m /\ g = f
    BY <1>2 DEF Topic
  <2>2. CASE m # n
    <3>1. told'[m] = told[m] /\ Known(m)' = Known(m)
      BY <1>2, <1>5, <1>6, <2>2 DEF ObserverTypeOK
    <3>2. <<m, f>> \in missed => <<m, f>> \in missed'
      BY <1>6, <2>1, <2>2
    <3> QED BY <3>1, <3>2 DEF FactsToldInv
  <2>3. CASE m = n
    <3>1. told'[n] = [g \in Facts |-> IF g \in heard THEN new[g] ELSE told[n][g]]
      BY <1>1, <1>2, <1>6 DEF ObserverTypeOK
    <3>2. told'[n][f] = IF f \in heard THEN new[f] ELSE told[n][f]
      BY <3>1
    <3>3. Known(m)' = new
      BY <1>5, <2>3
    <3>4. CASE f \in heard
      BY <2>3, <3>2, <3>3, <3>4
    <3>5. CASE f \in lost
      BY <1>6, <2>1, <2>3, <3>5
    <3>6. CASE f \notin heard /\ f \notin lost
      <4>1. old[f] = new[f]
        BY <1>3, <1>7, <3>6
      <4>2. <<n, f>> \in missed => <<n, f>> \in missed'
        BY <1>6, <2>1, <2>3, <3>6
      <4>3. told[n][f] = old[f] \/ <<n, f>> \in missed
        BY <1>2, <1>5 DEF FactsToldInv
      <4> QED BY <2>3, <3>2, <3>3, <3>6, <4>1, <4>2, <4>3
    <3> QED BY <3>4, <3>5, <3>6
  <2> QED BY <2>2, <2>3
<1>9. ASSUME {"output", "title"} \subseteq Subscribed
      PROVE  /\ toldFocus'.output \in {NoName, focusedName} \/ <<NoName, "output">> \in missed'
             /\ toldFocus'.title = Known(focusedName)'["title"] \/ <<NoName, "title">> \in missed'
  <2>1. n # NoName
    BY <1>2
  <2>2. \A g : Topic(n, g) # <<NoName, "output">> /\ (Topic(n, g) = <<NoName, "title">> <=> g = "title")
    BY <2>1 DEF Topic
  <2>3. toldFocus'.output = toldFocus.output /\ (<<NoName, "output">> \in missed => <<NoName, "output">> \in missed')
    BY <1>1, <1>6, <2>2 DEF ObserverTypeOK
  <2>4. toldFocus.output \in {NoName, focusedName} \/ <<NoName, "output">> \in missed
    BY <1>9 DEF FocusToldInv
  <2>5. toldFocus.title = Known(focusedName)["title"] \/ <<NoName, "title">> \in missed
    BY <1>9 DEF FocusToldInv
  <2>6. CASE "title" \in heard
    <3>1. n = focusedName
      BY <1>3, <1>7, <2>6
    <3>2. toldFocus'.title = new["title"]
      BY <1>1, <1>6, <2>6 DEF ObserverTypeOK
    <3> QED BY <1>5, <2>3, <2>4, <3>1, <3>2
  <2>7. CASE "title" \in lost
    <3>1. <<NoName, "title">> \in missed'
      BY <1>6, <2>2, <2>7
    <3> QED BY <2>3, <2>4, <3>1
  <2>8. CASE "title" \notin heard /\ "title" \notin lost
    <3>1. toldFocus' = toldFocus /\ (<<NoName, "title">> \in missed => <<NoName, "title">> \in missed')
      BY <1>6, <2>2, <2>8
    <3>2. n = focusedName => old["title"] = new["title"]
      BY <1>3, <1>7, <1>9, <2>8, FactTypes
    <3>3. Known(focusedName)'["title"] = Known(focusedName)["title"]
      BY <1>5, <3>2
    <3> QED BY <2>3, <2>4, <2>5, <3>1, <3>3
  <2> QED BY <2>6, <2>7, <2>8
<1>10. FactsToldInv'
  BY <1>8 DEF FactsToldInv
<1>11. FocusToldInv'
  BY <1>5, <1>9 DEF FocusToldInv
<1> QED BY <1>10, <1>11

LEMMA ToldInit == Init => FactsToldInv /\ FocusToldInv
<1> SUFFICES ASSUME Init PROVE FactsToldInv /\ FocusToldInv
  OBVIOUS
<1>1. /\ committed = <<>> /\ told = [n \in AllNames |-> NoFacts]
      /\ toldFocus = [output |-> NoName, title |-> Default]
  BY DEF Init
<1>2. \A n : Known(n) = NoFacts
  BY <1>1 DEF Known
<1>3. NoFacts["title"] = Default
  BY FactTypes DEF NoFacts
<1>4. Names \subseteq AllNames
  BY DEF AllNames
<1> QED BY <1>1, <1>2, <1>3, <1>4 DEF FactsToldInv, FocusToldInv

LEMMA ToldNext == NamesInv /\ FactsToldInv /\ FocusToldInv /\ [Next]_vars => FactsToldInv' /\ FocusToldInv'
<1> SUFFICES ASSUME NamesInv, FactsToldInv, FocusToldInv, [Next]_vars PROVE FactsToldInv' /\ FocusToldInv'
  OBVIOUS
<1>1. ServerTypeOK /\ ClientTypeOK /\ ObserverTypeOK /\ CommittedInv
  BY DEF NamesInv, WorldInv, TypesInv
<1>2. ASSUME UNCHANGED <<observer, focusedName>>, \A n : Known(n)' = Known(n)
      PROVE  FactsToldInv' /\ FocusToldInv'
  <2>1. FactsToldInv'
    BY <1>2 DEF observer, FactsToldInv
  <2>2. Known(focusedName)' = Known(focusedName)
    BY <1>2 DEF Known
  <2>3. FocusToldInv'
    BY <1>2, <2>2 DEF observer, FocusToldInv
  <2> QED BY <2>1, <2>3
<1>3. ASSUME UNCHANGED <<observer, focusedName, committed>> PROVE FactsToldInv' /\ FocusToldInv'
  BY <1>2, <1>3 DEF Known
<1>4. ASSUME NEW id \in Ids, Plug(id) \/ Unplug(id) \/ Change(id) \/ Focus(id)
      PROVE  FactsToldInv' /\ FocusToldInv'
  BY <1>3, <1>4 DEF Plug, Unplug, Change, Focus, client
<1>5. CASE HandleRequest \/ ServeSet \/ OnStale \/ UNCHANGED vars
  BY <1>3, <1>5 DEF HandleRequest, ServeSet, OnStale, vars, client
<1>6. CASE OnDone \/ OnManager \/ OnOutput
  BY <1>3, <1>6 DEF OnDone, OnManager, OnOutput
<1>7. CASE OnTag \/ OnField
  BY <1>3, <1>7 DEF OnTag, OnField
<1>8. CASE OnFrame
  BY <1>8, FrameTells
<1>9. CASE OnTags
  <2>1. committed' = [n \in DOMAIN committed |-> [committed[n] EXCEPT !.ntags = NTags]]
        /\ UNCHANGED <<observer, focusedName>>
    BY <1>9 DEF OnTags
  <2>2. \A n : Known(n)' = Known(n)
    BY <1>1, <2>1 DEF Known, ClientTypeOK, OutputStates
  <2> QED BY <1>2, <2>1, <2>2
<1>10. CASE OnName
  <2> DEFINE n == Message.name
  <2>1. /\ n \in Names
        /\ committed' = IF n \in DOMAIN committed THEN committed ELSE With(committed, n, Blank(tagCount))
    BY <1>10, NameCommits
  <2>2. UNCHANGED observer /\ focusedName' = IF focusedName = NoName THEN n ELSE focusedName
    BY <1>10 DEF OnName
  <2> HIDE DEF n
  <2>3. \A m : Known(m)' = Known(m)
    <3>1. CASE n \in DOMAIN committed
      BY <2>1, <3>1 DEF Known
    <3>2. CASE n \notin DOMAIN committed
      BY <2>1, <3>2 DEF Known, With, Blank
    <3> QED BY <3>1, <3>2
  <2>4. CASE focusedName # NoName
    BY <1>2, <2>2, <2>3, <2>4
  <2>5. CASE focusedName = NoName
    <3>1. DOMAIN committed = {} /\ toldFocus.output = NoName
      BY <1>1, <2>5 DEF CommittedInv
    <3>2. Known(focusedName) = NoFacts /\ Known(focusedName)' = NoFacts
      BY <2>3, <3>1 DEF Known, With, Blank
    <3>3. FactsToldInv'
      BY <2>2, <2>3 DEF FactsToldInv, observer
    <3>4. FocusToldInv'
      BY <2>2, <3>1, <3>2 DEF FocusToldInv, observer
    <3> QED BY <3>3, <3>4
  <2> QED BY <2>4, <2>5
<1>11. CASE OnRemoved
  <2> DEFINE n == NameOf
             stale == {g \in Facts \cap Subscribed : told[n][g] # NoFacts[g]}
             title == {x \in {<<NoName, "title">>} : n = focusedName /\ toldFocus.title # Default}
  <2>1. /\ committed' = Without(committed, n) /\ UNCHANGED <<focusedName, told, toldFocus>>
        /\ missed' = {x \in missed : x[1] # n} \cup {<<n, f>> : f \in stale} \cup title
    BY <1>11 DEF OnRemoved, Unannounced
  <2>2. n # NoName
    BY <1>1, <1>11 DEF OnRemoved, ClientTypeOK, NameOf, AllNames
  <2>3. \A m : Known(m)' = IF m = n THEN NoFacts ELSE Known(m)
    BY <2>1 DEF Known, Without
  <2>4. ASSUME NEW m \in Names, NEW f \in (Facts \ {"title"}) \cap Subscribed
        PROVE  told'[m][f] = Known(m)'[f] \/ <<m, f>> \in missed'
    <3>1. CASE m = n
      <4>1. told[n][f] # NoFacts[f] => f \in stale
        BY <2>4
      <4>2. f \in stale => <<m, f>> \in missed'
        BY <2>1, <3>1
      <4>3. told'[m][f] = told[n][f] /\ Known(m)' = NoFacts
        BY <2>1, <2>3, <3>1
      <4> QED BY <4>1, <4>2, <4>3
    <3>2. CASE m # n
      <4>1. told'[m] = told[m] /\ Known(m)' = Known(m)
        BY <2>1, <2>3, <3>2
      <4>2. <<m, f>>[1] = m
        OBVIOUS
      <4>3. <<m, f>> \in missed => <<m, f>> \in missed'
        BY <2>1, <3>2, <4>2
      <4> QED BY <4>1, <4>3 DEF FactsToldInv
    <3> QED BY <3>1, <3>2
  <2>5. ASSUME {"output", "title"} \subseteq Subscribed
        PROVE  /\ toldFocus'.output \in {NoName, focusedName} \/ <<NoName, "output">> \in missed'
               /\ toldFocus'.title = Known(focusedName)'["title"] \/ <<NoName, "title">> \in missed'
    <3>1. \A f : <<NoName, f>> \in missed => <<NoName, f>> \in missed'
      <4>1. \A f : <<NoName, f>>[1] = NoName
        OBVIOUS
      <4> QED BY <2>1, <2>2, <4>1
    <3>2. toldFocus.output \in {NoName, focusedName} \/ <<NoName, "output">> \in missed
      BY <2>5 DEF FocusToldInv
    <3>3. toldFocus.title = Known(focusedName)["title"] \/ <<NoName, "title">> \in missed
      BY <2>5 DEF FocusToldInv
    <3>4. CASE n = focusedName
      <4>1. Known(focusedName)' = NoFacts /\ NoFacts["title"] = Default
        BY <2>1, <2>3, <3>4, FactTypes DEF NoFacts
      <4>2. toldFocus.title # Default => <<NoName, "title">> \in missed'
        BY <2>1, <3>4
      <4> QED BY <2>1, <3>1, <3>2, <4>1, <4>2
    <3>5. CASE n # focusedName
      <4>1. Known(focusedName)' = Known(focusedName)
        BY <2>1, <2>3, <3>5
      <4> QED BY <2>1, <3>1, <3>2, <3>3, <4>1
    <3> QED BY <3>4, <3>5
  <2>6. FactsToldInv'
    BY <2>4 DEF FactsToldInv
  <2>7. FocusToldInv'
    BY <2>1, <2>5 DEF FocusToldInv
  <2> QED BY <2>6, <2>7
<1>12. CASE OnActive
  <2>1. Ipc("active") /\ UNCHANGED committed
    BY <1>12 DEF OnActive
  <2>2. NameOf \in Names
    BY <2>1, StatusNamed DEF IPCKinds
  <2>3. \A m : Known(m)' = Known(m)
    BY <2>1 DEF Known
  <2>4. CASE Message.on /\ focusedName # NameOf
    <3>1. focusedName' = NameOf
      BY <1>12, <2>4 DEF OnActive
    <3>2. CASE "output" \notin Subscribed
      <4>1. UNCHANGED observer
        BY <1>12, <2>4, <3>2 DEF OnActive
      <4> QED BY <2>3, <3>2, <4>1 DEF FactsToldInv, FocusToldInv, observer
    <3>3. CASE "output" \in Subscribed
      <4>1. TellFocus(NameOf)
        BY <1>12, <2>4, <3>3 DEF OnActive
      <4>2. UNCHANGED told
        BY <4>1 DEF TellFocus
      <4>3. \A m \in Names : \A f : <<m, f>> \in missed <=> <<m, f>> \in missed'
        BY <4>1 DEF TellFocus
      <4>4. FactsToldInv'
        BY <2>3, <4>2, <4>3 DEF FactsToldInv
      <4>5. Known(focusedName)'["title"] = TitleOf(NameOf)
        BY <1>1, <2>1, <3>1, KnownTypes DEF Known
      <4>6. FocusToldInv'
        BY <3>1, <4>1, <4>5 DEF FocusToldInv, TellFocus
      <4> QED BY <4>4, <4>6
    <3> QED BY <3>2, <3>3
  <2>5. CASE ~(Message.on /\ focusedName # NameOf)
    <3>1. UNCHANGED <<focusedName, observer>>
      BY <1>12, <2>5 DEF OnActive
    <3> QED BY <1>3, <2>1, <3>1
  <2> QED BY <2>4, <2>5
<1> QED BY <1>4, <1>5, <1>6, <1>7, <1>8, <1>9, <1>10, <1>11, <1>12 DEF Next

(* A subscriber that only listens to events knows the committed state of     *)
(* every output, and the focus, but for the facts whose last event was       *)
(* dropped on a full channel, or whose output went away unannounced and came *)
(* back with them at their defaults.  Of all that a name or a frame does to  *)
(* the adapter's state nothing goes untold, because states are committed     *)
(* under connector names only, two outputs never share one, and a name is    *)
(* dispatched before the first status (mangowc/src/lib.rs: Dispatch for      *)
(* ZdwlIpcOutputV2, Event::Frame).                                           *)
THEOREM SubscriberKnows == Spec => []SubscriberIsTold
<1>1. NamesInv /\ FactsToldInv /\ FocusToldInv => SubscriberIsTold
  BY DEF NamesInv, CommittedInv, FactsToldInv, FocusToldInv, Known, SubscriberIsTold
<1> QED BY <1>1, NamesInit, NamesNext, ToldInit, ToldNext, PTL DEF Spec
-----------------------------------------------------------------------------
(* What has arrived when the second roundtrip is done. *)

(* The roundtrips: one `done' under way in the first, and only then a `sync'. *)
BarrierInv ==
  /\ phase = "globals" =>
       Asked("sync", NoId) = {} /\ \A i, j \in Wires("done", NoId) : i = j
  /\ phase \in {"state", "ready"} => manager

(* A message of x of one of the kinds K arrives before the second roundtrip  *)
(* is done: it is under way, or the request k that it answers is asked, and  *)
(* either is ahead of the `sync' or its `done'.                              *)
AheadOf(K, k, x) ==
  /\ phase # "ready"
  /\ Asked(k, x) # {} \/ \E j \in K : Wires(j, x) # {}
  /\ phase = "state" =>
       /\ \A s \in Asked("sync", NoId) : (\E i \in Asked(k, x) : i < s) \/ \E j \in K : Wires(j, x) # {}
       /\ \A d \in Wires("done", NoId) : \E j \in K : \E i \in Wires(j, x) : i < d

(* So the name of an output of the start arrives, unless it is removed, ...  *)
FirstInv(id) ==
  /\ id \notin unused
  /\ \A i \in Wires("output", id) :
       phase # "failed" => phase = "globals" /\ \A d \in Wires("done", NoId) : i < d
  /\ id \in DOMAIN outputs /\ outputs[id].name \notin Names =>
       AheadOf({"name", "removed"}, "bind_output", id)

(* ... so does its first frame, once it has an IPC object, ...               *)
FramedInv(id) ==
  manager /\ id \in DOMAIN outputs /\ id \notin framed => AheadOf({"frame", "removed"}, "get_output", id)

(* ... and so does the number of tags. *)
TagsInv == manager /\ tagCount # NTags => AheadOf({"tags"}, "bind_manager", NoId)

(* No status arrives before the number of tags. *)
TagsFirstInv(x) ==
  tagCount # NTags =>
    /\ \A j \in Ipcs(x) : \E t \in Wires("tags", NoId) : t < j
    /\ x \in bound => Wires("tags", NoId) # {}
    /\ \A j \in Asked("get_output", x) :
         (\E b \in Asked("bind_manager", NoId) : b < j) \/ Wires("tags", NoId) # {}
    /\ Asked("set", x) = {}

CountedInv ==
  /\ tagCount # NTags => DOMAIN pending = {}
  /\ tagCount = NTags =>
       /\ \A n \in DOMAIN committed : committed[n].ntags = NTags
       /\ \A n \in DOMAIN pending : pending[n].ntags = NTags

(* The outputs that have no IPC object wait for the manager. *)
IpcInv ==
  /\ manager => \A id \in DOMAIN outputs : outputs[id].ipc
  /\ ~manager => \A id \in DOMAIN outputs : \E i \in 1..Len(deferred) : deferred[i] = id

ReadyInv ==
  /\ NamesInv /\ BarrierInv /\ TagsInv /\ CountedInv /\ IpcInv
  /\ \A id \in AtStart : FirstInv(id) /\ FramedInv(id)
  /\ \A x \in Ids : TagsFirstInv(x)
  /\ focusedId = NoId => focusedName = NoName

(* What the compositor sends by itself: no answers.                          *)
LEMMA CompositorSends ==
  ASSUME ServerTypeOK, NEW id \in Ids, Plug(id) \/ Unplug(id) \/ Change(id) \/ Focus(id)
  PROVE  /\ UNCHANGED <<requests, client>> /\ bound' \subseteq bound /\ unused' \subseteq unused
         /\ \E s \in Seq(Messages) :
              /\ wire' = wire \o s
              /\ \A i \in DOMAIN s : /\ s[i].kind \in {"output", "removed"} \cup IPCKinds
                                     /\ s[i].kind \in IPCKinds => s[i].id \in bound
                                     /\ s[i].kind = "output" => s[i].id \in unused
<1>0. wire \in Seq(Messages) /\ "output" \notin IPCKinds /\ "removed" \notin IPCKinds
  BY DEF ServerTypeOK, IPCKinds
<1>1. CASE Plug(id)
  <2> DEFINE m == Msg("output", id)
  <2>1. wire' = Append(wire, m) /\ id \in unused /\ unused' = unused \ {id} /\ UNCHANGED <<bound, requests, client>>
    BY <1>1, PlugEffect
  <2>2. m \in Messages /\ m.kind = "output" /\ m.id = id
    BY MessageTypes DEF Msg
  <2> HIDE DEF m
  <2>3. wire' = wire \o <<m>> /\ <<m>> \in Seq(Messages) /\ \A i \in DOMAIN <<m>> : <<m>>[i] = m
    BY <1>0, <2>1, <2>2, AppendIsConcat
  <2> QED BY <1>0, <2>1, <2>2, <2>3
<1>2. CASE Unplug(id)
  <2> DEFINE m == Msg("removed", id)
             w == Append(wire, m)
  <2>1. bound' = bound \ {id} /\ UNCHANGED <<unused, requests, client>>
    BY <1>2, UnplugEffect
  <2>2. PICK s \in Seq(Messages) : Statuses(s) /\ wire' = w \o s
    BY <1>2, UnplugEffect
  <2>3. m \in Messages /\ m.kind = "removed"
    BY MessageTypes DEF Msg
  <2> DEFINE t == <<m>> \o s
  <2>4. t \in Seq(Messages) /\ wire' = wire \o t
    <3>1. w = wire \o <<m>> /\ <<m>> \in Seq(Messages)
      BY <1>0, <2>3, AppendIsConcat
    <3> QED BY <1>0, <2>2, <3>1, ConcatAssociative
  <2>5. \A j \in DOMAIN t : t[j].kind = "removed" \/ (t[j].kind \in IPCKinds /\ t[j].id \in bound)
    <3>1. /\ DOMAIN t = 1..(1 + Len(s)) /\ Len(s) \in Nat /\ t[1] = m
          /\ \A j \in 2..(1 + Len(s)) : t[j] = s[j - 1] /\ j - 1 \in DOMAIN s
      BY <2>3
    <3>2. \A i \in DOMAIN s : s[i].kind \in IPCKinds /\ s[i].id \in bound
      BY <2>2 DEF Statuses
    <3> HIDE DEF t, m
    <3>3. \A j \in DOMAIN t : j = 1 \/ j \in 2..(1 + Len(s))
      BY <3>1
    <3> QED BY <2>3, <3>1, <3>2, <3>3
  <2> HIDE DEF t
  <2> QED BY <1>0, <2>1, <2>4, <2>5
<1>3. CASE Change(id) \/ Focus(id)
  <2>1. PICK s \in Seq(Messages) : Statuses(s) /\ wire' = wire \o s
    BY <1>3, StatusStepEffect
  <2>2. \A i \in DOMAIN s : s[i].kind \in IPCKinds /\ s[i].id \in bound
    BY <2>1 DEF Statuses
  <2>3. UNCHANGED <<bound, unused, requests, client>>
    BY <1>3, StatusStepEffect
  <2> QED BY <1>0, <2>1, <2>2, <2>3
<1> QED BY <1>1, <1>2, <1>3

(* Its answers.                                                              *)
LEMMA AnswersSent ==
  ASSUME ServerTypeOK, HandleRequest
  PROVE  /\ requests # <<>> /\ requests' = Tail(requests) /\ UNCHANGED <<plugged, unused, client, observer>>
         /\ Head(requests) \in Requests
         /\ LET r == Head(requests)
            IN  /\ r.kind = "bind_manager" => \E i \in Wires("tags", NoId)' : TRUE
                /\ \A x \in DOMAIN plugged : r.kind = "bind_output" /\ r.id = x => \E i \in Wires("name", x)' : TRUE
                /\ bound' # bound => r.kind \in {"get_output", "set"} /\ bound' = bound \cup {r.id}
                /\ \E s \in Seq(Messages) :
                     /\ wire' = wire \o s
                     /\ \A i \in DOMAIN s : /\ s[i].kind \in {"done", "tags", "name"} \cup IPCKinds
                                            /\ s[i].kind \in IPCKinds => r.kind \in {"get_output", "set"} /\ s[i].id = r.id
                                            /\ s[i].kind = "done" => r.kind = "sync"
<1> DEFINE r == Head(requests)
<1>1. /\ requests # <<>> /\ requests' = Tail(requests) /\ UNCHANGED <<plugged, unused, client, observer>>
      /\ r \in Requests /\ wire \in Seq(Messages) /\ \A z \in DOMAIN plugged : plugged[z] \in Names
      /\ {"done", "tags", "name"} \cap IPCKinds = {}
  BY HandleEffect DEF ServerTypeOK, IPCKinds
<1>2. ASSUME NEW m \in Messages, wire' = Append(wire, m)
      PROVE  /\ <<m>> \in Seq(Messages) /\ wire' = wire \o <<m>> /\ \A i \in DOMAIN <<m>> : <<m>>[i] = m
             /\ \A k, x : m.kind = k /\ m.id = x => \E i \in Wires(k, x)' : TRUE
  <2>1. \A k, x : m.kind = k /\ m.id = x => Len(wire) + 1 \in Wires(k, x)'
    BY <1>1, <1>2, OneSent
  <2> QED BY <1>1, <1>2, <2>1, AppendIsConcat
<1>3. CASE r.kind \in {"sync", "bind_manager"}
  <2> DEFINE m == IF r.kind = "sync" THEN Msg("done", NoId) ELSE Msg("tags", NoId)
  <2>1. wire' = Append(wire, m) /\ UNCHANGED bound
    BY <1>3 DEF HandleRequest
  <2>2. m \in Messages /\ m.kind = (IF r.kind = "sync" THEN "done" ELSE "tags") /\ m.id = NoId
    BY MessageTypes DEF Msg
  <2> HIDE DEF m
  <2>3. /\ <<m>> \in Seq(Messages) /\ wire' = wire \o <<m>> /\ \A i \in DOMAIN <<m>> : <<m>>[i] = m
        /\ \A k, x : m.kind = k /\ m.id = x => \E i \in Wires(k, x)' : TRUE
    BY <1>2, <2>1, <2>2
  <2>4. r.kind = "bind_manager" => m.kind = "tags" /\ m.id = NoId
    BY <2>2
  <2>5. r.kind = "bind_manager" => \E i \in Wires("tags", NoId)' : TRUE
    BY <2>3, <2>4
  <2> QED BY <1>1, <1>3, <2>1, <2>2, <2>3, <2>5
<1>4. CASE r.kind = "bind_output" /\ r.id \in DOMAIN plugged
  <2> DEFINE m == NameMsg(r.id, plugged[r.id])
  <2>1. wire' = Append(wire, m) /\ UNCHANGED bound
    BY <1>4 DEF HandleRequest
  <2>2. m \in Messages /\ m.kind = "name" /\ m.id = r.id
    BY <1>1, <1>4, MessageTypes, RequestShapes DEF NameMsg
  <2> HIDE DEF m
  <2>3. /\ <<m>> \in Seq(Messages) /\ wire' = wire \o <<m>> /\ \A i \in DOMAIN <<m>> : <<m>>[i] = m
        /\ \A k, x : m.kind = k /\ m.id = x => \E i \in Wires(k, x)' : TRUE
    BY <1>2, <2>1, <2>2
  <2> QED BY <1>1, <1>4, <2>1, <2>2, <2>3
<1>5. CASE UNCHANGED <<wire, bound>> /\ r.kind \notin {"sync", "bind_manager"} /\ ~(r.kind = "bind_output" /\ r.id \in DOMAIN plugged)
  <2>1. wire' = wire \o <<>> /\ <<>> \in Seq(Messages) /\ DOMAIN <<>> = {}
    BY <1>1, <1>5
  <2> QED BY <1>1, <1>5, <2>1
<1>6. CASE /\ r.kind \in {"get_output", "set"} /\ bound' = bound \cup {r.id}
           /\ \E s \in Seq(Messages) :
                /\ wire' = wire \o s
                /\ \A i \in DOMAIN s : s[i].kind \in IPCKinds /\ s[i].id = r.id
  BY <1>1, <1>6
<1>7. r.kind \in {"sync", "bind_manager", "bind_output", "get_output", "set"}
  BY <1>1, RequestShapes
<1> QED BY <1>3, <1>4, <1>5, <1>6, <1>7, HandleEffect

(* What the adapter asks for when a message other than a `done' arrives.     *)
LEMMA DispatchAsks ==
  ASSUME ServerTypeOK, ClientTypeOK,
         \/ OnManager \/ OnOutput \/ OnRemoved \/ OnName \/ OnTags
         \/ OnStale \/ OnActive \/ OnTag \/ OnField \/ OnFrame
  PROVE  /\ wire # <<>> /\ wire' = Tail(wire) /\ UNCHANGED <<phase, bound, unused>>
         /\ Message \in Messages /\ Message.kind # "done"
         /\ Message.kind = "removed" => OnRemoved
         /\ Message.kind = "name" => OnName
         /\ Message.kind = "tags" => OnTags
         /\ Message.kind = "frame" => OnStale \/ OnFrame
         /\ \E t \in Seq(Requests) :
              /\ requests' = requests \o t
              /\ \A i \in DOMAIN t : t[i].kind \in {"bind_manager", "bind_output", "get_output"}
<1>0. requests \in Seq(Requests)
  BY DEF ServerTypeOK
<1>1. ASSUME NEW r \in Requests, NEW q \in Requests
      PROVE  /\ requests \o <<>> = requests /\ <<>> \in Seq(Requests) /\ DOMAIN <<>> = {}
             /\ <<r>> \in Seq(Requests) /\ Append(requests, r) = requests \o <<r>>
             /\ \A i \in DOMAIN <<r>> : <<r>>[i] = r
             /\ <<r, q>> \in Seq(Requests) /\ \A i \in DOMAIN <<r, q>> : <<r, q>>[i] \in {r, q}
  BY <1>0, AppendIsConcat
<1>2. Request("bind_manager", NoId) \in Requests /\ \A k, x : Request(k, x).kind = k
  BY MessageTypes DEF Request
<1>3. CASE OnRemoved \/ OnTags \/ OnStale \/ OnActive \/ OnTag \/ OnField \/ OnFrame
  <2>1. UNCHANGED <<phase, bound, unused, requests>> /\ Dispatched
        /\ \E k \in {"removed", "tags"} \cup IPCKinds :
             /\ Arrived(k) /\ (k = "removed" => OnRemoved) /\ (k = "tags" => OnTags)
             /\ k = "frame" => OnStale \/ OnFrame
    BY <1>3 DEF OnRemoved, OnTags, OnStale, OnActive, OnTag, OnField, OnFrame, Ipc, server, client, IPCKinds
  <2>2. PICK k \in {"removed", "tags"} \cup IPCKinds :
             /\ Arrived(k) /\ (k = "removed" => OnRemoved) /\ (k = "tags" => OnTags)
             /\ k = "frame" => OnStale \/ OnFrame
    BY <2>1
  <2>3. k \notin {"done", "name"}
    BY DEF IPCKinds
  <2>4. wire # <<>> /\ wire' = Tail(wire) /\ Message \in Messages /\ Message.kind = k
    BY <2>1, <2>2, DispatchTypes
  <2>5. requests' = requests \o <<>> /\ <<>> \in Seq(Requests) /\ DOMAIN <<>> = {}
    BY <1>1, <1>2, <2>1
  <2> QED BY <2>1, <2>2, <2>3, <2>4, <2>5
<1>4. CASE OnManager
  <2>1. UNCHANGED <<phase, bound, unused>> /\ Dispatched /\ Arrived("manager")
    BY <1>4 DEF OnManager, server
  <2>2. wire # <<>> /\ wire' = Tail(wire) /\ Message \in Messages /\ Message.kind = "manager"
    BY <2>1, DispatchTypes
  <2> QED BY <1>4, <2>1, <2>2, ManagerAsks
<1>5. CASE OnOutput
  <2>1. UNCHANGED <<phase, bound, unused>> /\ Dispatched /\ Arrived("output")
    BY <1>5 DEF OnOutput, server
  <2>2. wire # <<>> /\ wire' = Tail(wire) /\ Message \in Messages /\ Message.kind = "output" /\ Message.id \in Ids
    BY <2>1, DispatchTypes, MessageShapes
  <2> DEFINE r == Request("bind_output", Message.id)
             q == Request("get_output", Message.id)
  <2>3. r \in Requests /\ q \in Requests /\ r.kind = "bind_output" /\ q.kind = "get_output"
    BY <1>2, <2>2, MessageTypes
  <2>4. requests' = requests \o (IF manager THEN <<r, q>> ELSE <<r>>)
    BY <1>5 DEF OnOutput
  <2> HIDE DEF r, q
  <2>5. \E t \in Seq(Requests) : requests' = requests \o t /\ \A i \in DOMAIN t : t[i] \in {r, q}
    <3>1. CASE manager
      <4>1. <<r, q>> \in Seq(Requests) /\ \A i \in DOMAIN <<r, q>> : <<r, q>>[i] \in {r, q}
        BY <1>1, <2>3
      <4> QED BY <2>4, <3>1, <4>1
    <3>2. CASE ~manager
      <4>1. <<r>> \in Seq(Requests) /\ \A i \in DOMAIN <<r>> : <<r>>[i] \in {r, q}
        BY <1>1, <2>3
      <4> QED BY <2>4, <3>2, <4>1
    <3> QED BY <3>1, <3>2
  <2> QED BY <2>1, <2>2, <2>3, <2>5
<1>6. CASE OnName
  <2>1. /\ wire # <<>> /\ wire' = Tail(wire) /\ UNCHANGED <<phase, bound, unused>> /\ Message.kind = "name"
        /\ Message.id \in Ids /\ requests' \in {requests, Append(requests, Request("get_output", Message.id))}
    BY <1>6, NameEffect
  <2>2. Message \in Messages
    BY <1>6, DispatchTypes DEF OnName
  <2> DEFINE r == Request("get_output", Message.id)
  <2>3. r \in Requests /\ r.kind = "get_output"
    BY <1>2, <2>1, MessageTypes
  <2> HIDE DEF r
  <2>4. \E t \in Seq(Requests) : requests' = requests \o t /\ \A i \in DOMAIN t : t[i] = r
    <3>1. CASE requests' = requests
      <4>1. requests \o <<>> = requests /\ <<>> \in Seq(Requests) /\ DOMAIN <<>> = {}
        BY <1>1, <2>3
      <4> QED BY <3>1, <4>1
    <3>2. CASE requests' = Append(requests, r)
      <4>1. /\ <<r>> \in Seq(Requests) /\ Append(requests, r) = requests \o <<r>>
            /\ \A i \in DOMAIN <<r>> : <<r>>[i] = r
        BY <1>1, <2>3
      <4> QED BY <3>2, <4>1
    <3> QED BY <2>1, <3>1, <3>2 DEF r
  <2> QED BY <1>6, <2>1, <2>2, <2>3, <2>4
<1> QED BY <1>3, <1>4, <1>5, <1>6
LEMMA AheadNext ==
  ASSUME TypesInv, BarrierInv, [Next]_vars,
         NEW K \in SUBSET {"name", "removed", "tags", "frame"},
         NEW k \in {"bind_output", "bind_manager", "get_output"}, NEW x,
         AheadOf(K, k, x),
         OnRemoved \/ OnName \/ OnTags \/ OnStale \/ OnFrame => ~(Message.kind \in K /\ Message.id = x),
         HandleRequest /\ Head(requests).kind = k /\ Head(requests).id = x => \E j \in K : Wires(j, x)' # {}
  PROVE  AheadOf(K, k, x)'
<1>0. /\ ServerTypeOK /\ ClientTypeOK /\ wire \in Seq(Messages) /\ requests \in Seq(Requests)
      /\ k # "sync" /\ "done" \notin K /\ phase # "ready"
  BY DEF TypesInv, ServerTypeOK, AheadOf
<1>1. ASSUME NEW s \in Seq(Messages), wire' = wire \o s
      PROVE  /\ \A j \in K : Wires(j, x) \subseteq Wires(j, x)'
             /\ \A i \in DOMAIN s : i \in Nat \ {0}
             /\ \A j \in K : Wires(j, x) \subseteq 1..Len(wire)
             /\ \A d \in Wires("done", NoId)' : d \in Wires("done", NoId)
                  \/ \E i \in DOMAIN s : d = Len(wire) + i /\ s[i].kind = "done"
  <2>1. \A i \in DOMAIN s : i \in Nat \ {0}
    OBVIOUS
  <2>2. /\ \A j, y : \A i \in Wires(j, y) : i \in Wires(j, y)'
        /\ \A j, y : Wires(j, y) \subseteq 1..Len(wire)
        /\ \A j, y : \A i \in Wires(j, y)' : i \in Wires(j, y)
              \/ \E h \in DOMAIN s : i = Len(wire) + h /\ wire'[i] = s[h] /\ s[h].kind = j /\ s[h].id = y
    BY <1>0, <1>1, WireGrows
  <2>3. \A d \in Wires("done", NoId)' : d \in Wires("done", NoId)
                  \/ \E i \in DOMAIN s : d = Len(wire) + i /\ s[i].kind = "done"
    BY <2>2
  <2> QED BY <2>1, <2>2, <2>3
<1>2. CASE UNCHANGED <<wire, requests, phase>>
  BY <1>2, Unmoved DEF AheadOf
<1>3. ASSUME NEW id \in Ids, Plug(id) \/ Unplug(id) \/ Change(id) \/ Focus(id) PROVE AheadOf(K, k, x)'
  <2>1. PICK s \in Seq(Messages) : wire' = wire \o s /\ \A i \in DOMAIN s : s[i].kind \in {"output", "removed"} \cup IPCKinds
    BY <1>0, <1>3, CompositorSends
  <2>2. UNCHANGED <<requests, phase>> /\ \A i \in DOMAIN s : s[i].kind # "done"
    BY <1>0, <1>3, <2>1, CompositorSends DEF client, IPCKinds
  <2>3. \A j, y : Asked(j, y)' = Asked(j, y)
    BY <2>2, Unmoved
  <2>4. \A d \in Wires("done", NoId)' : d \in Wires("done", NoId)
    BY <1>1, <2>1, <2>2
  <2> QED BY <1>1, <2>1, <2>2, <2>3, <2>4 DEF AheadOf
<1>4. CASE HandleRequest
  <2> DEFINE r == Head(requests)
  <2>1. /\ requests # <<>> /\ requests' = Tail(requests) /\ UNCHANGED phase /\ r \in Requests
    BY <1>0, <1>4, AnswersSent DEF client
  <2>2. PICK s \in Seq(Messages) : wire' = wire \o s /\ \A i \in DOMAIN s : s[i].kind = "done" => r.kind = "sync"
    BY <1>0, <1>4, AnswersSent
  <2>3. /\ \A j, y : \A i \in Asked(j, y)' : i + 1 \in Asked(j, y)
        /\ \A j, y : \A i \in Asked(j, y) : i # 1 => i - 1 \in Asked(j, y)'
        /\ \A j, y : 1 \in Asked(j, y) <=> r.kind = j /\ r.id = y
        /\ \A j, y : Asked(j, y) \subseteq Nat \ {0}
        /\ \A j, y : Asked(j, y)' \subseteq Nat \ {0}
    BY <1>0, <2>1, RequestsShift
  <2>4. 1 \in Asked(k, x) => \E j \in K : Wires(j, x)' # {}
    BY <1>4, <2>3
  <2>5. r.kind = "sync" => 1 \in Asked("sync", NoId)
    <3>1. r.kind = "sync" => r.id = NoId
      <4> HIDE DEF r
      <4> QED BY <2>1 DEF Requests, SetRequest
    <3> QED BY <2>3, <3>1
  <2> HIDE DEF r
  <2>6. Asked(k, x)' # {} \/ \E j \in K : Wires(j, x)' # {}
    <3>1. CASE \E j \in K : Wires(j, x) # {}
      BY <1>1, <2>2, <3>1
    <3>2. CASE Asked(k, x) # {}
      <4>1. PICK i \in Asked(k, x) : TRUE
        BY <3>2
      <4> QED BY <2>3, <2>4, <4>1
    <3> QED BY <3>1, <3>2 DEF AheadOf
  <2>7. ASSUME phase = "state", NEW q \in Asked("sync", NoId)'
        PROVE  (\E i \in Asked(k, x)' : i < q) \/ \E j \in K : Wires(j, x)' # {}
    <3>1. q + 1 \in Asked("sync", NoId) /\ q \in Nat
      BY <2>3
    <3>2. CASE \E j \in K : Wires(j, x) # {}
      BY <1>1, <2>2, <3>2
    <3>3. CASE \E i \in Asked(k, x) : i < q + 1
      <4>1. PICK i \in Asked(k, x) : i < q + 1
        BY <3>3
      <4>2. i \in Nat \ {0}
        BY <2>3
      <4>3. CASE i = 1
        BY <2>4, <4>1, <4>3
      <4>4. CASE i # 1
        <5>1. i - 1 \in Asked(k, x)' /\ i - 1 < q
          BY <2>3, <3>1, <4>1, <4>2, <4>4
        <5> QED BY <5>1
      <4> QED BY <4>3, <4>4
    <3> QED BY <2>7, <3>1, <3>2, <3>3 DEF AheadOf
  <2>8. ASSUME phase = "state", NEW d \in Wires("done", NoId)'
        PROVE  \E j \in K : \E i \in Wires(j, x)' : i < d
    <3>1. CASE d \in Wires("done", NoId)
      BY <1>1, <2>2, <2>8, <3>1 DEF AheadOf
    <3>2. CASE d \notin Wires("done", NoId)
      <4>1. PICK i \in DOMAIN s : d = Len(wire) + i /\ s[i].kind = "done"
        BY <1>1, <2>2, <3>2
      <4>2. 1 \in Asked("sync", NoId)
        BY <2>2, <2>5, <4>1
      <4>3. \A h \in Asked(k, x) : ~(h < 1)
        BY <2>3
      <4>4. PICK j \in K : Wires(j, x) # {}
        BY <2>8, <4>2, <4>3 DEF AheadOf
      <4>5. PICK h \in Wires(j, x) : TRUE
        BY <4>4
      <4>6. h \in 1..Len(wire) /\ i \in Nat \ {0} /\ h \in Wires(j, x)' /\ Len(wire) \in Nat
        <5>1. i \in Nat \ {0}
          BY <1>1, <2>2
        <5>2. h \in 1..Len(wire) /\ h \in Wires(j, x)'
          BY <1>1, <2>2, <4>5
        <5> QED BY <1>0, <5>1, <5>2
      <4>7. h < d
        BY <4>1, <4>6
      <4> QED BY <4>6, <4>7
    <3> QED BY <3>1, <3>2
  <2> QED BY <1>0, <2>1, <2>6, <2>7, <2>8 DEF AheadOf
<1>5. CASE \/ OnManager \/ OnOutput \/ OnRemoved \/ OnName \/ OnTags
           \/ OnStale \/ OnActive \/ OnTag \/ OnField \/ OnFrame
  <2>1. /\ wire # <<>> /\ wire' = Tail(wire) /\ UNCHANGED phase /\ Message.kind # "done"
        /\ ~(Message.kind \in K /\ Message.id = x)
    <3>1. /\ wire # <<>> /\ wire' = Tail(wire) /\ UNCHANGED phase /\ Message.kind # "done"
          /\ Message.kind = "removed" => OnRemoved
          /\ Message.kind = "name" => OnName
          /\ Message.kind = "tags" => OnTags
          /\ Message.kind = "frame" => OnStale \/ OnFrame
      BY <1>0, <1>5, DispatchAsks
    <3> QED BY <3>1
  <2>2. PICK t \in Seq(Requests) :
              /\ requests' = requests \o t
              /\ \A i \in DOMAIN t : t[i].kind \in {"bind_manager", "bind_output", "get_output"}
    BY <1>0, <1>5, DispatchAsks
  <2>3. /\ Asked(k, x) \subseteq Asked(k, x)'
        /\ \A q \in Asked("sync", NoId)' : q \in Asked("sync", NoId)
    <3>1. requests \in Seq(Requests) /\ t \in Seq(Requests) /\ requests' = requests \o t
      BY <1>0, <2>2
    <3>2. \A j, y : Asked(j, y) \subseteq Asked(j, y)'
      BY ONLY <3>1, RequestsGrow
    <3>3. \A j, y : \A i \in Asked(j, y)' : i \in Asked(j, y)
              \/ \E h \in DOMAIN t : i = Len(requests) + h /\ t[h].kind = j /\ t[h].id = y
      BY ONLY <3>1, RequestsGrow
    <3>4. ASSUME NEW q \in Asked("sync", NoId)' PROVE q \in Asked("sync", NoId)
      <4>1. ~\E h \in DOMAIN t : t[h].kind = "sync"
        BY ONLY <2>2
      <4> QED BY ONLY <3>3, <4>1, q \in Asked("sync", NoId)'
    <3> QED BY <3>2, <3>4
  <2>4. /\ \A j, y : \A i \in Wires(j, y)' : i + 1 \in Wires(j, y)
        /\ \A j, y : \A i \in Wires(j, y) : i # 1 => i - 1 \in Wires(j, y)'
        /\ \A j, y : 1 \in Wires(j, y) <=> Message.kind = j /\ Message.id = y
        /\ \A j, y : Wires(j, y) \subseteq Nat \ {0}
        /\ \A j, y : Wires(j, y)' \subseteq Nat \ {0}
    BY <1>0, <2>1, WireShift
  <2>5. ASSUME NEW j \in K, NEW i \in Wires(j, x) PROVE i \in Nat /\ i - 1 \in Wires(j, x)'
    BY <2>1, <2>4
  <2>6. \A j \in K : Wires(j, x) # {} => Wires(j, x)' # {}
    BY <2>5
  <2>7. ASSUME phase = "state", NEW d \in Wires("done", NoId)'
        PROVE  \E j \in K : \E i \in Wires(j, x)' : i < d
    <3>1. d + 1 \in Wires("done", NoId) /\ d \in Nat
      BY <2>4
    <3>2. \E j \in K : \E i \in Wires(j, x) : i < d + 1
      BY <2>7, <3>1 DEF AheadOf
    <3>3. PICK j \in K : \E i \in Wires(j, x) : i < d + 1
      BY <3>2
    <3>4. PICK i \in Wires(j, x) : i < d + 1
      BY <3>3
    <3>5. i - 1 \in Wires(j, x)' /\ i - 1 < d
      BY <2>5, <3>1, <3>4
    <3> QED BY <3>5
  <2>8. Asked(k, x)' # {} \/ \E j \in K : Wires(j, x)' # {}
    BY <2>3, <2>6 DEF AheadOf
  <2>9. ASSUME phase = "state", NEW q \in Asked("sync", NoId)'
        PROVE  (\E i \in Asked(k, x)' : i < q) \/ \E j \in K : Wires(j, x)' # {}
    BY <2>3, <2>6, <2>9 DEF AheadOf
  <2> QED BY <1>0, <2>1, <2>7, <2>8, <2>9 DEF AheadOf
<1>6. CASE OnDone
  <2>1. wire # <<>> /\ wire' = Tail(wire) /\ Message.kind = "done" /\ Message \in Messages
    BY <1>0, <1>6, DispatchTypes DEF OnDone
  <2>2. Message.id = NoId
    BY <2>1 DEF Messages, Update
  <2>3. /\ \A j, y : \A i \in Wires(j, y)' : i + 1 \in Wires(j, y)
        /\ \A j, y : \A i \in Wires(j, y) : i # 1 => i - 1 \in Wires(j, y)'
        /\ \A j, y : 1 \in Wires(j, y) <=> Message.kind = j /\ Message.id = y
        /\ \A j, y : Wires(j, y) \subseteq Nat \ {0} /\ Wires(j, y)' \subseteq Nat \ {0}
    BY <1>0, <2>1, WireShift
  <2>4. \A j \in K : Wires(j, x) # {} => Wires(j, x)' # {}
    BY <1>0, <2>1, <2>3
  <2>5. phase # "state"
    <3>1. 1 \in Wires("done", NoId)
      BY <2>1, <2>2, <2>3
    <3> QED BY <2>3, <3>1 DEF AheadOf
  <2>6. CASE phase = "globals" /\ ~manager /\ phase' = "failed" /\ UNCHANGED requests
    <3>1. Asked(k, x)' = Asked(k, x)
      BY <2>6, Unmoved
    <3> QED BY <2>4, <2>6, <3>1 DEF AheadOf
  <2>7. CASE phase = "globals" /\ phase' = "state" /\ requests' = Append(requests, Request("sync", NoId))
    <3> DEFINE r == Request("sync", NoId)
    <3>1. r \in Requests /\ r.kind = "sync" /\ r.id = NoId
      BY MessageTypes DEF Request
    <3> HIDE DEF r
    <3>2. /\ Len(requests) \in Nat
          /\ \A j, y : Asked(j, y)' = Asked(j, y) \cup (IF r.kind = j /\ r.id = y THEN {Len(requests) + 1} ELSE {})
          /\ \A j, y : Asked(j, y) \subseteq 1..Len(requests)
      BY <1>0, <2>7, <3>1, OneAsked DEF r
    <3>3. /\ Asked(k, x)' = Asked(k, x)
          /\ Asked("sync", NoId)' = {Len(requests) + 1}
      BY <1>0, <2>7, <3>1, <3>2 DEF BarrierInv
    <3>4. Wires("done", NoId)' = {}
      <4>1. ASSUME NEW d \in Wires("done", NoId)' PROVE FALSE
        <5>1. d + 1 \in Wires("done", NoId) /\ 1 \in Wires("done", NoId) /\ d \in Nat \ {0}
          BY <2>1, <2>2, <2>3
        <5> QED BY <2>7, <5>1 DEF BarrierInv
      <4> QED BY <4>1
    <3>5. \A i \in Asked(k, x) : i < Len(requests) + 1
      BY <3>2
    <3>6. (\E i \in Asked(k, x)' : i < Len(requests) + 1) \/ \E j \in K : Wires(j, x)' # {}
      BY <2>4, <3>3, <3>5 DEF AheadOf
    <3> QED BY <2>7, <3>3, <3>4, <3>6 DEF AheadOf
  <2> QED BY <1>6, <2>5, <2>6, <2>7 DEF OnDone
<1>7. CASE ServeSet
  BY <1>0, <1>7 DEF ServeSet
<1> QED BY <1>2, <1>3, <1>4, <1>5, <1>6, <1>7 DEF Next, vars, client
LEMMA BarrierNext == TypesInv /\ BarrierInv /\ [Next]_vars => BarrierInv'
<1> SUFFICES ASSUME TypesInv, BarrierInv, [Next]_vars PROVE BarrierInv'
  OBVIOUS
<1>0. ServerTypeOK /\ ClientTypeOK /\ wire \in Seq(Messages) /\ requests \in Seq(Requests)
  BY DEF TypesInv, ServerTypeOK
<1>1. ASSUME UNCHANGED <<phase, manager>>, NEW s \in Seq(Messages), wire' = wire \o s,
             phase = "globals" => \A i \in DOMAIN s : s[i].kind # "done",
             \A q \in Asked("sync", NoId)' : phase = "globals" => Asked("sync", NoId) # {}
      PROVE  BarrierInv'
  <2>1. \A j, y : \A i \in Wires(j, y)' : i \in Wires(j, y)
              \/ \E h \in DOMAIN s : i = Len(wire) + h /\ wire'[i] = s[h] /\ s[h].kind = j /\ s[h].id = y
    BY <1>0, <1>1, WireGrows
  <2>2. phase = "globals" => \A d \in Wires("done", NoId)' : d \in Wires("done", NoId)
    BY <1>1, <2>1
  <2> QED BY <1>1, <2>2 DEF BarrierInv
<1>2. ASSUME NEW id \in Ids, Plug(id) \/ Unplug(id) \/ Change(id) \/ Focus(id) PROVE BarrierInv'
  <2>1. PICK s \in Seq(Messages) : wire' = wire \o s /\ \A i \in DOMAIN s : s[i].kind \in {"output", "removed"} \cup IPCKinds
    BY <1>0, <1>2, CompositorSends
  <2>2. UNCHANGED <<requests, phase, manager>> /\ \A i \in DOMAIN s : s[i].kind # "done"
    BY <1>0, <1>2, <2>1, CompositorSends DEF client, IPCKinds
  <2>3. Asked("sync", NoId)' = Asked("sync", NoId)
    BY <2>2, Unmoved
  <2> QED BY <1>1, <2>1, <2>2, <2>3
<1>3. CASE HandleRequest
  <2> DEFINE r == Head(requests)
  <2>1. /\ requests # <<>> /\ requests' = Tail(requests) /\ UNCHANGED <<phase, manager>> /\ r \in Requests
    BY <1>0, <1>3, AnswersSent DEF client
  <2>2. PICK s \in Seq(Messages) : wire' = wire \o s /\ \A i \in DOMAIN s : s[i].kind = "done" => r.kind = "sync"
    BY <1>0, <1>3, AnswersSent
  <2>3. /\ \A j, y : \A i \in Asked(j, y)' : i + 1 \in Asked(j, y)
        /\ \A j, y : 1 \in Asked(j, y) <=> r.kind = j /\ r.id = y
    BY <1>0, <2>1, RequestsShift
  <2>4. r.kind = "sync" => r.id = NoId
    <3> HIDE DEF r
    <3> QED BY <2>1 DEF Requests, SetRequest
  <2>5. phase = "globals" => r.kind # "sync"
    BY <2>3, <2>4 DEF BarrierInv
  <2>6. \A q \in Asked("sync", NoId)' : Asked("sync", NoId) # {}
    BY <2>3
  <2> QED BY <1>1, <2>1, <2>2, <2>5, <2>6
<1>4. CASE \/ OnManager \/ OnOutput \/ OnRemoved \/ OnName \/ OnTags
           \/ OnStale \/ OnActive \/ OnTag \/ OnField \/ OnFrame
  <2>1. wire # <<>> /\ wire' = Tail(wire) /\ UNCHANGED phase
    BY <1>0, <1>4, DispatchAsks
  <2>2. PICK t \in Seq(Requests) :
              /\ requests' = requests \o t
              /\ \A i \in DOMAIN t : t[i].kind \in {"bind_manager", "bind_output", "get_output"}
    BY <1>0, <1>4, DispatchAsks
  <2>3. \A j, y : \A i \in Asked(j, y)' : i \in Asked(j, y)
              \/ \E h \in DOMAIN t : i = Len(requests) + h /\ t[h].kind = j /\ t[h].id = y
    BY <1>0, <2>2, RequestsGrow
  <2>4. \A q \in Asked("sync", NoId)' : q \in Asked("sync", NoId)
    BY <2>2, <2>3
  <2>5. /\ \A j, y : \A i \in Wires(j, y)' : i + 1 \in Wires(j, y)
        /\ \A j, y : Wires(j, y)' \subseteq Nat \ {0}
    BY <1>0, <2>1, WireShift
  <2>6. ASSUME phase = "globals", NEW i \in Wires("done", NoId)', NEW j \in Wires("done", NoId)' PROVE i = j
    BY <2>5, <2>6 DEF BarrierInv
  <2>7. manager => manager'
    BY <1>4 DEF OnManager, OnOutput, OnRemoved, OnName, OnTags, OnStale, OnActive, OnTag, OnField, OnFrame, Ipc, client
  <2> QED BY <2>1, <2>4, <2>6, <2>7 DEF BarrierInv
<1>5. CASE OnDone
  BY <1>5 DEF OnDone, BarrierInv
<1>6. CASE ServeSet
  BY <1>6 DEF ServeSet, BarrierInv, client
<1>7. CASE UNCHANGED vars
  <2>1. \A k, y : Asked(k, y)' = Asked(k, y) /\ Wires(k, y)' = Wires(k, y)
    BY <1>7, Unmoved DEF vars
  <2> QED BY <1>7, <2>1 DEF BarrierInv, vars, client
<1> QED BY <1>2, <1>3, <1>4, <1>5, <1>6, <1>7 DEF Next

LEMMA TagsNext == TypesInv /\ StartInv /\ BarrierInv /\ TagsInv /\ [Next]_vars => TagsInv'
<1> SUFFICES ASSUME TypesInv, StartInv, BarrierInv, TagsInv, [Next]_vars, manager', tagCount' # NTags
             PROVE  AheadOf({"tags"}, "bind_manager", NoId)'
  BY DEF TagsInv
<1>0. ServerTypeOK /\ ClientTypeOK /\ requests \in Seq(Requests)
  BY DEF TypesInv, ServerTypeOK
<1>1. CASE manager /\ tagCount # NTags
  <2> DEFINE K == {"tags"}
  <2>1. K \in SUBSET {"name", "removed", "tags", "frame"} /\ "tags" \in K /\ AheadOf(K, "bind_manager", NoId)
    BY <1>1 DEF TagsInv
  <2>2. OnRemoved \/ OnName \/ OnTags \/ OnStale \/ OnFrame => ~(Message.kind \in K /\ Message.id = NoId)
    BY DEF OnRemoved, OnName, OnTags, OnStale, OnFrame, Ipc, IPCKinds, Arrived, Message
  <2> HIDE DEF K
  <2>3. HandleRequest /\ Head(requests).kind = "bind_manager" => \E i \in Wires("tags", NoId)' : TRUE
    BY <1>0, AnswersSent
  <2>4. AheadOf(K, "bind_manager", NoId)'
    BY <2>1, <2>2, <2>3, AheadNext
  <2> QED BY <2>4 DEF K
<1>2. CASE ~manager
  <2>1. OnManager
    BY <1>2 DEF Next, Plug, Unplug, Change, Focus, HandleRequest, OnDone, OnOutput, OnRemoved, OnName, OnTags,
                OnStale, OnActive, OnTag, OnField, OnFrame, Ipc, ServeSet, client, vars
  <2>2. phase' = "globals"
    BY <1>0, <2>1, ManagerEffect
  <2>3. Asked("bind_manager", NoId)' # {}
    <3>1. PICK s \in Seq(Requests) : /\ requests' = requests \o s /\ 1 \in DOMAIN s
                                     /\ s[1] = Request("bind_manager", NoId)
      BY <1>0, <2>1, ManagerAsks
    <3>2. s[1].kind = "bind_manager" /\ s[1].id = NoId
      BY <3>1 DEF Request
    <3>3. Len(requests) + 1 \in Asked("bind_manager", NoId)'
      BY <1>0, <3>1, <3>2, RequestsGrow
    <3> QED BY <3>3
  <2> QED BY <2>2, <2>3 DEF AheadOf
<1>3. CASE tagCount = NTags
  BY <1>3 DEF Next, Plug, Unplug, Change, Focus, HandleRequest, OnDone, OnManager, OnOutput, OnRemoved, OnName, OnTags,
              OnStale, OnActive, OnTag, OnField, OnFrame, Ipc, ServeSet, client, vars
<1> QED BY <1>1, <1>2, <1>3
LEMMA FirstNext ==
  ASSUME NamesInv, BarrierInv, [Next]_vars, NEW x \in AtStart, FirstInv(x)
  PROVE  FirstInv(x)'
<1>0. /\ ServerTypeOK /\ ClientTypeOK /\ StartInv /\ LifeInv(x) /\ TypesInv /\ x \in Ids
      /\ wire \in Seq(Messages) /\ requests \in Seq(Requests)
  BY DEF NamesInv, WorldInv, TypesInv, ServerTypeOK
<1>1. unused' \subseteq unused
  BY DEF Next, Plug, Unplug, Change, Focus, HandleRequest, OnDone, OnManager, OnOutput, OnRemoved, OnName, OnTags,
         OnStale, OnActive, OnTag, OnField, OnFrame, Ipc, ServeSet, server, vars
<1>2. ASSUME NEW i \in Wires("output", x)', phase' # "failed"
      PROVE  phase' = "globals" /\ \A d \in Wires("done", NoId)' : i < d
  <2>1. ASSUME NEW s \in Seq(Messages), wire' = wire \o s, UNCHANGED phase,
               \A h \in DOMAIN s : ~(s[h].kind = "output" /\ s[h].id = x)
        PROVE  phase' = "globals" /\ \A d \in Wires("done", NoId)' : i < d
    <3>1. /\ \A j, y : Wires(j, y) \subseteq 1..Len(wire)
          /\ \A j, y : \A h \in Wires(j, y)' : h \in Wires(j, y)
              \/ \E g \in DOMAIN s : h = Len(wire) + g /\ wire'[h] = s[g] /\ s[g].kind = j /\ s[g].id = y
      BY <1>0, <2>1, WireGrows
    <3>2. i \in Wires("output", x) /\ i \in 1..Len(wire)
      BY <1>2, <2>1, <3>1
    <3>3. \A g \in DOMAIN s : g \in Nat \ {0}
      BY <2>1
    <3>4. \A g \in DOMAIN s : i < Len(wire) + g
      BY <1>0, <3>2, <3>3
    <3> QED BY <1>2, <2>1, <3>1, <3>2, <3>4 DEF FirstInv
  <2>2. ASSUME NEW id \in Ids, Plug(id) \/ Unplug(id) \/ Change(id) \/ Focus(id)
        PROVE  phase' = "globals" /\ \A d \in Wires("done", NoId)' : i < d
    <3>1. PICK s \in Seq(Messages) : wire' = wire \o s /\ \A h \in DOMAIN s : s[h].kind = "output" => s[h].id \in unused
      BY <1>0, <2>2, CompositorSends
    <3>2. UNCHANGED phase /\ x \notin unused
      BY <1>0, <2>2, CompositorSends DEF client, FirstInv
    <3> QED BY <2>1, <3>1, <3>2
  <2>3. CASE HandleRequest
    <3>1. PICK s \in Seq(Messages) : wire' = wire \o s /\ \A h \in DOMAIN s : s[h].kind \in {"done", "tags", "name"} \cup IPCKinds
      BY <1>0, <2>3, AnswersSent
    <3>2. UNCHANGED phase /\ \A h \in DOMAIN s : s[h].kind # "output"
      BY <1>0, <2>3, <3>1, AnswersSent DEF client, IPCKinds
    <3> QED BY <2>1, <3>1, <3>2
  <2>4. ASSUME wire # <<>>, wire' = Tail(wire), phase # "failed",
               phase' = phase \/ (1 \in Wires("done", NoId))
        PROVE  phase' = "globals" /\ \A d \in Wires("done", NoId)' : i < d
    <3>1. /\ \A j, y : \A h \in Wires(j, y)' : h + 1 \in Wires(j, y)
          /\ \A j, y : Wires(j, y) \subseteq Nat \ {0} /\ Wires(j, y)' \subseteq Nat \ {0}
      BY <1>0, <2>4, WireShift
    <3>2. i + 1 \in Wires("output", x) /\ i \in Nat \ {0}
      BY <1>2, <3>1
    <3>3. phase = "globals" /\ \A d \in Wires("done", NoId) : i + 1 < d
      BY <2>4, <3>2 DEF FirstInv
    <3>4. \A d \in Wires("done", NoId)' : d \in Nat /\ d + 1 \in Wires("done", NoId)
      BY <3>1
    <3>5. phase' = phase
      BY <2>4, <3>2, <3>3
    <3> QED BY <3>2, <3>3, <3>4, <3>5
  <2>5. CASE \/ OnManager \/ OnOutput \/ OnRemoved \/ OnName \/ OnTags
             \/ OnStale \/ OnActive \/ OnTag \/ OnField \/ OnFrame
    <3>1. wire # <<>> /\ wire' = Tail(wire) /\ UNCHANGED phase
      BY <1>0, <2>5, DispatchAsks
    <3> QED BY <1>2, <2>4, <3>1
  <2>6. CASE OnDone
    <3>1. wire # <<>> /\ wire' = Tail(wire) /\ Message.kind = "done" /\ Message \in Messages /\ phase # "failed"
      BY <1>0, <2>6, DispatchTypes DEF OnDone
    <3>2. Message.id = NoId
      BY <3>1 DEF Messages, Update
    <3>3. 1 \in Wires("done", NoId)
      BY <1>0, <3>1, <3>2, WireShift
    <3> QED BY <2>4, <3>1, <3>3
  <2>7. CASE ServeSet \/ UNCHANGED vars
    <3>1. UNCHANGED <<wire, phase>>
      BY <2>7 DEF ServeSet, vars, client
    <3>2. \A k, y : Wires(k, y)' = Wires(k, y)
      BY <3>1, Unmoved
    <3> QED BY <1>2, <3>1, <3>2 DEF FirstInv
  <2> QED BY <2>2, <2>3, <2>5, <2>6, <2>7 DEF Next
<1>3. ASSUME x \in DOMAIN outputs', outputs'[x].name \notin Names
      PROVE  AheadOf({"name", "removed"}, "bind_output", x)'
  <2>1. CASE x \in DOMAIN outputs /\ outputs[x].name \notin Names
    <3> DEFINE K == {"name", "removed"}
    <3>1. K \in SUBSET {"name", "removed", "tags", "frame"} /\ {"name", "removed"} \subseteq K /\ AheadOf(K, "bind_output", x)
      BY <2>1 DEF FirstInv
    <3>2. OnRemoved => Message.id # x
      BY <1>3 DEF OnRemoved, Without
    <3>3. OnName => Message.id # x
      BY <1>0, <1>3, <2>1, NameEffect
    <3>4. OnTags \/ OnStale \/ OnFrame => Message.kind \notin K
      BY DEF OnTags, OnStale, OnFrame, Ipc, IPCKinds, Arrived, Message
    <3>5. HandleRequest /\ Head(requests).kind = "bind_output" /\ Head(requests).id = x =>
            \E j \in {"name", "removed"} : \E i \in Wires(j, x)' : TRUE
      <4> SUFFICES ASSUME HandleRequest, Head(requests).kind = "bind_output", Head(requests).id = x
                   PROVE  \E j \in {"name", "removed"} : \E i \in Wires(j, x)' : TRUE
        OBVIOUS
      <4>1. CASE x \in DOMAIN plugged
        <5>1. \E i \in Wires("name", x)' : TRUE
          BY <1>0, <4>1, AnswersSent
        <5> QED BY <5>1
      <4>2. CASE x \notin DOMAIN plugged
        <5>1. PICK i \in Wires("removed", x) : TRUE
          BY <1>0, <2>1, <4>2 DEF LifeInv, GoneInv
        <5>2. PICK s \in Seq(Messages) : wire' = wire \o s
          BY <1>0, AnswersSent
        <5>3. i \in Wires("removed", x)'
          BY <1>0, <5>1, <5>2, WireGrows
        <5> QED BY <5>3
      <4> QED BY <4>1, <4>2
    <3> HIDE DEF K
    <3>6. AheadOf(K, "bind_output", x)'
      BY <1>0, <3>1, <3>2, <3>3, <3>4, <3>5, AheadNext
    <3> QED BY <3>6 DEF K
  <2>2. CASE OnOutput
    <3>1. /\ Arrived("output") /\ Dispatched /\ UNCHANGED phase
          /\ outputs' = With(outputs, Message.id, [name |-> Provisional(Message.id), ipc |-> manager])
          /\ requests' = requests \o (IF manager THEN <<Request("bind_output", Message.id), Request("get_output", Message.id)>>
                                                 ELSE <<Request("bind_output", Message.id)>>)
      BY <2>2 DEF OnOutput
    <3>2. CASE Message.id # x
      BY <1>3, <2>1, <3>1, <3>2 DEF With
    <3>3. CASE Message.id = x
      <4>1. wire # <<>> /\ wire' = Tail(wire) /\ Message.kind = "output" /\ phase # "failed"
        BY <1>0, <3>1, DispatchTypes
      <4>2. 1 \in Wires("output", x)
        BY <1>0, <3>3, <4>1, WireShift
      <4>3. phase = "globals"
        BY <4>1, <4>2 DEF FirstInv
      <4>4. Asked("bind_output", x)' # {}
        <5> DEFINE r == Request("bind_output", x)
                   q == Request("get_output", x)
                   t == IF manager THEN <<r, q>> ELSE <<r>>
        <5>1. r \in Requests /\ q \in Requests /\ r.kind = "bind_output" /\ r.id = x
          BY <1>0, MessageTypes DEF Request
        <5>2. requests' = requests \o t
          BY <3>1, <3>3
        <5> HIDE DEF r, q
        <5>3. t \in Seq(Requests) /\ 1 \in DOMAIN t /\ t[1] = r
          <6>1. <<r, q>> \in Seq(Requests) /\ 1 \in DOMAIN <<r, q>> /\ <<r, q>>[1] = r
            BY <5>1
          <6>2. <<r>> \in Seq(Requests) /\ 1 \in DOMAIN <<r>> /\ <<r>>[1] = r
            BY <5>1
          <6> QED BY <6>1, <6>2
        <5> HIDE DEF t
        <5>4. Len(requests) + 1 \in Asked("bind_output", x)'
          BY <1>0, <5>1, <5>2, <5>3, RequestsGrow
        <5> QED BY <5>4
      <4> QED BY <3>1, <4>3, <4>4 DEF AheadOf
    <3> QED BY <3>2, <3>3
  <2>3. CASE OnManager
    <3>1. DOMAIN outputs' = DOMAIN outputs /\ \A y \in DOMAIN outputs : outputs[y].name = Provisional(y)
      BY <1>0, <2>3, ManagerEffect
    <3> QED BY <1>0, <1>3, <2>1, <3>1
  <2>4. CASE OnName
    <3>1. /\ DOMAIN outputs' = DOMAIN outputs /\ Message.name \in Names
          /\ \A y \in DOMAIN outputs : y # Message.id => outputs'[y] = outputs[y]
          /\ Message.id \in DOMAIN outputs => outputs'[Message.id].name = Message.name
      BY <1>0, <2>4, NameEffect
    <3> QED BY <1>3, <2>1, <3>1
  <2>5. CASE OnRemoved
    BY <1>3, <2>1, <2>5 DEF OnRemoved, Without
  <2>6. CASE UNCHANGED outputs
    BY <1>3, <2>1, <2>6
  <2>7. UNCHANGED outputs \/ OnOutput \/ OnManager \/ OnName \/ OnRemoved
    BY DEF Next, Plug, Unplug, Change, Focus, HandleRequest, OnDone, OnTags,
           OnStale, OnActive, OnTag, OnField, OnFrame, Ipc, ServeSet, client, vars
  <2> QED BY <2>2, <2>3, <2>4, <2>5, <2>6, <2>7
<1> QED BY <1>1, <1>2, <1>3 DEF FirstInv
LEMMA ManagerAsksAll ==
  ASSUME ServerTypeOK, ClientTypeOK, OnManager, NEW i \in DOMAIN deferred, NEW y, y = deferred[i]
  PROVE  Asked("get_output", y)' # {}
<1> DEFINE gets == [j \in DOMAIN deferred |-> Request("get_output", deferred[j])]
           b == Request("bind_manager", NoId)
           n == Len(deferred)
<1>1. /\ n \in Nat /\ DOMAIN deferred = 1..n /\ b \in Requests /\ requests \in Seq(Requests)
      /\ \A j \in 1..n : Request("get_output", deferred[j]) \in Requests
  BY MessageTypes DEF ServerTypeOK, ClientTypeOK
<1>2. gets \in Seq(Requests) /\ Len(gets) = n /\ gets[i] = Request("get_output", deferred[i])
  <2>1. gets = [j \in 1..n |-> Request("get_output", deferred[j])] /\ gets[i] = Request("get_output", deferred[i])
    BY <1>1
  <2> HIDE DEF gets, n
  <2>2. gets \in Seq(Requests) /\ DOMAIN gets = 1..n
    BY <1>1, <2>1, IsASeq
  <2> QED BY <1>1, <2>1, <2>2
<1>3. requests' = Append(requests, b) \o gets
  BY DEF OnManager
<1> DEFINE r == Append(requests, b)
<1>4. r \in Seq(Requests) /\ Len(r) \in Nat
  BY <1>1
<1> HIDE DEF gets, b, r, n
<1>5. i + Len(r) \in 1..Len(requests') /\ requests'[i + Len(r)] = gets[i]
  BY <1>1, <1>2, <1>3, <1>4 DEF r
<1>6. gets[i].kind = "get_output" /\ gets[i].id = deferred[i]
  BY <1>2 DEF Request
<1>7. i + Len(r) \in Asked("get_output", y)'
  BY <1>5, <1>6 DEF Asked
<1> QED BY <1>7

(* A status ends with a frame.                                               *)
LEMMA FrameSent ==
  ASSUME ServerTypeOK, HandleRequest, NEW x \in DOMAIN plugged,
         Head(requests).kind = "get_output", Head(requests).id = x
  PROVE  \E i \in Wires("frame", x)' : TRUE
<1> DEFINE on == active = x
           s == StatusOf(x, truth[x], on)
           m == Msg("frame", x)
<1>1. wire' = wire \o s
  BY DEF HandleRequest
<1>2. x \in Ids /\ truth[x] \in FactSets /\ on \in BOOLEAN /\ wire \in Seq(Messages)
  BY DEF ServerTypeOK
<1> HIDE DEF on
<1>3. m \in Messages /\ m.kind = "frame" /\ m.id = x
  BY <1>2 DEF Msg, Messages
<1>4. s \in Seq(Messages)
  BY <1>2, StatusTypes
<1>5. Len(s) \in DOMAIN s /\ s[Len(s)] = m
  <2> DEFINE t == [i \in 1..NTags |-> TagMsg(x, i - 1, i - 1 \in truth[x]["tags"])]
             u == [i \in 1..Cardinality(Fields) |-> Update(x, FieldOrder[i], truth[x][FieldOrder[i]])]
             a == ActiveMsg(x, on)
  <2>1. s = <<a>> \o t \o u \o <<m>>
    BY DEF StatusOf
  <2>2. NTags \in Nat /\ Cardinality(Fields) \in Nat
    BY CountsAssumption, FieldsOrdered
  <2>3. t \in Seq({t[i] : i \in 1..NTags}) /\ u \in Seq({u[i] : i \in 1..Cardinality(Fields)})
    <3>1. \A f, n : n \in Nat /\ f = [i \in 1..n |-> f[i]] => f \in Seq({f[i] : i \in 1..n})
      BY IsASeq
    <3> QED BY <2>2, <3>1
  <2> HIDE DEF t, u, a, m, s
  <2> QED BY <2>1, <2>3
<1> HIDE DEF s, m
<1>6. Len(wire) + Len(s) \in 1..Len(wire') /\ wire'[Len(wire) + Len(s)] = m
  BY <1>1, <1>2, <1>4, <1>5
<1> QED BY <1>3, <1>6 DEF Wires

LEMMA FramedNext ==
  ASSUME NamesInv, BarrierInv, IpcInv, [Next]_vars, NEW x \in AtStart, FirstInv(x), FramedInv(x)
  PROVE  FramedInv(x)'
<1> SUFFICES ASSUME manager', x \in DOMAIN outputs', x \notin framed'
             PROVE  AheadOf({"frame", "removed"}, "get_output", x)'
  BY DEF FramedInv
<1>0. /\ ServerTypeOK /\ ClientTypeOK /\ LifeInv(x) /\ TypesInv /\ StartInv /\ x \in Ids
      /\ wire \in Seq(Messages) /\ requests \in Seq(Requests)
  BY DEF NamesInv, WorldInv, TypesInv, ServerTypeOK
<1>1. CASE manager /\ x \in DOMAIN outputs /\ x \notin framed
  <2> DEFINE K == {"frame", "removed"}
  <2>1. K \in SUBSET {"name", "removed", "tags", "frame"} /\ K = {"frame", "removed"} /\ AheadOf(K, "get_output", x)
    BY <1>1 DEF FramedInv
  <2>2. OnRemoved => Message.id # x
    BY DEF OnRemoved, Without
  <2>3. OnFrame => Message.id # x
    BY DEF OnFrame
  <2>4. OnStale => Message.id # x
    BY <1>1 DEF OnStale
  <2>5. OnName \/ OnTags => Message.kind \notin K
    BY DEF OnName, OnTags, Arrived, Message
  <2>6. HandleRequest /\ Head(requests).kind = "get_output" /\ Head(requests).id = x =>
          \E j \in {"frame", "removed"} : \E i \in Wires(j, x)' : TRUE
    <3> SUFFICES ASSUME HandleRequest, Head(requests).kind = "get_output", Head(requests).id = x
                 PROVE  \E j \in {"frame", "removed"} : \E i \in Wires(j, x)' : TRUE
      OBVIOUS
    <3>1. CASE x \in DOMAIN plugged
      <4>1. \E i \in Wires("frame", x)' : TRUE
        BY <1>0, <3>1, FrameSent
      <4> QED BY <4>1
    <3>2. CASE x \notin DOMAIN plugged
      <4>1. PICK i \in Wires("removed", x) : TRUE
        BY <1>0, <1>1, <3>2 DEF LifeInv, GoneInv
      <4>2. PICK s \in Seq(Messages) : wire' = wire \o s
        BY <1>0, AnswersSent
      <4>3. i \in Wires("removed", x)'
        BY <1>0, <4>1, <4>2, WireGrows
      <4> QED BY <4>3
    <3> QED BY <3>1, <3>2
  <2> HIDE DEF K
  <2>7. AheadOf(K, "get_output", x)'
    BY <1>0, <2>1, <2>2, <2>3, <2>4, <2>5, <2>6, AheadNext
  <2> QED BY <2>7 DEF K
<1>2. CASE OnManager /\ ~manager
  <2>1. phase' = "globals" /\ x \in DOMAIN outputs
    BY <1>0, <1>2, ManagerEffect
  <2>2. PICK i \in 1..Len(deferred) : deferred[i] = x
    BY <1>2, <2>1 DEF IpcInv
  <2>3. i \in DOMAIN deferred
    BY <1>0, <2>2 DEF ClientTypeOK
  <2>4. Asked("get_output", x)' # {}
    BY <1>0, <1>2, <2>2, <2>3, ManagerAsksAll
  <2> QED BY <2>1, <2>4 DEF AheadOf
<1>3. CASE OnOutput /\ manager /\ x \notin DOMAIN outputs
  <2>1. /\ Arrived("output") /\ Dispatched /\ UNCHANGED phase
        /\ outputs' = With(outputs, Message.id, [name |-> Provisional(Message.id), ipc |-> manager])
        /\ requests' = requests \o <<Request("bind_output", Message.id), Request("get_output", Message.id)>>
    BY <1>3 DEF OnOutput
  <2>2. Message.id = x
    BY <1>3, <2>1 DEF With
  <2>3. wire # <<>> /\ wire' = Tail(wire) /\ Message.kind = "output" /\ phase # "failed"
    BY <1>0, <2>1, DispatchTypes
  <2>4. 1 \in Wires("output", x)
    BY <1>0, <2>2, <2>3, WireShift
  <2>5. phase = "globals"
    BY <2>3, <2>4 DEF FirstInv
  <2>6. Asked("get_output", x)' # {}
    <3> DEFINE r == Request("bind_output", x)
               q == Request("get_output", x)
    <3>1. r \in Requests /\ q \in Requests /\ q.kind = "get_output" /\ q.id = x
      BY <1>0, MessageTypes DEF Request
    <3>2. requests' = requests \o <<r, q>>
      BY <2>1, <2>2
    <3> HIDE DEF r, q
    <3>3. <<r, q>> \in Seq(Requests) /\ 2 \in DOMAIN <<r, q>> /\ <<r, q>>[2] = q
      BY <3>1
    <3>4. Len(requests) + 2 \in Asked("get_output", x)'
      BY <1>0, <3>1, <3>2, <3>3, RequestsGrow
    <3> QED BY <3>4
  <2> QED BY <2>1, <2>5, <2>6 DEF AheadOf
<1>4. framed \subseteq framed'
  BY DEF Next, Plug, Unplug, Change, Focus, HandleRequest, OnDone, OnManager, OnOutput, OnRemoved, Unannounced, OnName,
         OnTags, OnStale, OnActive, TellFocus, OnTag, OnField, OnFrame, Ipc, ServeSet, observer, vars
<1>5. UNCHANGED <<manager, outputs>> \/ OnManager \/ (OnOutput /\ UNCHANGED manager) \/ OnRemoved \/ OnName
  BY DEF Next, Plug, Unplug, Change, Focus, HandleRequest, OnDone, OnOutput, OnTags,
         OnStale, OnActive, OnTag, OnField, OnFrame, Ipc, ServeSet, client, vars
<1>6. CASE UNCHANGED <<manager, outputs>>
  BY <1>1, <1>4, <1>6
<1>7. CASE OnManager
  <2>1. x \in DOMAIN outputs
    BY <1>0, <1>7, ManagerEffect
  <2> QED BY <1>1, <1>2, <1>4, <1>7, <2>1
<1>8. CASE OnOutput /\ UNCHANGED manager
  BY <1>1, <1>3, <1>4, <1>8
<1>9. CASE OnRemoved
  <2>1. x \in DOMAIN outputs /\ UNCHANGED manager
    BY <1>9 DEF OnRemoved, Without
  <2> QED BY <1>1, <1>4, <2>1
<1>10. CASE OnName
  <2>1. x \in DOMAIN outputs /\ UNCHANGED manager
    BY <1>0, <1>10, NameEffect DEF OnName
  <2> QED BY <1>1, <1>4, <2>1
<1> QED BY <1>5, <1>6, <1>7, <1>8, <1>9, <1>10

LEMMA TagsFirstNext ==
  ASSUME TypesInv, StartInv, BarrierInv, TagsInv, [Next]_vars, NEW x \in Ids, TagsFirstInv(x)
  PROVE  TagsFirstInv(x)'
<1> SUFFICES ASSUME tagCount' # NTags PROVE TagsFirstInv(x)'
  BY DEF TagsFirstInv
<1> DEFINE tags == Wires("tags", NoId)
           bind == Asked("bind_manager", NoId)
<1>0. ServerTypeOK /\ ClientTypeOK /\ wire \in Seq(Messages) /\ requests \in Seq(Requests)
  BY DEF TypesInv, ServerTypeOK
<1>1. tagCount # NTags /\ ~OnTags
  BY DEF Next, Plug, Unplug, Change, Focus, HandleRequest, OnDone, OnManager, OnOutput, OnRemoved, OnName, OnTags,
         OnStale, OnActive, OnTag, OnField, OnFrame, Ipc, ServeSet, client, vars
<1>2. /\ \A j \in Ipcs(x) : \E t \in tags : t < j
      /\ x \in bound => tags # {}
      /\ \A j \in Asked("get_output", x) : (\E b \in bind : b < j) \/ tags # {}
      /\ Asked("set", x) = {}
  BY <1>1 DEF TagsFirstInv
<1>3. ASSUME NEW s \in Seq(Messages), wire' = wire \o s,
             \A h \in DOMAIN s : s[h].kind \in IPCKinds /\ s[h].id = x => tags # {}
      PROVE  /\ \A j \in Ipcs(x)' : \E t \in tags' : t < j
             /\ \A t \in tags : t \in tags'
  <2>1. /\ \A i \in tags : i \in tags'
        /\ \A i \in Ipcs(x)' : i \in Ipcs(x)
              \/ \E j \in DOMAIN s : i = Len(wire) + j /\ s[j].kind \in IPCKinds /\ s[j].id = x
        /\ tags \subseteq 1..Len(wire)
    <3>1. /\ \A k, y : \A i \in Wires(k, y) : i \in Wires(k, y)'
          /\ \A y : \A i \in Ipcs(y)' : i \in Ipcs(y)
              \/ \E j \in DOMAIN s : i = Len(wire) + j /\ s[j].kind \in IPCKinds /\ s[j].id = y
          /\ \A k, y : Wires(k, y) \subseteq 1..Len(wire)
      BY <1>0, <1>3, WireGrows
    <3> QED BY <3>1
  <2>2. \A j \in DOMAIN s : \A t \in tags : t < Len(wire) + j
    <3>1. DOMAIN s = 1..Len(s) /\ Len(wire) \in Nat
      BY <1>0
    <3> QED BY <2>1, <3>1
  <2>3. ASSUME NEW i \in Ipcs(x)' PROVE \E t \in tags : t < i
    <3>1. CASE i \in Ipcs(x)
      BY <1>2, <3>1
    <3>2. CASE i \notin Ipcs(x)
      <4>1. PICK j \in DOMAIN s : i = Len(wire) + j /\ s[j].kind \in IPCKinds /\ s[j].id = x
        BY <2>1, <2>3, <3>2
      <4>2. PICK t \in tags : TRUE
        BY <1>3, <4>1
      <4> QED BY <2>2, <4>1, <4>2
    <3> QED BY <3>1, <3>2
  <2> HIDE DEF tags
  <2> QED BY <2>1, <2>3
<1>4. ASSUME wire # <<>>, wire' = Tail(wire), Message.kind # "tags"
      PROVE  /\ \A j \in Ipcs(x)' : \E t \in tags' : t < j
             /\ tags # {} => tags' # {}
  <2>1. /\ \A i \in tags : i # 1 => i - 1 \in tags'
        /\ \A i \in Ipcs(x)' : i + 1 \in Ipcs(x)
        /\ 1 \notin tags /\ tags \subseteq Nat \ {0} /\ Ipcs(x)' \subseteq Nat \ {0}
    BY <1>0, <1>4, WireShift
  <2>2. \A i \in tags : i \in Nat /\ i - 1 \in tags'
    BY <2>1
  <2>3. ASSUME NEW j \in Ipcs(x)' PROVE \E t \in tags' : t < j
    <3>1. PICK t \in tags : t < j + 1
      BY <1>2, <2>1
    <3>2. t - 1 < j
      BY <2>1, <2>2, <3>1
    <3> QED BY <2>2, <3>2
  <2> QED BY <2>2, <2>3
<1>5. ASSUME NEW id \in Ids, Plug(id) \/ Unplug(id) \/ Change(id) \/ Focus(id) PROVE TagsFirstInv(x)'
  <2>1. PICK s \in Seq(Messages) : wire' = wire \o s /\ \A i \in DOMAIN s : s[i].kind \in IPCKinds => s[i].id \in bound
    BY <1>0, <1>5, CompositorSends
  <2>2. UNCHANGED requests /\ bound' \subseteq bound
    BY <1>0, <1>5, CompositorSends
  <2>3. \A j, y : Asked(j, y)' = Asked(j, y)
    BY <2>2, Unmoved
  <2>4. /\ \A j \in Ipcs(x)' : \E t \in tags' : t < j
        /\ \A t \in tags : t \in tags'
    BY <1>2, <1>3, <2>1
  <2> QED BY <1>2, <2>2, <2>3, <2>4 DEF TagsFirstInv
<1>6. CASE HandleRequest
  <2> DEFINE r == Head(requests)
  <2>1. /\ requests # <<>> /\ requests' = Tail(requests)
        /\ bound' # bound => r.kind \in {"get_output", "set"} /\ bound' = bound \cup {r.id}
    BY <1>0, <1>6, AnswersSent
  <2>2. PICK s \in Seq(Messages) :
          wire' = wire \o s
          /\ \A i \in DOMAIN s : s[i].kind \in IPCKinds => r.kind \in {"get_output", "set"} /\ s[i].id = r.id
    BY <1>0, <1>6, AnswersSent
  <2>3. /\ \A j, y : \A i \in Asked(j, y)' : i + 1 \in Asked(j, y)
        /\ \A j, y : \A i \in Asked(j, y) : i # 1 => i - 1 \in Asked(j, y)'
        /\ \A j, y : 1 \in Asked(j, y) <=> r.kind = j /\ r.id = y
        /\ \A j, y : Asked(j, y) \subseteq Nat \ {0}
        /\ \A j, y : Asked(j, y)' \subseteq Nat \ {0}
    BY <1>0, <2>1, RequestsShift
  <2>4. 1 \in bind => tags' # {}
    BY <1>0, <1>6, <2>3, AnswersSent
  <2>5. r.kind \in {"get_output", "set"} /\ r.id = x => tags # {}
    <3>1. r.kind = "get_output" /\ r.id = x => 1 \in Asked("get_output", x)
      BY <2>3
    <3>2. r.kind = "set" /\ r.id = x => 1 \in Asked("set", x)
      BY <2>3
    <3>3. \A b \in bind : ~(b < 1)
      BY <2>3
    <3> HIDE DEF r, tags, bind
    <3> QED BY <1>2, <3>1, <3>2, <3>3
  <2>6. /\ \A j \in Ipcs(x)' : \E t \in tags' : t < j
        /\ \A t \in tags : t \in tags'
    <3>1. \A i \in DOMAIN s : s[i].kind \in IPCKinds /\ s[i].id = x => tags # {}
      BY <2>2, <2>5
    <3> QED BY <1>3, <2>2, <3>1
  <2>7. x \in bound' => tags' # {}
    BY <1>2, <2>1, <2>5, <2>6
  <2>8. ASSUME NEW j \in Asked("get_output", x)', tags' = {} PROVE \E b \in bind' : b < j
    <3>1. j + 1 \in Asked("get_output", x) /\ j \in Nat
      BY <2>3
    <3>2. PICK b \in bind : b < j + 1
      BY <1>2, <2>6, <2>8, <3>1
    <3>3. b # 1 /\ b \in Nat \ {0}
      BY <2>3, <2>4, <2>8
    <3>4. b - 1 \in bind' /\ b - 1 < j
      BY <2>3, <3>1, <3>2, <3>3
    <3> QED BY <3>4
  <2>9. Asked("set", x)' = {}
    BY <1>2, <2>3
  <2> QED BY <2>6, <2>7, <2>8, <2>9 DEF TagsFirstInv
<1>7. ASSUME wire # <<>>, wire' = Tail(wire), Message.kind # "tags", UNCHANGED bound, NEW t \in Seq(Requests),
             requests' = requests \o t,
             \A i \in DOMAIN t : t[i].kind \in {"bind_manager", "bind_output", "get_output", "sync"},
             \A i \in DOMAIN t : t[i].kind = "get_output" =>
               bind # {} \/ tags # {} \/ \E b \in DOMAIN t : b < i /\ t[b] = Request("bind_manager", NoId)
      PROVE  TagsFirstInv(x)'
  <2>1. /\ \A j \in Ipcs(x)' : \E g \in tags' : g < j
        /\ tags # {} => tags' # {}
    BY <1>4, <1>7
  <2>2. /\ Len(requests) \in Nat /\ DOMAIN t \subseteq Nat \ {0}
        /\ \A k, y : Asked(k, y) \subseteq Asked(k, y)' /\ Asked(k, y) \subseteq 1..Len(requests)
        /\ \A k, y : \A i \in Asked(k, y)' : i \in Asked(k, y)
              \/ \E j \in DOMAIN t : i = Len(requests) + j /\ t[j].kind = k /\ t[j].id = y
        /\ \A k, y, j : j \in DOMAIN t /\ t[j].kind = k /\ t[j].id = y => Len(requests) + j \in Asked(k, y)'
    BY <1>0, <1>7, RequestsGrow
  <2>3. Asked("set", x)' = {}
    <3>1. ASSUME NEW i \in Asked("set", x)' PROVE FALSE
      <4>1. PICK j \in DOMAIN t : t[j].kind = "set"
        BY <1>2, <2>2
      <4> QED BY <1>7, <4>1
    <3> QED BY <3>1
  <2>4. ASSUME NEW j \in Asked("get_output", x)'
        PROVE  (\E b \in bind' : b < j) \/ tags' # {}
    <3>1. CASE j \in Asked("get_output", x)
      BY <1>2, <2>1, <2>2, <3>1
    <3>2. CASE j \notin Asked("get_output", x)
      <4>1. PICK i \in DOMAIN t : j = Len(requests) + i /\ t[i].kind = "get_output"
        BY <2>2, <2>4, <3>2
      <4>2. i \in Nat \ {0}
        BY <2>2
      <4>3. CASE \E b \in bind : TRUE
        <5>1. PICK b \in bind : TRUE
          BY <4>3
        <5>2. b \in 1..Len(requests) /\ b \in bind'
          BY <2>2
        <5>3. b < j
          BY <2>2, <4>1, <4>2, <5>2
        <5> QED BY <5>2, <5>3
      <4>4. CASE \E b \in DOMAIN t : b < i /\ t[b] = Request("bind_manager", NoId)
        <5>1. PICK b \in DOMAIN t : b < i /\ t[b] = Request("bind_manager", NoId)
          BY <4>4
        <5>2. t[b].kind = "bind_manager" /\ t[b].id = NoId /\ b \in Nat
          BY <2>2, <5>1 DEF Request
        <5>3. Len(requests) + b \in bind'
          BY <2>2, <5>2
        <5>4. Len(requests) + b < j
          BY <2>2, <4>1, <4>2, <5>1, <5>2
        <5> QED BY <5>3, <5>4
      <4> QED BY <1>7, <2>1, <4>1, <4>3, <4>4
    <3> QED BY <3>1, <3>2
  <2>5. x \in bound' => tags' # {}
    BY <1>2, <1>7, <2>1
  <2> QED BY <2>1, <2>3, <2>4, <2>5 DEF TagsFirstInv
<1>8. requests \o <<>> = requests /\ <<>> \in Seq(Requests) /\ DOMAIN <<>> = {}
  BY <1>0
<1>9. CASE \/ OnManager \/ OnOutput \/ OnRemoved \/ OnName
           \/ OnStale \/ OnActive \/ OnTag \/ OnField \/ OnFrame
  <2>1. wire # <<>> /\ wire' = Tail(wire) /\ UNCHANGED bound /\ Message.kind # "tags" /\ Message \in Messages
    BY <1>0, <1>1, <1>9, DispatchAsks
  <2>2. CASE manager
    <3>1. bind # {} \/ tags # {}
      BY <1>1, <2>2 DEF TagsInv, AheadOf
    <3>2. PICK t \in Seq(Requests) :
              /\ requests' = requests \o t
              /\ \A i \in DOMAIN t : t[i].kind \in {"bind_manager", "bind_output", "get_output"}
      BY <1>0, <1>9, DispatchAsks
    <3> HIDE DEF bind, tags
    <3> QED BY <1>7, <2>1, <3>1, <3>2
  <2>3. CASE OnManager
    <3>1. PICK s \in Seq(Requests) :
           /\ requests' = requests \o s
           /\ 1 \in DOMAIN s /\ DOMAIN s \subseteq Nat \ {0} /\ s[1] = Request("bind_manager", NoId)
           /\ \A j \in DOMAIN s : s[j].kind \in {"bind_manager", "get_output"}
      BY <1>0, <2>3, ManagerAsks
    <3>2. s[1].kind = "bind_manager"
      BY <3>1 DEF Request
    <3>3. \A i \in DOMAIN s : s[i].kind = "get_output" => i # 1 /\ 1 < i
      BY <3>1, <3>2
    <3> HIDE DEF bind, tags
    <3> QED BY <1>7, <2>1, <3>1, <3>3
  <2>4. CASE ~manager /\ OnOutput
    <3> DEFINE q == Request("bind_output", Message.id)
    <3>1. requests' = requests \o <<q>>
      BY <2>4 DEF OnOutput
    <3>2. q \in Requests /\ q.kind = "bind_output"
      <4>1. Message.kind = "output"
        BY <2>4 DEF OnOutput, Arrived, Message
      <4>2. Message.id \in Ids
        BY <2>1, <4>1, MessageShapes
      <4> QED BY <4>2, MessageTypes DEF Request
    <3> HIDE DEF q
    <3>3. <<q>> \in Seq(Requests) /\ \A i \in DOMAIN <<q>> : <<q>>[i] = q
      BY <3>2
    <3> HIDE DEF bind, tags
    <3> QED BY <1>7, <2>1, <3>1, <3>2, <3>3
  <2>5. CASE ~manager /\ ~OnManager /\ ~OnOutput
    <3>1. requests' = requests
      BY <1>9, <2>5 DEF OnRemoved, OnName, OnStale, OnActive, OnTag, OnField, OnFrame, Ipc
    <3> HIDE DEF bind, tags
    <3> QED BY <1>7, <1>8, <2>1, <3>1
  <2> QED BY <2>2, <2>3, <2>4, <2>5
<1>10. CASE OnDone
  <2>1. wire # <<>> /\ wire' = Tail(wire) /\ UNCHANGED bound /\ Message.kind # "tags"
    BY <1>0, <1>10, DispatchTypes DEF OnDone, server
  <2> DEFINE q == Request("sync", NoId)
  <2>2. q \in Requests /\ q.kind = "sync"
    BY MessageTypes DEF Request
  <2>3. requests' = requests \/ requests' = Append(requests, q)
    BY <1>10 DEF OnDone
  <2> HIDE DEF q, bind, tags
  <2>4. <<q>> \in Seq(Requests) /\ Append(requests, q) = requests \o <<q>> /\ \A i \in DOMAIN <<q>> : <<q>>[i] = q
    BY <1>0, <2>2, AppendIsConcat
  <2>5. CASE requests' = requests
    BY <1>7, <1>8, <2>1, <2>5
  <2>6. CASE requests' = requests \o <<q>>
    BY <1>7, <2>1, <2>2, <2>4, <2>6
  <2> QED BY <2>3, <2>4, <2>5, <2>6
<1>11. CASE ServeSet
  BY <1>1, <1>11 DEF ServeSet, BarrierInv, TagsInv, AheadOf
<1>12. CASE UNCHANGED vars
  <2>1. UNCHANGED <<wire, requests, bound>>
    BY <1>12 DEF vars, server
  <2>2. \A k, y : Asked(k, y)' = Asked(k, y) /\ Wires(k, y)' = Wires(k, y) /\ Ipcs(y)' = Ipcs(y)
    BY <2>1, Unmoved
  <2> QED BY <1>2, <2>1, <2>2 DEF TagsFirstInv
<1> QED BY <1>1, <1>5, <1>6, <1>9, <1>10, <1>11, <1>12 DEF Next
LEMMA CountedNext ==
  ASSUME NamesInv, CountedInv, \A x \in Ids : TagsFirstInv(x), [Next]_vars
  PROVE  CountedInv'
<1>0. ServerTypeOK /\ ClientTypeOK /\ TypesInv /\ wire \in Seq(Messages)
  BY DEF NamesInv, WorldInv, TypesInv, ServerTypeOK
<1>1. ASSUME NEW f, NEW g, NEW n, NEW v
      PROVE  /\ g = With(f, n, v) => \A m \in DOMAIN g : (m \in DOMAIN f /\ g[m] = f[m]) \/ g[m] = v
             /\ g = Without(f, n) => \A m \in DOMAIN g : m \in DOMAIN f /\ g[m] = f[m]
  BY DEF With, Without
<1>2. CASE UNCHANGED <<tagCount, committed, pending>>
  BY <1>2 DEF CountedInv
<1>3. CASE OnTags
  <2>1. /\ tagCount' = NTags /\ pending' = pending
        /\ committed' = [n \in DOMAIN committed |-> [committed[n] EXCEPT !.ntags = NTags]]
    BY <1>3 DEF OnTags
  <2>2. \A n \in DOMAIN committed : committed[n] \in [ntags : Nat, facts : FactSets]
    BY <1>0 DEF ClientTypeOK, OutputStates
  <2>3. \A n \in DOMAIN committed' : committed'[n].ntags = NTags
    BY <2>1, <2>2
  <2>4. \A n \in DOMAIN pending : pending[n].ntags = NTags
    BY DEF CountedInv
  <2> QED BY <2>1, <2>3, <2>4 DEF CountedInv
<1>4. CASE OnRemoved
  <2>1. committed' = Without(committed, NameOf) /\ UNCHANGED <<pending, tagCount>>
    BY <1>4 DEF OnRemoved
  <2>2. \A m \in DOMAIN committed' : m \in DOMAIN committed /\ committed'[m] = committed[m]
    BY <1>1, <2>1
  <2> QED BY <2>1, <2>2 DEF CountedInv
<1>5. CASE OnName
  <2>1. UNCHANGED <<pending, tagCount>>
    BY <1>0, <1>5, NameCommits, NameEffect
  <2>2. \/ committed' = committed
        \/ committed' = With(committed, Message.name, Blank(tagCount))
    BY <1>5, NameCommits
  <2>3. Blank(tagCount).ntags = tagCount
    BY DEF Blank
  <2>4. \A m \in DOMAIN committed' : (m \in DOMAIN committed /\ committed'[m] = committed[m])
                                       \/ committed'[m] = Blank(tagCount)
    BY <1>1, <2>2
  <2> QED BY <2>1, <2>3, <2>4 DEF CountedInv
<1>6. ASSUME NEW k \in IPCKinds, Ipc(k)
      PROVE  tagCount' = tagCount /\ tagCount = NTags /\ PendingState(NameOf) \in OutputStates
             /\ PendingState(NameOf).ntags = NTags
  <2>1. /\ wire # <<>> /\ Message.kind = k /\ wire' = Tail(wire) /\ Message.id \in Ids /\ UNCHANGED tagCount
    BY <1>0, <1>6, IpcTypes
  <2>2. 1 \in Ipcs(Message.id)
    BY <1>0, <2>1, WireShift
  <2>3. \A t \in Wires("tags", NoId) : ~(t < 1)
    BY <1>0, <2>1, WireShift
  <2>4. tagCount = NTags
    BY <2>1, <2>2, <2>3 DEF TagsFirstInv
  <2>5. NameOf \in DOMAIN committed /\ PendingState(NameOf) \in OutputStates
    BY <1>6, StatusNamed
  <2> QED BY <2>1, <2>4, <2>5 DEF PendingState, CountedInv
<1>7. ASSUME NEW k \in IPCKinds, Ipc(k), NEW v, v.ntags = NTags,
             \/ pending' = With(pending, NameOf, v) /\ UNCHANGED committed
             \/ pending' = Without(pending, NameOf) /\ committed' = With(committed, NameOf, v)
      PROVE  CountedInv'
  <2>1. \A m \in DOMAIN pending' : (m \in DOMAIN pending /\ pending'[m] = pending[m]) \/ pending'[m] = v
    BY <1>1, <1>7
  <2>2. \A m \in DOMAIN committed' : (m \in DOMAIN committed /\ committed'[m] = committed[m]) \/ committed'[m] = v
    BY <1>1, <1>7
  <2> QED BY <1>6, <1>7, <2>1, <2>2 DEF CountedInv
<1>8. CASE OnActive
  <2>1. Ipc("active") /\ pending' = With(pending, NameOf, PendingState(NameOf)) /\ UNCHANGED committed
    BY <1>8 DEF OnActive
  <2> QED BY <1>6, <1>7, <2>1 DEF IPCKinds
<1>9. CASE OnTag
  <2> DEFINE p == PendingState(NameOf)
             v == IF Message.tag >= p.ntags THEN p
                  ELSE [p EXCEPT !.facts["tags"] = IF Message.on THEN p.facts["tags"] \cup {Message.tag}
                                                                 ELSE p.facts["tags"] \ {Message.tag}]
  <2>1. Ipc("tag") /\ pending' = With(pending, NameOf, v) /\ UNCHANGED committed
    BY <1>9 DEF OnTag
  <2>2. p \in [ntags : Nat, facts : FactSets] /\ p.ntags = NTags
    BY <1>6, <2>1 DEF IPCKinds, OutputStates
  <2>3. v.ntags = NTags
    <3> HIDE DEF p
    <3> QED BY <2>2
  <2> HIDE DEF v
  <2> QED BY <1>7, <2>1, <2>3 DEF IPCKinds
<1>10. CASE OnField
  <2> DEFINE p == PendingState(NameOf)
             v == [p EXCEPT !.facts[Message.field] = Message.value]
  <2>1. Ipc("field") /\ pending' = With(pending, NameOf, v) /\ UNCHANGED committed
    BY <1>10 DEF OnField
  <2>2. p \in [ntags : Nat, facts : FactSets] /\ p.ntags = NTags
    BY <1>6, <2>1 DEF IPCKinds, OutputStates
  <2>3. v.ntags = NTags
    <3> HIDE DEF p
    <3> QED BY <2>2
  <2> HIDE DEF v
  <2> QED BY <1>7, <2>1, <2>3 DEF IPCKinds
<1>11. CASE OnFrame
  <2>1. /\ Ipc("frame") /\ pending' = Without(pending, NameOf)
        /\ committed' = With(committed, NameOf, PendingState(NameOf))
    BY <1>11 DEF OnFrame
  <2> QED BY <1>6, <1>7, <2>1 DEF IPCKinds
<1>12. \/ UNCHANGED <<tagCount, committed, pending>> \/ OnTags \/ OnRemoved \/ OnName
       \/ OnActive \/ OnTag \/ OnField \/ OnFrame
  BY DEF Next, Plug, Unplug, Change, Focus, HandleRequest, OnDone, OnManager, OnOutput, OnStale, ServeSet, client, vars
<1> QED BY <1>2, <1>3, <1>4, <1>5, <1>8, <1>9, <1>10, <1>11, <1>12

LEMMA IpcNext == TypesInv /\ IpcInv /\ [Next]_vars => IpcInv'
<1> SUFFICES ASSUME TypesInv, IpcInv, [Next]_vars PROVE IpcInv'
  OBVIOUS
<1>0. ServerTypeOK /\ ClientTypeOK /\ deferred \in Seq(Ids)
      /\ \A y \in DOMAIN outputs : outputs[y] \in [name : AllNames, ipc : BOOLEAN]
  BY DEF TypesInv, ClientTypeOK
<1>1. CASE UNCHANGED <<manager, outputs, deferred>>
  BY <1>1 DEF IpcInv
<1>2. CASE OnManager
  <2>1. /\ manager'
        /\ outputs' = [id \in DOMAIN outputs \cup {deferred[i] : i \in DOMAIN deferred} |->
                         IF \E i \in DOMAIN deferred : deferred[i] = id
                         THEN [name |-> Provisional(id), ipc |-> TRUE] ELSE outputs[id]]
    BY <1>2 DEF OnManager
  <2>2. DOMAIN deferred = 1..Len(deferred)
    BY <1>0
  <2>3. ASSUME NEW id \in DOMAIN outputs' PROVE outputs'[id].ipc
    <3>1. CASE \E i \in DOMAIN deferred : deferred[i] = id
      BY <2>1, <3>1
    <3>2. CASE ~\E i \in DOMAIN deferred : deferred[i] = id
      BY <2>1, <2>2, <3>2 DEF IpcInv
    <3> QED BY <3>1, <3>2
  <2> QED BY <2>1, <2>3 DEF IpcInv
<1>3. CASE OnOutput
  <2>1. /\ outputs' = With(outputs, Message.id, [name |-> Provisional(Message.id), ipc |-> manager])
        /\ deferred' = (IF manager THEN deferred ELSE Append(deferred, Message.id)) /\ UNCHANGED manager
    BY <1>3 DEF OnOutput
  <2>2. /\ DOMAIN outputs' = DOMAIN outputs \cup {Message.id}
        /\ outputs'[Message.id].ipc = manager
        /\ \A y \in DOMAIN outputs \ {Message.id} : outputs'[y] = outputs[y]
    BY <2>1 DEF With
  <2>3. Message.id \in Ids
    <3>1. Message \in Messages /\ Message.kind = "output"
      BY <1>0, <1>3, DispatchTypes DEF OnOutput
    <3> QED BY <3>1, MessageShapes
  <2>4. ~manager => /\ \A i \in 1..Len(deferred) : i \in 1..Len(deferred') /\ deferred'[i] = deferred[i]
                    /\ Len(deferred') \in 1..Len(deferred') /\ deferred'[Len(deferred')] = Message.id
    BY <1>0, <2>1, <2>3
  <2>5. ASSUME ~manager, NEW y \in DOMAIN outputs' PROVE \E i \in 1..Len(deferred') : deferred'[i] = y
    BY <2>2, <2>4, <2>5 DEF IpcInv
  <2> QED BY <2>1, <2>2, <2>5 DEF IpcInv
<1>4. CASE OnRemoved
  <2>1. outputs' = Without(outputs, Message.id) /\ UNCHANGED <<manager, deferred>>
    BY <1>4 DEF OnRemoved
  <2>2. \A y \in DOMAIN outputs' : y \in DOMAIN outputs /\ outputs'[y] = outputs[y]
    BY <2>1 DEF Without
  <2> QED BY <2>1, <2>2 DEF IpcInv
<1>5. CASE OnName
  <2>1. /\ UNCHANGED <<manager, deferred>>
        /\ outputs' = IF Message.id \in DOMAIN outputs
                      THEN [outputs EXCEPT ![Message.id] = [name |-> Message.name, ipc |-> @.ipc \/ manager]]
                      ELSE outputs
    BY <1>5 DEF OnName
  <2>2. /\ DOMAIN outputs' = DOMAIN outputs
        /\ \A y \in DOMAIN outputs : manager => outputs'[y].ipc
    BY <2>1 DEF IpcInv
  <2> QED BY <2>1, <2>2 DEF IpcInv
<1>6. UNCHANGED <<manager, outputs, deferred>> \/ OnManager \/ OnOutput \/ OnRemoved \/ OnName
  BY DEF Next, Plug, Unplug, Change, Focus, HandleRequest, OnDone, OnTags, OnStale, OnActive, OnTag, OnField, OnFrame,
         Ipc, ServeSet, client, vars
<1> QED BY <1>1, <1>2, <1>3, <1>4, <1>5, <1>6

LEMMA ReadyInit == Init => ReadyInv
<1> SUFFICES ASSUME Init PROVE ReadyInv
  OBVIOUS
<1>0. NamesInv
  BY NamesInit
<1>1. /\ phase = "globals" /\ ~manager /\ DOMAIN outputs = {} /\ deferred = <<>> /\ requests = <<>>
      /\ DOMAIN committed = {} /\ DOMAIN pending = {} /\ bound = {} /\ focusedName = NoName /\ tagCount = 0
      /\ unused = Ids \ AtStart
  BY DEF Init
<1>2. PICK n \in Nat : \E order \in [1..n -> AtStart \cup {NoId}] :
           /\ \A i, j \in 1..n : order[i] = order[j] => i = j
           /\ wire \in Seq(Messages) /\ Len(wire) = n + 1
           /\ wire[n + 1] = Msg("done", NoId)
           /\ \A i \in 1..n : wire[i] = Msg(IF order[i] = NoId THEN "manager" ELSE "output", order[i])
  BY FirstMessages
<1>3. wire[n + 1].kind = "done" /\ \A i \in 1..n : wire[i].kind \in {"manager", "output"}
  <2>1. wire[n + 1].kind = "done"
    BY <1>2 DEF Msg
  <2>2. ASSUME NEW i \in 1..n PROVE wire[i].kind \in {"manager", "output"}
    <3>1. PICK k \in {"manager", "output"}, y \in AtStart \cup {NoId} : wire[i] = Msg(k, y)
      BY <1>2
    <3> QED BY <3>1 DEF Msg
  <2> QED BY <2>1, <2>2
<1>4. \A k, y : Asked(k, y) = {}
  BY <1>1 DEF Asked
<1>5. /\ \A d \in Wires("done", NoId) : d = n + 1
      /\ \A y : \A i \in Wires("output", y) : i \in 1..n
      /\ \A y : Ipcs(y) = {}
  <2>1. \A i \in 1..Len(wire) : i \in 1..n \/ i = n + 1
    BY <1>2
  <2>2. {"done", "manager", "output"} \cap IPCKinds = {}
    BY DEF IPCKinds
  <2> QED BY <1>3, <2>1, <2>2 DEF Wires, Ipcs
<1>6. BarrierInv
  BY <1>1, <1>4, <1>5 DEF BarrierInv
<1>7. ASSUME NEW x \in AtStart PROVE FirstInv(x)
  BY <1>1, <1>5 DEF FirstInv
<1>10. ASSUME NEW x \in AtStart PROVE FramedInv(x)
  BY <1>1 DEF FramedInv
<1>8. ASSUME NEW x \in Ids PROVE TagsFirstInv(x)
  BY <1>1, <1>4, <1>5 DEF TagsFirstInv
<1>9. TagsInv /\ CountedInv /\ IpcInv
  BY <1>1 DEF TagsInv, CountedInv, IpcInv
<1> QED BY <1>0, <1>1, <1>6, <1>7, <1>8, <1>9, <1>10 DEF ReadyInv

LEMMA ReadyNext == ReadyInv /\ [Next]_vars => ReadyInv'
<1> SUFFICES ASSUME ReadyInv, [Next]_vars PROVE ReadyInv'
  OBVIOUS
<1>1. NamesInv /\ TypesInv /\ StartInv /\ BarrierInv /\ TagsInv /\ CountedInv /\ IpcInv /\ ServerTypeOK /\ ClientTypeOK
  BY DEF ReadyInv, NamesInv, WorldInv, TypesInv
<1>2. NamesInv' /\ BarrierInv' /\ TagsInv' /\ IpcInv'
  BY <1>1, NamesNext, BarrierNext, TagsNext, IpcNext
<1>3. \A x \in AtStart : FirstInv(x)' /\ FramedInv(x)'
  BY <1>1, FirstNext, FramedNext DEF ReadyInv
<1>4. \A x \in Ids : TagsFirstInv(x)'
  BY <1>1, TagsFirstNext DEF ReadyInv
<1>5. CountedInv'
  BY <1>1, CountedNext DEF ReadyInv
<1>6. focusedId' = NoId => focusedName' = NoName
  <2>1. CASE UNCHANGED <<focusedId, focusedName>>
    BY <2>1 DEF ReadyInv
  <2>2. CASE OnName
    BY <1>1, <2>2, NameEffect DEF ReadyInv
  <2>3. CASE OnActive
    <3>1. Ipc("active") /\ focusedId' = (IF Message.on THEN Message.id ELSE focusedId)
          /\ (~Message.on => focusedName' = focusedName)
      BY <2>3 DEF OnActive
    <3>2. Message.id \in Ids
      BY <1>1, <3>1, IpcTypes
    <3> QED BY <3>1, <3>2 DEF ReadyInv
  <2>4. UNCHANGED <<focusedId, focusedName>> \/ OnName \/ OnActive
    BY DEF Next, Plug, Unplug, Change, Focus, HandleRequest, OnDone, OnManager, OnOutput, OnRemoved, OnTags,
           OnStale, OnTag, OnField, OnFrame, ServeSet, client, vars
  <2> QED BY <2>1, <2>2, <2>3, <2>4
<1> QED BY <1>2, <1>3, <1>4, <1>5, <1>6 DEF ReadyInv

(* When the adapter tells its subscriber that it is ready, the second        *)
(* roundtrip of run_wayland_loop has brought the number of tags, and every   *)
(* output of the start that is still there has its own name, its IPC object  *)
(* and the state that its first frame committed, and there is a focus; in    *)
(* whatever order the registry announces them, and whatever is plugged or    *)
(* removed meanwhile.                                                        *)
THEOREM ReadyCompletes == Spec => []ReadyIsComplete
<1>1. ReadyInv => ReadyIsComplete
  <2> SUFFICES ASSUME ReadyInv, phase = "ready"
               PROVE  /\ tagCount = NTags
                      /\ \A id \in AtStart \cap DOMAIN outputs :
                           /\ outputs[id].name \in DOMAIN committed \cap Names
                           /\ outputs[id].ipc
                           /\ id \in framed
                           /\ committed[outputs[id].name].ntags = NTags
                           /\ focusedId # NoId
    BY DEF ReadyIsComplete
  <2>1. manager /\ tagCount = NTags
    BY DEF ReadyInv, BarrierInv, TagsInv, AheadOf
  <2> SUFFICES ASSUME NEW id \in AtStart \cap DOMAIN outputs
               PROVE  /\ outputs[id].name \in DOMAIN committed \cap Names
                      /\ outputs[id].ipc
                      /\ id \in framed
                      /\ committed[outputs[id].name].ntags = NTags
                      /\ focusedId # NoId
    BY <2>1
  <2>2. outputs[id].name \in Names
    BY DEF ReadyInv, FirstInv, AheadOf
  <2>3. outputs[id].name \in DOMAIN committed /\ focusedName # NoName
    BY <2>2 DEF ReadyInv, NamesInv, CommittedInv
  <2>4. id \in framed
    BY <2>1 DEF ReadyInv, FramedInv, AheadOf
  <2> QED BY <2>1, <2>2, <2>3, <2>4 DEF ReadyInv, IpcInv, CountedInv
<1> QED BY <1>1, ReadyInit, ReadyNext, PTL DEF Spec

-----------------------------------------------------------------------------
(* The picture of the compositor.                                            *)

(* What the compositor writes at once: every status is whole, nothing about  *)
(* its output is written within it, and it says what is so, with g for the   *)
(* facts of the outputs and a for the active one.                            *)
Framed(s, x) ==
  \A i \in DOMAIN s : s[i].kind \in IPCKinds /\ s[i].id = x =>
    \E j \in DOMAIN s :
      /\ i <= j /\ s[j].kind = "frame" /\ s[j].id = x
      /\ \A r \in DOMAIN s : s[r].kind = "removed" /\ s[r].id = x => r < i \/ j < r

SaysSo(m, g, a) ==
  /\ m.kind = "tag" => (m.on <=> m.tag \in g[m.id]["tags"])
  /\ m.kind = "field" => m.value = g[m.id][m.field]
  /\ m.kind = "active" /\ m.on => m.id = a

Sends(s, g, a) ==
  /\ s \in Seq(Messages)
  /\ \A x : Framed(s, x)
  /\ \A i \in DOMAIN s : SaysSo(s[i], g, a)

(* It says everything about x. *)
Whole(s, x) ==
  /\ \A t \in Tags : \E i \in DOMAIN s : s[i].kind = "tag" /\ s[i].id = x /\ s[i].tag = t
  /\ \A f \in Fields : \E i \in DOMAIN s : s[i].kind = "field" /\ s[i].id = x /\ s[i].field = f

TellsFocus(s) == \E i \in DOMAIN s : s[i].kind = "active" /\ s[i].on

(* Two sequences of messages, one after the other. *)
LEMMA Joined ==
  ASSUME NEW s \in Seq(Messages), NEW u \in Seq(Messages)
  PROVE  /\ s \o u \in Seq(Messages) /\ Len(s) \in Nat /\ Len(u) \in Nat
         /\ DOMAIN s = 1..Len(s) /\ DOMAIN u = 1..Len(u)
         /\ DOMAIN (s \o u) = 1..(Len(s) + Len(u))
         /\ \A i \in DOMAIN s : i \in DOMAIN (s \o u) /\ (s \o u)[i] = s[i] /\ i \in Nat /\ i <= Len(s)
         /\ \A i \in DOMAIN u : i + Len(s) \in DOMAIN (s \o u) /\ (s \o u)[i + Len(s)] = u[i] /\ i \in Nat /\ i >= 1
         /\ \A i \in DOMAIN (s \o u) :
              \/ i \in DOMAIN s /\ (s \o u)[i] = s[i]
              \/ \E h \in DOMAIN u : i = h + Len(s) /\ (s \o u)[i] = u[h]
<1>1. /\ s \o u \in Seq(Messages) /\ Len(s) \in Nat /\ Len(u) \in Nat
      /\ DOMAIN s = 1..Len(s) /\ DOMAIN u = 1..Len(u) /\ DOMAIN (s \o u) = 1..(Len(s) + Len(u))
  OBVIOUS
<1>2. /\ \A i \in 1..Len(s) : (s \o u)[i] = s[i]
      /\ \A i \in 1..Len(u) : (s \o u)[i + Len(s)] = u[i]
  OBVIOUS
<1>3. ASSUME NEW i \in DOMAIN (s \o u)
      PROVE  \/ i \in DOMAIN s /\ (s \o u)[i] = s[i]
             \/ \E h \in DOMAIN u : i = h + Len(s) /\ (s \o u)[i] = u[h]
  <2>1. i \in 1..Len(s) \/ (i - Len(s) \in 1..Len(u) /\ i = (i - Len(s)) + Len(s))
    BY <1>1
  <2> QED BY <1>1, <1>2, <2>1
<1> QED BY <1>1, <1>2, <1>3

LEMMA JoinedAt ==
  ASSUME NEW M, NEW s \in Seq(M), NEW u \in Seq(M)
  PROVE  /\ s \o u \in Seq(M) /\ Len(s) \in Nat /\ Len(u) \in Nat /\ Len(s \o u) = Len(s) + Len(u)
         /\ \A i \in 1..Len(s) : (s \o u)[i] = s[i]
         /\ \A i \in 1..Len(u) : (s \o u)[i + Len(s)] = u[i]
OBVIOUS

LEMMA SendsJoined ==
  ASSUME NEW g, NEW a, NEW s, NEW u, Sends(s, g, a), Sends(u, g, a)
  PROVE  /\ Sends(s \o u, g, a)
         /\ \A x : Whole(s, x) \/ Whole(u, x) => Whole(s \o u, x)
         /\ TellsFocus(s) \/ TellsFocus(u) => TellsFocus(s \o u)
<1>0. s \in Seq(Messages) /\ u \in Seq(Messages)
  BY DEF Sends
<1> DEFINE w == s \o u
           n == Len(s)
<1>1. /\ w \in Seq(Messages) /\ n \in Nat
      /\ \A i \in DOMAIN s : i \in DOMAIN w /\ w[i] = s[i] /\ i \in Nat /\ i <= n
      /\ \A i \in DOMAIN u : i + n \in DOMAIN w /\ w[i + n] = u[i] /\ i \in Nat /\ i >= 1
      /\ \A i \in DOMAIN w : (i \in DOMAIN s /\ w[i] = s[i]) \/ \E h \in DOMAIN u : i = h + n /\ w[i] = u[h]
  BY ONLY <1>0, Joined
<1> HIDE DEF w, n
<1>2. ASSUME NEW x PROVE Framed(w, x)
  <2>1. SUFFICES ASSUME NEW i \in DOMAIN w, w[i].kind \in IPCKinds, w[i].id = x
                 PROVE  \E j \in DOMAIN w :
                          /\ i <= j /\ w[j].kind = "frame" /\ w[j].id = x
                          /\ \A r \in DOMAIN w : w[r].kind = "removed" /\ w[r].id = x => r < i \/ j < r
    BY DEF Framed
  <2>2. CASE i \in DOMAIN s /\ w[i] = s[i]
    <3>1. PICK j \in DOMAIN s :
            /\ i <= j /\ s[j].kind = "frame" /\ s[j].id = x
            /\ \A r \in DOMAIN s : s[r].kind = "removed" /\ s[r].id = x => r < i \/ j < r
      BY <2>1, <2>2 DEF Sends, Framed
    <3>2. ASSUME NEW r \in DOMAIN w, w[r].kind = "removed", w[r].id = x PROVE r < i \/ j < r
      <4>1. CASE r \in DOMAIN s /\ w[r] = s[r]
        BY <3>1, <3>2, <4>1
      <4>2. CASE \E h \in DOMAIN u : r = h + n
        BY <1>1, <3>1, <4>2
      <4> QED BY <1>1, <3>2, <4>1, <4>2
    <3> QED BY <1>1, <3>1, <3>2
  <2>3. ASSUME NEW h \in DOMAIN u, i = h + n, w[i] = u[h]
        PROVE  \E j \in DOMAIN w :
                 /\ i <= j /\ w[j].kind = "frame" /\ w[j].id = x
                 /\ \A r \in DOMAIN w : w[r].kind = "removed" /\ w[r].id = x => r < i \/ j < r
    <3>1. PICK j \in DOMAIN u :
            /\ h <= j /\ u[j].kind = "frame" /\ u[j].id = x
            /\ \A r \in DOMAIN u : u[r].kind = "removed" /\ u[r].id = x => r < h \/ j < r
      BY <2>1, <2>3 DEF Sends, Framed
    <3>2. ASSUME NEW r \in DOMAIN w, w[r].kind = "removed", w[r].id = x PROVE r < i \/ j + n < r
      <4>1. CASE r \in DOMAIN s
        BY <1>1, <2>3, <4>1
      <4>2. ASSUME NEW q \in DOMAIN u, r = q + n, w[r] = u[q] PROVE r < i \/ j + n < r
        <5>1. q < h \/ j < q
          BY <3>1, <3>2, <4>2
        <5> QED BY <1>1, <2>3, <4>2, <5>1
      <4> QED BY <1>1, <3>2, <4>1, <4>2
    <3>3. j + n \in DOMAIN w /\ w[j + n] = u[j] /\ i <= j + n
      BY <1>1, <2>3, <3>1
    <3> QED BY <3>1, <3>2, <3>3
  <2> QED BY <1>1, <2>2, <2>3
<1>3. \A i \in DOMAIN w : SaysSo(w[i], g, a)
  BY <1>1 DEF Sends
<1>4. ASSUME NEW x, Whole(s, x) \/ Whole(u, x) PROVE Whole(w, x)
  <2>1. CASE Whole(s, x)
    <3>1. \A i \in DOMAIN s : i \in DOMAIN w /\ w[i] = s[i]
      BY <1>1
    <3> QED BY ONLY <2>1, <3>1 DEF Whole
  <2>2. CASE Whole(u, x)
    <3>1. \A i \in DOMAIN u : i + n \in DOMAIN w /\ w[i + n] = u[i]
      BY <1>1
    <3> QED BY ONLY <2>2, <3>1 DEF Whole
  <2> QED BY <1>4, <2>1, <2>2
<1>5. TellsFocus(s) \/ TellsFocus(u) => TellsFocus(w)
  BY <1>1 DEF TellsFocus
<1> QED BY <1>1, <1>2, <1>3, <1>4, <1>5 DEF Sends, w

(* A message that is no status, and none at all. *)
LEMMA OtherSends ==
  ASSUME NEW g, NEW a, NEW m \in Messages, m.kind \notin IPCKinds
  PROVE  Sends(<<m>>, g, a)
<1>1. <<m>> \in Seq(Messages) /\ DOMAIN <<m>> = {1} /\ <<m>>[1] = m
  OBVIOUS
<1>2. m.kind \notin {"tag", "field", "active"}
  BY DEF IPCKinds
<1> QED BY <1>1, <1>2 DEF Sends, Framed, SaysSo

LEMMA NothingSends ==
  ASSUME NEW g, NEW a
  PROVE  Sends(<<>>, g, a)
BY DEF Sends, Framed

(* What a status is made of. *)
LEMMA StatusParts ==
  ASSUME NEW id \in Ids, NEW h \in FactSets, NEW on \in BOOLEAN
  PROVE  LET s == StatusOf(id, h, on)
         IN  /\ \A i \in DOMAIN s : \/ s[i] = ActiveMsg(id, on) \/ s[i] = Msg("frame", id)
                                    \/ \E t \in Tags : s[i] = TagMsg(id, t, t \in h["tags"])
                                    \/ \E f \in Fields : s[i] = Update(id, f, h[f])
             /\ \A t \in Tags : \E i \in DOMAIN s : s[i] = TagMsg(id, t, t \in h["tags"])
             /\ \A f \in Fields : \E i \in DOMAIN s : s[i] = Update(id, f, h[f])
             /\ \E i \in DOMAIN s : s[i] = ActiveMsg(id, on)
             /\ \E n \in DOMAIN s : s[n] = Msg("frame", id) /\ \A i \in DOMAIN s : i <= n
<1> DEFINE n == Cardinality(Fields)
           A == <<ActiveMsg(id, on)>>
           T == [i \in 1..NTags |-> TagMsg(id, i - 1, i - 1 \in h["tags"])]
           F == [i \in 1..n |-> Update(id, FieldOrder[i], h[FieldOrder[i]])]
           E == <<Msg("frame", id)>>
           M == {ActiveMsg(id, on), Msg("frame", id)} \cup {TagMsg(id, t, t \in h["tags"]) : t \in Tags}
                  \cup {Update(id, f, h[f]) : f \in Fields}
           s == StatusOf(id, h, on)
<1>1. n \in Nat /\ \A i \in 1..n : FieldOrder[i] \in Fields
  BY FieldsOrdered
<1>2. \A i \in 1..NTags : i - 1 \in Tags
  BY DEF Tags
<1>3. T \in Seq(M) /\ DOMAIN T = 1..NTags /\ \A i \in 1..NTags : T[i] = TagMsg(id, i - 1, i - 1 \in h["tags"])
  <2>1. \A i \in 1..NTags : TagMsg(id, i - 1, i - 1 \in h["tags"]) \in M
    BY <1>2
  <2> HIDE DEF M
  <2> QED BY <2>1, IsASeq
<1>4. F \in Seq(M) /\ DOMAIN F = 1..n /\ \A i \in 1..n : F[i] = Update(id, FieldOrder[i], h[FieldOrder[i]])
  <2>1. \A i \in 1..n : Update(id, FieldOrder[i], h[FieldOrder[i]]) \in M
    BY <1>1
  <2> HIDE DEF M, n
  <2> QED BY <1>1, <2>1, IsASeq
<1>5. ActiveMsg(id, on) \in M /\ Msg("frame", id) \in M
  OBVIOUS
<1>6. s = ((A \o T) \o F) \o E
  BY DEF StatusOf
<1>7. \A m \in M : \/ m = ActiveMsg(id, on) \/ m = Msg("frame", id)
                   \/ \E t \in Tags : m = TagMsg(id, t, t \in h["tags"])
                   \/ \E f \in Fields : m = Update(id, f, h[f])
  OBVIOUS
<1> HIDE DEF T, F, M, s
<1>8. A \in Seq(M) /\ E \in Seq(M) /\ Len(A) = 1 /\ Len(E) = 1 /\ A[1] = ActiveMsg(id, on) /\ E[1] = Msg("frame", id)
  BY <1>5
<1> HIDE DEF A, E
<1> DEFINE u == (A \o T) \o F
           p == Len(T)
           q == Len(F)
<1>9. p \in Nat /\ q \in Nat /\ p = NTags /\ q = n
  BY <1>1, <1>3, <1>4
<1>10. A \o T \in Seq(M) /\ Len(A \o T) = 1 + p /\ (A \o T)[1] = A[1] /\ \A i \in 1..p : (A \o T)[i + 1] = T[i]
  <2>1. T \in Seq(M) /\ A \in Seq(M)
    BY <1>3, <1>8
  <2>2. /\ A \o T \in Seq(M) /\ Len(A \o T) = Len(A) + Len(T)
        /\ \A i \in 1..Len(A) : (A \o T)[i] = A[i]
        /\ \A i \in 1..Len(T) : (A \o T)[i + Len(A)] = T[i]
    BY ONLY <2>1, JoinedAt
  <2> DEFINE v == A \o T
  <2> HIDE DEF p, v
  <2>3. v \in Seq(M) /\ Len(v) = 1 + p /\ v[1] = A[1] /\ \A i \in 1..p : v[i + 1] = T[i]
    BY <1>8, <2>2 DEF v, p
  <2> QED BY <2>3 DEF v
<1>11. /\ u \in Seq(M) /\ Len(u) = 1 + p + q
       /\ \A i \in 1..(1 + p) : u[i] = (A \o T)[i]
       /\ \A i \in 1..q : u[i + (1 + p)] = F[i]
  <2> DEFINE v == A \o T
  <2> HIDE DEF v, u, p, q
  <2>1. v \in Seq(M) /\ Len(v) = 1 + p
    BY <1>10 DEF v
  <2>3. F \in Seq(M) /\ Len(F) = q
    BY <1>4 DEF q
  <2>5. v \in Seq(M) /\ F \in Seq(M)
    BY <2>1, <2>3
  <2>4. /\ v \o F \in Seq(M) /\ Len(v \o F) = Len(v) + Len(F)
        /\ \A i \in 1..Len(v) : (v \o F)[i] = v[i]
        /\ \A i \in 1..Len(F) : (v \o F)[i + Len(v)] = F[i]
    BY ONLY <2>5, JoinedAt
  <2>2. /\ v \o F \in Seq(M) /\ Len(v \o F) = 1 + p + q /\ \A i \in 1..(1 + p) : (v \o F)[i] = v[i]
        /\ \A i \in 1..q : (v \o F)[i + (1 + p)] = F[i]
    BY ONLY <2>1, <2>3, <2>4
  <2> QED BY ONLY <2>2 DEF v, u
<1>18. \A i \in 1..q : u[i + (1 + p)] = F[i]
  BY <1>11
<1> HIDE DEF u
<1>12. s \in Seq(M) /\ Len(s) = 2 + p + q
       /\ \A i \in 1..(1 + p + q) : s[i] = u[i]
       /\ s[2 + p + q] = E[1]
  <2>1. s = u \o E
    BY <1>6 DEF u
  <2>2. u \in Seq(M) /\ Len(u) = 1 + p + q
    BY <1>11
  <2>3. /\ s \in Seq(M) /\ Len(s) = Len(u) + Len(E) /\ \A i \in 1..Len(u) : s[i] = u[i]
        /\ \A i \in 1..Len(E) : s[i + Len(u)] = E[i]
    BY ONLY <1>8, <2>1, <2>2, JoinedAt
  <2> HIDE DEF p, q
  <2>4. 1 \in 1..Len(E) /\ 1 + Len(u) = 2 + p + q /\ Len(u) + Len(E) = 2 + p + q
    BY <1>8, <1>9, <2>2
  <2> QED BY <2>2, <2>3, <2>4
<1> HIDE DEF p, q
<1>13. DOMAIN s = 1..(2 + p + q) /\ \A i \in DOMAIN s : s[i] \in M
  BY <1>9, <1>12
<1>14. 1 \in DOMAIN s /\ s[1] = ActiveMsg(id, on)
  <2>1. 1 \in 1..(1 + p + q) /\ 1 \in 1..(1 + p) /\ 1 \in 1..(2 + p + q)
    BY <1>9
  <2> QED BY <1>8, <1>10, <1>11, <1>12, <1>13, <2>1
<1>15. 2 + p + q \in DOMAIN s /\ s[2 + p + q] = Msg("frame", id) /\ \A i \in DOMAIN s : i <= 2 + p + q
  <2>1. 2 + p + q \in 1..(2 + p + q)
    BY <1>9
  <2> QED BY <1>8, <1>9, <1>12, <1>13, <2>1
<1>16. ASSUME NEW t \in Tags PROVE \E i \in DOMAIN s : s[i] = TagMsg(id, t, t \in h["tags"])
  <2>1. t + 1 \in 1..p /\ (t + 1) + 1 \in 1..(1 + p) /\ (t + 1) + 1 \in 1..(1 + p + q)
        /\ (t + 1) + 1 \in DOMAIN s /\ (t + 1) - 1 = t /\ t + 1 \in 1..NTags
    BY <1>9, <1>13 DEF Tags
  <2>2. s[(t + 1) + 1] = T[t + 1]
    <3>1. s[(t + 1) + 1] = u[(t + 1) + 1]
      BY <1>12, <2>1
    <3>2. u[(t + 1) + 1] = (A \o T)[(t + 1) + 1]
      BY <1>11, <2>1
    <3>3. (A \o T)[(t + 1) + 1] = T[t + 1]
      BY <1>10, <2>1
    <3> QED BY <3>1, <3>2, <3>3
  <2>3. T[t + 1] = TagMsg(id, (t + 1) - 1, (t + 1) - 1 \in h["tags"])
    BY <1>3, <2>1
  <2> QED BY <2>1, <2>2, <2>3
<1>17. ASSUME NEW f \in Fields PROVE \E i \in DOMAIN s : s[i] = Update(id, f, h[f])
  <2>1. PICK i \in 1..n : FieldOrder[i] = f
    BY FieldsOrdered
  <2>2. i \in 1..q /\ i + (1 + p) \in 1..(1 + p + q) /\ i + (1 + p) \in DOMAIN s
    BY <1>1, <1>9, <1>13
  <2>3. s[i + (1 + p)] = F[i] /\ F[i] = Update(id, f, h[f])
    <3>1. s[i + (1 + p)] = u[i + (1 + p)]
      BY <1>12, <2>2
    <3>2. u[i + (1 + p)] = F[i]
      BY ONLY <1>18, <2>2
    <3>3. F[i] = Update(id, f, h[f])
      BY <1>4, <2>1
    <3> QED BY <3>1, <3>2, <3>3
  <2> QED BY <2>2, <2>3
<1> QED BY <1>7, <1>13, <1>14, <1>15, <1>16, <1>17 DEF s

LEMMA StatusSends ==
  ASSUME NEW id \in Ids, NEW g, g[id] \in FactSets, NEW on \in BOOLEAN, NEW a, on => id = a
  PROVE  /\ Sends(StatusOf(id, g[id], on), g, a)
         /\ Whole(StatusOf(id, g[id], on), id)
         /\ on => TellsFocus(StatusOf(id, g[id], on))
<1> DEFINE s == StatusOf(id, g[id], on)
<1>1. s \in Seq(Messages) /\ \A i \in DOMAIN s : s[i].kind \in IPCKinds /\ s[i].id = id
  BY StatusTypes
<1>2. /\ \A i \in DOMAIN s : \/ s[i] = ActiveMsg(id, on) \/ s[i] = Msg("frame", id)
                             \/ \E t \in Tags : s[i] = TagMsg(id, t, t \in g[id]["tags"])
                             \/ \E f \in Fields : s[i] = Update(id, f, g[id][f])
      /\ \A t \in Tags : \E i \in DOMAIN s : s[i] = TagMsg(id, t, t \in g[id]["tags"])
      /\ \A f \in Fields : \E i \in DOMAIN s : s[i] = Update(id, f, g[id][f])
      /\ \E i \in DOMAIN s : s[i] = ActiveMsg(id, on)
      /\ \E n \in DOMAIN s : s[n] = Msg("frame", id) /\ \A i \in DOMAIN s : i <= n
  BY StatusParts
<1> HIDE DEF s
<1>3. \A x : Framed(s, x)
  <2>1. PICK n \in DOMAIN s : s[n] = Msg("frame", id) /\ \A i \in DOMAIN s : i <= n
    BY <1>2
  <2>2. s[n].kind = "frame" /\ \A i \in DOMAIN s : s[i].kind # "removed"
    BY <1>1, <2>1 DEF Msg, IPCKinds
  <2> QED BY <1>1, <2>1, <2>2 DEF Framed
<1>4. ASSUME NEW i \in DOMAIN s PROVE SaysSo(s[i], g, a)
  <2>1. CASE s[i] = ActiveMsg(id, on)
    BY <2>1 DEF SaysSo, ActiveMsg
  <2>2. CASE s[i] = Msg("frame", id)
    BY <2>2 DEF SaysSo, Msg
  <2>3. ASSUME NEW t \in Tags, s[i] = TagMsg(id, t, t \in g[id]["tags"]) PROVE SaysSo(s[i], g, a)
    <3> DEFINE b == t \in g[id]["tags"]
    <3>1. b \in BOOLEAN
      OBVIOUS
    <3> HIDE DEF b
    <3>2. s[i] = TagMsg(id, t, b)
      BY <2>3 DEF b
    <3>3. s[i].kind = "tag" /\ s[i].on = b /\ s[i].tag = t /\ s[i].id = id
      BY <3>2 DEF TagMsg
    <3> QED BY <3>3 DEF SaysSo, b
  <2>4. ASSUME NEW f \in Fields, s[i] = Update(id, f, g[id][f]) PROVE SaysSo(s[i], g, a)
    BY <2>4 DEF SaysSo, Update
  <2> QED BY <1>2, <2>1, <2>2, <2>3, <2>4
<1>5. Whole(s, id)
  <2>1. ASSUME NEW t \in Tags PROVE \E i \in DOMAIN s : s[i].kind = "tag" /\ s[i].id = id /\ s[i].tag = t
    <3>1. PICK i \in DOMAIN s : s[i] = TagMsg(id, t, t \in g[id]["tags"])
      BY <1>2
    <3> QED BY <3>1 DEF TagMsg
  <2>2. ASSUME NEW f \in Fields PROVE \E i \in DOMAIN s : s[i].kind = "field" /\ s[i].id = id /\ s[i].field = f
    BY <1>2 DEF Update
  <2> QED BY <2>1, <2>2 DEF Whole
<1>6. on => TellsFocus(s)
  <2>1. PICK i \in DOMAIN s : s[i] = ActiveMsg(id, on)
    BY <1>2
  <2> QED BY <2>1 DEF TellsFocus, ActiveMsg
<1> QED BY <1>1, <1>3, <1>4, <1>5, <1>6 DEF Sends, s

LEMMA StatusOrNone ==
  ASSUME ServerTypeOK, NEW id \in Ids \cup {NoId}, NEW g \in [Ids -> FactSets], NEW on \in BOOLEAN,
         NEW a, on => id = a
  PROVE  /\ Sends(Status(id, g[id], on), g, a)
         /\ id \in bound => /\ Whole(Status(id, g[id], on), id)
                            /\ on => TellsFocus(Status(id, g[id], on))
<1>1. CASE id \in bound
  <2>1. id \in Ids /\ g[id] \in FactSets
    BY <1>1 DEF ServerTypeOK
  <2>2. Status(id, g[id], on) = StatusOf(id, g[id], on)
    BY <1>1 DEF Status
  <2>3. /\ Sends(StatusOf(id, g[id], on), g, a)
        /\ Whole(StatusOf(id, g[id], on), id)
        /\ on => TellsFocus(StatusOf(id, g[id], on))
    BY <2>1, StatusSends
  <2> QED BY <2>2, <2>3
<1>2. CASE id \notin bound
  <2>1. Status(id, g[id], on) = <<>>
    BY <1>2 DEF Status
  <2>2. Sends(<<>>, g, a)
    BY NothingSends
  <2> QED BY <1>2, <2>1, <2>2
<1> QED BY <1>1, <1>2

(* What was written, when the compositor does something.                     *)
Written(s) ==
  /\ wire' = wire \o s
  /\ Sends(s, truth', active')
  /\ \A x \in bound' : Whole(s, x) \/ (x \in bound /\ truth'[x] = truth[x])
  /\ active' \in bound' => TellsFocus(s) \/ (active' = active /\ active \in bound)

LEMMA SetFactWrites ==
  ASSUME ServerTypeOK, NEW id \in Ids, NEW f \in Facts, NEW v \in FactValues(f), SetFact(id, f, v),
         UNCHANGED <<active, bound>>
  PROVE  \E s : Written(s)
<1> DEFINE on == active = id
           s == Status(id, truth'[id], on)
<1>1. truth' \in [Ids -> FactSets] /\ \A x \in Ids \ {id} : truth'[x] = truth[x]
  BY SetFactTypes DEF SetFact, ServerTypeOK
<1>2. wire' = wire \o s
  BY DEF SetFact
<1>3. on \in BOOLEAN /\ (on => id = active) /\ active' = active
  OBVIOUS
<1> HIDE DEF on
<1>4. Sends(s, truth', active') /\ (id \in bound => Whole(s, id))
  <2>1. PICK g \in [Ids -> FactSets] : g = truth'
    BY <1>1
  <2>2. Sends(Status(id, g[id], on), g, active) /\ (id \in bound => Whole(Status(id, g[id], on), id))
    <3>1. CASE on = TRUE
      BY <1>3, <3>1, StatusOrNone
    <3>2. CASE on = FALSE
      BY <1>3, <3>2, StatusOrNone
    <3> QED BY <1>3, <3>1, <3>2
  <2> QED BY <1>3, <2>1, <2>2
<1> HIDE DEF s
<1>5. \A x \in bound' : Whole(s, x) \/ (x \in bound /\ truth'[x] = truth[x])
  BY <1>1, <1>4 DEF ServerTypeOK
<1>6. active' \in bound' => TellsFocus(s) \/ (active' = active /\ active \in bound)
  OBVIOUS
<1>7. Written(s)
  BY <1>2, <1>4, <1>5, <1>6 DEF Written
<1> QED BY <1>7

LEMMA PlugWrites ==
  ASSUME ServerTypeOK, NEW id \in Ids, LifeInv(id), Plug(id)
  PROVE  \E s : Written(s)
<1> DEFINE m == Msg("output", id)
<1>1. wire' = Append(wire, m) /\ active' = (IF active = NoId THEN id ELSE active) /\ UNCHANGED <<truth, bound>>
      /\ id \in unused
  BY DEF Plug
<1>2. m \in Messages /\ m.kind \notin IPCKinds
  BY MessageTypes DEF Msg, IPCKinds
<1>3. id \notin bound
  BY <1>1 DEF LifeInv, FreshInv
<1> HIDE DEF m
<1>4. wire' = wire \o <<m>>
  BY <1>1, <1>2, AppendIsConcat DEF ServerTypeOK
<1>5. Written(<<m>>)
  BY <1>1, <1>2, <1>3, <1>4, OtherSends DEF Written
<1> QED BY <1>5

LEMMA FocusWrites ==
  ASSUME ServerTypeOK, NEW id \in Ids, Focus(id)
  PROVE  \E s : Written(s)
<1> DEFINE t == Status(active, truth[active], FALSE)
           u == Status(id, truth[id], TRUE)
<1>1. wire' = wire \o t \o u /\ active' = id /\ UNCHANGED <<truth, bound>>
  BY DEF Focus
<1>2. Sends(t, truth, id)
  BY StatusOrNone DEF ServerTypeOK
<1>3. Sends(u, truth, id) /\ (id \in bound => TellsFocus(u))
  BY StatusOrNone DEF ServerTypeOK
<1> HIDE DEF t, u
<1>4. Sends(t \o u, truth, id) /\ (id \in bound => TellsFocus(t \o u))
  BY <1>2, <1>3, SendsJoined
<1>5. wire' = wire \o (t \o u)
  <2>1. t \in Seq(Messages) /\ u \in Seq(Messages) /\ wire \in Seq(Messages)
    BY <1>2, <1>3 DEF Sends, ServerTypeOK
  <2>2. (wire \o t) \o u = wire \o (t \o u)
    BY ONLY <2>1, ConcatAssociative
  <2> QED BY <1>1, <2>2
<1>6. Written(t \o u)
  BY <1>1, <1>4, <1>5 DEF Written
<1> QED BY <1>6

LEMMA UnplugWrites ==
  ASSUME ServerTypeOK, NEW id \in Ids, Unplug(id)
  PROVE  \E s : Written(s)
<1> DEFINE m == Msg("removed", id)
           first == Status(id, truth[id], FALSE)
           second == Status(active', truth[active'], TRUE)
<1>1. /\ active' \in Ids \cup {NoId} /\ UNCHANGED truth /\ bound' = bound \ {id}
      /\ active' # active => active = id
  BY DEF Unplug, ServerTypeOK
<1>2. PICK t \in {<<>>, first} :
        wire' = wire \o <<m>> \o t \o (IF active' \in {active, NoId} THEN <<>> ELSE second)
  BY DEF Unplug
<1> DEFINE u == IF active' \in {active, NoId} THEN <<>> ELSE second
<1>3. m \in Messages /\ m.kind \notin IPCKinds
  BY MessageTypes DEF Msg, IPCKinds
<1> HIDE DEF m
<1>4. \A a : Sends(<<m>>, truth, a) /\ Sends(<<>>, truth, a)
  BY <1>3, OtherSends, NothingSends
<1>5. \A a : Sends(first, truth, a)
  BY StatusOrNone DEF ServerTypeOK
<1>6. \A a \in Ids \cup {NoId} : Sends(Status(a, truth[a], TRUE), truth, a)
                                 /\ (a \in bound => TellsFocus(Status(a, truth[a], TRUE)))
  BY StatusOrNone DEF ServerTypeOK
<1>7. Sends(second, truth, active') /\ (active' \in bound => TellsFocus(second))
  BY <1>1, <1>6
<1> HIDE DEF first, second
<1>8. Sends(t, truth, active') /\ Sends(u, truth, active')
  BY <1>4, <1>5, <1>7
<1>9. active' # active /\ active' # NoId /\ active' \in bound => TellsFocus(u)
  BY <1>7
<1>10. wire' = wire \o <<m>> \o t \o u
  BY <1>2
<1> HIDE DEF u
<1>11. Sends(<<m>> \o t, truth, active')
  BY <1>4, <1>8, SendsJoined
<1>12. Sends((<<m>> \o t) \o u, truth, active') /\ (TellsFocus(u) => TellsFocus((<<m>> \o t) \o u))
  BY <1>8, <1>11, SendsJoined
<1>13. wire' = wire \o ((<<m>> \o t) \o u)
  <2> DEFINE e == <<m>>
  <2>1. e \in Seq(Messages) /\ t \in Seq(Messages) /\ u \in Seq(Messages) /\ wire \in Seq(Messages)
        /\ e \o t \in Seq(Messages)
    BY <1>3, <1>8, <1>11 DEF Sends, ServerTypeOK
  <2> HIDE DEF e
  <2>2. (wire \o e) \o t = wire \o (e \o t)
    BY ONLY <2>1, ConcatAssociative, SMTT(30)
  <2> DEFINE v == e \o t
  <2>3. v \in Seq(Messages)
    BY <2>1
  <2> HIDE DEF v
  <2>4. (wire \o v) \o u = wire \o (v \o u)
    BY ONLY <2>1, <2>3, ConcatAssociative, SMTT(30)
  <2> QED BY <1>10, <2>2, <2>4 DEF e, v
<1>14. active' \in bound' => TellsFocus((<<m>> \o t) \o u) \/ (active' = active /\ active \in bound)
  <2>1. active' \in bound' => active' # NoId /\ active' \in bound
    BY <1>1 DEF ServerTypeOK
  <2> QED BY <1>9, <1>12, <2>1
<1> DEFINE s == (<<m>> \o t) \o u
<1> HIDE DEF s
<1>15. Written(s)
  BY <1>1, <1>12, <1>13, <1>14 DEF Written, s
<1> QED BY <1>15

LEMMA HandleWrites ==
  ASSUME ServerTypeOK, \A x \in Ids : LifeInv(x), HandleRequest
  PROVE  \E s : Written(s)
<1> DEFINE r == Head(requests)
<1>1. requests # <<>> /\ UNCHANGED <<plugged, active>> /\ r \in Requests /\ wire \in Seq(Messages)
  BY DEF HandleRequest, ServerTypeOK
<1>2. ASSUME NEW m \in Messages, m.kind \notin IPCKinds, wire' = Append(wire, m), UNCHANGED <<truth, bound>>
      PROVE  \E s : Written(s)
  <2>1. wire' = wire \o <<m>>
    BY <1>1, <1>2, AppendIsConcat
  <2>2. Written(<<m>>)
    BY <1>1, <1>2, <2>1, OtherSends DEF Written
  <2> QED BY <2>2
<1>3. ASSUME UNCHANGED <<wire, truth, bound>> PROVE \E s : Written(s)
  <2>1. wire' = wire \o <<>>
    BY <1>1, <1>3
  <2>2. Written(<<>>)
    BY <1>1, <1>3, <2>1, NothingSends DEF Written
  <2> QED BY <2>2
<1> HIDE DEF r
<1>4. CASE r.kind \in {"sync", "bind_manager"}
  <2>1. PICK k \in {"done", "tags"} : wire' = Append(wire, Msg(k, NoId)) /\ UNCHANGED <<truth, bound>>
    BY <1>4 DEF HandleRequest, r
  <2> QED BY <1>2, <2>1, MessageTypes DEF Msg, IPCKinds
<1>5. CASE r.kind = "bind_output"
  <2>1. /\ wire' = IF r.id \in DOMAIN plugged THEN Append(wire, NameMsg(r.id, plugged[r.id])) ELSE wire
        /\ UNCHANGED <<truth, bound>>
    BY <1>5 DEF HandleRequest, r
  <2>2. CASE r.id \in DOMAIN plugged
    <3>1. r.id \in Ids /\ plugged[r.id] \in Names
      BY <2>2 DEF ServerTypeOK
    <3>2. NameMsg(r.id, plugged[r.id]) \in Messages /\ NameMsg(r.id, plugged[r.id]).kind = "name"
      BY <3>1, MessageTypes DEF NameMsg
    <3> QED BY <1>2, <2>1, <2>2, <3>2 DEF IPCKinds
  <2>3. CASE r.id \notin DOMAIN plugged
    BY <1>3, <2>1, <2>3
  <2> QED BY <2>2, <2>3
<1>6. CASE r.kind = "set" /\ r.id \in bound /\ SetFact(r.id, r.fact, r.value) /\ UNCHANGED bound
  BY <1>1, <1>6, RequestShapes, SetFactWrites
<1>7. CASE /\ r.kind = "get_output" /\ r.id \in DOMAIN plugged /\ bound' = bound \cup {r.id}
           /\ wire' = wire \o StatusOf(r.id, truth[r.id], active = r.id) /\ UNCHANGED truth
  <2> DEFINE on == active = r.id
             s == StatusOf(r.id, truth[r.id], on)
  <2>1. r.id \in Ids /\ truth[r.id] \in FactSets /\ on \in BOOLEAN /\ (on => r.id = active)
    BY <1>1, <1>7, RequestShapes DEF ServerTypeOK
  <2> HIDE DEF on
  <2>2. Sends(s, truth, active) /\ Whole(s, r.id) /\ (on => TellsFocus(s))
    BY <2>1, StatusSends
  <2>3. wire' = wire \o s
    BY <1>7 DEF on
  <2> HIDE DEF s
  <2>4. active' \in bound' => TellsFocus(s) \/ (active' = active /\ active \in bound)
    BY <1>1, <1>7, <2>2 DEF on
  <2>5. Written(s)
    BY <1>1, <1>7, <2>2, <2>3, <2>4 DEF Written
  <2> QED BY <2>5
<1>8. CASE r.kind \in {"get_output", "set"} /\ r.id \notin DOMAIN plugged /\ UNCHANGED <<wire, truth, bound>>
  BY <1>3, <1>8
<1>9. r.kind \in {"sync", "bind_manager", "bind_output", "get_output", "set"}
  BY <1>1, RequestShapes
<1> QED BY <1>4, <1>5, <1>6, <1>7, <1>8, <1>9 DEF HandleRequest, r

LEMMA CompositorWrites ==
  ASSUME ServerTypeOK, \A x \in Ids : LifeInv(x), NEW id,
         \/ id \in Ids /\ (Plug(id) \/ Unplug(id) \/ Change(id) \/ Focus(id))
         \/ HandleRequest
  PROVE  \E s : Written(s)
<1>1. CASE id \in Ids /\ Change(id)
  <2>1. PICK f \in Facts : \E v \in FactValues(f) : SetFact(id, f, v)
    BY <1>1 DEF Change
  <2> QED BY <1>1, <2>1, SetFactWrites DEF Change
<1> QED BY <1>1, PlugWrites, UnplugWrites, FocusWrites, HandleWrites

(* A status that is under way is so to its frame, unless the output is       *)
(* removed before all of it, ...                                             *)
FrameInv(x) ==
  \A i \in Ipcs(x) : \E j \in Wires("frame", x) :
    i <= j /\ \A r \in Wires("removed", x) : r < i \/ j < r

(* ... so what is pending will be committed, before the output goes.         *)
PendInv ==
  \A n \in DOMAIN pending : \E x \in DOMAIN outputs :
    outputs[x].name = n /\ \E j \in Wires("frame", x) : \A r \in Wires("removed", x) : j < r

(* Of each fact of an output with an IPC object the last update under way    *)
(* says what is so, or the adapter has it already, pending or committed.     *)
TagWires(x, t)   == {i \in Wires("tag", x) : wire[i].tag = t}
FieldWires(x, f) == {i \in Wires("field", x) : wire[i].field = f}
Held(x)          == PendingState(outputs[x].name).facts

LastTag(x, t) ==
  /\ \A i \in TagWires(x, t) : (\A j \in TagWires(x, t) : j <= i) => (wire[i].on <=> t \in truth[x]["tags"])
  /\ TagWires(x, t) = {} => outputs[x].name \in Names /\ (t \in Held(x)["tags"] <=> t \in truth[x]["tags"])

LastField(x, f) ==
  /\ \A i \in FieldWires(x, f) : (\A j \in FieldWires(x, f) : j <= i) => wire[i].value = truth[x][f]
  /\ FieldWires(x, f) = {} => outputs[x].name \in Names /\ Held(x)[f] = truth[x][f]

LastInv(x) ==
  x \in bound => (\A t \in Tags : LastTag(x, t)) /\ \A f \in Fields : LastField(x, f)

(* And so for the focus, of all outputs.                                     *)
Ons == {i \in 1..Len(wire) : wire[i].kind = "active" /\ wire[i].on}

ActiveInv ==
  /\ active \in DOMAIN plugged \cup {NoId}
  /\ active \in bound =>
       /\ \A i \in Ons : (\A j \in Ons : j <= i) => wire[i].id = active
       /\ Ons = {} => focusedId = active

(* An output that is plugged in is known, or will be; it is known before its *)
(* name, and asked for its IPC object with its first announcement or its     *)
(* name.                                                                     *)
KnownInv(x) ==
  /\ x \in DOMAIN plugged => x \in DOMAIN outputs \/ Wires("output", x) # {}
  /\ Wires("name", x) # {} => x \in DOMAIN outputs
  /\ x \in DOMAIN outputs /\ x \in DOMAIN plugged /\ x \notin bound /\ outputs[x].ipc =>
       Asked("get_output", x) # {}

(* State is kept for no other outputs.                                       *)
OwnedInv == DOMAIN committed \subseteq {outputs[x].name : x \in DOMAIN outputs}

(* How the positions change when messages are sent or dispatched.            *)
LEMMA NewAtTheEnd ==
  ASSUME wire \in Seq(Messages), NEW s \in Seq(Messages), wire' = wire \o s
  PROVE  /\ Len(wire) \in Nat /\ DOMAIN s \subseteq Nat \ {0}
         /\ \A i \in 1..Len(wire') : \/ i \in 1..Len(wire) /\ wire'[i] = wire[i]
                                     \/ \E h \in DOMAIN s : i = h + Len(wire) /\ wire'[i] = s[h]
         /\ \A i \in 1..Len(wire) : i \in 1..Len(wire') /\ wire'[i] = wire[i]
         /\ \A h \in DOMAIN s : h + Len(wire) \in 1..Len(wire') /\ wire'[h + Len(wire)] = s[h]
<1> DEFINE w == wire
<1>1. w \in Seq(Messages) /\ DOMAIN w = 1..Len(w)
  OBVIOUS
<1> HIDE DEF w
<1> DEFINE v == w \o s
           n == Len(w)
<1>2. /\ v \in Seq(Messages) /\ n \in Nat /\ Len(s) \in Nat /\ DOMAIN s = 1..Len(s)
      /\ DOMAIN w = 1..n /\ DOMAIN v = 1..(n + Len(s))
      /\ \A i \in DOMAIN w : i \in DOMAIN v /\ v[i] = w[i]
      /\ \A i \in DOMAIN s : i + n \in DOMAIN v /\ v[i + n] = s[i]
      /\ \A i \in DOMAIN v : (i \in DOMAIN w /\ v[i] = w[i]) \/ \E h \in DOMAIN s : i = h + n /\ v[i] = s[h]
  BY ONLY <1>1, s \in Seq(Messages), Joined
<1> HIDE DEF v, n
<1>3. DOMAIN v = 1..Len(v)
  BY <1>2
<1>4. wire' = v
  BY DEF v, w
<1>5. \A i \in 1..Len(v) : \/ i \in 1..n /\ v[i] = w[i]
                          \/ \E h \in DOMAIN s : i = h + n /\ v[i] = s[h]
  BY <1>2, <1>3
<1>6. \A i \in 1..n : i \in 1..Len(v) /\ v[i] = w[i]
  BY <1>2, <1>3
<1>7. \A h \in DOMAIN s : h + n \in 1..Len(v) /\ v[h + n] = s[h]
  BY <1>2, <1>3
<1>8. n \in Nat /\ DOMAIN s \subseteq Nat \ {0}
  BY <1>2
<1>9. wire = w /\ Len(wire) = n
  BY DEF w, n
<1> QED BY ONLY <1>4, <1>5, <1>6, <1>7, <1>8, <1>9

(* What the compositor writes keeps each of these, ... *)
LEMMA FrameWritten ==
  ASSUME wire \in Seq(Messages), NEW s, Written(s), NEW x, FrameInv(x)
  PROVE  FrameInv(x)'
<1>1. s \in Seq(Messages) /\ wire' = wire \o s /\ Framed(s, x)
  BY DEF Written, Sends
<1>2. /\ Len(wire) \in Nat /\ DOMAIN s \subseteq Nat \ {0}
      /\ \A i \in 1..Len(wire') : \/ i \in 1..Len(wire) /\ wire'[i] = wire[i]
                                  \/ \E h \in DOMAIN s : i = h + Len(wire) /\ wire'[i] = s[h]
      /\ \A i \in 1..Len(wire) : i \in 1..Len(wire') /\ wire'[i] = wire[i]
      /\ \A h \in DOMAIN s : h + Len(wire) \in 1..Len(wire') /\ wire'[h + Len(wire)] = s[h]
  BY <1>1, NewAtTheEnd
<1>3. SUFFICES ASSUME NEW i \in Ipcs(x)'
               PROVE  \E j \in Wires("frame", x)' : i <= j /\ \A r \in Wires("removed", x)' : r < i \/ j < r
  BY DEF FrameInv
<1>4. i \in 1..Len(wire') /\ wire'[i].kind \in IPCKinds /\ wire'[i].id = x
  BY <1>3 DEF Ipcs
<1>5. CASE i \in 1..Len(wire) /\ wire'[i] = wire[i]
  <2>1. PICK j \in Wires("frame", x) : i <= j /\ \A r \in Wires("removed", x) : r < i \/ j < r
    BY <1>4, <1>5 DEF FrameInv, Ipcs
  <2>2. j \in Wires("frame", x)' /\ j \in 1..Len(wire)
    BY <1>2, <2>1 DEF Wires
  <2>3. ASSUME NEW r \in Wires("removed", x)' PROVE r < i \/ j < r
    <3>1. r \in 1..Len(wire') /\ wire'[r].kind = "removed" /\ wire'[r].id = x
      BY DEF Wires
    <3>2. CASE r \in 1..Len(wire) /\ wire'[r] = wire[r]
      BY <2>1, <3>1, <3>2 DEF Wires
    <3>3. CASE \E h \in DOMAIN s : r = h + Len(wire)
      BY <1>2, <2>2, <3>3
    <3> QED BY <1>2, <3>1, <3>2, <3>3
  <2> QED BY <2>1, <2>2, <2>3
<1>6. ASSUME NEW h \in DOMAIN s, i = h + Len(wire), wire'[i] = s[h]
      PROVE  \E j \in Wires("frame", x)' : i <= j /\ \A r \in Wires("removed", x)' : r < i \/ j < r
  <2>1. PICK j \in DOMAIN s :
          /\ h <= j /\ s[j].kind = "frame" /\ s[j].id = x
          /\ \A r \in DOMAIN s : s[r].kind = "removed" /\ s[r].id = x => r < h \/ j < r
    BY <1>1, <1>4, <1>6 DEF Framed
  <2>2. j + Len(wire) \in Wires("frame", x)' /\ i <= j + Len(wire)
    BY <1>2, <1>6, <2>1 DEF Wires
  <2>3. ASSUME NEW r \in Wires("removed", x)' PROVE r < i \/ j + Len(wire) < r
    <3>1. r \in 1..Len(wire') /\ wire'[r].kind = "removed" /\ wire'[r].id = x
      BY DEF Wires
    <3>2. CASE r \in 1..Len(wire)
      BY <1>2, <1>6, <3>2
    <3>3. ASSUME NEW q \in DOMAIN s, r = q + Len(wire), wire'[r] = s[q] PROVE r < i \/ j + Len(wire) < r
      <4>1. q < h \/ j < q
        BY <2>1, <3>1, <3>3
      <4> QED BY <1>2, <1>6, <3>3, <4>1
    <3> QED BY <1>2, <3>1, <3>2, <3>3
  <2> QED BY <2>2, <2>3
<1> QED BY <1>2, <1>4, <1>5, <1>6

LEMMA PendWritten ==
  ASSUME wire \in Seq(Messages), NEW s, Written(s), UNCHANGED <<outputs, pending>>, PendInv
  PROVE  PendInv'
<1>1. s \in Seq(Messages) /\ wire' = wire \o s
  BY DEF Written, Sends
<1>2. /\ Len(wire) \in Nat
      /\ \A i \in 1..Len(wire') : \/ i \in 1..Len(wire) /\ wire'[i] = wire[i]
                                  \/ i > Len(wire)
      /\ \A i \in 1..Len(wire) : i \in 1..Len(wire') /\ wire'[i] = wire[i]
  BY <1>1, NewAtTheEnd
<1>3. SUFFICES ASSUME NEW n \in DOMAIN pending
               PROVE  \E x \in DOMAIN outputs : outputs[x].name = n
                        /\ \E j \in Wires("frame", x)' : \A r \in Wires("removed", x)' : j < r
  BY DEF PendInv
<1>4. PICK x \in DOMAIN outputs : outputs[x].name = n
                        /\ \E j \in Wires("frame", x) : \A r \in Wires("removed", x) : j < r
  BY DEF PendInv
<1>5. PICK j \in Wires("frame", x) : \A r \in Wires("removed", x) : j < r
  BY <1>4
<1>6. j \in Wires("frame", x)' /\ j \in 1..Len(wire)
  BY <1>2, <1>5 DEF Wires
<1>7. \A r \in Wires("removed", x)' : j < r
  BY <1>2, <1>5, <1>6 DEF Wires
<1> QED BY <1>4, <1>6, <1>7

LEMMA LastWritten ==
  ASSUME wire \in Seq(Messages), NEW s, Written(s), UNCHANGED <<outputs, pending, committed>>,
         NEW x, LastInv(x)
  PROVE  LastInv(x)'
<1> SUFFICES ASSUME x \in bound'
             PROVE  (\A t \in Tags : LastTag(x, t)') /\ \A f \in Fields : LastField(x, f)'
  BY DEF LastInv
<1>1. s \in Seq(Messages) /\ wire' = wire \o s /\ \A i \in DOMAIN s : SaysSo(s[i], truth', active')
  BY DEF Written, Sends
<1>2. /\ Len(wire) \in Nat /\ DOMAIN s \subseteq Nat \ {0}
      /\ \A i \in 1..Len(wire') : \/ i \in 1..Len(wire) /\ wire'[i] = wire[i]
                                  \/ \E h \in DOMAIN s : i = h + Len(wire) /\ wire'[i] = s[h]
      /\ \A i \in 1..Len(wire) : i \in 1..Len(wire') /\ wire'[i] = wire[i]
      /\ \A h \in DOMAIN s : h + Len(wire) \in 1..Len(wire') /\ wire'[h + Len(wire)] = s[h]
  BY <1>1, NewAtTheEnd
<1>3. Whole(s, x) \/ (x \in bound /\ truth'[x] = truth[x])
  BY DEF Written
<1>4. Held(x)' = Held(x) /\ outputs'[x] = outputs[x]
  BY DEF Held, PendingState
<1>5. ASSUME NEW t \in Tags PROVE LastTag(x, t)'
  <2>1. \A i \in TagWires(x, t) : i \in TagWires(x, t)' /\ i \in 1..Len(wire) /\ wire'[i] = wire[i]
    BY <1>2 DEF TagWires, Wires
  <2>2. \A h \in DOMAIN s : s[h].kind = "tag" /\ s[h].id = x /\ s[h].tag = t => h + Len(wire) \in TagWires(x, t)'
    BY <1>2 DEF TagWires, Wires
  <2>3. Whole(s, x) => \E i \in TagWires(x, t)' : i > Len(wire)
    BY <1>2, <2>2 DEF Whole
  <2>4. ASSUME NEW i \in TagWires(x, t)', \A j \in TagWires(x, t)' : j <= i
        PROVE  wire'[i].on <=> t \in truth'[x]["tags"]
    <3>1. i \in 1..Len(wire') /\ wire'[i].kind = "tag" /\ wire'[i].id = x /\ wire'[i].tag = t
      BY DEF TagWires, Wires
    <3>2. ASSUME NEW h \in DOMAIN s, wire'[i] = s[h] PROVE wire'[i].on <=> t \in truth'[x]["tags"]
      BY <1>1, <3>1, <3>2 DEF SaysSo
    <3>3. CASE i \in 1..Len(wire) /\ wire'[i] = wire[i]
      <4>1. ~Whole(s, x)
        <5>1. \A j \in TagWires(x, t)' : j \in Nat
          BY DEF TagWires, Wires
        <5>2. i \in 1..Len(wire) /\ Len(wire) \in Nat
          BY <1>2, <3>3
        <5> QED BY ONLY <2>3, <2>4, <5>1, <5>2
      <4>2. i \in TagWires(x, t) /\ \A j \in TagWires(x, t) : j <= i
        BY <2>1, <2>4, <3>1, <3>3 DEF TagWires, Wires
      <4> QED BY <1>3, <3>3, <4>1, <4>2 DEF LastInv, LastTag
    <3> QED BY <1>2, <3>1, <3>2, <3>3
  <2>5. ASSUME TagWires(x, t)' = {}
        PROVE  outputs'[x].name \in Names /\ (t \in Held(x)'["tags"] <=> t \in truth'[x]["tags"])
    <3>1. TagWires(x, t) = {} /\ ~Whole(s, x)
      BY <2>1, <2>3, <2>5
    <3> QED BY <1>3, <1>4, <3>1 DEF LastInv, LastTag
  <2> QED BY <2>4, <2>5 DEF LastTag
<1>6. ASSUME NEW f \in Fields PROVE LastField(x, f)'
  <2>1. \A i \in FieldWires(x, f) : i \in FieldWires(x, f)' /\ i \in 1..Len(wire) /\ wire'[i] = wire[i]
    BY <1>2 DEF FieldWires, Wires
  <2>2. \A h \in DOMAIN s : s[h].kind = "field" /\ s[h].id = x /\ s[h].field = f => h + Len(wire) \in FieldWires(x, f)'
    BY <1>2 DEF FieldWires, Wires
  <2>3. Whole(s, x) => \E i \in FieldWires(x, f)' : i > Len(wire)
    BY <1>2, <2>2 DEF Whole
  <2>4. ASSUME NEW i \in FieldWires(x, f)', \A j \in FieldWires(x, f)' : j <= i
        PROVE  wire'[i].value = truth'[x][f]
    <3>1. i \in 1..Len(wire') /\ wire'[i].kind = "field" /\ wire'[i].id = x /\ wire'[i].field = f
      BY DEF FieldWires, Wires
    <3>2. ASSUME NEW h \in DOMAIN s, wire'[i] = s[h] PROVE wire'[i].value = truth'[x][f]
      BY <1>1, <3>1, <3>2 DEF SaysSo
    <3>3. CASE i \in 1..Len(wire) /\ wire'[i] = wire[i]
      <4>1. ~Whole(s, x)
        <5>1. \A j \in FieldWires(x, f)' : j \in Nat
          BY DEF FieldWires, Wires
        <5>2. i \in 1..Len(wire) /\ Len(wire) \in Nat
          BY <1>2, <3>3
        <5> QED BY ONLY <2>3, <2>4, <5>1, <5>2
      <4>2. i \in FieldWires(x, f) /\ \A j \in FieldWires(x, f) : j <= i
        BY <2>1, <2>4, <3>1, <3>3 DEF FieldWires, Wires
      <4> QED BY <1>3, <3>3, <4>1, <4>2 DEF LastInv, LastField
    <3> QED BY <1>2, <3>1, <3>2, <3>3
  <2>5. ASSUME FieldWires(x, f)' = {}
        PROVE  outputs'[x].name \in Names /\ Held(x)'[f] = truth'[x][f]
    <3>1. FieldWires(x, f) = {} /\ ~Whole(s, x)
      BY <2>1, <2>3, <2>5
    <3> QED BY <1>3, <1>4, <3>1 DEF LastInv, LastField
  <2> QED BY <2>4, <2>5 DEF LastField
<1> QED BY <1>5, <1>6

LEMMA ActiveWritten ==
  ASSUME wire \in Seq(Messages), NEW s, Written(s), UNCHANGED focusedId, ActiveInv,
         active' \in DOMAIN plugged' \cup {NoId}
  PROVE  ActiveInv'
<1> SUFFICES ASSUME active' \in bound'
             PROVE  /\ \A i \in Ons' : (\A j \in Ons' : j <= i) => wire'[i].id = active'
                    /\ Ons' = {} => focusedId' = active'
  BY DEF ActiveInv
<1>1. s \in Seq(Messages) /\ wire' = wire \o s /\ \A i \in DOMAIN s : SaysSo(s[i], truth', active')
  BY DEF Written, Sends
<1>2. /\ Len(wire) \in Nat /\ DOMAIN s \subseteq Nat \ {0}
      /\ \A i \in 1..Len(wire') : \/ i \in 1..Len(wire) /\ wire'[i] = wire[i]
                                  \/ \E h \in DOMAIN s : i = h + Len(wire) /\ wire'[i] = s[h]
      /\ \A i \in 1..Len(wire) : i \in 1..Len(wire') /\ wire'[i] = wire[i]
      /\ \A h \in DOMAIN s : h + Len(wire) \in 1..Len(wire') /\ wire'[h + Len(wire)] = s[h]
  BY <1>1, NewAtTheEnd
<1>3. TellsFocus(s) \/ (active' = active /\ active \in bound)
  BY DEF Written
<1>4. \A i \in Ons : i \in Ons' /\ i \in 1..Len(wire) /\ wire'[i] = wire[i]
  BY <1>2 DEF Ons
<1>5. TellsFocus(s) => \E i \in Ons' : i > Len(wire)
  <2>1. \A h \in DOMAIN s : s[h].kind = "active" /\ s[h].on => h + Len(wire) \in Ons' /\ h + Len(wire) > Len(wire)
    BY <1>2 DEF Ons
  <2> QED BY <2>1 DEF TellsFocus
<1>6. ASSUME NEW i \in Ons', \A j \in Ons' : j <= i PROVE wire'[i].id = active'
  <2>1. i \in 1..Len(wire') /\ wire'[i].kind = "active" /\ wire'[i].on
    BY DEF Ons
  <2>2. ASSUME NEW h \in DOMAIN s, wire'[i] = s[h] PROVE wire'[i].id = active'
    BY <1>1, <2>1, <2>2 DEF SaysSo
  <2>3. CASE i \in 1..Len(wire) /\ wire'[i] = wire[i]
    <3>1. ~TellsFocus(s)
      BY <1>2, <1>5, <1>6, <2>3
    <3>2. i \in Ons /\ \A j \in Ons : j <= i
      BY <1>4, <1>6, <2>1, <2>3 DEF Ons
    <3> QED BY <1>3, <2>3, <3>1, <3>2 DEF ActiveInv
  <2> QED BY <1>2, <2>1, <2>2, <2>3
<1>7. ASSUME Ons' = {} PROVE focusedId' = active'
  <2>1. Ons = {} /\ ~TellsFocus(s)
    BY <1>4, <1>5, <1>7
  <2> QED BY <1>3, <2>1 DEF ActiveInv
<1> QED BY <1>6, <1>7

(* The compositor's active output is one that exists. *)
LEMMA ActiveExists ==
  ASSUME ServerTypeOK, active \in DOMAIN plugged \cup {NoId}, NEW id,
         \/ id \in Ids /\ (Plug(id) \/ Unplug(id) \/ Change(id) \/ Focus(id))
         \/ HandleRequest
  PROVE  active' \in DOMAIN plugged' \cup {NoId}
<1>1. CASE id \in Ids /\ Plug(id)
  BY <1>1, PlugEffect DEF Plug
<1>2. CASE id \in Ids /\ Unplug(id)
  <2>1. DOMAIN plugged' = DOMAIN plugged \ {id}
    BY <1>2, UnplugEffect
  <2> QED BY <1>2, <2>1 DEF Unplug
<1>3. CASE Change(id) \/ Focus(id) \/ HandleRequest
  BY <1>3 DEF Change, Focus, HandleRequest
<1> QED BY <1>1, <1>2, <1>3

(* A name is written for a request only. *)
LEMMA HandleNames ==
  ASSUME ServerTypeOK, HandleRequest, NEW x, Wires("name", x) = {}, Wires("name", x)' # {}
  PROVE  Head(requests).kind = "bind_output" /\ Head(requests).id = x /\ x \in DOMAIN plugged
<1> DEFINE r == Head(requests)
<1>1. r \in Requests /\ wire \in Seq(Messages)
  BY HandleEffect DEF ServerTypeOK
<1>2. ASSUME NEW m \in Messages, wire' = Append(wire, m) PROVE m.kind = "name" /\ m.id = x
  <2>1. Wires("name", x)' = Wires("name", x) \cup (IF m.kind = "name" /\ m.id = x THEN {Len(wire) + 1} ELSE {})
    BY <1>1, <1>2, OneSent
  <2> QED BY <2>1
<1>3. \/ /\ r.kind \in {"sync", "bind_manager"}
         /\ \E k \in {"done", "tags"} : wire' = Append(wire, Msg(k, NoId))
      \/ /\ r.kind = "bind_output" /\ r.id \in DOMAIN plugged
         /\ wire' = Append(wire, NameMsg(r.id, plugged[r.id]))
      \/ \E s \in Seq(Messages) : wire' = wire \o s /\ \A i \in DOMAIN s : s[i].kind \in IPCKinds
      \/ UNCHANGED wire
  BY HandleEffect
<1> HIDE DEF r
<1>4. ASSUME NEW k \in {"done", "tags"}, wire' = Append(wire, Msg(k, NoId)) PROVE FALSE
  <2>1. Msg(k, NoId) \in Messages /\ Msg(k, NoId).kind # "name"
    BY MessageTypes DEF Msg
  <2> QED BY <1>2, <1>4, <2>1
<1>5. ASSUME NEW s \in Seq(Messages), wire' = wire \o s, \A i \in DOMAIN s : s[i].kind \in IPCKinds PROVE FALSE
  <2>1. \A i \in Wires("name", x)' : \E j \in DOMAIN s : s[j].kind = "name"
    BY <1>1, <1>5, WireGrows
  <2> QED BY <1>5, <2>1 DEF IPCKinds
<1>6. ~UNCHANGED wire
  BY Unmoved
<1>7. ASSUME r.kind = "bind_output", r.id \in DOMAIN plugged, wire' = Append(wire, NameMsg(r.id, plugged[r.id]))
      PROVE  r.id = x
  <2>1. r.id \in Ids /\ plugged[r.id] \in Names
    BY <1>7 DEF ServerTypeOK
  <2>2. NameMsg(r.id, plugged[r.id]) \in Messages /\ NameMsg(r.id, plugged[r.id]).id = r.id
    BY <2>1, MessageTypes DEF NameMsg
  <2> QED BY <1>2, <1>7, <2>2
<1>8. r.kind = "bind_output" /\ r.id \in DOMAIN plugged /\ r.id = x
  BY <1>3, <1>4, <1>5, <1>6, <1>7
<1> QED BY <1>8 DEF r

LEMMA KnownServed ==
  ASSUME ServerTypeOK, ClientTypeOK, \A x \in Ids : LifeInv(x), NEW id \in Ids,
         Plug(id) \/ Unplug(id) \/ Change(id) \/ Focus(id) \/ HandleRequest,
         NEW x \in Ids, KnownInv(x)
  PROVE  KnownInv(x)'
<1>0. wire \in Seq(Messages) /\ requests \in Seq(Requests) /\ UNCHANGED <<outputs, manager>>
  BY DEF ServerTypeOK, Plug, Unplug, Change, Focus, HandleRequest, client
<1>1. ASSUME NEW s \in Seq(Messages), wire' = wire \o s, DOMAIN plugged' \subseteq DOMAIN plugged, UNCHANGED requests,
             \A i \in DOMAIN s : s[i].kind \in {"output", "removed"} \cup IPCKinds,
             \A y \in DOMAIN plugged' \ bound' : y \notin bound
      PROVE  KnownInv(x)'
  <2>1. Wires("output", x) # {} => Wires("output", x)' # {}
    BY <1>0, <1>1, WireGrows
  <2>2. Wires("name", x)' # {} => Wires("name", x) # {}
    <3>1. \A i \in Wires("name", x)' : i \in Wires("name", x) \/ \E j \in DOMAIN s : s[j].kind = "name"
      <4>1. wire \in Seq(Messages) /\ s \in Seq(Messages) /\ wire' = wire \o s
        BY <1>0, <1>1
      <4> QED BY ONLY <4>1, WireGrows
    <3> QED BY <1>1, <3>1 DEF IPCKinds
  <2>3. Asked("get_output", x)' = Asked("get_output", x)
    BY <1>1, Unmoved
  <2> QED BY <1>0, <1>1, <2>1, <2>2, <2>3 DEF KnownInv
<1>2. CASE Plug(id)
  <2> DEFINE m == Msg("output", id)
  <2>1. m \in Messages /\ m.kind = "output" /\ m.id = id
    BY MessageTypes DEF Msg
  <2>2. /\ wire' = Append(wire, m) /\ id \in unused /\ DOMAIN plugged' = DOMAIN plugged \cup {id}
        /\ UNCHANGED <<bound, requests>>
    BY <1>2, PlugEffect
  <2> HIDE DEF m
  <2>3. /\ Len(wire) \in Nat
        /\ \A k : Wires(k, x)' = Wires(k, x) \cup (IF m.kind = k /\ m.id = x THEN {Len(wire) + 1} ELSE {})
    BY <1>0, <2>1, <2>2, OneSent
  <2>4. Wires("name", x)' = Wires("name", x) /\ Wires("output", x) \subseteq Wires("output", x)'
        /\ (x = id => Wires("output", x)' # {})
    BY <2>1, <2>3
  <2>5. Asked("get_output", x)' = Asked("get_output", x)
    BY <2>2, Unmoved
  <2>6. x = id => x \notin DOMAIN outputs
    BY <2>2 DEF LifeInv, FreshInv
  <2> QED BY <1>0, <2>2, <2>4, <2>5, <2>6 DEF KnownInv
<1>3. CASE Unplug(id) \/ Change(id) \/ Focus(id)
  <2>1. PICK s \in Seq(Messages) :
          wire' = wire \o s /\ \A i \in DOMAIN s : s[i].kind \in {"output", "removed"} \cup IPCKinds
    BY <1>3, CompositorSends
  <2>2. UNCHANGED requests /\ DOMAIN plugged' \subseteq DOMAIN plugged
        /\ \A y \in DOMAIN plugged' \ bound' : y \notin bound
    BY <1>3, UnplugEffect, StatusStepEffect
  <2> QED BY <1>1, <2>1, <2>2
<1>4. CASE HandleRequest
  <2> DEFINE r == Head(requests)
  <2>1. /\ requests # <<>> /\ requests' = Tail(requests) /\ UNCHANGED plugged /\ r \in Requests
    BY <1>4, HandleEffect
  <2>2. PICK s \in Seq(Messages) : wire' = wire \o s
    BY <1>4, AnswersSent
  <2>3. Wires("output", x) # {} => Wires("output", x)' # {}
    BY <1>0, <2>2, WireGrows
  <2>4. /\ \A i \in Asked("get_output", x) : i # 1 => i - 1 \in Asked("get_output", x)'
        /\ \A k : 1 \in Asked(k, x) <=> r.kind = k /\ r.id = x
    BY <1>0, <2>1, RequestsShift
  <2>5. Wires("name", x)' # {} => x \in DOMAIN outputs
    <3> SUFFICES ASSUME NEW i \in Wires("name", x)' PROVE x \in DOMAIN outputs
      OBVIOUS
    <3>1. CASE Wires("name", x) # {}
      BY <3>1 DEF KnownInv
    <3>2. CASE Wires("name", x) = {}
      <4>1. r.kind = "bind_output" /\ r.id = x /\ x \in DOMAIN plugged
        BY <1>0, <1>4, <3>2, HandleNames
      <4>2. Wires("output", x) = {}
        BY <2>4, <4>1 DEF LifeInv, FreshInv
      <4> QED BY <4>1, <4>2 DEF KnownInv
    <3> QED BY <3>1, <3>2
  <2>6. x \in DOMAIN plugged /\ x \notin bound' /\ Asked("get_output", x) # {} => Asked("get_output", x)' # {}
    <3> SUFFICES ASSUME x \in DOMAIN plugged, x \notin bound', NEW i \in Asked("get_output", x)
                 PROVE  Asked("get_output", x)' # {}
      OBVIOUS
    <3>1. r.kind = "get_output" /\ r.id \in DOMAIN plugged => r.id \in bound'
      BY ONLY <1>4 DEF HandleRequest
    <3>2. i = 1 => r.kind = "get_output" /\ r.id = x
      BY <2>4
    <3>3. i # 1
      BY <3>1, <3>2
    <3> QED BY <2>4, <3>3
  <2>7. bound \subseteq bound'
    BY <1>4 DEF HandleRequest
  <2> QED BY <1>0, <2>1, <2>3, <2>5, <2>6, <2>7 DEF KnownInv
<1> QED BY <1>2, <1>3, <1>4

(* Dispatching a message moves all others to the front. *)
LEMMA AllMoveUp ==
  ASSUME wire \in Seq(Messages), wire # <<>>, wire' = Tail(wire)
  PROVE  /\ Message = wire[1] /\ 1 \in 1..Len(wire)
         /\ \A i \in 1..Len(wire') : i \in Nat /\ i + 1 \in 1..Len(wire) /\ wire'[i] = wire[i + 1]
         /\ \A i \in 1..Len(wire) : i \in Nat /\ (i # 1 => i - 1 \in 1..Len(wire') /\ wire'[i - 1] = wire[i])
<1>1. Len(wire) \in Nat \ {0} /\ Len(wire') = Len(wire) - 1 /\ Message = wire[1]
  BY DEF Message
<1>2. \A i \in 1..Len(wire') : wire'[i] = wire[i + 1]
  OBVIOUS
<1>3. \A i \in 1..Len(wire') : i \in Nat /\ i + 1 \in 1..Len(wire)
  BY <1>1
<1>4. \A i \in 1..Len(wire) : i \in Nat /\ (i # 1 => i - 1 \in 1..Len(wire') /\ (i - 1) + 1 = i)
  BY <1>1
<1> QED BY <1>1, <1>2, <1>3, <1>4

LEMMA FrameShift ==
  ASSUME wire \in Seq(Messages), wire # <<>>, wire' = Tail(wire), NEW x, FrameInv(x)
  PROVE  FrameInv(x)'
<1>1. /\ \A i \in Ipcs(x)' : i \in Nat /\ i + 1 \in Ipcs(x)
      /\ \A i \in Wires("removed", x)' : i \in Nat /\ i + 1 \in Wires("removed", x)
      /\ \A j \in Wires("frame", x) : j \in Nat /\ (j # 1 => j - 1 \in Wires("frame", x)')
  BY AllMoveUp DEF Ipcs, Wires
<1>2. ASSUME NEW i \in Ipcs(x)'
      PROVE  \E j \in Wires("frame", x)' : i <= j /\ \A r \in Wires("removed", x)' : r < i \/ j < r
  <2>1. PICK j \in Wires("frame", x) : i + 1 <= j /\ \A r \in Wires("removed", x) : r < i + 1 \/ j < r
    BY <1>1 DEF FrameInv
  <2>2. i \in Nat /\ i # 0
    BY <1>1 DEF Ipcs
  <2>3. j - 1 \in Wires("frame", x)' /\ i <= j - 1 /\ j \in Nat
    BY <1>1, <2>1, <2>2
  <2>4. ASSUME NEW r \in Wires("removed", x)' PROVE r < i \/ j - 1 < r
    <3>1. r \in Nat /\ (r + 1 < i + 1 \/ j < r + 1)
      BY <1>1, <2>1
    <3> QED BY <2>2, <2>3, <3>1
  <2> QED BY <2>3, <2>4
<1> QED BY <1>2 DEF FrameInv

(* A fact is still right once its last update is dispatched, if the adapter  *)
(* took it.                                                                  *)
LEMMA TagShift ==
  ASSUME wire \in Seq(Messages), wire # <<>>, wire' = Tail(wire), UNCHANGED truth, NEW x, NEW t, LastTag(x, t),
         outputs[x].name \in Names /\ (t \in Held(x)["tags"] <=> t \in truth[x]["tags"]) =>
           (Message.kind = "tag" /\ Message.id = x /\ Message.tag = t)
             \/ (outputs'[x].name \in Names /\ (t \in Held(x)'["tags"] <=> t \in truth[x]["tags"])),
         Message.kind = "tag" /\ Message.id = x /\ Message.tag = t =>
           outputs'[x].name \in Names /\ (t \in Held(x)'["tags"] <=> Message.on)
  PROVE  LastTag(x, t)'
<1>0. /\ Message = wire[1] /\ 1 \in 1..Len(wire)
      /\ \A i \in 1..Len(wire') : i \in Nat /\ i + 1 \in 1..Len(wire) /\ wire'[i] = wire[i + 1]
      /\ \A i \in 1..Len(wire) : i \in Nat /\ (i # 1 => i - 1 \in 1..Len(wire') /\ wire'[i - 1] = wire[i])
  BY AllMoveUp
<1>1. /\ \A i \in TagWires(x, t)' : i \in Nat /\ i + 1 \in TagWires(x, t) /\ wire'[i] = wire[i + 1]
      /\ \A i \in TagWires(x, t) : i \in Nat /\ (i # 1 => i - 1 \in TagWires(x, t)')
      /\ 1 \in TagWires(x, t) <=> Message.kind = "tag" /\ Message.id = x /\ Message.tag = t
  BY <1>0 DEF TagWires, Wires
<1>2. ASSUME NEW i \in TagWires(x, t)', \A j \in TagWires(x, t)' : j <= i
      PROVE  wire'[i].on <=> t \in truth'[x]["tags"]
  <2>1. ASSUME NEW j \in TagWires(x, t) PROVE j <= i + 1
    <3>1. CASE j = 1
      BY <1>1, <3>1
    <3>2. CASE j # 1
      <4>1. j - 1 \in TagWires(x, t)' /\ j \in Nat /\ i \in Nat
        BY <1>1, <3>2
      <4>2. j - 1 <= i
        BY <1>2, <4>1
      <4> QED BY <4>1, <4>2
    <3> QED BY <3>1, <3>2
  <2>2. wire[i + 1].on <=> t \in truth[x]["tags"]
    BY <1>1, <2>1 DEF LastTag
  <2> QED BY <1>1, <2>2
<1>3. ASSUME TagWires(x, t)' = {}
      PROVE  outputs'[x].name \in Names /\ (t \in Held(x)'["tags"] <=> t \in truth'[x]["tags"])
  <2>1. CASE 1 \in TagWires(x, t)
    <3>1. \A j \in TagWires(x, t) : j <= 1
      BY <1>1, <1>3
    <3>2. wire[1].on <=> t \in truth[x]["tags"]
      BY <2>1, <3>1 DEF LastTag
    <3> QED BY <1>0, <1>1, <2>1, <3>2
  <2>2. CASE 1 \notin TagWires(x, t)
    <3>1. TagWires(x, t) = {}
      BY <1>1, <1>3, <2>2
    <3> QED BY <1>1, <2>2, <3>1 DEF LastTag
  <2> QED BY <2>1, <2>2
<1> QED BY <1>2, <1>3 DEF LastTag

LEMMA FieldShift ==
  ASSUME wire \in Seq(Messages), wire # <<>>, wire' = Tail(wire), UNCHANGED truth, NEW x, NEW f, LastField(x, f),
         outputs[x].name \in Names /\ Held(x)[f] = truth[x][f] =>
           (Message.kind = "field" /\ Message.id = x /\ Message.field = f)
             \/ (outputs'[x].name \in Names /\ Held(x)'[f] = truth[x][f]),
         Message.kind = "field" /\ Message.id = x /\ Message.field = f =>
           outputs'[x].name \in Names /\ Held(x)'[f] = Message.value
  PROVE  LastField(x, f)'
<1>0. /\ Message = wire[1] /\ 1 \in 1..Len(wire)
      /\ \A i \in 1..Len(wire') : i \in Nat /\ i + 1 \in 1..Len(wire) /\ wire'[i] = wire[i + 1]
      /\ \A i \in 1..Len(wire) : i \in Nat /\ (i # 1 => i - 1 \in 1..Len(wire') /\ wire'[i - 1] = wire[i])
  BY AllMoveUp
<1>1. /\ \A i \in FieldWires(x, f)' : i \in Nat /\ i + 1 \in FieldWires(x, f) /\ wire'[i] = wire[i + 1]
      /\ \A i \in FieldWires(x, f) : i \in Nat /\ (i # 1 => i - 1 \in FieldWires(x, f)')
      /\ 1 \in FieldWires(x, f) <=> Message.kind = "field" /\ Message.id = x /\ Message.field = f
  BY <1>0 DEF FieldWires, Wires
<1>2. ASSUME NEW i \in FieldWires(x, f)', \A j \in FieldWires(x, f)' : j <= i
      PROVE  wire'[i].value = truth'[x][f]
  <2>1. ASSUME NEW j \in FieldWires(x, f) PROVE j <= i + 1
    <3>1. CASE j = 1
      BY <1>1, <3>1
    <3>2. CASE j # 1
      <4>1. j - 1 \in FieldWires(x, f)' /\ j \in Nat /\ i \in Nat
        BY <1>1, <3>2
      <4>2. j - 1 <= i
        BY <1>2, <4>1
      <4> QED BY <4>1, <4>2
    <3> QED BY <3>1, <3>2
  <2>2. wire[i + 1].value = truth[x][f]
    BY <1>1, <2>1 DEF LastField
  <2> QED BY <1>1, <2>2
<1>3. ASSUME FieldWires(x, f)' = {}
      PROVE  outputs'[x].name \in Names /\ Held(x)'[f] = truth'[x][f]
  <2>1. CASE 1 \in FieldWires(x, f)
    <3>1. \A j \in FieldWires(x, f) : j <= 1
      BY <1>1, <1>3
    <3>2. wire[1].value = truth[x][f]
      BY <2>1, <3>1 DEF LastField
    <3> QED BY <1>0, <1>1, <2>1, <3>2
  <2>2. CASE 1 \notin FieldWires(x, f)
    <3>1. FieldWires(x, f) = {}
      BY <1>1, <1>3, <2>2
    <3> QED BY <1>1, <2>2, <3>1 DEF LastField
  <2> QED BY <2>1, <2>2
<1> QED BY <1>2, <1>3 DEF LastField

(* The adapter's state of x, pending or committed, stays as it is. *)
LEMMA HeldKept ==
  ASSUME NEW x, NEW n, n = outputs[x].name, n = outputs'[x].name,
         n \in DOMAIN pending' <=> n \in DOMAIN pending,
         n \in DOMAIN pending => pending'[n].facts = pending[n].facts,
         n \in DOMAIN committed' <=> n \in DOMAIN committed,
         n \in DOMAIN committed => committed'[n].facts = committed[n].facts
  PROVE  Held(x)' = Held(x)
BY DEF Held, PendingState, Blank

(* An output with an IPC object is known, and not on its way out. *)
LEMMA BoundKnown ==
  ASSUME ReadyInv, NEW x \in bound, KnownInv(x)
  PROVE  /\ x \in Ids /\ x \in DOMAIN plugged /\ x \in DOMAIN outputs
         /\ Wires("output", x) = {} /\ Wires("removed", x) = {}
<1>1. x \in Ids
  BY DEF ReadyInv, NamesInv, WorldInv, TypesInv, ServerTypeOK
<1>2. LifeInv(x)
  BY <1>1 DEF ReadyInv, NamesInv, WorldInv
<1>3. Wires("output", x) = {} /\ x \in DOMAIN plugged
  BY <1>2 DEF LifeInv, FreshInv, GoneInv
<1>4. Wires("removed", x) = {}
  BY <1>2, <1>3 DEF LifeInv, GoneInv
<1> QED BY <1>1, <1>3, <1>4 DEF KnownInv

(* Dispatching a message that is no update of x, and leaves its state.       *)
LEMMA LastShift ==
  ASSUME wire \in Seq(Messages), wire # <<>>, wire' = Tail(wire), UNCHANGED <<truth, bound>>, NEW x, LastInv(x),
         x \in bound => ~(Message.kind \in {"tag", "field"} /\ Message.id = x),
         x \in bound /\ outputs[x].name \in Names => outputs'[x].name \in Names /\ Held(x)' = Held(x)
  PROVE  LastInv(x)'
<1> SUFFICES ASSUME x \in bound
             PROVE  (\A t \in Tags : LastTag(x, t)') /\ \A f \in Fields : LastField(x, f)'
  BY DEF LastInv
<1>1. outputs[x].name \in Names => outputs'[x].name \in Names /\ Held(x)' = Held(x)
  OBVIOUS
<1>2. ASSUME NEW t \in Tags PROVE LastTag(x, t)'
  <2>1. LastTag(x, t)
    BY DEF LastInv
  <2>2. outputs[x].name \in Names /\ (t \in Held(x)["tags"] <=> t \in truth[x]["tags"]) =>
           (Message.kind = "tag" /\ Message.id = x /\ Message.tag = t)
             \/ (outputs'[x].name \in Names /\ (t \in Held(x)'["tags"] <=> t \in truth[x]["tags"]))
    BY <1>1
  <2>3. Message.kind = "tag" /\ Message.id = x /\ Message.tag = t =>
           outputs'[x].name \in Names /\ (t \in Held(x)'["tags"] <=> Message.on)
    OBVIOUS
  <2>4. UNCHANGED truth
    OBVIOUS
  <2> QED BY ONLY wire \in Seq(Messages), wire # <<>>, wire' = Tail(wire), <2>1, <2>2, <2>3, <2>4, TagShift
<1>3. ASSUME NEW f \in Fields PROVE LastField(x, f)'
  <2>1. LastField(x, f)
    BY DEF LastInv
  <2>2. outputs[x].name \in Names /\ Held(x)[f] = truth[x][f] =>
           (Message.kind = "field" /\ Message.id = x /\ Message.field = f)
             \/ (outputs'[x].name \in Names /\ Held(x)'[f] = truth[x][f])
    BY <1>1
  <2>3. Message.kind = "field" /\ Message.id = x /\ Message.field = f =>
           outputs'[x].name \in Names /\ Held(x)'[f] = Message.value
    OBVIOUS
  <2>4. UNCHANGED truth
    OBVIOUS
  <2> QED BY ONLY wire \in Seq(Messages), wire # <<>>, wire' = Tail(wire), <2>1, <2>2, <2>3, <2>4, FieldShift
<1> QED BY <1>2, <1>3

(* A tag of x is collected. *)
LEMMA TagCollected ==
  ASSUME ReadyInv, OnTag, NEW id, id = Message.id
  PROVE  /\ NameOf \in Names /\ UNCHANGED <<outputs, committed, truth, bound>> /\ Message.tag \in Tags
         /\ \A n \in DOMAIN outputs : outputs[n].name # NameOf => Held(n)' = Held(n)
         /\ \A f \in Fields : Held(id)'[f] = Held(id)[f]
         /\ \A t : t \in Held(id)'["tags"] <=>
                     IF t = Message.tag THEN Message.on ELSE t \in Held(id)["tags"]
<1> DEFINE p == PendingState(NameOf)
           u == IF Message.on THEN p.facts["tags"] \cup {Message.tag} ELSE p.facts["tags"] \ {Message.tag}
           v == IF Message.tag >= p.ntags THEN p ELSE [p EXCEPT !.facts["tags"] = u]
<1>0. ServerTypeOK /\ ClientTypeOK /\ NamesInv /\ CountedInv /\ \A x \in Ids : TagsFirstInv(x)
  BY DEF ReadyInv, NamesInv, WorldInv, TypesInv
<1>1. Ipc("tag") /\ pending' = With(pending, NameOf, v) /\ UNCHANGED committed
  BY DEF OnTag
<1>2. /\ p \in OutputStates /\ NameOf \in Names /\ NameOf \in DOMAIN committed /\ Message.tag \in Tags
      /\ wire # <<>> /\ wire' = Tail(wire) /\ Message.id \in DOMAIN outputs /\ Message.id \in Ids
      /\ UNCHANGED <<outputs, truth, bound>> /\ wire \in Seq(Messages) /\ Message.kind = "tag"
  <2>1. "tag" \in IPCKinds
    BY DEF IPCKinds
  <2>2. NameOf \in Names /\ NameOf \in DOMAIN committed /\ p \in OutputStates
    BY <1>0, <1>1, <2>1, StatusNamed
  <2>3. /\ wire # <<>> /\ wire' = Tail(wire) /\ Message.id \in DOMAIN outputs /\ Message.id \in Ids
        /\ UNCHANGED <<outputs, truth, bound>> /\ Message \in Messages /\ Message.kind = "tag"
    BY <1>0, <1>1, IpcTypes DEF server
  <2>4. Message.tag \in Tags
    BY <2>3, MessageShapes
  <2>5. wire \in Seq(Messages)
    BY <1>0 DEF ServerTypeOK
  <2> QED BY <2>2, <2>3, <2>4, <2>5
<1>3. p.ntags = NTags
  <2>1. 1 \in Ipcs(Message.id) /\ \A t \in Wires("tags", NoId) : ~(t < 1)
    BY <1>2, WireShift DEF IPCKinds
  <2>2. tagCount = NTags
    BY <1>0, <1>2, <2>1 DEF TagsFirstInv
  <2> QED BY <1>0, <1>2, <2>2 DEF PendingState, CountedInv
<1>4. ~(Message.tag >= p.ntags)
  BY <1>2, <1>3 DEF Tags
<1>5. u \in SUBSET Tags
  BY <1>2, FactTypes DEF OutputStates, FactSets
<1>6. v = [p EXCEPT !.facts["tags"] = u]
  BY <1>4
<1>7. v \in OutputStates /\ v.facts = [p.facts EXCEPT !["tags"] = u] /\ p.facts \in FactSets
  <2> HIDE DEF v, u, p
  <2>1. u \in FactValues("tags") /\ "tags" \in Facts
    BY <1>5, FactTypes
  <2> QED BY <1>2, <1>6, <2>1, StateTypes DEF OutputStates
<1>8. /\ v.facts["tags"] = u /\ \A f \in Fields : v.facts[f] = p.facts[f]
  <2> HIDE DEF v, u, p
  <2> QED BY <1>7, FactTypes DEF FactSets
<1> HIDE DEF v
<1>9. /\ DOMAIN pending' = DOMAIN pending \cup {NameOf} /\ pending'[NameOf] = v
      /\ \A m \in DOMAIN pending : m # NameOf => pending'[m] = pending[m]
  BY <1>1 DEF With
<1>10. Held(id)' = v.facts /\ Held(id) = p.facts
  BY <1>2, <1>9 DEF Held, PendingState, NameOf
<1>11. ASSUME NEW x \in DOMAIN outputs, outputs[x].name # NameOf PROVE Held(x)' = Held(x)
  BY <1>1, <1>2, <1>9, <1>11 DEF Held, PendingState, Blank
<1>12. \A t : t \in u <=> IF t = Message.tag THEN Message.on ELSE t \in p.facts["tags"]
  OBVIOUS
<1> QED BY <1>1, <1>2, <1>8, <1>10, <1>11, <1>12

(* ... and any other fact. *)
LEMMA FieldCollected ==
  ASSUME ReadyInv, OnField, NEW id, id = Message.id
  PROVE  /\ NameOf \in Names /\ UNCHANGED <<outputs, committed, truth, bound>> /\ Message.field \in Fields
         /\ \A n \in DOMAIN outputs : outputs[n].name # NameOf => Held(n)' = Held(n)
         /\ \A f \in Facts : Held(id)'[f] = IF f = Message.field THEN Message.value ELSE Held(id)[f]
<1> DEFINE p == PendingState(NameOf)
           v == [p EXCEPT !.facts[Message.field] = Message.value]
<1>0. ServerTypeOK /\ ClientTypeOK /\ NamesInv
  BY DEF ReadyInv, NamesInv, WorldInv, TypesInv
<1>1. Ipc("field") /\ pending' = With(pending, NameOf, v) /\ UNCHANGED committed
  BY DEF OnField
<1>2. /\ p \in OutputStates /\ NameOf \in Names /\ NameOf \in DOMAIN committed
      /\ Message.field \in Fields /\ Message.value \in Values
      /\ Message.id \in DOMAIN outputs /\ UNCHANGED <<outputs, truth, bound>>
  BY <1>0, <1>1, IpcTypes, MessageShapes, StatusNamed DEF IPCKinds, server
<1>3. v.facts = [p.facts EXCEPT ![Message.field] = Message.value] /\ p.facts \in FactSets
  <2>1. Message.value \in FactValues(Message.field) /\ Message.field \in Facts
    BY <1>2, FactTypes
  <2> HIDE DEF p
  <2> QED BY <1>2, <2>1, StateTypes DEF OutputStates
<1> HIDE DEF v
<1>4. \A f \in Facts : v.facts[f] = IF f = Message.field THEN Message.value ELSE p.facts[f]
  <2> HIDE DEF p
  <2> QED BY <1>3 DEF FactSets
<1>5. /\ DOMAIN pending' = DOMAIN pending \cup {NameOf} /\ pending'[NameOf] = v
      /\ \A m \in DOMAIN pending : m # NameOf => pending'[m] = pending[m]
  BY <1>1 DEF With
<1>6. Held(id)' = v.facts /\ Held(id) = p.facts
  BY <1>2, <1>5 DEF Held, PendingState, NameOf
<1>7. ASSUME NEW x \in DOMAIN outputs, outputs[x].name # NameOf PROVE Held(x)' = Held(x)
  BY <1>1, <1>2, <1>5, <1>7 DEF Held, PendingState, Blank
<1> QED BY <1>1, <1>2, <1>4, <1>6, <1>7

(* ... and so does what the adapter dispatches: of the last updates, ...     *)
LEMMA LastDispatched ==
  ASSUME ReadyInv, NEW x \in Ids, KnownInv(x), LastInv(x),
         \/ OnDone \/ OnManager \/ OnOutput \/ OnRemoved \/ OnName \/ OnTags
         \/ OnStale \/ OnActive \/ OnTag \/ OnField \/ OnFrame
  PROVE  LastInv(x)'
<1>0. /\ ServerTypeOK /\ ClientTypeOK /\ NamesInv /\ StartInv /\ CommittedInv /\ wire \in Seq(Messages)
      /\ \A y \in Ids : LifeInv(y) /\ ApartInv(x, y)
  BY DEF ReadyInv, NamesInv, WorldInv, TypesInv, ServerTypeOK
<1>1. x \in bound => x \in DOMAIN outputs /\ Wires("output", x) = {} /\ Wires("removed", x) = {}
  BY BoundKnown
<1>2. ASSUME NEW k, Arrived(k), Dispatched PROVE wire # <<>> /\ wire' = Tail(wire) /\ Message.kind = k
  BY <1>0, <1>2, DispatchTypes
<1>3. ASSUME NEW k, Arrived(k), Dispatched, UNCHANGED <<truth, bound>>,
             x \in bound => ~(k \in {"tag", "field"} /\ Message.id = x),
             x \in bound /\ outputs[x].name \in Names => outputs'[x].name \in Names /\ Held(x)' = Held(x)
      PROVE  LastInv(x)'
  BY <1>0, <1>2, <1>3, LastShift
<1>4. ASSUME UNCHANGED <<outputs, pending, committed>>
      PROVE  outputs[x].name \in Names => outputs'[x].name \in Names /\ Held(x)' = Held(x)
  BY <1>4 DEF Held, PendingState
<1>5. CASE OnDone
  BY <1>3, <1>4, <1>5 DEF OnDone, server
<1>6. CASE OnStale
  <2>1. PICK k : Arrived(k) /\ Dispatched
    BY <1>6 DEF OnStale
  <2>2. UNCHANGED <<truth, bound>> /\ UNCHANGED <<outputs, pending, committed>> /\ Message.id \notin DOMAIN outputs
    BY <1>6 DEF OnStale, server, client
  <2> QED BY <1>1, <1>3, <1>4, <2>1, <2>2
<1>7. CASE OnTags
  <2>1. /\ Arrived("tags") /\ Dispatched /\ UNCHANGED <<truth, bound, outputs, pending>>
        /\ committed' = [n \in DOMAIN committed |-> [committed[n] EXCEPT !.ntags = NTags]]
    BY <1>7 DEF OnTags, server
  <2>2. \A n \in DOMAIN committed : committed[n] \in [ntags : Nat, facts : FactSets]
    BY <1>0 DEF ClientTypeOK, OutputStates
  <2>3. DOMAIN committed' = DOMAIN committed /\ \A n \in DOMAIN committed : committed'[n].facts = committed[n].facts
    BY <2>1, <2>2
  <2>4. Held(x)' = Held(x)
    BY <2>1, <2>3, HeldKept
  <2> QED BY <1>3, <2>1, <2>4
<1>8. CASE OnManager
  <2>1. Arrived("manager") /\ Dispatched /\ UNCHANGED <<truth, bound>>
    BY <1>8 DEF OnManager, server
  <2>2. x \in bound => outputs[x].name \notin Names
    BY <1>0, <1>1, <1>8, ManagerEffect
  <2> QED BY <1>3, <2>1, <2>2
<1>9. CASE OnOutput
  <2>1. /\ Arrived("output") /\ Dispatched /\ UNCHANGED <<truth, bound, pending, committed>>
        /\ outputs' = With(outputs, Message.id, [name |-> Provisional(Message.id), ipc |-> manager])
    BY <1>9 DEF OnOutput, server
  <2>2. 1 \in Wires("output", Message.id)
    BY <1>0, <1>2, <2>1, WireShift
  <2>3. x \in bound => outputs'[x] = outputs[x]
    BY <1>1, <2>1, <2>2 DEF With
  <2>4. x \in bound => Held(x)' = Held(x)
    BY <2>1, <2>3 DEF Held, PendingState
  <2> QED BY <1>3, <2>1, <2>3, <2>4
<1>10. CASE OnRemoved
  <2>1. /\ Arrived("removed") /\ Dispatched /\ UNCHANGED <<truth, bound, pending>>
        /\ Message.id \in DOMAIN outputs /\ outputs' = Without(outputs, Message.id)
        /\ committed' = Without(committed, NameOf)
    BY <1>10 DEF OnRemoved, server
  <2>2. 1 \in Wires("removed", Message.id) /\ Message.id \in Ids
    BY <1>0, <1>2, <2>1, WireShift DEF ClientTypeOK
  <2>3. x \in bound => outputs'[x] = outputs[x] /\ x # Message.id
    BY <1>1, <2>1, <2>2 DEF Without
  <2>4. x \in bound /\ outputs[x].name \in Names => outputs[x].name # NameOf
    BY <1>0, <1>1, <2>1, <2>2, <2>3 DEF ApartInv, NameOf
  <2>5. x \in bound /\ outputs[x].name \in Names => Held(x)' = Held(x)
    BY <2>1, <2>3, <2>4 DEF Held, PendingState, Without
  <2> QED BY <1>3, <2>1, <2>3, <2>5
<1>11. CASE OnName
  <2>1. Arrived("name") /\ Dispatched /\ UNCHANGED <<truth, bound>>
    BY <1>11 DEF OnName, server
  <2>2. /\ pending' = pending
        /\ committed' = IF Message.name \in DOMAIN committed THEN committed
                        ELSE With(committed, Message.name, Blank(tagCount))
    BY <1>0, <1>11, NameCommits
  <2>3. /\ \A y \in DOMAIN outputs : y # Message.id => outputs'[y] = outputs[y]
        /\ 1 \in Wires("name", Message.id)
    BY <1>0, <1>11, NameEffect
  <2>4. x \in bound /\ outputs[x].name \in Names => outputs'[x] = outputs[x] /\ outputs[x].name \in DOMAIN committed
    BY <1>0, <1>1, <2>3 DEF LifeInv, NamingInv, CommittedInv
  <2>5. x \in bound /\ outputs[x].name \in Names => Held(x)' = Held(x)
    BY <2>2, <2>4 DEF Held, PendingState, With
  <2> QED BY <1>3, <2>1, <2>4, <2>5
<1>12. CASE OnActive
  <2>1. /\ Arrived("active") /\ Dispatched /\ UNCHANGED <<truth, bound, outputs, committed>>
        /\ pending' = With(pending, NameOf, PendingState(NameOf))
    BY <1>12 DEF OnActive, Ipc, server
  <2>2. Held(x)' = Held(x)
    BY <2>1 DEF Held, PendingState, With
  <2> QED BY <1>3, <2>1, <2>2
<1>13. CASE OnFrame
  <2>1. /\ Arrived("frame") /\ Dispatched /\ UNCHANGED <<truth, bound, outputs>>
        /\ committed' = With(committed, NameOf, PendingState(NameOf)) /\ pending' = Without(pending, NameOf)
    BY <1>13 DEF OnFrame, Ipc, server
  <2>2. Held(x)' = Held(x)
    BY <2>1 DEF Held, PendingState, With, Without
  <2> QED BY <1>3, <2>1, <2>2
<1>14. CASE OnTag
  <2>1. Arrived("tag") /\ Dispatched /\ Message.id \in DOMAIN outputs /\ Message.id \in Ids
    BY <1>0, <1>14, IpcTypes DEF OnTag, Ipc
  <2>2. PICK id : id = Message.id
    OBVIOUS
  <2>3. /\ NameOf \in Names /\ UNCHANGED <<outputs, committed, truth, bound>> /\ Message.tag \in Tags
        /\ \A n \in DOMAIN outputs : outputs[n].name # NameOf => Held(n)' = Held(n)
        /\ \A f \in Fields : Held(id)'[f] = Held(id)[f]
        /\ \A t : t \in Held(id)'["tags"] <=>
                     IF t = Message.tag THEN Message.on ELSE t \in Held(id)["tags"]
    BY <1>14, <2>2, TagCollected
  <2>4. CASE x \notin bound
    BY <2>3, <2>4 DEF LastInv
  <2>5. CASE x \in bound /\ id # x
    <3>1. outputs[x].name \in Names => outputs[x].name # NameOf
      BY <1>0, <1>1, <2>1, <2>2, <2>5 DEF ApartInv, NameOf
    <3> QED BY <1>1, <1>3, <2>1, <2>2, <2>3, <2>5, <3>1
  <2>6. CASE x \in bound /\ id = x
    <3>1. wire # <<>> /\ wire' = Tail(wire) /\ Message.kind = "tag"
      BY <1>2, <2>1
    <3>2. outputs'[x].name \in Names
      BY <2>2, <2>3, <2>6 DEF NameOf
    <3>3. ASSUME NEW t \in Tags PROVE LastTag(x, t)'
      <4>1. LastTag(x, t)
        BY <2>6 DEF LastInv
      <4>2. outputs[x].name \in Names /\ (t \in Held(x)["tags"] <=> t \in truth[x]["tags"]) =>
               (Message.kind = "tag" /\ Message.id = x /\ Message.tag = t)
                 \/ (outputs'[x].name \in Names /\ (t \in Held(x)'["tags"] <=> t \in truth[x]["tags"]))
        BY <2>2, <2>3, <2>6, <3>1, <3>2
      <4>3. Message.kind = "tag" /\ Message.id = x /\ Message.tag = t =>
               outputs'[x].name \in Names /\ (t \in Held(x)'["tags"] <=> Message.on)
        BY <2>3, <2>6, <3>2
      <4>4. UNCHANGED truth
        BY <2>3
      <4> QED BY ONLY <1>0, <3>1, <4>1, <4>2, <4>3, <4>4, TagShift
    <3>4. ASSUME NEW f \in Fields PROVE LastField(x, f)'
      <4>1. LastField(x, f)
        BY <2>6 DEF LastInv
      <4>2. outputs[x].name \in Names /\ Held(x)[f] = truth[x][f] =>
               (Message.kind = "field" /\ Message.id = x /\ Message.field = f)
                 \/ (outputs'[x].name \in Names /\ Held(x)'[f] = truth[x][f])
        BY <2>3, <2>6, <3>2
      <4>3. Message.kind = "field" /\ Message.id = x /\ Message.field = f =>
               outputs'[x].name \in Names /\ Held(x)'[f] = Message.value
        BY <3>1
      <4>4. UNCHANGED truth
        BY <2>3
      <4> QED BY ONLY <1>0, <3>1, <4>1, <4>2, <4>3, <4>4, FieldShift
    <3> QED BY <3>3, <3>4 DEF LastInv
  <2> QED BY <2>4, <2>5, <2>6
<1>15. CASE OnField
  <2>1. Arrived("field") /\ Dispatched /\ Message.id \in DOMAIN outputs /\ Message.id \in Ids
    BY <1>0, <1>15, IpcTypes DEF OnField, Ipc
  <2>2. PICK id : id = Message.id
    OBVIOUS
  <2>3. /\ NameOf \in Names /\ UNCHANGED <<outputs, committed, truth, bound>> /\ Message.field \in Fields
        /\ \A n \in DOMAIN outputs : outputs[n].name # NameOf => Held(n)' = Held(n)
        /\ \A f \in Facts : Held(id)'[f] = IF f = Message.field THEN Message.value ELSE Held(id)[f]
    BY <1>15, <2>2, FieldCollected
  <2>4. CASE x \notin bound
    BY <2>3, <2>4 DEF LastInv
  <2>5. CASE x \in bound /\ id # x
    <3>1. outputs[x].name \in Names => outputs[x].name # NameOf
      BY <1>0, <1>1, <2>1, <2>2, <2>5 DEF ApartInv, NameOf
    <3> QED BY <1>1, <1>3, <2>1, <2>2, <2>3, <2>5, <3>1
  <2>6. CASE x \in bound /\ id = x
    <3>1. wire # <<>> /\ wire' = Tail(wire) /\ Message.kind = "field"
      BY <1>2, <2>1
    <3>2. outputs'[x].name \in Names
      BY <2>2, <2>3, <2>6 DEF NameOf
    <3>3. ASSUME NEW t \in Tags PROVE LastTag(x, t)'
      <4>0. "tags" \in Facts /\ "tags" # Message.field
        BY <2>3, FactTypes
      <4>1. LastTag(x, t)
        BY <2>6 DEF LastInv
      <4>2. outputs[x].name \in Names /\ (t \in Held(x)["tags"] <=> t \in truth[x]["tags"]) =>
               (Message.kind = "tag" /\ Message.id = x /\ Message.tag = t)
                 \/ (outputs'[x].name \in Names /\ (t \in Held(x)'["tags"] <=> t \in truth[x]["tags"]))
        BY <2>3, <2>6, <3>2, <4>0
      <4>3. Message.kind = "tag" /\ Message.id = x /\ Message.tag = t =>
               outputs'[x].name \in Names /\ (t \in Held(x)'["tags"] <=> Message.on)
        BY <3>1
      <4>4. UNCHANGED truth
        BY <2>3
      <4> QED BY ONLY <1>0, <3>1, <4>1, <4>2, <4>3, <4>4, TagShift
    <3>4. ASSUME NEW f \in Fields PROVE LastField(x, f)'
      <4>0. f \in Facts
        BY FactTypes
      <4>1. LastField(x, f)
        BY <2>6 DEF LastInv
      <4>2. outputs[x].name \in Names /\ Held(x)[f] = truth[x][f] =>
               (Message.kind = "field" /\ Message.id = x /\ Message.field = f)
                 \/ (outputs'[x].name \in Names /\ Held(x)'[f] = truth[x][f])
        BY <2>2, <2>3, <2>6, <3>1, <3>2, <4>0
      <4>3. Message.kind = "field" /\ Message.id = x /\ Message.field = f =>
               outputs'[x].name \in Names /\ Held(x)'[f] = Message.value
        BY <2>3, <2>6, <3>2, <4>0
      <4>4. UNCHANGED truth
        BY <2>3
      <4> QED BY ONLY <1>0, <3>1, <4>1, <4>2, <4>3, <4>4, FieldShift
    <3> QED BY <3>3, <3>4 DEF LastInv
  <2> QED BY <2>4, <2>5, <2>6
<1> QED BY <1>5, <1>6, <1>7, <1>8, <1>9, <1>10, <1>11, <1>12, <1>13, <1>14, <1>15

(* What is pending still has its frame to come when another message is dispatched. *)
LEMMA PendShift ==
  ASSUME wire \in Seq(Messages), wire # <<>>, wire' = Tail(wire), NEW x, NEW j \in Wires("frame", x),
         \A r \in Wires("removed", x) : j < r, ~(Message.kind = "frame" /\ Message.id = x)
  PROVE  /\ \E h \in Wires("frame", x)' : \A r \in Wires("removed", x)' : h < r
         /\ ~(Message.kind = "removed" /\ Message.id = x)
<1>1. /\ \A i \in Wires("removed", x)' : i + 1 \in Wires("removed", x) /\ i \in Nat
      /\ j # 1 /\ j - 1 \in Wires("frame", x)' /\ j \in Nat \ {0}
      /\ Message.kind = "removed" /\ Message.id = x => 1 \in Wires("removed", x)
  BY WireShift
<1>2. \A r \in Wires("removed", x)' : j - 1 < r
  BY <1>1
<1> QED BY <1>1, <1>2

(* ... of what is pending, ... *)
LEMMA PendDispatched ==
  ASSUME ReadyInv, PendInv, \A x \in Ids : KnownInv(x) /\ FrameInv(x),
         \/ OnDone \/ OnManager \/ OnOutput \/ OnRemoved \/ OnName \/ OnTags
         \/ OnStale \/ OnActive \/ OnTag \/ OnField \/ OnFrame
  PROVE  PendInv'
<1>0. /\ ServerTypeOK /\ ClientTypeOK /\ NamesInv /\ StartInv /\ CommittedInv /\ wire \in Seq(Messages)
      /\ DOMAIN outputs \subseteq Ids /\ \A y \in Ids : LifeInv(y)
  BY DEF ReadyInv, NamesInv, WorldInv, TypesInv, ServerTypeOK, ClientTypeOK
<1>1. ASSUME NEW k, Arrived(k), Dispatched
      PROVE  wire # <<>> /\ wire' = Tail(wire) /\ Message.kind = k /\ 1 \in Wires(k, Message.id)
  BY <1>0, <1>1, DispatchTypes, WireShift
<1>2. ASSUME NEW k, Arrived(k), Dispatched, DOMAIN pending' \subseteq DOMAIN pending,
             \A y \in DOMAIN outputs : outputs[y].name \in DOMAIN pending' => ~(k = "frame" /\ Message.id = y),
             \A y \in DOMAIN outputs : outputs[y].name \in DOMAIN pending /\ ~(k = "removed" /\ Message.id = y) =>
                y \in DOMAIN outputs' /\ outputs'[y].name = outputs[y].name
      PROVE  PendInv'
  <2> SUFFICES ASSUME NEW n \in DOMAIN pending'
               PROVE  \E x \in DOMAIN outputs' : outputs'[x].name = n
                        /\ \E j \in Wires("frame", x)' : \A r \in Wires("removed", x)' : j < r
    BY DEF PendInv
  <2>1. PICK x \in DOMAIN outputs : outputs[x].name = n
                        /\ \E j \in Wires("frame", x) : \A r \in Wires("removed", x) : j < r
    BY <1>2 DEF PendInv
  <2>2. PICK j \in Wires("frame", x) : \A r \in Wires("removed", x) : j < r
    BY <2>1
  <2>3. ~(Message.kind = "frame" /\ Message.id = x)
    BY <1>1, <1>2, <2>1
  <2>4. /\ \E h \in Wires("frame", x)' : \A r \in Wires("removed", x)' : h < r
        /\ ~(Message.kind = "removed" /\ Message.id = x)
    BY <1>0, <1>1, <1>2, <2>2, <2>3, PendShift
  <2> QED BY <1>1, <1>2, <2>1, <2>4
<1>3. ASSUME NEW k \in {"active", "tag", "field"}, Ipc(k), DOMAIN pending' = DOMAIN pending \cup {NameOf}
      PROVE  PendInv'
  <2>1. /\ Arrived(k) /\ Dispatched /\ UNCHANGED outputs /\ Message.id \in DOMAIN outputs /\ Message.kind = k
        /\ wire # <<>> /\ wire' = Tail(wire)
    BY <1>1, <1>3 DEF Ipc
  <2> SUFFICES ASSUME NEW n \in DOMAIN pending'
               PROVE  \E x \in DOMAIN outputs' : outputs'[x].name = n
                        /\ \E j \in Wires("frame", x)' : \A r \in Wires("removed", x)' : j < r
    BY DEF PendInv
  <2>2. CASE n = NameOf
    <3>1. PICK x \in DOMAIN outputs : x = Message.id
      BY <2>1
    <3>2. 1 \in Ipcs(x) /\ \A r \in Wires("removed", x) : ~(r < 1)
      BY <1>0, <2>1, <3>1, WireShift DEF IPCKinds
    <3>3. FrameInv(x)
      BY <1>0, <3>1
    <3>4. PICK j \in Wires("frame", x) : \A r \in Wires("removed", x) : j < r
      BY <3>2, <3>3 DEF FrameInv
    <3>5. \E h \in Wires("frame", x)' : \A r \in Wires("removed", x)' : h < r
      BY <1>0, <2>1, <3>4, PendShift
    <3> QED BY <2>1, <2>2, <3>1, <3>5 DEF NameOf
  <2>3. CASE n # NameOf
    <3>1. PICK x \in DOMAIN outputs : outputs[x].name = n
                        /\ \E j \in Wires("frame", x) : \A r \in Wires("removed", x) : j < r
      BY <1>3, <2>3 DEF PendInv
    <3>2. PICK j \in Wires("frame", x) : \A r \in Wires("removed", x) : j < r
      BY <3>1
    <3>3. \E h \in Wires("frame", x)' : \A r \in Wires("removed", x)' : h < r
      BY <1>0, <2>1, <3>2, PendShift
    <3> QED BY <2>1, <3>1, <3>3
  <2> QED BY <2>2, <2>3
<1>4. \A f, n, v : DOMAIN With(f, n, v) = DOMAIN f \cup {n} /\ DOMAIN Without(f, n) = DOMAIN f \ {n}
  BY DEF With, Without
<1>5. CASE OnDone
  BY <1>2, <1>5 DEF OnDone
<1>6. CASE OnTags
  BY <1>2, <1>6 DEF OnTags
<1>7. CASE OnStale
  <2>1. PICK k : Arrived(k) /\ Dispatched
    BY <1>7 DEF OnStale
  <2>2. UNCHANGED <<outputs, pending>> /\ Message.id \notin DOMAIN outputs
    BY <1>7 DEF OnStale, client
  <2> QED BY <1>2, <2>1, <2>2
<1>8. CASE OnManager
  <2>1. Arrived("manager") /\ Dispatched /\ UNCHANGED pending
    BY <1>8 DEF OnManager
  <2>2. /\ DOMAIN outputs' = DOMAIN outputs
        /\ \A y \in DOMAIN outputs : outputs'[y].name = outputs[y].name
    BY <1>0, <1>8, ManagerEffect
  <2> QED BY <1>2, <2>1, <2>2
<1>9. CASE OnOutput
  <2>1. /\ Arrived("output") /\ Dispatched /\ UNCHANGED pending
        /\ outputs' = With(outputs, Message.id, [name |-> Provisional(Message.id), ipc |-> manager])
    BY <1>9 DEF OnOutput
  <2>2. Message.id \notin DOMAIN outputs
    BY <1>0, <1>1, <2>1 DEF LifeInv, FreshInv
  <2>3. \A y \in DOMAIN outputs : y \in DOMAIN outputs' /\ outputs'[y] = outputs[y]
    BY <2>1, <2>2 DEF With
  <2> QED BY <1>2, <2>1, <2>3
<1>10. CASE OnRemoved
  <2>1. Arrived("removed") /\ Dispatched /\ UNCHANGED pending /\ outputs' = Without(outputs, Message.id)
    BY <1>10 DEF OnRemoved
  <2>2. \A y \in DOMAIN outputs : y # Message.id => y \in DOMAIN outputs' /\ outputs'[y] = outputs[y]
    BY <2>1 DEF Without
  <2> QED BY <1>2, <2>1, <2>2
<1>11. CASE OnName
  <2>1. Arrived("name") /\ Dispatched /\ UNCHANGED pending
    BY <1>0, <1>11, NameCommits DEF OnName
  <2>2. /\ DOMAIN outputs' = DOMAIN outputs
        /\ \A y \in DOMAIN outputs : y # Message.id => outputs'[y] = outputs[y]
        /\ 1 \in Wires("name", Message.id) /\ Message.id \in Ids
    BY <1>0, <1>11, NameEffect
  <2>3. Message.id \in DOMAIN outputs => outputs[Message.id].name \notin DOMAIN pending
    <3>1. Message.id \in DOMAIN outputs => outputs[Message.id].name = Provisional(Message.id)
      BY <1>0, <2>2 DEF LifeInv, NamingInv
    <3> QED BY <1>0, <2>2, <3>1 DEF CommittedInv
  <2> QED BY <1>2, <2>1, <2>2, <2>3
<1>12. CASE OnActive
  BY <1>3, <1>4, <1>12 DEF OnActive
<1>13. CASE OnTag
  BY <1>3, <1>4, <1>13 DEF OnTag
<1>14. CASE OnField
  BY <1>3, <1>4, <1>14 DEF OnField
<1>15. CASE OnFrame
  <2>1. Arrived("frame") /\ Dispatched /\ UNCHANGED outputs /\ DOMAIN pending' = DOMAIN pending \ {NameOf}
    BY <1>4, <1>15 DEF OnFrame, Ipc
  <2>2. \A y \in DOMAIN outputs : outputs[y].name \in DOMAIN pending' => Message.id # y
    BY <2>1 DEF NameOf
  <2> QED BY <1>2, <2>1, <2>2
<1> QED BY <1>5, <1>6, <1>7, <1>8, <1>9, <1>10, <1>11, <1>12, <1>13, <1>14, <1>15

(* The focus: the last `active' that is on. *)
LEMMA FocusShift ==
  ASSUME wire \in Seq(Messages), wire # <<>>, wire' = Tail(wire), UNCHANGED <<plugged, active, bound>>, ActiveInv,
         active \in bound /\ focusedId = active /\ ~(Message.kind = "active" /\ Message.on) => focusedId' = active,
         active \in bound /\ Message.kind = "active" /\ Message.on /\ Message.id = active => focusedId' = active
  PROVE  ActiveInv'
<1>1. active' \in DOMAIN plugged' \cup {NoId}
  BY DEF ActiveInv
<1> SUFFICES ASSUME active \in bound
             PROVE  /\ \A i \in Ons' : (\A j \in Ons' : j <= i) => wire'[i].id = active
                    /\ Ons' = {} => focusedId' = active
  BY <1>1 DEF ActiveInv
<1>2. /\ Message = wire[1] /\ 1 \in 1..Len(wire)
      /\ \A i \in 1..Len(wire') : i \in Nat /\ i + 1 \in 1..Len(wire) /\ wire'[i] = wire[i + 1]
      /\ \A i \in 1..Len(wire) : i \in Nat /\ (i # 1 => i - 1 \in 1..Len(wire') /\ wire'[i - 1] = wire[i])
  BY AllMoveUp
<1>3. /\ \A i \in Ons' : i \in Nat /\ i + 1 \in Ons /\ wire'[i] = wire[i + 1]
      /\ \A i \in Ons : i \in Nat /\ (i # 1 => i - 1 \in Ons')
      /\ 1 \in Ons <=> Message.kind = "active" /\ Message.on
  BY <1>2 DEF Ons
<1>4. ASSUME NEW i \in Ons', \A j \in Ons' : j <= i PROVE wire'[i].id = active
  <2>1. ASSUME NEW j \in Ons PROVE j <= i + 1
    <3>1. CASE j = 1
      BY <1>3, <3>1
    <3>2. CASE j # 1
      <4>1. j - 1 \in Ons' /\ j \in Nat /\ i \in Nat
        BY <1>3, <3>2
      <4>2. j - 1 <= i
        BY <1>4, <4>1
      <4> QED BY <4>1, <4>2
    <3> QED BY <3>1, <3>2
  <2>2. wire[i + 1].id = active
    BY <1>3, <2>1 DEF ActiveInv
  <2> QED BY <1>3, <2>2
<1>5. ASSUME Ons' = {} PROVE focusedId' = active
  <2>1. CASE 1 \in Ons
    <3>1. \A j \in Ons : j <= 1
      BY <1>3, <1>5
    <3>2. wire[1].id = active
      BY <2>1, <3>1 DEF ActiveInv
    <3> QED BY <1>2, <1>3, <2>1, <3>2
  <2>2. CASE 1 \notin Ons
    <3>1. Ons = {}
      BY <1>3, <1>5, <2>2
    <3> QED BY <1>3, <2>2, <3>1 DEF ActiveInv
  <2> QED BY <2>1, <2>2
<1> QED BY <1>4, <1>5

(* ... of the focus, ... *)
LEMMA ActiveDispatched ==
  ASSUME ReadyInv, FocusIsOneOutput, ActiveInv, \A x \in Ids : KnownInv(x),
         \/ OnDone \/ OnManager \/ OnOutput \/ OnRemoved \/ OnName \/ OnTags
         \/ OnStale \/ OnActive \/ OnTag \/ OnField \/ OnFrame
  PROVE  ActiveInv'
<1>0. /\ ServerTypeOK /\ ClientTypeOK /\ wire \in Seq(Messages) /\ bound \subseteq Ids
  BY DEF ReadyInv, NamesInv, WorldInv, TypesInv, ServerTypeOK
<1>1. ASSUME NEW k, Arrived(k), Dispatched PROVE wire # <<>> /\ wire' = Tail(wire) /\ Message.kind = k
  BY <1>0, <1>1, DispatchTypes
<1>2. ASSUME NEW k, Arrived(k), Dispatched, UNCHANGED <<plugged, active, bound>>,
             active \in bound /\ focusedId = active /\ ~(Message.kind = "active" /\ Message.on) => focusedId' = active,
             active \in bound /\ Message.kind = "active" /\ Message.on /\ Message.id = active => focusedId' = active
      PROVE  ActiveInv'
  <2>1. UNCHANGED <<plugged, active, bound>>
    BY <1>2
  <2> QED BY ONLY <1>0, <1>1, <1>2, <2>1, ActiveInv, FocusShift
<1>3. active \in bound => active \in DOMAIN outputs
  BY <1>0, BoundKnown
<1>4. ASSUME NEW k, Arrived(k), Dispatched, UNCHANGED <<plugged, active, bound, focusedId>>, k # "active"
      PROVE  ActiveInv'
  BY <1>1, <1>2, <1>4
<1>5. CASE OnDone \/ OnManager \/ OnOutput \/ OnRemoved \/ OnTags
  BY <1>4, <1>5 DEF OnDone, OnManager, OnOutput, OnRemoved, OnTags, server
<1>6. CASE OnTag \/ OnField \/ OnFrame
  BY <1>4, <1>6 DEF OnTag, OnField, OnFrame, Ipc, server
<1>7. CASE OnStale
  <2>1. PICK k : Arrived(k) /\ Dispatched
    BY <1>7 DEF OnStale
  <2>2. UNCHANGED <<plugged, active, bound, focusedId>> /\ Message.id \notin DOMAIN outputs
    BY <1>7 DEF OnStale, server, client
  <2> QED BY <1>2, <1>3, <2>1, <2>2
<1>8. CASE OnActive
  <2>1. /\ Arrived("active") /\ Dispatched /\ UNCHANGED <<plugged, active, bound>>
        /\ focusedId' = IF Message.on THEN Message.id ELSE focusedId
    BY <1>8 DEF OnActive, Ipc, server
  <2> QED BY <1>1, <1>2, <2>1
<1>9. CASE OnName
  <2>1. /\ Arrived("name") /\ Dispatched /\ UNCHANGED <<plugged, active, bound>>
        /\ focusedId' = IF focusedName = NoName THEN Message.id ELSE focusedId
    BY <1>9 DEF OnName, server
  <2>2. active \in bound /\ focusedId = active => focusedName # NoName
    <3>1. \A y \in DOMAIN outputs : outputs[y].name # NoName
      BY <1>0 DEF ClientTypeOK, AllNames
    <3> QED BY <1>3, <3>1 DEF FocusIsOneOutput
  <2> QED BY <1>1, <1>2, <2>1, <2>2
<1> QED BY <1>5, <1>6, <1>7, <1>8, <1>9

(* The manager has every output that waited for it asked for. *)
(* A message that does not announce x.                                       *)
LEMMA KnownKept ==
  ASSUME ReadyInv, NEW x \in Ids, KnownInv(x), wire # <<>>, wire' = Tail(wire),
         Message.kind = "output" => Message.id # x, UNCHANGED <<plugged, bound>>,
         x \in DOMAIN outputs <=> x \in DOMAIN outputs',
         x \in DOMAIN outputs /\ x \in DOMAIN plugged /\ x \notin bound /\ outputs'[x].ipc =>
           outputs[x].ipc \/ Asked("get_output", x)' # {},
         Asked("get_output", x) # {} => Asked("get_output", x)' # {}
  PROVE  KnownInv(x)'
<1>1. wire \in Seq(Messages)
  BY DEF ReadyInv, NamesInv, WorldInv, TypesInv, ServerTypeOK
<1>2. /\ \A i \in Wires("output", x) : i # 1 => i - 1 \in Wires("output", x)'
      /\ 1 \in Wires("output", x) <=> Message.kind = "output" /\ Message.id = x
      /\ \A i \in Wires("name", x)' : i + 1 \in Wires("name", x)
  BY <1>1, WireShift
<1>3. x \in DOMAIN plugged' => x \in DOMAIN outputs' \/ Wires("output", x)' # {}
  BY <1>2 DEF KnownInv
<1>4. Wires("name", x)' # {} => x \in DOMAIN outputs'
  BY <1>2 DEF KnownInv
<1>5. x \in DOMAIN outputs' /\ x \in DOMAIN plugged' /\ x \notin bound' /\ outputs'[x].ipc => Asked("get_output", x)' # {}
  BY DEF KnownInv
<1> QED BY <1>3, <1>4, <1>5 DEF KnownInv

(* ... of the outputs that are known, ... *)
LEMMA KnownDispatched ==
  ASSUME ReadyInv, NEW x \in Ids, KnownInv(x),
         \/ OnDone \/ OnManager \/ OnOutput \/ OnRemoved \/ OnName \/ OnTags
         \/ OnStale \/ OnActive \/ OnTag \/ OnField \/ OnFrame
  PROVE  KnownInv(x)'
<1>0. /\ ServerTypeOK /\ ClientTypeOK /\ StartInv /\ wire \in Seq(Messages) /\ requests \in Seq(Requests) /\ LifeInv(x)
  BY DEF ReadyInv, NamesInv, WorldInv, TypesInv, ServerTypeOK
<1>1. ASSUME NEW k, Arrived(k), Dispatched
      PROVE  wire # <<>> /\ wire' = Tail(wire) /\ Message.kind = k /\ 1 \in Wires(k, Message.id)
  BY <1>0, <1>1, DispatchTypes, WireShift
<1>2. ASSUME NEW k, Arrived(k), Dispatched, k = "output" => Message.id # x, UNCHANGED <<plugged, bound, outputs>>,
             \/ UNCHANGED requests \/ \E r \in Requests : requests' = Append(requests, r)
      PROVE  KnownInv(x)'
  <2>1. Asked("get_output", x) # {} => Asked("get_output", x)' # {}
    BY <1>0, <1>2, OneAsked, Unmoved
  <2> QED BY <1>1, <1>2, <2>1, KnownKept
<1>3. CASE OnDone
  <2>1. Request("sync", NoId) \in Requests
    BY MessageTypes
  <2> QED BY <1>2, <1>3, <2>1 DEF OnDone, server
<1>4. CASE OnTags
  BY <1>2, <1>4 DEF OnTags, server
<1>5. CASE OnStale
  <2>1. PICK k \in IPCKinds : Arrived(k) /\ Dispatched
    BY <1>5 DEF OnStale
  <2>2. UNCHANGED <<plugged, bound, outputs, requests>> /\ k # "output"
    BY <1>5 DEF OnStale, server, client, IPCKinds
  <2> QED BY <1>2, <2>1, <2>2
<1>6. CASE OnActive \/ OnTag \/ OnField \/ OnFrame
  BY <1>2, <1>6 DEF OnActive, OnTag, OnField, OnFrame, Ipc, server
<1>7. CASE OnManager
  <2>1. /\ Arrived("manager") /\ Dispatched
        /\ outputs' = [id \in DOMAIN outputs \cup {deferred[i] : i \in DOMAIN deferred} |->
                         IF \E i \in DOMAIN deferred : deferred[i] = id
                         THEN [name |-> Provisional(id), ipc |-> TRUE] ELSE outputs[id]]
    BY <1>7 DEF OnManager
  <2>2. DOMAIN outputs' = DOMAIN outputs /\ UNCHANGED <<plugged, bound>>
        /\ Asked("get_output", x) \subseteq Asked("get_output", x)'
    BY <1>0, <1>7, ManagerEffect
  <2>3. x \in DOMAIN outputs => outputs'[x] = outputs[x] \/ Asked("get_output", x)' # {}
    <3>1. CASE \E i \in DOMAIN deferred : deferred[i] = x
      <4>1. PICK i \in DOMAIN deferred : x = deferred[i]
        BY <3>1
      <4> QED BY <1>0, <1>7, <4>1, ManagerAsksAll
    <3>2. CASE ~\E i \in DOMAIN deferred : deferred[i] = x
      BY <2>1, <3>2
    <3> QED BY <3>1, <3>2
  <2>4. wire # <<>> /\ wire' = Tail(wire) /\ Message.kind = "manager"
    BY <1>1, <2>1
  <2>5. Message.kind = "output" => Message.id # x
    BY <2>4
  <2>6. x \in DOMAIN outputs /\ outputs'[x].ipc => outputs[x].ipc \/ Asked("get_output", x)' # {}
    BY <2>3
  <2>7. Asked("get_output", x) # {} => Asked("get_output", x)' # {}
    BY <2>2
  <2> QED BY <2>2, <2>4, <2>5, <2>6, <2>7, KnownKept
<1>8. CASE OnOutput
  <2> DEFINE id == Message.id
             s == IF manager THEN <<Request("bind_output", id), Request("get_output", id)>>
                             ELSE <<Request("bind_output", id)>>
  <2>1. /\ Arrived("output") /\ Dispatched /\ requests' = requests \o s
        /\ outputs' = With(outputs, id, [name |-> Provisional(id), ipc |-> manager])
        /\ UNCHANGED <<plugged, bound>>
    BY <1>8 DEF OnOutput, server
  <2>2. /\ DOMAIN outputs' = DOMAIN outputs \cup {id} /\ outputs'[id].ipc = manager
        /\ \A y \in DOMAIN outputs \ {id} : outputs'[y] = outputs[y]
    BY <2>1 DEF With
  <2>3. id \in Ids /\ 1 \in Wires("output", id) /\ wire # <<>> /\ wire' = Tail(wire)
    <3>1. Message \in Messages /\ Message.kind = "output"
      BY <1>0, <2>1, DispatchTypes
    <3>2. id \in Ids
      BY <3>1, MessageShapes
    <3> QED BY <1>1, <2>1, <3>2
  <2>4. /\ s \in Seq(Requests)
        /\ manager => 2 \in DOMAIN s /\ s[2] = Request("get_output", id)
    <3>1. Request("bind_output", id) \in Requests /\ Request("get_output", id) \in Requests
      BY <2>3, MessageTypes
    <3>2. ASSUME NEW q \in Requests, NEW u \in Requests
          PROVE  <<q, u>> \in Seq(Requests) /\ 2 \in DOMAIN <<q, u>> /\ <<q>> \in Seq(Requests)
      OBVIOUS
    <3> QED BY <3>1, <3>2
  <2> HIDE DEF s
  <2>5. /\ Asked("get_output", x) \subseteq Asked("get_output", x)'
        /\ \A j : j \in DOMAIN s /\ s[j].kind = "get_output" /\ s[j].id = x => Len(requests) + j \in Asked("get_output", x)'
    BY <1>0, <2>1, <2>4, RequestsGrow
  <2>6. CASE x = id
    <3>1. Wires("name", x)' = {}
      <4>1. Wires("name", x) = {}
        BY <1>0, <2>3, <2>6 DEF LifeInv, FreshInv
      <4> QED BY <1>0, <2>3, <4>1, WireShift
    <3>2. manager => Asked("get_output", x)' # {}
      BY <2>4, <2>5, <2>6 DEF Request
    <3>3. x \in DOMAIN outputs' /\ outputs'[x].ipc = manager
      BY <2>2, <2>6
    <3> QED BY <3>1, <3>2, <3>3 DEF KnownInv
  <2>7. CASE x # id
    BY <2>1, <2>2, <2>3, <2>5, <2>7, KnownKept
  <2> QED BY <2>6, <2>7
<1>9. CASE OnRemoved
  <2>1. /\ Arrived("removed") /\ Dispatched /\ outputs' = Without(outputs, Message.id)
        /\ UNCHANGED <<plugged, bound, requests>>
    BY <1>9 DEF OnRemoved, server
  <2>2. /\ DOMAIN outputs' = DOMAIN outputs \ {Message.id}
        /\ \A y \in DOMAIN outputs' : outputs'[y] = outputs[y]
    BY <2>1 DEF Without
  <2>3. wire # <<>> /\ wire' = Tail(wire) /\ Message.kind = "removed" /\ 1 \in Wires("removed", Message.id)
    BY <1>1, <2>1
  <2>4. Asked("get_output", x)' = Asked("get_output", x)
    BY <2>1, Unmoved
  <2>5. CASE Message.id = x
    <3>1. x \notin DOMAIN plugged
      BY <1>0, <2>3, <2>5 DEF LifeInv, GoneInv
    <3>2. Wires("name", x)' = {}
      BY <1>0, <2>3, <2>5, TailLife
    <3> QED BY <2>1, <3>1, <3>2 DEF KnownInv
  <2>6. CASE Message.id # x
    BY <2>1, <2>2, <2>3, <2>4, <2>6, KnownKept
  <2> QED BY <2>5, <2>6
<1>10. CASE OnName
  <2>1. /\ Arrived("name") /\ Dispatched /\ UNCHANGED <<plugged, bound>>
        /\ outputs' = IF Message.id \in DOMAIN outputs
                      THEN [outputs EXCEPT ![Message.id] = [name |-> Message.name, ipc |-> @.ipc \/ manager]]
                      ELSE outputs
        /\ requests' = IF Message.id \in DOMAIN outputs /\ manager /\ ~outputs[Message.id].ipc
                       THEN Append(requests, Request("get_output", Message.id)) ELSE requests
    BY <1>10 DEF OnName, server
  <2>2. wire # <<>> /\ wire' = Tail(wire) /\ Message.kind = "name"
    BY <1>1, <2>1
  <2>3. /\ DOMAIN outputs' = DOMAIN outputs
        /\ \A y \in DOMAIN outputs : y # Message.id => outputs'[y] = outputs[y]
        /\ Message.id \in DOMAIN outputs => outputs'[Message.id].ipc = (outputs[Message.id].ipc \/ manager)
        /\ Message.id \in Ids
    BY <1>0, <1>10, <2>1, NameEffect
  <2> DEFINE r == Request("get_output", Message.id)
  <2>4. r \in Requests /\ r.kind = "get_output" /\ r.id = Message.id
    BY <2>3, MessageTypes DEF Request
  <2>5. /\ Asked("get_output", x) # {} => Asked("get_output", x)' # {}
        /\ requests' = Append(requests, r) /\ Message.id = x => Asked("get_output", x)' # {}
    <3> HIDE DEF r
    <3>1. CASE requests' = Append(requests, r)
      <4>1. PICK q \in Requests : q = r
        BY <2>4
      <4>2. requests' = Append(requests, q) /\ requests \in Seq(Requests)
        BY <1>0, <3>1, <4>1
      <4>3. Asked("get_output", x)' = Asked("get_output", x) \cup
                   (IF q.kind = "get_output" /\ q.id = x THEN {Len(requests) + 1} ELSE {})
        BY ONLY <4>2, q \in Requests, OneAsked
      <4> QED BY <2>4, <3>1, <4>1, <4>3
    <3>2. CASE requests' = requests
      <4>1. Asked("get_output", x)' = Asked("get_output", x)
        BY <3>2, Unmoved
      <4>2. requests' # Append(requests, r)
        BY <1>0, <3>2, <2>4
      <4> QED BY <4>1, <4>2
    <3> QED BY <2>1, <3>1, <3>2 DEF r
  <2>6. x \in DOMAIN outputs /\ outputs'[x].ipc => outputs[x].ipc \/ Asked("get_output", x)' # {}
    <3> HIDE DEF r
    <3>1. CASE x = Message.id
      <4>1. x \in DOMAIN outputs /\ ~outputs[x].ipc /\ manager => requests' = Append(requests, r)
        BY <2>1, <3>1 DEF r
      <4> QED BY <2>3, <2>5, <3>1, <4>1
    <3>2. CASE x # Message.id
      BY <2>3, <3>2
    <3> QED BY <3>1, <3>2
  <2> QED BY <2>1, <2>2, <2>3, <2>5, <2>6, KnownKept
<1> QED BY <1>3, <1>4, <1>5, <1>6, <1>7, <1>8, <1>9, <1>10

(* ... and of whose state is kept. *)
LEMMA OwnedDispatched ==
  ASSUME ReadyInv, OwnedInv, \A x \in Ids : KnownInv(x),
         \/ OnDone \/ OnManager \/ OnOutput \/ OnRemoved \/ OnName \/ OnTags
         \/ OnStale \/ OnActive \/ OnTag \/ OnField \/ OnFrame
  PROVE  OwnedInv'
<1>0. /\ ServerTypeOK /\ ClientTypeOK /\ NamesInv /\ StartInv /\ CommittedInv /\ wire \in Seq(Messages)
      /\ \A y \in Ids : LifeInv(y)
  BY DEF ReadyInv, NamesInv, WorldInv, TypesInv, ServerTypeOK
<1>1. ASSUME DOMAIN committed' \subseteq DOMAIN committed,
             \A y \in DOMAIN outputs : outputs[y].name \in DOMAIN committed' =>
               y \in DOMAIN outputs' /\ outputs'[y].name = outputs[y].name
      PROVE  OwnedInv'
  BY <1>1 DEF OwnedInv
<1>2. CASE OnDone \/ OnStale
  BY <1>1, <1>2 DEF OnDone, OnStale, client
<1>3. CASE OnActive \/ OnTag \/ OnField
  BY <1>1, <1>3 DEF OnActive, OnTag, OnField, Ipc
<1>4. CASE OnTags
  <2>1. DOMAIN committed' = DOMAIN committed /\ UNCHANGED outputs
    BY <1>4 DEF OnTags
  <2> QED BY <1>1, <2>1
<1>5. CASE OnManager
  BY <1>0, <1>1, <1>5, ManagerEffect
<1>6. CASE OnOutput
  <2>1. /\ Arrived("output") /\ Dispatched /\ UNCHANGED committed
        /\ outputs' = With(outputs, Message.id, [name |-> Provisional(Message.id), ipc |-> manager])
    BY <1>6 DEF OnOutput
  <2>2. Message.id \notin DOMAIN outputs
    <3>1. 1 \in Wires("output", Message.id) /\ Message.id \in Ids
      BY <1>0, <2>1, DispatchTypes, WireShift, MessageShapes
    <3> QED BY <1>0, <3>1 DEF LifeInv, FreshInv
  <2>3. \A y \in DOMAIN outputs : y \in DOMAIN outputs' /\ outputs'[y] = outputs[y]
    BY <2>1, <2>2 DEF With
  <2> QED BY <1>1, <2>1, <2>3
<1>7. CASE OnRemoved
  <2>1. outputs' = Without(outputs, Message.id) /\ committed' = Without(committed, NameOf)
    BY <1>7 DEF OnRemoved
  <2>2. /\ DOMAIN committed' = DOMAIN committed \ {NameOf} /\ DOMAIN outputs' = DOMAIN outputs \ {Message.id}
        /\ \A y \in DOMAIN outputs' : outputs'[y] = outputs[y]
    BY <2>1 DEF Without
  <2>3. \A y \in DOMAIN outputs : outputs[y].name # NameOf => y # Message.id
    BY DEF NameOf
  <2> QED BY <1>1, <2>2, <2>3
<1>8. CASE OnName
  <2>1. /\ DOMAIN outputs' = DOMAIN outputs
        /\ \A y \in DOMAIN outputs : y # Message.id => outputs'[y] = outputs[y]
        /\ Message.id \in DOMAIN outputs => outputs'[Message.id].name = Message.name
        /\ 1 \in Wires("name", Message.id) /\ Message.id \in Ids
    BY <1>0, <1>8, NameEffect
  <2>2. Message.id \in DOMAIN outputs /\ outputs[Message.id].name = Provisional(Message.id)
    <3>1. Message.id \in DOMAIN outputs
      BY <2>1 DEF KnownInv
    <3> QED BY <1>0, <2>1, <3>1 DEF LifeInv, NamingInv
  <2>3. outputs[Message.id].name \notin DOMAIN committed
    BY <1>0, <2>1, <2>2 DEF CommittedInv
  <2>4. DOMAIN committed' = DOMAIN committed \cup {Message.name}
    <3>1. committed' = IF Message.name \in DOMAIN committed THEN committed
                       ELSE With(committed, Message.name, Blank(tagCount))
      BY <1>0, <1>8, NameCommits
    <3> QED BY <3>1 DEF With
  <2>5. ASSUME NEW n \in DOMAIN committed' PROVE \E y \in DOMAIN outputs' : outputs'[y].name = n
    <3>1. CASE n = Message.name
      BY <2>1, <2>2, <3>1
    <3>2. CASE n \in DOMAIN committed
      <4>1. PICK y \in DOMAIN outputs : outputs[y].name = n
        BY <3>2 DEF OwnedInv
      <4>2. y # Message.id
        BY <2>3, <3>2, <4>1
      <4> QED BY <2>1, <4>1, <4>2
    <3> QED BY <2>4, <3>1, <3>2
  <2> QED BY <2>5 DEF OwnedInv
<1>9. CASE OnFrame
  <2>1. UNCHANGED outputs /\ Message.id \in DOMAIN outputs
        /\ committed' = With(committed, NameOf, PendingState(NameOf))
    BY <1>9 DEF OnFrame, Ipc
  <2>2. DOMAIN committed' = DOMAIN committed \cup {outputs[Message.id].name}
    BY <2>1 DEF With, NameOf
  <2> QED BY <2>1, <2>2 DEF OwnedInv
<1> QED BY <1>2, <1>3, <1>4, <1>5, <1>6, <1>7, <1>8, <1>9

(* The registry announces every output that exists when the adapter connects. *)
LEMMA AllAnnounced ==
  ASSUME Init, NEW x \in AtStart
  PROVE  Wires("output", x) # {}
<1>1. PICK globals \in {AtStart, AtStart \cup {NoId}} : wire \in Announcements(globals)
  BY DEF Init
<1>2. globals \in SUBSET (Ids \cup {NoId}) /\ IsFiniteSet(globals) /\ x \in globals /\ x # NoId
  BY FS_AddElement
<1> DEFINE n == Cardinality(globals)
<1>3. n \in Nat
  BY <1>2, FS_CardinalityType
<1>4. PICK order \in [1..n -> globals] :
        /\ \A i, j \in DOMAIN order : order[i] = order[j] => i = j
        /\ wire = Append([i \in DOMAIN order |-> Msg(IF order[i] = NoId THEN "manager" ELSE "output", order[i])],
                         Msg("done", NoId))
  BY <1>1 DEF Announcements
<1> HIDE DEF n
<1>5. \E i \in 1..n : order[i] = x
  <2>1. order \in Injection(1..n, globals)
    BY <1>4 DEF Injection, IsInjective
  <2>2. Cardinality(1..n) = Cardinality(globals)
    BY <1>3, FS_Interval DEF n
  <2>3. order \in Surjection(1..n, globals)
    BY <1>2, <2>1, <2>2, FS_Injection
  <2> QED BY <1>2, <2>3 DEF Surjection
<1>6. PICK i \in 1..n : order[i] = x
  BY <1>5
<1> DEFINE heads == [j \in 1..n |-> Msg(IF order[j] = NoId THEN "manager" ELSE "output", order[j])]
<1>7. wire = Append(heads, Msg("done", NoId))
  BY <1>4
<1>8. heads[i] = Msg("output", x)
  BY <1>2, <1>6
<1>9. \A j \in 1..n : heads[j] \in Messages
  BY <1>2, <1>4, MessageTypes
<1> HIDE DEF heads
<1>10. heads \in Seq(Messages) /\ Len(heads) = n
  <2>1. heads \in Seq(Messages) /\ DOMAIN heads = 1..n
    BY <1>3, <1>9, IsASeq DEF heads
  <2> QED BY <1>3, <2>1
<1>11. Msg("done", NoId) \in Messages
  BY MessageTypes
<1>12. i \in 1..Len(wire) /\ wire[i] = heads[i]
  BY <1>3, <1>7, <1>10, <1>11
<1> QED BY <1>8, <1>12 DEF Wires, Msg

(* All of it: the picture is the compositor's but for what is under way.    *)
MirrorInv ==
  /\ ReadyInv /\ FocusIsOneOutput
  /\ \A x \in Ids : KnownInv(x) /\ FrameInv(x) /\ LastInv(x)
  /\ PendInv /\ ActiveInv /\ OwnedInv

LEMMA MirrorInit == Init => MirrorInv
<1> SUFFICES ASSUME Init PROVE MirrorInv
  OBVIOUS
<1>1. ReadyInv /\ ServerTypeOK
  BY ReadyInit DEF ReadyInv, NamesInv, WorldInv, TypesInv
<1>2. /\ DOMAIN outputs = {} /\ DOMAIN committed = {} /\ DOMAIN pending = {} /\ bound = {} /\ DOMAIN plugged = AtStart
      /\ focusedId = NoId /\ phase = "globals" /\ unused = Ids \ AtStart /\ AtStart \subseteq Ids /\ NoId \notin Ids
      /\ active \in AtStart \cup {NoId}
  BY DEF Init
<1>3. FocusIsOneOutput /\ PendInv /\ ActiveInv /\ OwnedInv
  BY <1>2 DEF FocusIsOneOutput, PendInv, ActiveInv, OwnedInv
<1>4. \A i \in 1..Len(wire) : wire[i].kind \in {"manager", "output", "done"}
  <2>1. PICK n \in Nat : \E order \in [1..n -> AtStart \cup {NoId}] :
           /\ \A i, j \in 1..n : order[i] = order[j] => i = j
           /\ wire \in Seq(Messages) /\ Len(wire) = n + 1
           /\ wire[n + 1] = Msg("done", NoId)
           /\ \A i \in 1..n : wire[i] = Msg(IF order[i] = NoId THEN "manager" ELSE "output", order[i])
    BY FirstMessages
  <2>2. ASSUME NEW i \in 1..Len(wire) PROVE wire[i].kind \in {"manager", "output", "done"}
    <3>1. CASE i \in 1..n
      <4>1. PICK k \in {"manager", "output"}, id \in AtStart \cup {NoId} : wire[i] = Msg(k, id)
        BY <2>1, <3>1
      <4> QED BY <4>1 DEF Msg
    <3>2. CASE i = n + 1
      BY <2>1, <3>2 DEF Msg
    <3> QED BY <2>1, <3>1, <3>2
  <2> QED BY <2>2
<1>5. ASSUME NEW x \in Ids PROVE KnownInv(x) /\ FrameInv(x) /\ LastInv(x)
  <2>1. Wires("name", x) = {} /\ Ipcs(x) = {}
    BY <1>4 DEF Wires, Ipcs, IPCKinds
  <2>2. x \in AtStart => Wires("output", x) # {}
    BY AllAnnounced
  <2> QED BY <1>2, <2>1, <2>2 DEF KnownInv, FrameInv, LastInv
<1> QED BY <1>1, <1>3, <1>5 DEF MirrorInv

LEMMA MirrorNext == MirrorInv /\ [Next]_vars => MirrorInv'
<1> SUFFICES ASSUME MirrorInv, [Next]_vars PROVE MirrorInv'
  OBVIOUS
<1>0. /\ ReadyInv /\ NamesInv /\ WorldInv /\ ServerTypeOK /\ ClientTypeOK /\ wire \in Seq(Messages)
      /\ requests \in Seq(Requests) /\ \A x \in Ids : LifeInv(x)
  BY DEF MirrorInv, ReadyInv, NamesInv, WorldInv, TypesInv, ServerTypeOK
<1>1. ReadyInv'
  BY <1>0, ReadyNext
<1>2. FocusIsOneOutput'
  BY <1>0, FocusNext DEF MirrorInv
<1>3. ASSUME NEW id,
             \/ id \in Ids /\ (Plug(id) \/ Unplug(id) \/ Change(id) \/ Focus(id))
             \/ HandleRequest
      PROVE  MirrorInv'
  <2>1. PICK s : Written(s)
    BY <1>0, <1>3, CompositorWrites
  <2>2. UNCHANGED <<outputs, pending, committed, focusedId>>
    BY <1>3 DEF Plug, Unplug, Change, Focus, HandleRequest, client
  <2>3. ASSUME NEW x \in Ids PROVE KnownInv(x)' /\ FrameInv(x)' /\ LastInv(x)'
    <3>1. KnownInv(x) /\ FrameInv(x) /\ LastInv(x)
      BY DEF MirrorInv
    <3>2. KnownInv(x)'
      <4>1. CASE id \in Ids /\ (Plug(id) \/ Unplug(id) \/ Change(id) \/ Focus(id))
        BY <1>0, <3>1, <4>1, KnownServed
      <4>2. CASE HandleRequest
        BY <1>0, <3>1, <4>2, KnownServed
      <4> QED BY <1>3, <4>1, <4>2
    <3>3. FrameInv(x)'
      BY <1>0, <2>1, <3>1, FrameWritten
    <3>4. LastInv(x)'
      BY <1>0, <2>1, <2>2, <3>1, LastWritten
    <3> QED BY <3>2, <3>3, <3>4
  <2>4. PendInv'
    BY <1>0, <2>1, <2>2, PendWritten DEF MirrorInv
  <2>5. ActiveInv'
    <3>1. active \in DOMAIN plugged \cup {NoId} /\ ActiveInv
      BY DEF MirrorInv, ActiveInv
    <3>2. active' \in DOMAIN plugged' \cup {NoId}
      BY <1>0, <1>3, <3>1, ActiveExists
    <3> QED BY <1>0, <2>1, <2>2, <3>1, <3>2, ActiveWritten
  <2>6. OwnedInv'
    BY <2>2 DEF MirrorInv, OwnedInv
  <2> QED BY <1>1, <1>2, <2>3, <2>4, <2>5, <2>6 DEF MirrorInv
<1>4. CASE \/ OnDone \/ OnManager \/ OnOutput \/ OnRemoved \/ OnName \/ OnTags
           \/ OnStale \/ OnActive \/ OnTag \/ OnField \/ OnFrame
  <2>1. wire # <<>> /\ wire' = Tail(wire)
    BY <1>4 DEF OnDone, OnManager, OnOutput, OnRemoved, OnName, OnTags, OnStale, OnActive, OnTag, OnField, OnFrame,
                Ipc, Arrived, Dispatched
  <2>2. ASSUME NEW x \in Ids PROVE KnownInv(x)' /\ FrameInv(x)' /\ LastInv(x)'
    <3>1. KnownInv(x) /\ FrameInv(x) /\ LastInv(x)
      BY DEF MirrorInv
    <3>2. KnownInv(x)'
      BY <1>0, <1>4, <3>1, KnownDispatched
    <3>3. FrameInv(x)'
      BY <1>0, <2>1, <3>1, FrameShift
    <3>4. LastInv(x)'
      BY <1>0, <1>4, <3>1, LastDispatched
    <3> QED BY <3>2, <3>3, <3>4
  <2>3. PendInv'
    BY <1>0, <1>4, PendDispatched DEF MirrorInv
  <2>4. ActiveInv'
    BY <1>0, <1>4, ActiveDispatched DEF MirrorInv
  <2>5. OwnedInv'
    BY <1>0, <1>4, OwnedDispatched DEF MirrorInv
  <2> QED BY <1>1, <1>2, <2>2, <2>3, <2>4, <2>5 DEF MirrorInv
<1>5. CASE ServeSet \/ UNCHANGED vars
  <2>1. UNCHANGED <<outputs, committed, pending, focusedId, wire, plugged, truth, active, bound>>
    BY <1>5 DEF ServeSet, vars, client, server
  <2>2. \A k, x : Wires(k, x)' = Wires(k, x) /\ Ipcs(x)' = Ipcs(x)
    BY <2>1, Unmoved
  <2>3. ASSUME NEW x PROVE Asked("get_output", x) # {} => Asked("get_output", x)' # {}
    <3>1. CASE UNCHANGED requests
      BY <3>1, Unmoved
    <3>2. CASE ServeSet
      <4>1. PICK f \in Facts : \E v \in FactValues(f) : requests' = Append(requests, SetRequest(focusedId, f, v))
        BY <1>0, <3>2, ServeTypes DEF WorldInv, TypesInv
      <4>2. PICK v \in FactValues(f) : requests' = Append(requests, SetRequest(focusedId, f, v))
        BY <4>1
      <4>3. focusedId \in Ids
        BY <1>0, <3>2 DEF ServeSet, ClientTypeOK
      <4>4. PICK r \in Requests : requests' = Append(requests, r)
        BY <4>2, <4>3, MessageTypes
      <4> QED BY <1>0, <4>4, OneAsked
    <3> QED BY <1>5, <3>1, <3>2 DEF vars
  <2>4. ASSUME NEW x \in Ids PROVE KnownInv(x)' /\ FrameInv(x)' /\ LastInv(x)'
    <3>1. KnownInv(x) /\ FrameInv(x) /\ LastInv(x)
      BY DEF MirrorInv
    <3>2. KnownInv(x)'
      BY <2>1, <2>2, <2>3, <3>1 DEF KnownInv
    <3>3. FrameInv(x)'
      BY <2>2, <3>1 DEF FrameInv
    <3>4. Held(x)' = Held(x)
      BY <2>1 DEF Held, PendingState
    <3>5. LastInv(x)'
      BY <2>1, <2>2, <3>1, <3>4 DEF LastInv, LastTag, LastField, TagWires, FieldWires
    <3> QED BY <3>2, <3>3, <3>5
  <2>5. PendInv'
    BY <2>1, <2>2 DEF MirrorInv, PendInv
  <2>6. ActiveInv'
    BY <2>1 DEF MirrorInv, ActiveInv, Ons
  <2>7. OwnedInv'
    BY <2>1 DEF MirrorInv, OwnedInv
  <2> QED BY <1>1, <1>2, <2>4, <2>5, <2>6, <2>7 DEF MirrorInv
<1> QED BY <1>3, <1>4, <1>5 DEF Next

(* Whenever nothing is under way in either direction, the picture that the   *)
(* adapter keeps is the compositor's: the same outputs by their own names,   *)
(* the same facts of each, nothing half done, no state of outputs that are   *)
(* gone, and the same focus, for `get' too; whatever was plugged, removed,   *)
(* changed or set before, and in whatever order the messages of the outputs  *)
(* came (mangowc/src/lib.rs: the Dispatch implementations of WaylandState).  *)
THEOREM PictureMirrors == Spec => []MirrorsCompositor
<1>1. MirrorInv => MirrorsCompositor
  <2> SUFFICES ASSUME MirrorInv, phase = "ready", wire = <<>>, requests = <<>>
               PROVE  /\ DOMAIN outputs = DOMAIN plugged
                      /\ \A id \in DOMAIN outputs :
                           /\ outputs[id].name = plugged[id]
                           /\ committed[plugged[id]] = [ntags |-> NTags, facts |-> truth[id]]
                      /\ DOMAIN committed = {plugged[id] : id \in DOMAIN plugged}
                      /\ DOMAIN pending = {}
                      /\ active # NoId =>
                           /\ focusedId = active
                           /\ focusedName = plugged[active]
                           /\ \A f \in Facts : GetFact(f) = truth[active][f]
    BY DEF MirrorsCompositor
  <2>0. /\ ServerTypeOK /\ ClientTypeOK /\ CommittedInv /\ CountedInv /\ IpcInv
        /\ \A x \in Ids : LifeInv(x) /\ KnownInv(x) /\ LastInv(x)
    BY DEF MirrorInv, ReadyInv, NamesInv, WorldInv, TypesInv
  <2>1. manager /\ tagCount = NTags
    BY DEF MirrorInv, ReadyInv, BarrierInv, TagsInv, AheadOf
  <2>2. /\ \A k, x : Wires(k, x) = {} /\ Asked(k, x) = {}
        /\ Ons = {}
    BY DEF Wires, Asked, Ons
  <2>3. DOMAIN outputs = DOMAIN plugged
    <3>1. ASSUME NEW x \in DOMAIN plugged PROVE x \in DOMAIN outputs
      BY <2>0, <2>2 DEF KnownInv, ServerTypeOK
    <3>2. ASSUME NEW x \in DOMAIN outputs PROVE x \in DOMAIN plugged
      BY <2>0, <2>2 DEF LifeInv, GoneInv, ClientTypeOK
    <3> QED BY <3>1, <3>2
  <2>4. DOMAIN pending = {}
    BY <2>2 DEF MirrorInv, PendInv
  <2>5. ASSUME NEW x \in DOMAIN outputs
        PROVE  /\ outputs[x].name = plugged[x] /\ plugged[x] \in DOMAIN committed /\ x \in bound
               /\ committed[plugged[x]] = [ntags |-> NTags, facts |-> truth[x]]
    <3>1. x \in Ids /\ x \in DOMAIN plugged
      BY <2>0, <2>3 DEF ServerTypeOK
    <3>2. x \in bound
      BY <2>0, <2>1, <2>2, <3>1 DEF IpcInv, KnownInv
    <3>3. outputs[x].name \in Names /\ outputs[x].name = plugged[x]
      BY <2>0, <2>2, <3>1 DEF LifeInv, NamedInv
    <3>4. plugged[x] \in DOMAIN committed
      BY <2>0, <3>3 DEF CommittedInv
    <3> DEFINE c == committed[plugged[x]]
               g == c.facts
    <3>5. c \in [ntags : Nat, facts : FactSets] /\ c.ntags = NTags
      BY <2>0, <2>1, <3>4 DEF ClientTypeOK, OutputStates, CountedInv
    <3>6. Held(x) = g
      BY <2>4, <3>3, <3>4 DEF Held, PendingState
    <3>7. g \in FactSets /\ truth[x] \in FactSets
      BY <2>0, <3>1, <3>5 DEF ServerTypeOK
    <3> HIDE DEF c, g
    <3>8. \A t \in Tags : t \in g["tags"] <=> t \in truth[x]["tags"]
      BY <2>0, <2>2, <3>1, <3>2, <3>6 DEF LastInv, LastTag, TagWires
    <3>9. \A f \in Fields : g[f] = truth[x][f]
      BY <2>0, <2>2, <3>1, <3>2, <3>6 DEF LastInv, LastField, FieldWires
    <3>10. g["tags"] = truth[x]["tags"]
      <4>1. g["tags"] \in SUBSET Tags /\ truth[x]["tags"] \in SUBSET Tags
        BY <3>7, FactTypes DEF FactSets
      <4> QED BY <3>8, <4>1
    <3>11. g = truth[x]
      <4>1. g \in [Facts -> (SUBSET Tags) \cup Values] /\ truth[x] \in [Facts -> (SUBSET Tags) \cup Values]
        BY <3>7 DEF FactSets
      <4>2. \A f \in Facts : g[f] = truth[x][f]
        BY <3>9, <3>10, FactTypes
      <4> QED BY <4>1, <4>2
    <3>12. c = [ntags |-> NTags, facts |-> truth[x]]
      BY <3>5, <3>11 DEF g
    <3> QED BY <3>2, <3>3, <3>4, <3>12 DEF c
  <2>6. DOMAIN committed = {plugged[id] : id \in DOMAIN plugged}
    <3>1. \A x \in DOMAIN outputs : outputs[x].name = plugged[x] /\ plugged[x] \in DOMAIN committed
      BY <2>5
    <3>2. DOMAIN committed \subseteq {outputs[x].name : x \in DOMAIN outputs}
      BY DEF MirrorInv, OwnedInv
    <3>3. {plugged[id] : id \in DOMAIN plugged} \subseteq DOMAIN committed
      BY ONLY <2>3, <3>1
    <3>4. DOMAIN committed \subseteq {plugged[id] : id \in DOMAIN plugged}
      BY ONLY <2>3, <3>1, <3>2
    <3> QED BY ONLY <3>3, <3>4
  <2>7. ASSUME active # NoId
        PROVE  /\ focusedId = active
               /\ focusedName = plugged[active]
               /\ \A f \in Facts : GetFact(f) = truth[active][f]
    <3>1. active \in DOMAIN outputs
      BY <2>3, <2>7 DEF MirrorInv, ActiveInv
    <3>2. focusedId = active
      BY <2>2, <2>5, <3>1 DEF MirrorInv, ActiveInv
    <3>3. focusedName = plugged[active]
      BY <2>5, <3>1, <3>2 DEF MirrorInv, FocusIsOneOutput
    <3>4. committed[focusedName].facts = truth[active] /\ focusedName \in DOMAIN committed
      <4>1. /\ plugged[active] \in DOMAIN committed
            /\ committed[plugged[active]] = [ntags |-> NTags, facts |-> truth[active]]
        BY <2>5, <3>1
      <4> QED BY <3>3, <4>1
    <3> QED BY <3>2, <3>3, <3>4 DEF GetFact
  <2> QED BY <2>3, <2>4, <2>5, <2>6, <2>7
<1> QED BY <1>1, MirrorInit, MirrorNext, PTL DEF Spec
=============================================================================
