------------------------------- MODULE MangoSet -------------------------------
(***************************************************************************)
(* What the mangowc adapter asks of the compositor when a key is set: from *)
(* the words of `msx set' or the value of a script, through parse_value    *)
(* or the script engine, the parsing in mangowc/src/lib.rs and the command *)
(* channel, to the request.  Every action contains one of MangoWake's.     *)
(***************************************************************************)
EXTENDS MangoWake, Values

CONSTANTS
  Layouts,     \* the compositor's layout codes, a sequence
  LayoutName,  \* what a code is called, where layout_code_to_name knows it
  LowerCase,   \* what a word is in lower case, where it has upper case in it
  Asked        \* the sets that are tried: [via, key, word]

(* eq_ignore_ascii_case *)
SameWord(a, b) ==
  LET lower(w) == IF w \in DOMAIN LowerCase THEN LowerCase[w] ELSE w
  IN  lower(a) = lower(b)

(* Layouts are told by their names, and no name is a layout's code. *)
ASSUME LayoutsAssumption ==
  /\ Layouts \in Seq({Layouts[i] : i \in DOMAIN Layouts})
  /\ \A code, other \in DOMAIN LayoutName : ~SameWord(LayoutName[code], other)

(* A set is given a word of `msx set', a value that a script has computed,   *)
(* or one that it has copied.                                                *)
ASSUME AskedAssumption ==
  \A a \in Asked :
    /\ a.key \in {"tags", "client_tags", "layout", "layout_name"}
    /\ \/ a.via \in {"msx", "copy"} /\ IsWord(a.word)
       \/ a.via = "script" /\ IsDynamic(a.word)

VARIABLES
  asked,    \* the set that runs, or Nothing
  request,  \* what its command carries
  outcome   \* Nothing, refused, or the request that the compositor gets

setVars == <<asked, request, outcome>>

Nothing == [via |-> "nobody"]
None    == <<"none">>
Refused == <<"refused">>

-----------------------------------------------------------------------------
(* Parsing. *)

(* A mutant of FitsU32: a number of 64 bits is accepted. *)
FitsU64(v) == IsU64(v)

FitsU32(v) == IsU64(v) /\ v[2] \in U32

(* The content of a u32. *)
Low(v) == v[2] % 2^Bits32

TagsRequest(v) ==
  LET mask == IF v[1] # "object" THEN v
              ELSE IF "tagmask" \in DOMAIN v[2] THEN v[2]["tagmask"] ELSE Field(v, "tags")
      toggle == v[1] = "object" /\ Field(v, "toggle") = Truth(TRUE)
  IN  IF FitsU32(mask) THEN <<"set_tags", Low(mask), toggle>> ELSE Refused

Masks(and, xor) ==
  IF FitsU32(and) /\ FitsU32(xor) THEN <<"set_client_tags", Low(and), Low(xor)>> ELSE Refused

ClientTagsRequest(v) ==
  IF v[1] # "object" THEN Masks(IntegerValue(0), v)
  ELSE IF "tags" \in DOMAIN v[2] THEN Masks(IntegerValue(0), v[2]["tags"])
  ELSE Masks(Field(v, "and_tags"), Field(v, "xor_tags"))

(* An index is cut to 32 bits, and not refused. *)
LayoutRequest(v) == IF IsU64(v) THEN <<"set_layout", Low(v)>> ELSE Refused

NameOfLayout(code) == IF code \in DOMAIN LayoutName THEN LayoutName[code] ELSE code

LayoutMatches(code, name) ==
  \/ SameWord(code, name)
  \/ SameWord(NameOfLayout(code), name)
  \/ SameWord(NameOfLayout(code), NameOfLayout(name))

(* The first layout that matches. *)
LayoutNamed(name) ==
  LET matching == {i \in DOMAIN Layouts : LayoutMatches(Layouts[i], name)}
  IN  IF matching = {} THEN Refused
      ELSE <<"set_layout", (CHOOSE i \in matching : \A j \in matching : i <= j) - 1>>

(* The value that reaches the adapter: parsed by `msx set', or computed by a *)
(* script, or copied by it from an event or a get.                           *)
ValueOf(a) == CASE a.via = "msx"    -> ParseValue(a.word)
                [] a.via = "script" -> DynamicToJson(a.word)
                [] a.via = "copy"   -> DynamicToJson(JsonToDynamic(ParseValue(a.word)))

Parse(key, v) == CASE key = "tags"        -> TagsRequest(v)
                   [] key = "client_tags" -> ClientTagsRequest(v)
                   [] key = "layout"      -> LayoutRequest(v)
                   [] key = "layout_name" -> IF v[1] = "string" THEN v ELSE Refused

Parsed == [a \in Asked |-> Parse(a.key, ValueOf(a))]

-----------------------------------------------------------------------------
SetInit ==
  /\ Init
  /\ asked = Nothing
  /\ request = None
  /\ outcome = None

(* set parses the value before it sends anything; a layout's name is looked  *)
(* up later.                                                                 *)
StartSet(a) ==
  /\ Parsed[a] # Refused
  /\ Start(IF a.key = "layout_name" THEN "set_layout_name" ELSE "set")
  /\ asked' = a
  /\ request' = Parsed[a]
  /\ outcome' = None

RefuseSet(a) ==
  /\ call = "idle"
  /\ Parsed[a] = Refused
  /\ asked' = a
  /\ request' = None
  /\ outcome' = Refused
  /\ UNCHANGED vars

(* get and shutdown. *)
StartOther(m) == Start(m) /\ asked' = Nothing /\ request' = None /\ outcome' = None

(* The method returns, unless it was told the state to look a layout's name  *)
(* up in: then it fails if there is no such layout, or sends the index if    *)
(* the thread still receives.                                                *)
Returns ==
  LET looksUp == method = "set_layout_name" /\ reply = "ok"
      found   == LayoutNamed(request[2])
  IN  /\ Return
      /\ \/ /\ looksUp /\ found = Refused
            /\ call' = "idle"
            /\ asked' = asked /\ request' = None /\ outcome' = Refused
         \/ /\ looksUp /\ found # Refused /\ Receiving
            /\ call' = "notify"
            /\ asked' = asked /\ request' = found /\ outcome' = outcome
         \/ /\ looksUp => found # Refused /\ ~Receiving
            /\ asked' = Nothing /\ request' = None /\ outcome' = None

(* The thread puts the command of a set into the connection's buffer. *)
ThreadServes ==
  /\ ServeCommand
  /\ outcome' = IF Head(channel) = "Set" /\ reply' = "ok" THEN request ELSE outcome
  /\ UNCHANGED <<asked, request>>

SetNext ==
  \/ \E a \in Asked : StartSet(a) \/ RefuseSet(a)
  \/ \E m \in {"get", "shutdown"} : StartOther(m)
  \/ Returns
  \/ ThreadServes
  \/ /\ \/ Notify \/ Drop \/ DropSender
        \/ InitThread \/ ChannelEmpty \/ Flush \/ Poll \/ Clear \/ Dispatch
        \/ CompositorSends
     /\ UNCHANGED setVars

SetSpec == SetInit /\ [][SetNext]_<<vars, setVars>>

(* MangoWake's fairness. *)
SetFairSpec ==
  /\ SetSpec
  /\ WF_vars(Thread)
  /\ WF_vars(Notify)
  /\ WF_vars(Return)
  /\ WF_vars(call = "drop" /\ Drop)
  /\ WF_vars(DropSender)

-----------------------------------------------------------------------------
(* The value that was written, before any conversion. *)
Meant(a) == CASE a.word[1] = "json"              -> a.word[2]
              [] a.word[1] \in {"digits", "i64"} -> IntegerValue(a.word[2])
              [] a.word[1] = "word"              -> Text(a.word[2])
              [] a.word[1] = "map"               ->
                   Object([f \in DOMAIN a.word[2] |->
                             IF a.word[2][f][1] = "i64" THEN IntegerValue(a.word[2][f][2])
                                                        ELSE a.word[2][f]])
              [] OTHER                           -> a.word

(* A mask is the set of places of its bits. *)
Places      == 0 .. Bits64 - 1
Mask(n)     == {i \in Places : (n \div 2^i) % 2 = 1}
Flip(S, T)  == (S \ T) \cup (T \ S)

(* What is there after a request, given what was there before: the tags of   *)
(* the output or of the client, or the layout's index.                       *)
Effect(r, before) ==
  CASE r[1] = "set_tags"        -> <<"tags", IF r[3] THEN Flip(before, Mask(r[2])) ELSE Mask(r[2])>>
    [] r[1] = "set_client_tags" -> <<"client_tags", Flip(before \cap Mask(r[2]), Mask(r[3]))>>
    [] r[1] = "set_layout"      -> <<"layout", r[2]>>

(* What is to be there then. *)
Wished(key, v, before) ==
  CASE key = "layout"                    -> <<key, v[2]>>
    [] key # "layout" /\ v[1] # "object" -> <<key, Mask(v[2])>>
    [] key = "tags" /\ v[1] = "object" ->
         LET new == Mask((IF "tagmask" \in DOMAIN v[2] THEN v[2]["tagmask"] ELSE v[2]["tags"])[2])
         IN  <<key, IF Field(v, "toggle") = Truth(TRUE) THEN Flip(before, new) ELSE new>>
    [] key = "client_tags" /\ v[1] = "object" ->
         <<key, IF "tags" \in DOMAIN v[2] THEN Mask(v[2]["tags"][2])
                ELSE Flip(before \cap Mask(v[2]["and_tags"][2]), Mask(v[2]["xor_tags"][2]))>>

(* The places of the layouts with the code w, or with the name that w is or  *)
(* stands for.                                                               *)
Called(w) ==
  {i \in DOMAIN Layouts : \/ SameWord(Layouts[i], w)
                         \/ SameWord(NameOfLayout(Layouts[i]), NameOfLayout(w))}

(* The one wish that is neither carried out nor refused: of a layout's index *)
(* that does not fit, the 32 lower bits are sent.                            *)
IndexIsCut ==
  /\ asked.key = "layout"
  /\ Meant(asked)[2] \notin U32
  /\ outcome = <<"set_layout", Meant(asked)[2] % 2^Bits32>>

(* A set that reaches the compositor makes of the tags, or of the layout,    *)
(* what was asked, however the number was written, whatever its width and    *)
(* whether or not it went through a script; the exception is a layout's      *)
(* index that does not fit into 32 bits, which is cut.  A number that fits   *)
(* is not refused, nor is a layout's code or name (parse_value,              *)
(* dynamic_to_json and the parsing and set of mangowc).                      *)
SetsWhatWasAsked ==
  /\ outcome \notin {None, Refused} =>
       IF asked.key = "layout_name"
       THEN outcome \in {<<"set_layout", i - 1>> : i \in Called(Meant(asked)[2])}
       ELSE \/ \A before \in SUBSET Places :
                 Effect(outcome, before) = Wished(asked.key, Meant(asked), before)
            \/ IndexIsCut
  /\ outcome = Refused =>
       LET v == Meant(asked)
       IN  IF asked.key = "layout_name"
           THEN v[1] = "string" /\ v[2] \notin {"True", "False"} => Called(v[2]) = {}
           ELSE ~(v[1] = "integer" /\ v[2] \in U32)
=============================================================================
