-------------------------------- MODULE Values --------------------------------
(***************************************************************************)
(* The values of keys on their way to an adapter: parse_value of           *)
(* middlesox-cli/src/main.rs reads the words of `msx set', and             *)
(* json_to_dynamic and dynamic_to_json of middlesox/src/engine.rs take     *)
(* values into Rhai and out of it.                                         *)
(*                                                                         *)
(* A value is a pair of its kind and its content.  Integers keep their     *)
(* width; floats are the whole numbers among them; an object is a function *)
(* from its keys.  Arrays and strings of digits are left out.              *)
(***************************************************************************)
EXTENDS Integers

CONSTANTS
  Bits32,   \* the bits of a u32 (32 in the code)
  Bits53,   \* the bits up to which a float holds every integer (53)
  Bits64    \* the bits of a u64 and an i64 (64)

ASSUME WidthsAssumption ==
  /\ Bits32 \in Nat /\ Bits53 \in Nat /\ Bits64 \in Nat
  /\ 0 < Bits32 /\ Bits32 < Bits53 /\ Bits53 < Bits64 - 1

U32 == 0 .. 2^Bits32 - 1
U64 == 0 .. 2^Bits64 - 1
I64 == -2^(Bits64 - 1) .. 2^(Bits64 - 1) - 1

Absent == <<"absent", 0>>
Null   == <<"null", 0>>

IntegerValue(n) == <<"integer", n>>
FloatValue(n)   == <<"float", n>>
Text(w)         == <<"string", w>>
Truth(b)        == <<"bool", b>>
Object(fields)  == <<"object", fields>>

IsU64(v) == v[1] = "integer" /\ v[2] \in U64

(* JSON, and what Rhai holds. *)
IsScalar(v)     == v[1] \in {"integer", "float", "string", "bool", "null"}
IsJson(v)       == IsScalar(v) \/ (v[1] = "object" /\ \A f \in DOMAIN v[2] : IsScalar(v[2][f]))
IsRhaiScalar(d) == d[1] \in {"i64", "f64", "string", "bool", "unit", "char"}
IsDynamic(d)    == IsRhaiScalar(d) \/ (d[1] = "map" /\ \A f \in DOMAIN d[2] : IsRhaiScalar(d[2][f]))

(* What was written: <<"json", v>> is v in JSON, with digits of any size;    *)
(* <<"digits", n>> a number that is not JSON; <<"word", w>> anything else.   *)
IsWord(word) == word[1] \in {"digits", "word"} \/ (word[1] = "json" /\ IsJson(word[2]))

Field(v, f) == IF f \in DOMAIN v[2] THEN v[2][f] ELSE Absent

-----------------------------------------------------------------------------
(* The float nearest to an integer: Bits53 of its bits are kept, and a tie   *)
(* goes to the even neighbour.                                               *)
Unit(n) == 2^(CHOOSE e \in 0 .. Bits64 :
                /\ n <= 2^(Bits53 + e)
                /\ e = 0 \/ n > 2^(Bits53 + e - 1))

NearestNat(n) ==
  LET kept == n \div Unit(n)
      rest == 2 * (n % Unit(n))
      up   == rest > Unit(n) \/ (rest = Unit(n) /\ kept % 2 = 1)
  IN  Unit(n) * (IF up THEN kept + 1 ELSE kept)

Nearest(n) == IF n >= 0 THEN NearestNat(n) ELSE -NearestNat(-n)

(* A number in JSON, which is what serde_json makes of its digits. *)
Number(n) == IF n \in I64 \cup U64 THEN IntegerValue(n) ELSE FloatValue(Nearest(n))

(* A number that is not JSON, such as 007 or +7, is parsed as an i64 and     *)
(* then as an f64.                                                           *)
ParsedNumber(n) == IF n \in I64 THEN IntegerValue(n) ELSE FloatValue(Nearest(n))

ParseValue(word) ==
  CASE word[1] = "json"   -> IF word[2][1] = "integer" THEN Number(word[2][2]) ELSE word[2]
    [] word[1] = "digits" -> ParsedNumber(word[2])
    [] word[1] = "word"   -> CASE word[2] = "True"  -> Truth(TRUE)
                               [] word[2] = "False" -> Truth(FALSE)
                               [] OTHER             -> Text(word[2])

-----------------------------------------------------------------------------
(* Rhai has i64 and f64.  What a script can hold and JSON cannot, such as a  *)
(* character or a function, becomes null.                                    *)

NumberToDynamic(n) == IF n \in I64 THEN <<"i64", n>> ELSE <<"f64", Nearest(n)>>

ScalarToDynamic(v) == CASE v[1] = "integer" -> NumberToDynamic(v[2])
                        [] v[1] = "float"   -> <<"f64", v[2]>>
                        [] v[1] = "null"    -> <<"unit", 0>>
                        [] OTHER            -> v

JsonToDynamic(v) ==
  IF v[1] = "object" THEN <<"map", [f \in DOMAIN v[2] |-> ScalarToDynamic(v[2][f])]>>
                     ELSE ScalarToDynamic(v)

ScalarToJson(d) == CASE d[1] = "i64"                -> IntegerValue(d[2])
                     [] d[1] = "f64"                -> FloatValue(d[2])
                     [] d[1] \in {"string", "bool"} -> d
                     [] OTHER                       -> Null

DynamicToJson(d) ==
  IF d[1] = "map" THEN Object([f \in DOMAIN d[2] |-> ScalarToJson(d[2][f])]) ELSE ScalarToJson(d)
=============================================================================
