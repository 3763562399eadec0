------------------------------- MODULE Values -------------------------------
(***************************************************************************)
(* Value (src/value.cpp): a tagged value, and the As* conversions methods  *)
(* and callers read it with.  Its texts are sequences of characters, of    *)
(* which only a few need telling apart; a piece of text that spells a date *)
(* and time is one symbol, the date itself.  The widths of integers are    *)
(* parameters.  Doubles are finite.                                        *)
(***************************************************************************)
EXTENDS Integers, SequencesExt

CONSTANTS
  Int32Max,  \* 2^31 - 1 in the code
  Int64Max,  \* 2^63 - 1
  Dates      \* the symbols that spell a date and time

NUL == 0
LF == 10
CR == 13
BLANK == 32

ASSUME WidthAssumption ==
  /\ Int32Max \in Nat
  /\ Int64Max \in Nat
  /\ Int64Max > Int32Max
ASSUME DatesAssumption == Dates \subseteq Nat \ {NUL, LF, CR, BLANK}

Int32Range == -(Int32Max + 1)..Int32Max
Int64Range == -(Int64Max + 1)..Int64Max

Nil == [type |-> "NIL"]
Boolean(b) == [type |-> "BOOLEAN", boolean |-> b]
Integer32(n) == [type |-> "INTEGER_32", integer |-> n]
Integer64(n) == [type |-> "INTEGER_64", integer |-> n]
Double(x) == [type |-> "DOUBLE", double |-> x]
\* The double <<n, k>> is k units in the last place from the integer n.
DoubleOf(n) == <<n, 0>>
DateTime(d) == [type |-> "DATE_TIME", dateTime |-> d]
String(t) == [type |-> "STRING", string |-> t]
Binary(t) == [type |-> "BINARY", string |-> t]
Array(s) == [type |-> "ARRAY", array |-> s]
\* A std::map: a function from the names.
Struct(f) == [type |-> "STRUCT", struct |-> f]

\* What a reader that throws InvalidRequestFault returns instead of a value.
Invalid == [type |-> "FAULT"]

-----------------------------------------------------------------------------
(***************************************************************************)
(* Conversions: a singleton, or the empty set when they throw              *)
(* InvalidParametersFault.  AsArray and AsStruct only test the type.       *)
(***************************************************************************)

\* An int64_t assigned to an int32_t.
Wrap32(n) == ((n + Int32Max + 1) % (2 * (Int32Max + 1))) - (Int32Max + 1)

AsBoolean(v) == IF v.type = "BOOLEAN" THEN {v.boolean} ELSE {}
AsDateTime(v) == IF v.type = "DATE_TIME" THEN {v.dateTime} ELSE {}
AsInteger32(v) ==
  IF v.type = "INTEGER_32" THEN {v.integer}
  ELSE IF v.type = "INTEGER_64" /\ Wrap32(v.integer) = v.integer
  THEN {Wrap32(v.integer)}
  ELSE {}
AsInteger64(v) ==
  IF v.type \in {"INTEGER_32", "INTEGER_64"} THEN {v.integer} ELSE {}
AsDouble(v) ==
  IF v.type = "DOUBLE" THEN {v.double}
  ELSE IF v.type \in {"INTEGER_32", "INTEGER_64"} THEN {DoubleOf(v.integer)}
  ELSE {}
AsString(v) == IF v.type \in {"STRING", "BINARY"} THEN {v.string} ELSE {}

-----------------------------------------------------------------------------
(***************************************************************************)
(* Text.                                                                   *)
(***************************************************************************)

\* A std::string seen through its c_str() ends at the first NUL.
CString(t) ==
  SubSeq(t, 1, CHOOSE n \in 0..Len(t) :
                 /\ \A i \in 1..n : t[i] # NUL
                 /\ n < Len(t) => t[n + 1] = NUL)

\* util::ParseIso8601DateTime takes leading blanks, one date and nothing after.
IsDate(t) ==
  /\ t # << >>
  /\ t[Len(t)] \in Dates
  /\ \A i \in 1..(Len(t) - 1) : t[i] = BLANK
DateOf(t) == t[Len(t)]

\* The order of the names in a std::map.
Before(s, t) ==
  \E i \in 1..Len(t) :
    /\ \A j \in 1..(i - 1) : j <= Len(s) /\ s[j] = t[j]
    /\ i > Len(s) \/ s[i] < t[i]

\* The elements of a struct in that order, as Value::Write visits them.
Elements(f) ==
  LET names == SetToSortSeq(DOMAIN f, Before)
  IN  [i \in DOMAIN names |-> [name |-> names[i], value |-> f[names[i]]]]
=============================================================================
