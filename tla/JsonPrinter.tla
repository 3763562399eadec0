---------------------------- MODULE JsonPrinter ----------------------------
(***************************************************************************)
(* rapidjson's Writer (rapidjson/writer.h), driven as JsonWriter and       *)
(* Value::Write drive it: every object gets a name before each value, and  *)
(* everything that is started is ended.                                    *)
(***************************************************************************)
EXTENDS JsonChars

CONSTANTS
  Names, Scalars,  \* what is written
  MaxWritten       \* bound: how much is written before a value or a name is begun

ASSUME WrittenAssumption == MaxWritten \in Nat

VARIABLES
  out,      \* the StringBuffer
  levels,   \* level_stack_
  hasRoot,  \* hasRoot_
  written   \* what was asked for: a list for the root and for each open level

printerVars == <<out, levels, hasRoot, written>>

PrinterInit == out = << >> /\ levels = << >> /\ hasRoot = FALSE /\ written = <<<< >>>>

Level(inArray) == [valueCount |-> 0, inArray |-> inArray]
TopLevel == Last(levels)

\* Variant: the second name of an object gets a colon.
PrefixColon ==
  IF levels = << >> \/ TopLevel.valueCount = 0 THEN << >>
  ELSE IF TopLevel.inArray THEN <<COMMA>> ELSE <<COLON>>

\* Writer::Prefix
Prefix ==
  IF levels = << >> \/ TopLevel.valueCount = 0 THEN << >>
  ELSE IF TopLevel.inArray \/ TopLevel.valueCount % 2 = 0 THEN <<COMMA>> ELSE <<COLON>>

Counted ==
  IF levels = << >> THEN << >>
  ELSE Append(Front(levels), [TopLevel EXCEPT !.valueCount = @ + 1])

\* internal::i32toa
Decimal(n) ==
  LET length == CHOOSE k \in 1..(n + 1) :
                  n < PowerOfTen(k) /\ (k = 1 \/ n >= PowerOfTen(k - 1))
  IN  [k \in 1..length |-> 48 + ((n \div PowerOfTen(length - k)) % 10)]

Spelt(v) ==
  CASE v.json = "null" -> NullText
    [] v.json = "bool" -> IF v.bool THEN TrueText ELSE FalseText
    [] v.json = "number" -> IF v.number < 0 THEN <<45>> \o Decimal(-v.number)
                                            ELSE Decimal(v.number)
    [] v.json = "string" -> Quoted(v.string)

AddTo(lists, x) == Append(Front(lists), Append(Last(lists), x))

\* Where a value may come: as the root, in an array, after a name.
TakesValue ==
  IF levels = << >> THEN ~hasRoot
  ELSE TopLevel.inArray \/ TopLevel.valueCount % 2 = 1
TakesName == levels # << >> /\ ~TopLevel.inArray /\ TopLevel.valueCount % 2 = 0

Room == Len(out) <= MaxWritten

\* What follows a name is always written.
WriteScalar(v) ==
  /\ TakesValue
  /\ levels # << >> /\ TopLevel.inArray => Room
  /\ out' = out \o Prefix \o Spelt(v)
  /\ levels' = Counted
  /\ hasRoot' = TRUE
  /\ written' = AddTo(written, v)

Key(name) ==
  /\ TakesName
  /\ Room
  /\ out' = out \o Prefix \o Quoted(name)
  /\ levels' = Counted
  /\ written' = AddTo(written, JString(name))
  /\ UNCHANGED hasRoot

Start(inArray) ==
  /\ TakesValue
  /\ Room
  /\ out' = out \o Prefix \o <<IF inArray THEN OPEN_BRACKET ELSE OPEN_BRACE>>
  /\ levels' = Append(Counted, Level(inArray))
  /\ hasRoot' = TRUE
  /\ written' = Append(written, << >>)

EndArray ==
  /\ levels # << >> /\ TopLevel.inArray
  /\ out' = Append(out, CLOSE_BRACKET)
  /\ levels' = Front(levels)
  /\ written' = AddTo(Front(written), JArray(Last(written)))
  /\ UNCHANGED hasRoot

EndObject ==
  /\ TakesName
  /\ out' = Append(out, CLOSE_BRACE)
  /\ levels' = Front(levels)
  /\ written' =
       LET list == Last(written)
       IN  AddTo(Front(written),
                 JObject([k \in 1..(Len(list) \div 2) |->
                            Member(list[2 * k - 1], list[2 * k])]))
  /\ UNCHANGED hasRoot

PrinterNext ==
  \/ \E v \in Scalars : WriteScalar(v)
  \/ \E name \in Names : Key(name)
  \/ \E inArray \in BOOLEAN : Start(inArray)
  \/ EndArray
  \/ EndObject

\* IsComplete
Complete == hasRoot /\ levels = << >>
=============================================================================
