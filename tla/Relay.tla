------------------------------- MODULE Relay -------------------------------
(***************************************************************************)
(* A value that travels from peer to peer: each writes it as JSON or XML,  *)
(* the next reads it.  Both formats change values (JSON has no binaries,   *)
(* no dates and one kind of integer, and its doubles are read inexactly;   *)
(* XML has no NUL, no CR and no empty names), and a value one peer         *)
(* accepted may be refused by another.                                     *)
(***************************************************************************)
EXTENDS JsonFormat, XmlFormat

CONSTANTS
  Originals,  \* the values that are sent
  MaxHops     \* bound on the length of the path

VARIABLES
  original,   \* the value that was sent
  value,      \* the value the last peer read, or Invalid
  path,       \* the formats it went through
  wire        \* the document on its way, or NoDocument

vars == <<original, value, path, wire>>

ASSUME HopsAssumption == MaxHops \in Nat

Formats == {"json", "xml"}
NoDocument == << >>

Init ==
  /\ original \in Originals
  /\ value = original
  /\ path = << >>
  /\ wire = NoDocument

Write(format) ==
  /\ wire = NoDocument
  /\ value # Invalid
  /\ Len(path) < MaxHops
  /\ path' = Append(path, format)
  /\ wire' = IF format = "json" THEN WriteJson(value) ELSE WriteXml(value)
  /\ UNCHANGED <<original, value>>

Read ==
  /\ wire # NoDocument
  /\ value' = IF Last(path) = "json" THEN ReadJson(wire) ELSE ReadXml(wire)
  /\ wire' = NoDocument
  /\ UNCHANGED <<original, path>>

Next == Read \/ \E format \in Formats : Write(format)

Spec == Init /\ [][Next]_vars

-----------------------------------------------------------------------------
(***************************************************************************)
(* Properties.                                                             *)
(***************************************************************************)

\* A text that XML carries as it is.
PlainText(t) ==
  /\ {NUL, CR} \cap ToSet(t) = {}
  /\ t # << >> => ~IsWhiteSpace(t)

RECURSIVE Plain(_)
Plain(v) ==
  CASE v.type = "STRING" -> PlainText(v.string)
    [] v.type = "BINARY" -> v.string # << >>
    [] v.type = "ARRAY" -> \A i \in DOMAIN v.array : Plain(v.array[i])
    [] v.type = "STRUCT" ->
         \A n \in DOMAIN v.struct :
           n # << >> /\ PlainText(n) /\ Plain(v.struct[n])
    [] OTHER -> TRUE

\* At most so many units in the last place apart.
Near(x, y, ulps) == y[1] = x[1] /\ y[2] - x[2] \in -ulps..ulps

\* Who reads w instead of v, with the same conversions, gets the same, or a double
\* near it.  A text that spells a date is the exception: it has become one.
RECURSIVE ReadsAs(_, _, _)
ReadsAs(v, w, ulps) ==
  CASE v.type = "ARRAY" ->
         /\ w.type = "ARRAY"
         /\ DOMAIN w.array = DOMAIN v.array
         /\ \A i \in DOMAIN v.array : ReadsAs(v.array[i], w.array[i], ulps)
    [] v.type = "STRUCT" ->
         /\ w.type = "STRUCT"
         /\ DOMAIN w.struct = DOMAIN v.struct
         /\ \A n \in DOMAIN v.struct : ReadsAs(v.struct[n], w.struct[n], ulps)
    [] v.type = "DOUBLE" -> w.type = "DOUBLE" /\ Near(v.double, w.double, ulps)
    [] v.type \in {"STRING", "BINARY"} ->
         AsString(v) \subseteq AsString(w) \/ IsDate(CString(v.string))
    [] OTHER ->
         /\ AsBoolean(v) \subseteq AsBoolean(w)
         /\ AsDateTime(v) \subseteq AsDateTime(w)
         /\ AsDouble(v) \subseteq AsDouble(w)
         /\ AsInteger32(v) \subseteq AsInteger32(w)
         /\ AsInteger64(v) \subseteq AsInteger64(w)
         /\ v = Nil => w = Nil

\* JsonReader guesses types JSON does not have, and types do change: a 64-bit
\* integer that fits becomes a 32-bit one, a binary a string.  Yet however many
\* peers speak JSON, every As* of the original works on what arrives and gives
\* the same.  There are two exceptions: dates that were sent as text, and doubles,
\* which every peer may move by as much as its parser is off; but a double stays a
\* double and no integer becomes one (JsonReader::GetValue, reader.h:963).
JsonKeepsConversions ==
  ToSet(path) \subseteq {"json"} =>
    ReadsAs(original, value, MaxUlps * Len(path))

\* A value but for what its doubles are.
RECURSIVE ButDoubles(_)
ButDoubles(v) ==
  CASE v.type = "ARRAY" -> Array([i \in DOMAIN v.array |-> ButDoubles(v.array[i])])
    [] v.type = "STRUCT" -> Struct([n \in DOMAIN v.struct |-> ButDoubles(v.struct[n])])
    [] v.type = "DOUBLE" -> Double(DoubleOf(0))
    [] OTHER -> v

\* JSON and then XML, in this order, take away all that either cannot carry:
\* what arrives after that is never refused again, in any format, and never changed
\* but for its doubles, which another peer that speaks JSON may still move.
Settles ==
  [][(\E i, j \in 1..(Len(path) - 1) :
        i < j /\ path[i] = "json" /\ path[j] = "xml")
     => /\ ButDoubles(value') = ButDoubles(value)
        /\ value' = value \/ Last(path) = "json"]_vars

\* A value whose texts and names are plain, and whose binaries are not empty,
\* crosses any number of peers that speak XML unchanged, types included.
\* XmlReader refuses empty binaries and names without text; neither format makes
\* a value that XML has accepted into one it refuses, so only the first peer
\* that speaks XML can fail (XmlWriter, XmlReader::GetValue).
XmlKeepsOrRefuses ==
  /\ ToSet(path) \subseteq {"xml"} /\ Plain(original) => value = original
  /\ value = Invalid =>
       /\ Last(path) = "xml"
       /\ "xml" \notin ToSet(Front(path))
=============================================================================
