---------------------------- MODULE JsonParser ----------------------------
(***************************************************************************)
(* GenericReader::Parse (rapidjson/reader.h) with a GenericDocument as its *)
(* handler (rapidjson/document.h): what is read is pushed on the stack of  *)
(* the document, and the end of an array or an object takes as many values *)
(* off it as were counted.                                                 *)
(***************************************************************************)
EXTENDS JsonNumbers

VARIABLES
  at,      \* what the reader does next
  frames,  \* the calls of ParseObject and ParseArray, the innermost last
  values,  \* the document's stack_
  chars,   \* the reader's stack_: the string being read
  isKey,   \* is it a name?
  root     \* the document

parserVars == <<at, frames, values, chars, isKey, root>>

ParserInit ==
  /\ text = <<NUL>> /\ pos = 1 /\ error = "NO_ERROR"
  /\ phase = "idle" /\ minus = FALSE
  /\ i = 0 /\ i64 = 0 /\ use64bit = FALSE
  /\ d = 0 /\ useDouble = FALSE /\ significandDigit = 0 /\ expFrac = 0
  /\ exp = 0 /\ expMinus = FALSE
  /\ digits = 0 /\ places = 0 /\ skipped = 1
  /\ at = "new" /\ frames = << >> /\ values = << >> /\ chars = << >>
  /\ isKey = FALSE /\ root = JNull

Skip(t, p) == CHOOSE q \in p..Len(t) : ~IsBlank(t[q]) /\ \A k \in p..(q - 1) : IsBlank(t[k])
Matches(word, p) == Len(word) <= Len(text) - p /\ SubSeq(text, p, p + Len(word) - 1) = word

\* An error ends every call, and the document's stack is cleared.
Refuse(code) ==
  /\ error' = code
  /\ at' = "done"
  /\ frames' = << >> /\ values' = << >> /\ chars' = << >>
  /\ UNCHANGED <<text, pos, isKey, root>>

MoveTo(p, next) == pos' = p /\ at' = next /\ UNCHANGED <<text, error, root>>
Push(v) == values' = Append(values, v)

\* JsonReader parses a document, which ends in a NUL.
Parse(document) ==
  /\ at = "new"
  /\ text' = document
  /\ pos' = Skip(document, 1)
  /\ IF document[pos'] = NUL THEN at' = "done" /\ error' = "DOCUMENT_EMPTY"
                             ELSE at' = "value" /\ UNCHANGED error
  /\ UNCHANGED <<numberVars, frames, values, chars, isKey, root>>

-----------------------------------------------------------------------------
(***************************************************************************)
(* ParseValue.                                                             *)
(***************************************************************************)
Literals ==
  {[word |-> NullText, value |-> JNull], [word |-> TrueText, value |-> JBool(TRUE)],
   [word |-> FalseText, value |-> JBool(FALSE)]}
Initials == {literal.word[1] : literal \in Literals}

ParseLiteral ==
  /\ at = "value"
  /\ Peek \in Initials
  /\ \/ \E literal \in Literals :
          /\ Matches(literal.word, pos)
          /\ Push(literal.value)
          /\ MoveTo(pos + Len(literal.word), "after")
          /\ UNCHANGED <<frames, chars, isKey>>
     \/ /\ \A literal \in Literals : ~Matches(literal.word, pos)
        /\ Refuse("VALUE_INVALID")
  /\ UNCHANGED numberVars

BeginString ==
  /\ at \in {"value", "key"}
  /\ Peek = QUOTE
  /\ isKey' = (at = "key")
  /\ chars' = << >>
  /\ MoveTo(pos + 1, "string")
  /\ UNCHANGED <<frames, values, numberVars>>

MissingName ==
  /\ at = "key"
  /\ Peek # QUOTE
  /\ Refuse("OBJECT_MISS_NAME")
  /\ UNCHANGED numberVars

Frame(kind) == [kind |-> kind, count |-> 0]
Placeholder(kind) == IF kind = "array" THEN JArray(<< >>) ELSE JObject(<< >>)

\* An object or an array that is empty is ended at once.
Open(kind, opening, closing, first) ==
  /\ at = "value"
  /\ Peek = opening
  /\ Push(Placeholder(kind))
  /\ LET next == Skip(text, pos + 1)
     IN  IF text[next] = closing
         THEN MoveTo(next + 1, "after") /\ UNCHANGED frames
         ELSE MoveTo(next, first) /\ frames' = Append(frames, Frame(kind))
  /\ UNCHANGED <<chars, isKey, numberVars>>

OpenObject == Open("object", OPEN_BRACE, CLOSE_BRACE, "key")
OpenArray == Open("array", OPEN_BRACKET, CLOSE_BRACKET, "value")

BeginNumber ==
  /\ at = "value"
  /\ Peek \notin Initials \cup {QUOTE, OPEN_BRACE, OPEN_BRACKET}
  /\ StartNumber
  /\ MoveTo(pos, "number")
  /\ UNCHANGED <<frames, values, chars, isKey>>

ReadNumber == at = "number" /\ NumberNext /\ UNCHANGED parserVars

EndNumber ==
  /\ at = "number"
  /\ \/ /\ phase = "done"
        /\ Push(IF useDouble
                THEN JDouble(IF minus THEN -d ELSE d, ParsedExponent)
                ELSE JNumber(ParsedInteger))
        /\ MoveTo(pos, "after")
        /\ UNCHANGED <<frames, chars, isKey>>
     \/ phase = "failed" /\ Refuse(error)
  /\ phase' = "idle"
  /\ UNCHANGED <<minus, i, i64, use64bit, d, useDouble, significandDigit,
                 expFrac, exp, expMinus, digits, places, skipped>>

-----------------------------------------------------------------------------
(***************************************************************************)
(* ParseStringToStream, one turn of its loop at a time.                    *)
(***************************************************************************)
PutChars(s, length) ==
  /\ chars' = chars \o s
  /\ MoveTo(pos + length, "string")
  /\ UNCHANGED <<frames, values, isKey>>

\* ParseHex4: -1 if there are not four hexadecimal digits.
Hex4(p) ==
  IF \E k \in 0..3 : p + k \notin DOMAIN text \/ HexValue(text[p + k]) < 0 THEN -1
  ELSE LET h(k) == HexValue(text[p + k])
       IN  4096 * h(0) + 256 * h(1) + 16 * h(2) + h(3)

StringChar ==
  /\ at = "string"
  /\ Peek >= 32 /\ Peek \notin {QUOTE, BACKSLASH}
  /\ PutChars(<<Peek>>, 1)
  /\ UNCHANGED numberVars

StringEscape ==
  /\ at = "string"
  /\ Peek = BACKSLASH
  /\ text[pos + 1] # LOWER_U
  /\ LET e == text[pos + 1]
     IN  IF e \in {QUOTE, BACKSLASH, SLASH} THEN PutChars(<<e>>, 2)
         ELSE IF \E l \in Letters : l.letter = e
         THEN PutChars(<<(CHOOSE l \in Letters : l.letter = e).code>>, 2)
         ELSE Refuse("STRING_ESCAPE_INVALID")
  /\ UNCHANGED numberVars

\* Variant: the second half of a pair is not looked at.
StringUnicodeAnyPair ==
  /\ at = "string"
  /\ Peek = BACKSLASH
  /\ text[pos + 1] = LOWER_U
  /\ LET code == Hex4(pos + 2)
         low == Hex4(pos + 8)
     IN  IF code = -1 THEN Refuse("STRING_UNICODE_ESCAPE_INVALID_HEX")
         ELSE IF ~IsHighSurrogate(code) THEN PutChars(Encode(code), 6)
         ELSE IF low = -1 THEN Refuse("STRING_UNICODE_ESCAPE_INVALID_HEX")
         ELSE PutChars(Encode(FromSurrogates(code, low)), 12)
  /\ UNCHANGED numberVars

StringUnicode ==
  /\ at = "string"
  /\ Peek = BACKSLASH
  /\ text[pos + 1] = LOWER_U
  /\ LET code == Hex4(pos + 2)
         low == Hex4(pos + 8)
     IN  IF code = -1 THEN Refuse("STRING_UNICODE_ESCAPE_INVALID_HEX")
         ELSE IF ~IsHighSurrogate(code) THEN PutChars(Encode(code), 6)
         ELSE IF ~Matches(<<BACKSLASH, LOWER_U>>, pos + 6)
         THEN Refuse("STRING_UNICODE_SURROGATE_INVALID")
         ELSE IF low = -1 THEN Refuse("STRING_UNICODE_ESCAPE_INVALID_HEX")
         ELSE IF ~IsLowSurrogate(low) THEN Refuse("STRING_UNICODE_SURROGATE_INVALID")
         ELSE PutChars(Encode(FromSurrogates(code, low)), 12)
  /\ UNCHANGED numberVars

StringFails ==
  /\ at = "string"
  /\ Peek < 32
  /\ Refuse(IF Peek = NUL THEN "STRING_MISS_QUOTATION_MARK" ELSE "STRING_ESCAPE_INVALID")
  /\ UNCHANGED numberVars

\* After a name ParseObject wants a colon.
EndString ==
  /\ at = "string"
  /\ Peek = QUOTE
  /\ LET next == Skip(text, pos + 1)
     IN  IF isKey /\ text[next] # COLON
         THEN Refuse("OBJECT_MISS_COLON")
         ELSE /\ Push(JString(chars))
              /\ chars' = << >>
              /\ IF isKey THEN MoveTo(Skip(text, next + 1), "value")
                          ELSE MoveTo(pos + 1, "after")
              /\ UNCHANGED <<frames, isKey>>
  /\ UNCHANGED numberVars

-----------------------------------------------------------------------------
(***************************************************************************)
(* After a value.                                                          *)
(***************************************************************************)
TopFrame == Last(frames)

\* Variant: the pairs of an object are counted as one value each.
EndedHalf(count) ==
  LET rest == SubSeq(values, 1, Len(values) - count)
      taken == SubSeq(values, Len(rest) + 1, Len(values))
  IN  [rest EXCEPT ![Len(rest)] =
         IF TopFrame.kind = "array" THEN JArray(taken)
         ELSE JObject([k \in 1..(count \div 2) |-> Member(taken[2 * k - 1], taken[2 * k])])]

\* GenericDocument::EndArray and EndObject: what is counted is taken off the
\* stack and given to the value below.
Ended(count) ==
  LET size == IF TopFrame.kind = "array" THEN count ELSE 2 * count
      rest == SubSeq(values, 1, Len(values) - size)
      taken == SubSeq(values, Len(rest) + 1, Len(values))
  IN  [rest EXCEPT ![Len(rest)] =
         IF TopFrame.kind = "array" THEN JArray(taken)
         ELSE JObject([k \in 1..count |-> Member(taken[2 * k - 1], taken[2 * k])])]

Closing(frame) == IF frame.kind = "array" THEN CLOSE_BRACKET ELSE CLOSE_BRACE

NextValue ==
  /\ at = "after"
  /\ frames # << >>
  /\ LET next == Skip(text, pos) IN
     /\ text[next] = COMMA
     /\ frames' = Append(Front(frames), [TopFrame EXCEPT !.count = @ + 1])
     /\ MoveTo(Skip(text, next + 1), IF TopFrame.kind = "array" THEN "value" ELSE "key")
  /\ UNCHANGED <<values, chars, isKey, numberVars>>

Close ==
  /\ at = "after"
  /\ frames # << >>
  /\ LET next == Skip(text, pos) IN
     /\ text[next] = Closing(TopFrame)
     /\ values' = Ended(TopFrame.count + 1)
     /\ frames' = Front(frames)
     /\ MoveTo(next + 1, "after")
  /\ UNCHANGED <<chars, isKey, numberVars>>

MissingComma ==
  /\ at = "after"
  /\ frames # << >>
  /\ text[Skip(text, pos)] \notin {COMMA, Closing(TopFrame)}
  /\ Refuse("MISS_COMMA")
  /\ UNCHANGED numberVars

\* Parse and ParseStream: the value that is left is the document.
EndDocument ==
  /\ at = "after"
  /\ frames = << >>
  /\ IF text[Skip(text, pos)] # NUL THEN Refuse("DOCUMENT_ROOT_NOT_SINGULAR")
     ELSE /\ at' = "done"
          /\ root' = Last(values)
          /\ values' = Front(values)
          /\ UNCHANGED <<text, pos, error, frames, chars, isKey>>
  /\ UNCHANGED numberVars

ParserNext ==
  \/ ParseLiteral \/ BeginString \/ MissingName \/ OpenObject \/ OpenArray
  \/ BeginNumber \/ ReadNumber \/ EndNumber
  \/ StringChar \/ StringEscape \/ StringUnicode \/ StringFails \/ EndString
  \/ NextValue \/ Close \/ MissingComma \/ EndDocument

-----------------------------------------------------------------------------
(***************************************************************************)
(* Properties.                                                             *)
(***************************************************************************)

\* How many names the innermost call has before the value it is to read.
Named == IF at \in {"value", "number", "after"} \/ (at = "string" /\ ~isKey) THEN 1 ELSE 0

\* How many values a call has on the stack, under the call it has made: its own
\* placeholder, what it has counted, and in an object the name of the next one.
Holds(calls, named, k) ==
  IF calls[k].kind = "array" THEN 1 + calls[k].count
  ELSE 1 + 2 * calls[k].count + (IF k < Len(calls) THEN 1 ELSE named)

\* Where they begin.
Base(calls, named, k) ==
  LET base[n \in 0..Len(calls)] ==
        IF n = 0 THEN 1 ELSE base[n - 1] + Holds(calls, named, n)
  IN  base[k - 1]

Placed(calls, named, stack, k) ==
  /\ stack[Base(calls, named, k)] = Placeholder(calls[k].kind)
  /\ calls[k].kind = "object" =>
       \A m \in 1..(Holds(calls, named, k) \div 2) :
         stack[Base(calls, named, k) + 2 * m - 1].json = "string"

\* Nothing but what the calls hold and a value that nobody has counted yet.
InPlace(calls, named, stack, uncounted) ==
  /\ Len(stack) = Base(calls, named, Len(calls) + 1) - 1 + uncounted
  /\ \A k \in DOMAIN calls : Placed(calls, named, stack, k)

\* Each call finds its own placeholder below its values and its names among
\* them, so what EndObject and EndArray take off the stack is what they counted,
\* however deep the document and wherever it is wrong; in the end one root is
\* left, or nothing (reader.h:467-566; document.h:1823, 1962-1974).
StackSound ==
  IF at \in {"new", "done"} THEN values = << >> /\ frames = << >>
  ELSE InPlace(frames, Named, values, IF at = "after" THEN 1 ELSE 0)
=============================================================================
