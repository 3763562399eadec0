----------------------------- MODULE JsonChars -----------------------------
(***************************************************************************)
(* Characters and strings of JSON, as bytes (rapidjson/reader.h,           *)
(* rapidjson/writer.h, rapidjson/encodings.h), and the values they spell.  *)
(***************************************************************************)
EXTENDS Integers, SequencesExt

QUOTE == 34
COMMA == 44
SLASH == 47
COLON == 58
OPEN_BRACKET == 91
BACKSLASH == 92
CLOSE_BRACKET == 93
LOWER_U == 117
OPEN_BRACE == 123
CLOSE_BRACE == 125

IsBlank(c) == c \in {9, 10, 13, 32}

\* "null", "true", "false"
NullText == <<110, 117, 108, 108>>
TrueText == <<116, 114, 117, 101>>
FalseText == <<102, 97, 108, 115, 101>>

JNull == [json |-> "null"]
JBool(b) == [json |-> "bool", bool |-> b]
JNumber(n) == [json |-> "number", number |-> n]
JDouble(n, exponent) == [json |-> "double", digits |-> n, exponent |-> exponent]
JString(t) == [json |-> "string", string |-> t]
JArray(s) == [json |-> "array", elements |-> s]
JObject(s) == [json |-> "object", members |-> s]
Member(name, value) == [name |-> name, value |-> value]

-----------------------------------------------------------------------------
\* The characters with an escape of their own, b, f, n, r and t.
Letters == {[letter |-> 98, code |-> 8], [letter |-> 102, code |-> 12],
            [letter |-> 110, code |-> 10], [letter |-> 114, code |-> 13],
            [letter |-> 116, code |-> 9]}

HexDigit(n) == IF n < 10 THEN 48 + n ELSE 55 + n

HexValue(c) ==
  CASE c \in 48..57 -> c - 48
    [] c \in 65..70 -> c - 55
    [] c \in 97..102 -> c - 87
    [] OTHER -> -1

\* Variant: only the characters that end a string are escaped.
EscapeEnds(c) == IF c \in {QUOTE, BACKSLASH} THEN <<BACKSLASH, c>> ELSE <<c>>

\* What Writer::WriteString makes of a byte; from 128 on it is copied.
Escape(c) ==
  IF c \in {QUOTE, BACKSLASH} THEN <<BACKSLASH, c>>
  ELSE IF \E e \in Letters : e.code = c
  THEN <<BACKSLASH, (CHOOSE e \in Letters : e.code = c).letter>>
  ELSE IF c < 32
  THEN <<BACKSLASH, LOWER_U, 48, 48, HexDigit(c \div 16), HexDigit(c % 16)>>
  ELSE <<c>>

Quoted(t) == <<QUOTE>> \o FlattenSeq([i \in DOMAIN t |-> Escape(t[i])]) \o <<QUOTE>>

\* UTF8::Encode
TailByte(code, n) == 128 + ((code \div 64 ^ n) % 64)
Encode(code) ==
  IF code < 128 THEN <<code>>
  ELSE IF code < 2048 THEN <<192 + code \div 64, TailByte(code, 0)>>
  ELSE IF code < 65536 THEN <<224 + code \div 4096, TailByte(code, 1), TailByte(code, 0)>>
  ELSE <<240 + code \div 262144, TailByte(code, 2), TailByte(code, 1), TailByte(code, 0)>>

IsHighSurrogate(code) == code \in 55296..56319
IsLowSurrogate(code) == code \in 56320..57343
FromSurrogates(high, low) == 65536 + 1024 * (high - 55296) + (low - 56320)

-----------------------------------------------------------------------------
\* 10 ^ n, in a form that can be reasoned about.
PowerOfTen(n) ==
  LET power[k \in 0..n] == IF k = 0 THEN 1 ELSE 10 * power[k - 1]
  IN  power[n]
=============================================================================
