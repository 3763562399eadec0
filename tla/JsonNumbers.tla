---------------------------- MODULE JsonNumbers ----------------------------
(***************************************************************************)
(* GenericReader::ParseNumber (rapidjson/reader.h): the digits of a number *)
(* are collected in an unsigned int for as long as it is wide enough, then *)
(* in a uint64_t, then in a double, and a fraction or an exponent makes it *)
(* a double at once.  Where the C++ has loops, each turn is a step here.   *)
(* The widths are parameters, so that every limit can be crossed with      *)
(* short numbers; a double is exact here: rounding is left out.            *)
(***************************************************************************)
EXTENDS JsonChars

CONSTANTS
  Int32,       \* 2^31: the int32_t are -Int32..Int32 - 1
  Int64,       \* 2^63
  FastPath,    \* 2^53 - 1: up to here a uint64_t takes the digits of a fraction
  Precision,   \* 17: how many digits a double takes
  MaxDouble,   \* DBL_MAX / 10
  MaxExponent, \* 308
  Texts        \* the texts that numbers are read from

NUL == 0
PLUS == 43
MINUS == 45
POINT == 46
IsDigit(c) == c \in 48..57
IsE(c) == c \in {69, 101}

\* Variant: the digit that passes the limit is not expected.
ExponentLimitLate == Int32 - 1

\* 214748364
ExponentLimit == (Int32 - 1) \div 10

ASSUME WidthAssumption ==
  /\ Int32 \in Nat /\ Int64 \in Nat /\ FastPath \in Nat
  /\ Precision \in Nat \ {0} /\ MaxDouble \in Nat /\ MaxExponent \in Nat
  /\ ExponentLimit > 9 /\ MaxExponent > 8
  /\ Int64 >= Int32
  /\ 10 * FastPath + 9 < 2 * Int64

\* A document is far shorter than an int could count.
ASSUME TextsAssumption ==
  \A t \in Texts :
    /\ t \in Seq(0..255) /\ t # << >> /\ t[Len(t)] = NUL
    /\ 10 * (MaxExponent + Len(t)) + 9 < Int32

VARIABLES
  text,             \* the document, up to its NUL
  pos,              \* where the stream is
  error,            \* parseResult_
  phase,            \* how far ParseNumber is
  minus, i, i64, use64bit, d, useDouble, significandDigit,
  expFrac, exp, expMinus,
  digits,           \* what has been read: the digits before the exponent,
  places,           \* how many of them come after the point,
  skipped           \* and 10 to the number of those that were not taken

numberVars ==
  <<phase, minus, i, i64, use64bit, d, useDouble, significandDigit,
    expFrac, exp, expMinus, digits, places, skipped>>

Peek == text[pos]
Digit == Peek - 48

StartNumber ==
  /\ phase' = "minus"
  /\ minus' = FALSE
  /\ i' = 0 /\ i64' = 0 /\ use64bit' = FALSE
  /\ d' = 0 /\ useDouble' = FALSE
  /\ significandDigit' = 0 /\ expFrac' = 0
  /\ exp' = 0 /\ expMinus' = FALSE
  /\ digits' = 0 /\ places' = 0 /\ skipped' = 1

Init ==
  /\ text \in Texts
  /\ pos = 1
  /\ error = "NO_ERROR"
  /\ phase = "minus"
  /\ minus = FALSE
  /\ i = 0 /\ i64 = 0 /\ use64bit = FALSE
  /\ d = 0 /\ useDouble = FALSE
  /\ significandDigit = 0 /\ expFrac = 0
  /\ exp = 0 /\ expMinus = FALSE
  /\ digits = 0 /\ places = 0 /\ skipped = 1

Go(next) == phase' = next /\ UNCHANGED <<text, pos, error>>
Take(next) == phase' = next /\ pos' = pos + 1 /\ UNCHANGED <<text, error>>
Fail(code) == error' = code /\ phase' = "failed" /\ UNCHANGED <<text, pos>>

signVars == <<minus, expMinus>>
intVars == <<i, i64, use64bit>>
doubleVars == <<d, useDouble, significandDigit, expFrac>>
readVars == <<digits, places, skipped>>

-----------------------------------------------------------------------------
(***************************************************************************)
(* int: a minus, then a zero or digits that do not start with one.         *)
(***************************************************************************)
ParseMinus ==
  /\ phase = "minus"
  /\ minus' = (Peek = MINUS)
  /\ IF Peek = MINUS THEN Take("first") ELSE Go("first")
  /\ UNCHANGED <<expMinus, intVars, doubleVars, exp, readVars>>

FirstDigit ==
  /\ phase = "first"
  /\ IF IsDigit(Peek)
     THEN /\ Take(IF Digit = 0 THEN "point" ELSE "int")
          /\ i' = Digit
          /\ digits' = Digit
     ELSE Fail("VALUE_INVALID") /\ UNCHANGED <<i, digits>>
  /\ UNCHANGED <<signVars, i64, use64bit, doubleVars, exp, places, skipped>>

\* Variant: the last digit is not looked at.
TooLargeTenth(n, limit) == n > limit \div 10

\* One more digit would make n greater than the limit.
TooLarge(n, limit) ==
  \/ n > limit \div 10
  \/ n = limit \div 10 /\ Digit > limit % 10

Limit(width) == IF minus THEN width ELSE 2 * width - 1

ReadDigit == digits' = 10 * digits + Digit /\ UNCHANGED <<places, skipped>>

IntDigit ==
  /\ phase = "int"
  /\ IF ~IsDigit(Peek)
     THEN Go("point") /\ UNCHANGED <<i, i64, use64bit, significandDigit, readVars>>
     ELSE IF TooLarge(i, Limit(Int32))
     THEN /\ i64' = i
          /\ use64bit' = TRUE
          /\ Go("int64")
          /\ UNCHANGED <<i, significandDigit, readVars>>
     ELSE /\ i' = (10 * i + Digit) % (2 * Int32)
          /\ significandDigit' = significandDigit + 1
          /\ Take("int")
          /\ ReadDigit
          /\ UNCHANGED <<i64, use64bit>>
  /\ UNCHANGED <<signVars, d, useDouble, expFrac, exp>>

Int64Digit ==
  /\ phase = "int64"
  /\ IF ~IsDigit(Peek)
     THEN Go("point") /\ UNCHANGED <<i64, d, useDouble, significandDigit, readVars>>
     ELSE IF TooLarge(i64, Limit(Int64))
     THEN /\ d' = i64
          /\ useDouble' = TRUE
          /\ Go("double")
          /\ UNCHANGED <<i64, significandDigit, readVars>>
     ELSE /\ i64' = (10 * i64 + Digit) % (2 * Int64)
          /\ significandDigit' = significandDigit + 1
          /\ Take("int64")
          /\ ReadDigit
          /\ UNCHANGED <<d, useDouble>>
  /\ UNCHANGED <<signVars, i, use64bit, expFrac, exp>>

DoubleDigit ==
  /\ phase = "double"
  /\ IF ~IsDigit(Peek) THEN Go("point") /\ UNCHANGED <<d, readVars>>
     ELSE IF d >= MaxDouble THEN Fail("NUMBER_TOO_BIG") /\ UNCHANGED <<d, readVars>>
     ELSE d' = 10 * d + Digit /\ Take("double") /\ ReadDigit
  /\ UNCHANGED <<signVars, intVars, useDouble, significandDigit, expFrac, exp>>

-----------------------------------------------------------------------------
(***************************************************************************)
(* frac: a point, then digits.                                             *)
(***************************************************************************)
Integer == IF use64bit THEN i64 ELSE i

ParsePoint ==
  /\ phase = "point"
  /\ IF Peek = POINT THEN Take("fraction") ELSE Go("e")
  /\ UNCHANGED <<signVars, intVars, doubleVars, exp, readVars>>

FractionStarts ==
  /\ phase = "fraction"
  /\ IF ~IsDigit(Peek) THEN Fail("NUMBER_MISS_FRACTION") /\ UNCHANGED i64
     ELSE IF useDouble THEN Go("frac") /\ UNCHANGED i64
     ELSE Go("fast") /\ i64' = Integer
  /\ UNCHANGED <<signVars, i, use64bit, doubleVars, exp, readVars>>

ReadPlace(times) ==
  /\ digits' = 10 * digits + Digit
  /\ places' = places + 1
  /\ skipped' = times * skipped

FastDigit ==
  /\ phase = "fast"
  /\ IF IsDigit(Peek) /\ i64 <= FastPath
     THEN /\ i64' = (10 * i64 + Digit) % (2 * Int64)
          /\ expFrac' = expFrac - 1
          /\ significandDigit' = significandDigit + (IF i64' # 0 THEN 1 ELSE 0)
          /\ Take("fast")
          /\ ReadPlace(1)
          /\ UNCHANGED <<d, useDouble>>
     ELSE /\ d' = i64
          /\ useDouble' = TRUE
          /\ Go("frac")
          /\ UNCHANGED <<i64, expFrac, significandDigit, readVars>>
  /\ UNCHANGED <<signVars, i, use64bit, exp>>

\* Variant: a digit that is not taken counts as a place.
FractionDigitCounts ==
  /\ phase = "frac"
  /\ IF ~IsDigit(Peek)
     THEN Go("e") /\ UNCHANGED <<d, expFrac, significandDigit, readVars>>
     ELSE /\ Take("frac")
          /\ expFrac' = expFrac - 1
          /\ IF significandDigit < Precision
             THEN /\ d' = 10 * d + Digit
                  /\ significandDigit' = significandDigit + (IF d' > 0 THEN 1 ELSE 0)
                  /\ ReadPlace(1)
             ELSE ReadPlace(10) /\ UNCHANGED <<d, significandDigit>>
  /\ UNCHANGED <<signVars, intVars, useDouble, exp>>

FractionDigit ==
  /\ phase = "frac"
  /\ IF ~IsDigit(Peek)
     THEN Go("e") /\ UNCHANGED <<d, expFrac, significandDigit, readVars>>
     ELSE IF significandDigit < Precision
     THEN /\ d' = 10 * d + Digit
          /\ expFrac' = expFrac - 1
          /\ significandDigit' = significandDigit + (IF d' > 0 THEN 1 ELSE 0)
          /\ Take("frac")
          /\ ReadPlace(1)
     ELSE /\ Take("frac")
          /\ ReadPlace(10)
          /\ UNCHANGED <<d, expFrac, significandDigit>>
  /\ UNCHANGED <<signVars, intVars, useDouble, exp>>

-----------------------------------------------------------------------------
(***************************************************************************)
(* exp: an e, a sign, then digits.                                         *)
(***************************************************************************)
ParseE ==
  /\ phase = "e"
  /\ IF IsE(Peek)
     THEN /\ Take("expSign")
          /\ useDouble' = TRUE
          /\ d' = (IF useDouble THEN d ELSE Integer)
     ELSE Go("done") /\ UNCHANGED <<d, useDouble>>
  /\ UNCHANGED <<signVars, intVars, significandDigit, expFrac, exp, readVars>>

ExponentSign ==
  /\ phase = "expSign"
  /\ expMinus' = (Peek = MINUS)
  /\ IF Peek \in {PLUS, MINUS} THEN Take("expFirst") ELSE Go("expFirst")
  /\ UNCHANGED <<minus, intVars, doubleVars, exp, readVars>>

ExponentStarts ==
  /\ phase = "expFirst"
  /\ IF IsDigit(Peek) THEN exp' = Digit /\ Take("exp")
                      ELSE Fail("NUMBER_MISS_EXPONENT") /\ UNCHANGED exp
  /\ UNCHANGED <<signVars, intVars, doubleVars, readVars>>

\* Variant: the limit forgets the places of the fraction.
MaxExpForgets == MaxExponent + expFrac

MaxExp == MaxExponent - expFrac

\* A negative exponent that is large enough is not read any further; a positive
\* one is an error.  (The number has nothing else after it.)
ExponentDigit ==
  /\ phase = "exp"
  /\ IF ~IsDigit(Peek)
     THEN /\ Go("done")
          /\ exp' = (IF expMinus THEN -exp ELSE exp)
     ELSE /\ exp' = 10 * exp + Digit
          /\ IF expMinus
             THEN Take(IF exp' >= ExponentLimit THEN "expRest" ELSE "exp")
             ELSE IF exp' > MaxExp
             THEN /\ error' = "NUMBER_TOO_BIG"
                  /\ phase' = "failed"
                  /\ pos' = pos + 1
                  /\ UNCHANGED text
             ELSE Take("exp")
  /\ UNCHANGED <<signVars, intVars, doubleVars, readVars>>

\* Variant: the digits are not taken.
ExponentRestStays ==
  /\ phase = "expRest"
  /\ IF IsDigit(Peek) THEN Go("expRest") ELSE Go("exp")
  /\ UNCHANGED <<signVars, intVars, doubleVars, exp, readVars>>

ExponentRest ==
  /\ phase = "expRest"
  /\ IF IsDigit(Peek) THEN Take("expRest") ELSE Go("exp")
  /\ UNCHANGED <<signVars, intVars, doubleVars, exp, readVars>>

NumberNext ==
  \/ ParseMinus \/ FirstDigit \/ IntDigit \/ Int64Digit \/ DoubleDigit
  \/ ParsePoint \/ FractionStarts \/ FastDigit \/ FractionDigit
  \/ ParseE \/ ExponentSign \/ ExponentStarts \/ ExponentDigit \/ ExponentRest

vars == <<text, pos, error, numberVars>>
NumberSpec == Init /\ [][NumberNext]_vars

-----------------------------------------------------------------------------
(***************************************************************************)
(* What the handler is given: Int, Uint, Int64 or Uint64, or a Double that *)
(* is d * 10^exponent.                                                     *)
(***************************************************************************)

\* ~n + 1, as a signed integer of a width.
Negated(n, width) ==
  LET u == (2 * width - n) % (2 * width)
  IN  IF u < width THEN u ELSE u - 2 * width

ParsedInteger ==
  IF ~minus THEN Integer
  ELSE Negated(Integer, IF use64bit THEN Int64 ELSE Int32)

ParsedExponent == exp + expFrac

-----------------------------------------------------------------------------
(***************************************************************************)
(* Properties.                                                             *)
(***************************************************************************)

\* The types of the variables; the stream stays in the text, and an exponent in
\* an int.
NumberTypeOK ==
  /\ pos \in DOMAIN text
  /\ i \in 0..(2 * Int32 - 1) /\ i64 \in 0..(2 * Int64 - 1) /\ d \in Nat
  /\ minus \in BOOLEAN /\ expMinus \in BOOLEAN
  /\ use64bit \in BOOLEAN /\ useDouble \in BOOLEAN
  /\ significandDigit \in Nat /\ expFrac \in Int
  /\ exp \in -Int32..(Int32 - 1)
  /\ digits \in Nat /\ places \in Nat /\ skipped \in Nat \ {0}

\* A number without a fraction or an exponent that fits is read exactly, as an
\* integer no wider than it needs, with no digit lost at the step from one width
\* to the next; any other is a double whose digits are the first ones of the
\* number (reader.h:783-857, 940-985).
NumberExact ==
  phase = "done" =>
    IF useDouble
    THEN d * skipped <= digits /\ digits < (d + 1) * skipped
    ELSE /\ places = 0
         /\ ParsedInteger = (IF minus THEN -digits ELSE digits)
         /\ use64bit => digits > Limit(Int32)

\* Digits of a fraction are left out only when a double is full, and then
\* the exponent does not count them (reader.h:866-902).
PlacesKept ==
  /\ places + expFrac >= 0
  /\ skipped = PowerOfTen(places + expFrac)
  /\ skipped > 1 => d >= PowerOfTen(Precision - 1)

\* The exponent of a number that is read is one Pow10 has in its table, and only
\* a number that has not is refused (reader.h:921-944, internal/pow10.h:48).
ExponentInTable ==
  /\ phase = "done" => ParsedExponent <= MaxExponent
  /\ error = "NUMBER_TOO_BIG" => d >= MaxDouble \/ ParsedExponent > MaxExponent

\* The exponent that is left to apply is an int: "prevent overflow exponent"
\* (reader.h:931, 959).
ExponentFits == phase = "done" => ParsedExponent \in -Int32..(Int32 - 1)
=============================================================================
