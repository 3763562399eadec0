---------------------------- MODULE JsonProofs ----------------------------
(***************************************************************************)
(* Proofs about the JSON reader and the Writer.                            *)
(*                                                                         *)
(* ParseNumber, for integers, doubles and tables of any width and for      *)
(* every text: no type is ever too narrow for what is read into it,        *)
(* integers are exact, the digits that a full double leaves out do not     *)
(* count, and the exponent of what is read is one that Pow10 has.          *)
(*                                                                         *)
(* The stack of the document, for every document: what the calls hold lies *)
(* there one above the other (Base, Holds), so that a step that touches    *)
(* the innermost call leaves the others where they were (StillPlaced).     *)
(*                                                                         *)
(* Documents that the Writer wrote: the reader is always where the Writer  *)
(* was in one of its states, or on the way from it to the next (Sync), so  *)
(* that in the end it has read what was written (RoundTrip).               *)
(***************************************************************************)
EXTENDS JsonDocuments, SequenceTheorems, WellFoundedInduction, TLAPS

Phases ==
  {"minus", "first", "int", "int64", "double", "point", "fraction", "fast", "frac",
   "e", "expSign", "expFirst", "exp", "expRest", "done", "failed"}

\* NumberTypeOK and the phases; a place costs a character.
TypeInv ==
  /\ text \in Texts
  /\ phase \in Phases
  /\ NumberTypeOK
  /\ expFrac <= 0
  /\ 1 - expFrac <= pos

\* Nothing after the point, and nothing left out.
Whole == places = 0 /\ skipped = 1 /\ expFrac = 0

\* The digits are in i, or in i64 if they do not fit in i.
AsInteger ==
  /\ ~useDouble
  /\ Whole
  /\ Integer = digits
  /\ digits <= Limit(IF use64bit THEN Int64 ELSE Int32)
  /\ use64bit => digits > Limit(Int32)

\* The first digits are in d.
AsDouble ==
  /\ useDouble
  /\ d * skipped <= digits
  /\ digits < (d + 1) * skipped

\* What the digits are read into, phase by phase.
DigitsInv ==
  /\ phase = "minus" => ~minus
  /\ phase \in {"minus", "first"} => AsInteger /\ ~use64bit /\ digits = 0
  /\ phase = "int" => AsInteger /\ ~use64bit
  /\ phase = "int64" =>
       /\ ~useDouble /\ use64bit
       /\ Whole
       /\ i64 = digits
       /\ digits <= Limit(Int64)
       /\ digits > Limit(Int32) \/ (IsDigit(Peek) /\ 10 * digits + Digit > Limit(Int32))
  /\ phase = "double" => AsDouble /\ Whole
  /\ phase \in {"point", "fraction"} => Whole /\ (AsInteger \/ AsDouble)
  /\ phase = "fast" => ~useDouble /\ i64 = digits /\ skipped = 1
  /\ phase = "frac" => AsDouble /\ (significandDigit < Precision => skipped = 1)
  /\ phase \in {"e", "done"} => AsInteger \/ AsDouble
  /\ phase \in {"expSign", "expFirst", "exp", "expRest"} => AsDouble

\* The exponent, phase by phase, and the errors there are.
ExponentInv ==
  /\ phase = "exp" =>
       /\ exp >= 0
       /\ IF expMinus THEN exp < ExponentLimit \/ ~IsDigit(Peek) ELSE exp <= MaxExp
  /\ phase = "expRest" => expMinus /\ exp >= ExponentLimit
  /\ phase = "done" => exp <= MaxExp
  /\ phase \notin {"exp", "expRest", "done", "failed"} => exp = 0
  /\ error # "NO_ERROR" => phase = "failed"
  /\ error = "NUMBER_TOO_BIG" => d >= MaxDouble \/ ParsedExponent > MaxExponent

IInv == TypeInv /\ DigitsInv /\ ExponentInv

-----------------------------------------------------------------------------
\* Every set of natural numbers that is not empty has a least one.
LEMMA LeastNat ==
  ASSUME NEW T \in SUBSET Nat, T # {}
  PROVE  \E k \in T : \A j \in T : k <= j
<1> DEFINE R == OpToRel(<, Nat)
<1>1. IsWellFoundedOn(R, Nat)
  BY ONLY NatLessThanWellFounded, Zenon
<1>2. R = {ss \in Nat \X Nat : ss[1] < ss[2]}
  BY ONLY Zenon DEF OpToRel
<1> HIDE DEF R
<1>3. PICK k \in T : \A j \in T : <<j, k>> \notin R
  BY <1>1, WFMin
<1>4. \A j \in T : ~(j < k)
  BY <1>2, <1>3
<1>5. QED
  BY <1>4

\* What is known of the widths.
LEMMA Widths ==
  /\ Int32 \in Nat /\ Int64 \in Nat /\ FastPath \in Nat /\ Precision \in Nat
  /\ MaxDouble \in Nat /\ MaxExponent \in Nat /\ ExponentLimit \in Nat
  /\ Int32 >= 100 /\ Int64 >= Int32
  /\ 10 * ExponentLimit <= Int32 - 1
  /\ ExponentLimit > 9 /\ MaxExponent > 8
  /\ 10 * FastPath + 9 < 2 * Int64
BY WidthAssumption DEF ExponentLimit

\* The stream can be read where it is, and goes on after anything but the NUL.
LEMMA Stream ==
  ASSUME text \in Texts, pos \in DOMAIN text
  PROVE  /\ pos \in Nat /\ Len(text) \in Nat /\ 1 <= pos /\ pos <= Len(text)
         /\ Peek \in 0..255
         /\ Peek # NUL => pos + 1 \in DOMAIN text
         /\ IsDigit(Peek) => Digit \in 0..9 /\ pos + 1 \in DOMAIN text
         /\ 10 * (MaxExponent + Len(text)) + 9 < Int32
<1>1. /\ text \in Seq(0..255) /\ text[Len(text)] = NUL
      /\ 10 * (MaxExponent + Len(text)) + 9 < Int32
  BY TextsAssumption
<1>2. Len(text) \in Nat /\ DOMAIN text = 1..Len(text)
  BY <1>1, LenProperties
<1>3. Peek \in 0..255
  BY <1>1, <1>2, ElementOfSeq DEF Peek
<1>4. Peek # NUL => pos + 1 \in DOMAIN text
  BY <1>1, <1>2 DEF Peek
<1>5. QED
  BY <1>1, <1>2, <1>3, <1>4 DEF IsDigit, Digit, NUL

\* TooLarge says what it means.
LEMMA OneMoreDigit ==
  ASSUME NEW n \in Nat, NEW limit \in Nat, Digit \in 0..9
  PROVE  TooLarge(n, limit) <=> 10 * n + Digit > limit
BY DEF TooLarge

LEMMA Limits ==
  ASSUME minus \in BOOLEAN
  PROVE  /\ Limit(Int32) \in Nat /\ Limit(Int64) \in Nat
         /\ Limit(Int32) < 2 * Int32 /\ Limit(Int64) < 2 * Int64
         /\ Limit(Int32) <= Limit(Int64)
         /\ minus => Limit(Int32) = Int32 /\ Limit(Int64) = Int64
BY Widths DEF Limit

LEMMA NoWrap == ASSUME NEW n \in Nat, NEW m \in Nat, n < m PROVE n % m = n
BY Z3

\* The two's complement of a number that fits.
LEMMA NegatedExact ==
  ASSUME NEW n \in Nat, NEW width \in Nat \ {0}, n <= width
  PROVE  Negated(n, width) = -n
<1>1. CASE n = 0
  <2>1. (2 * width - n) % (2 * width) = 0
    BY <1>1, Z3
  <2>2. QED
    BY <1>1, <2>1 DEF Negated
<1>2. CASE n # 0
  <2>1. (2 * width - n) % (2 * width) = 2 * width - n
    BY <1>2, NoWrap
  <2>2. QED
    BY <1>2, <2>1 DEF Negated
<1>3. QED
  BY <1>1, <1>2

\* All of that, where the invariant holds.
LEMMA Facts ==
  ASSUME TypeInv
  PROVE  /\ pos \in Nat /\ Len(text) \in Nat /\ 1 <= pos /\ pos <= Len(text)
         /\ Peek \in 0..255
         /\ Peek # NUL => pos + 1 \in DOMAIN text
         /\ IsDigit(Peek) => Digit \in 0..9 /\ pos + 1 \in DOMAIN text
         /\ 10 * (MaxExponent + Len(text)) + 9 < Int32
         /\ Limit(Int32) \in Nat /\ Limit(Int64) \in Nat
         /\ Limit(Int32) < 2 * Int32 /\ Limit(Int64) < 2 * Int64
         /\ Limit(Int32) <= Limit(Int64)
<1>1. text \in Texts /\ pos \in DOMAIN text /\ minus \in BOOLEAN
  BY DEF TypeInv, NumberTypeOK
<1>2. QED
  BY <1>1, Stream, Limits

-----------------------------------------------------------------------------
LEMMA InitInv == Init => IInv
<1> SUFFICES ASSUME Init PROVE IInv
  OBVIOUS
<1>1. /\ text \in Texts /\ 1 \in DOMAIN text
  <2>1. text \in Texts
    BY DEF Init
  <2>2. text \in Seq(0..255) /\ text # << >>
    BY <2>1, TextsAssumption
  <2>3. QED
    BY <2>1, <2>2, EmptySeq, LenProperties
<1>2. minus \in BOOLEAN /\ ~minus /\ ~use64bit /\ ~useDouble
  BY DEF Init
<1>3. TypeInv
  <2>1. minus \in BOOLEAN /\ expMinus \in BOOLEAN /\ use64bit \in BOOLEAN /\ useDouble \in BOOLEAN
    BY DEF Init
  <2>2. QED
    BY <1>1, <2>1, Widths DEF Init, TypeInv, NumberTypeOK, Phases
<1>4. AsInteger
  BY <1>2, Limits DEF Init, AsInteger, Whole, Integer
<1>5. DigitsInv
  BY <1>2, <1>4 DEF Init, DigitsInv
<1>6. ExponentInv
  BY DEF Init, ExponentInv
<1>7. QED
  BY <1>3, <1>5, <1>6 DEF IInv

-----------------------------------------------------------------------------
\* One lemma for each step.

LEMMA ParseMinusStep == ASSUME IInv, ParseMinus PROVE IInv'
<1>0. minus' \in BOOLEAN
  BY DEF ParseMinus
<1>1. /\ phase = "minus" /\ phase' = "first"
      /\ pos' = pos \/ (pos' = pos + 1 /\ Peek = MINUS)
      /\ UNCHANGED <<text, error, expMinus, i, i64, use64bit, d, useDouble,
                     significandDigit, expFrac, exp, digits, places, skipped>>
  BY DEF ParseMinus, Go, Take, intVars, doubleVars, readVars
<1>2. pos' \in DOMAIN text /\ 1 - expFrac <= pos'
  BY <1>1, Facts DEF IInv, TypeInv, NumberTypeOK, MINUS, NUL
<1>3. TypeInv'
  BY <1>0, <1>1, <1>2 DEF IInv, TypeInv, NumberTypeOK, Phases
<1>4. AsInteger /\ ~use64bit /\ digits = 0
  BY <1>1 DEF IInv, DigitsInv
<1>5. AsInteger'
  BY <1>1, <1>3, <1>4, Facts, Widths DEF AsInteger, Whole, Integer, Limit
<1>6. DigitsInv'
  BY <1>1, <1>4, <1>5 DEF DigitsInv
<1>7. ExponentInv'
  BY <1>1 DEF IInv, ExponentInv, ParsedExponent, MaxExp
<1>8. QED
  BY <1>3, <1>6, <1>7 DEF IInv

LEMMA FirstDigitStep == ASSUME IInv, FirstDigit PROVE IInv'
<1>0. TypeInv /\ AsInteger /\ ~use64bit /\ digits = 0 /\ exp = 0
  BY DEF FirstDigit, IInv, DigitsInv, ExponentInv
<1>1. CASE IsDigit(Peek)
  <2>1. /\ phase' \in {"point", "int"} /\ pos' = pos + 1 /\ i' = Digit /\ digits' = Digit
        /\ UNCHANGED <<text, error, minus, expMinus, i64, use64bit, d, useDouble,
                       significandDigit, expFrac, exp, places, skipped>>
    BY <1>1 DEF FirstDigit, Take, signVars, doubleVars
  <2>2. Digit \in 0..9 /\ pos' \in DOMAIN text /\ pos \in Nat
    BY <1>0, <1>1, <2>1, Facts
  <2>3. TypeInv'
    <3>1. i' \in 0..(2 * Int32 - 1) /\ digits' \in Nat /\ 1 - expFrac <= pos'
      BY <1>0, <2>1, <2>2, Widths DEF TypeInv, NumberTypeOK
    <3>2. QED
      BY <1>0, <2>1, <2>2, <3>1 DEF TypeInv, NumberTypeOK, Phases
  <2>4. AsInteger'
    BY <1>0, <2>1, <2>2, Widths DEF AsInteger, Whole, Integer, Limit
  <2>5. DigitsInv'
    BY <1>0, <2>1, <2>4 DEF DigitsInv, AsInteger
  <2>6. ExponentInv'
    BY <1>0, <2>1 DEF IInv, ExponentInv, ParsedExponent, MaxExp, FirstDigit
  <2>7. QED
    BY <2>3, <2>5, <2>6 DEF IInv
<1>2. CASE ~IsDigit(Peek)
  <2>1. /\ phase = "first" /\ phase' = "failed" /\ error' = "VALUE_INVALID"
        /\ UNCHANGED <<text, pos, minus, expMinus, i, i64, use64bit, d, useDouble,
                       significandDigit, expFrac, exp, digits, places, skipped>>
    BY <1>2 DEF FirstDigit, Fail, signVars, doubleVars
  <2>2. TypeInv' /\ DigitsInv' /\ ExponentInv'
    BY <1>0, <2>1 DEF TypeInv, NumberTypeOK, Phases, DigitsInv, ExponentInv
  <2>3. QED
    BY <2>2 DEF IInv
<1>3. QED
  BY <1>1, <1>2

LEMMA IntDigitStep == ASSUME IInv, IntDigit PROVE IInv'
<1>0. /\ TypeInv /\ phase = "int" /\ i = digits /\ digits \in Nat /\ digits <= Limit(Int32)
      /\ Whole /\ ~useDouble /\ ~use64bit /\ exp = 0 /\ error = "NO_ERROR"
  BY DEF IntDigit, IInv, TypeInv, NumberTypeOK, DigitsInv, ExponentInv, AsInteger, Integer
<1>1. CASE ~IsDigit(Peek)
  <2>1. phase' = "point" /\ UNCHANGED <<text, pos, error, minus, expMinus, i, i64, use64bit, d,
                    useDouble, significandDigit, expFrac, exp, digits, places, skipped>>
    BY <1>1 DEF IntDigit, Go, signVars, readVars
  <2>2. TypeInv'
    BY <1>0, <2>1 DEF TypeInv, NumberTypeOK, Phases
  <2>3. AsInteger'
    BY <1>0, <2>1 DEF AsInteger, Whole, Integer, Limit
  <2>4. DigitsInv' /\ ExponentInv'
    BY <1>0, <2>1, <2>3 DEF DigitsInv, ExponentInv, Whole
  <2>5. QED
    BY <2>2, <2>4 DEF IInv
<1>2. CASE IsDigit(Peek) /\ TooLarge(i, Limit(Int32))
  <2>1. /\ phase' = "int64" /\ i64' = i /\ use64bit' = TRUE
        /\ UNCHANGED <<text, pos, error, minus, expMinus, i, d, useDouble,
                       significandDigit, expFrac, exp, digits, places, skipped>>
    BY <1>2 DEF IntDigit, Go, signVars, readVars
  <2>2. 10 * digits + Digit > Limit(Int32) /\ digits <= Limit(Int64)
    <3>1. /\ Limit(Int32) \in Nat /\ Limit(Int64) \in Nat
          /\ Limit(Int32) <= Limit(Int64) /\ Digit \in 0..9
      BY <1>0, <1>2, Facts
    <3>2. TooLarge(digits, Limit(Int32)) <=> 10 * digits + Digit > Limit(Int32)
      BY <1>0, <3>1, OneMoreDigit
    <3>3. QED
      BY <1>0, <1>2, <3>1, <3>2
  <2>3. TypeInv'
    BY <1>0, <2>1, Widths DEF TypeInv, NumberTypeOK, Phases
  <2>4. DigitsInv'
    BY <1>0, <1>2, <2>1, <2>2 DEF DigitsInv, Whole, Limit, Peek, Digit
  <2>5. ExponentInv'
    BY <1>0, <2>1 DEF ExponentInv
  <2>6. QED
    BY <2>3, <2>4, <2>5 DEF IInv
<1>3. CASE IsDigit(Peek) /\ ~TooLarge(i, Limit(Int32))
  <2>1. /\ phase' = "int" /\ pos' = pos + 1 /\ i' = (10 * i + Digit) % (2 * Int32)
        /\ significandDigit' = significandDigit + 1 /\ digits' = 10 * digits + Digit
        /\ UNCHANGED <<text, error, minus, expMinus, i64, use64bit, d, useDouble,
                       expFrac, exp, places, skipped>>
    BY <1>3 DEF IntDigit, Take, ReadDigit, signVars
  <2>2. /\ Digit \in 0..9 /\ 10 * digits + Digit <= Limit(Int32)
        /\ Limit(Int32) \in Nat /\ Limit(Int32) < 2 * Int32
        /\ pos' \in DOMAIN text /\ pos \in Nat
    <3>1. /\ Limit(Int32) \in Nat /\ Limit(Int32) < 2 * Int32 /\ Limit(Int32) \in Nat
          /\ Digit \in 0..9 /\ pos \in Nat /\ pos + 1 \in DOMAIN text
      BY <1>0, <1>3, Facts
    <3>2. TooLarge(digits, Limit(Int32)) <=> 10 * digits + Digit > Limit(Int32)
      BY <1>0, <3>1, OneMoreDigit
    <3>3. QED
      BY <1>0, <1>3, <2>1, <3>1, <3>2
  <2>3. i' = digits' /\ i' \in 0..(2 * Int32 - 1) /\ digits' \in Nat
    <3>1. /\ 10 * digits + Digit \in Nat /\ 2 * Int32 \in Nat
          /\ 10 * digits + Digit < 2 * Int32
      BY <1>0, <2>2, Widths
    <3>2. (10 * digits + Digit) % (2 * Int32) = 10 * digits + Digit
      BY <3>1, NoWrap
    <3>3. QED
      BY <1>0, <2>1, <3>1, <3>2
  <2>4. TypeInv'
    BY <1>0, <2>1, <2>2, <2>3 DEF TypeInv, NumberTypeOK, Phases
  <2>5. AsInteger'
    BY <1>0, <2>1, <2>2, <2>3 DEF AsInteger, Whole, Integer, Limit
  <2>6. DigitsInv' /\ ExponentInv'
    BY <1>0, <2>1, <2>5 DEF DigitsInv, ExponentInv
  <2>7. QED
    BY <2>4, <2>6 DEF IInv
<1>4. QED
  BY <1>1, <1>2, <1>3

LEMMA Int64DigitStep == ASSUME IInv, Int64Digit PROVE IInv'
<1>0. /\ TypeInv /\ phase = "int64" /\ i64 = digits /\ digits \in Nat /\ digits <= Limit(Int64)
      /\ digits > Limit(Int32) \/ (IsDigit(Peek) /\ 10 * digits + Digit > Limit(Int32))
      /\ Whole /\ ~useDouble /\ use64bit /\ exp = 0 /\ error = "NO_ERROR"
  BY DEF Int64Digit, IInv, TypeInv, NumberTypeOK, DigitsInv, ExponentInv
<1>1. CASE ~IsDigit(Peek)
  <2>1. phase' = "point" /\ UNCHANGED <<text, pos, error, minus, expMinus, i, i64, use64bit, d,
                    useDouble, significandDigit, expFrac, exp, digits, places, skipped>>
    BY <1>1 DEF Int64Digit, Go, signVars, readVars
  <2>2. TypeInv'
    BY <1>0, <2>1 DEF TypeInv, NumberTypeOK, Phases
  <2>3. AsInteger'
    BY <1>0, <1>1, <2>1 DEF AsInteger, Whole, Integer, Limit
  <2>4. DigitsInv' /\ ExponentInv'
    BY <1>0, <2>1, <2>3 DEF DigitsInv, ExponentInv, Whole
  <2>5. QED
    BY <2>2, <2>4 DEF IInv
<1>2. CASE IsDigit(Peek) /\ TooLarge(i64, Limit(Int64))
  <2>1. /\ phase' = "double" /\ d' = i64 /\ useDouble' = TRUE
        /\ UNCHANGED <<text, pos, error, minus, expMinus, i, i64, use64bit,
                       significandDigit, expFrac, exp, digits, places, skipped>>
    BY <1>2 DEF Int64Digit, Go, signVars, readVars
  <2>2. TypeInv'
    BY <1>0, <2>1 DEF TypeInv, NumberTypeOK, Phases
  <2>3. AsDouble' /\ Whole'
    BY <1>0, <2>1 DEF AsDouble, Whole
  <2>4. DigitsInv' /\ ExponentInv'
    BY <1>0, <2>1, <2>3 DEF DigitsInv, ExponentInv
  <2>5. QED
    BY <2>2, <2>4 DEF IInv
<1>3. CASE IsDigit(Peek) /\ ~TooLarge(i64, Limit(Int64))
  <2>1. /\ phase' = "int64" /\ pos' = pos + 1 /\ i64' = (10 * i64 + Digit) % (2 * Int64)
        /\ significandDigit' = significandDigit + 1 /\ digits' = 10 * digits + Digit
        /\ UNCHANGED <<text, error, minus, expMinus, i, use64bit, d, useDouble,
                       expFrac, exp, places, skipped>>
    BY <1>3 DEF Int64Digit, Take, ReadDigit, signVars
  <2>2. /\ Digit \in 0..9 /\ 10 * digits + Digit <= Limit(Int64)
        /\ Limit(Int64) \in Nat /\ Limit(Int64) < 2 * Int64
        /\ Limit(Int32) \in Nat /\ pos' \in DOMAIN text /\ pos \in Nat
    <3>1. /\ Limit(Int64) \in Nat /\ Limit(Int64) < 2 * Int64 /\ Limit(Int32) \in Nat
          /\ Digit \in 0..9 /\ pos \in Nat /\ pos + 1 \in DOMAIN text
      BY <1>0, <1>3, Facts
    <3>2. TooLarge(digits, Limit(Int64)) <=> 10 * digits + Digit > Limit(Int64)
      BY <1>0, <3>1, OneMoreDigit
    <3>3. QED
      BY <1>0, <1>3, <2>1, <3>1, <3>2
  <2>3. i64' = digits' /\ i64' \in 0..(2 * Int64 - 1) /\ digits' \in Nat
    <3>1. /\ 10 * digits + Digit \in Nat /\ 2 * Int64 \in Nat
          /\ 10 * digits + Digit < 2 * Int64
      BY <1>0, <2>2, Widths
    <3>2. (10 * digits + Digit) % (2 * Int64) = 10 * digits + Digit
      BY <3>1, NoWrap
    <3>3. QED
      BY <1>0, <2>1, <3>1, <3>2
  <2>4. TypeInv'
    BY <1>0, <2>1, <2>2, <2>3 DEF TypeInv, NumberTypeOK, Phases
  <2>5. DigitsInv' /\ ExponentInv'
    BY <1>0, <2>1, <2>2, <2>3 DEF DigitsInv, ExponentInv, Whole, Limit
  <2>6. QED
    BY <2>4, <2>5 DEF IInv
<1>4. QED
  BY <1>1, <1>2, <1>3

LEMMA DoubleDigitStep == ASSUME IInv, DoubleDigit PROVE IInv'
<1>0. /\ TypeInv /\ phase = "double" /\ AsDouble /\ Whole /\ exp = 0 /\ error = "NO_ERROR"
      /\ d = digits /\ digits \in Nat
  <2>1. TypeInv /\ phase = "double" /\ AsDouble /\ Whole /\ exp = 0 /\ error = "NO_ERROR"
    BY DEF DoubleDigit, IInv, DigitsInv, ExponentInv
  <2>2. QED
    BY <2>1 DEF AsDouble, Whole, TypeInv, NumberTypeOK
<1>1. CASE ~IsDigit(Peek)
  <2>1. phase' = "point" /\ UNCHANGED <<text, pos, error, minus, expMinus, i, i64, use64bit, d,
                    useDouble, significandDigit, expFrac, exp, digits, places, skipped>>
    BY <1>1 DEF DoubleDigit, Go, signVars, intVars, readVars
  <2>2. TypeInv'
    BY <1>0, <2>1 DEF TypeInv, NumberTypeOK, Phases
  <2>3. DigitsInv' /\ ExponentInv'
    BY <1>0, <2>1 DEF DigitsInv, ExponentInv, Whole, AsDouble
  <2>4. QED
    BY <2>2, <2>3 DEF IInv
<1>2. CASE IsDigit(Peek) /\ d >= MaxDouble
  <2>1. /\ phase' = "failed" /\ error' = "NUMBER_TOO_BIG"
        /\ UNCHANGED <<text, pos, minus, expMinus, i, i64, use64bit, d, useDouble,
                       significandDigit, expFrac, exp, digits, places, skipped>>
    BY <1>2 DEF DoubleDigit, Fail, signVars, intVars, readVars
  <2>2. TypeInv'
    BY <1>0, <2>1 DEF TypeInv, NumberTypeOK, Phases
  <2>3. DigitsInv' /\ ExponentInv'
    BY <1>2, <2>1 DEF DigitsInv, ExponentInv
  <2>4. QED
    BY <2>2, <2>3 DEF IInv
<1>3. CASE IsDigit(Peek) /\ ~(d >= MaxDouble)
  <2>1. /\ phase' = "double" /\ pos' = pos + 1 /\ d' = 10 * d + Digit
        /\ digits' = 10 * digits + Digit
        /\ UNCHANGED <<text, error, minus, expMinus, i, i64, use64bit, useDouble,
                       significandDigit, expFrac, exp, places, skipped>>
    BY <1>3 DEF DoubleDigit, Take, ReadDigit, signVars, intVars
  <2>2. Digit \in 0..9 /\ pos' \in DOMAIN text /\ pos \in Nat
    BY <1>0, <1>3, <2>1, Facts
  <2>3. TypeInv'
    BY <1>0, <2>1, <2>2 DEF TypeInv, NumberTypeOK, Phases
  <2>4. AsDouble' /\ Whole'
    BY <1>0, <2>1, <2>2 DEF AsDouble, Whole
  <2>5. DigitsInv' /\ ExponentInv'
    BY <1>0, <2>1, <2>4 DEF DigitsInv, ExponentInv
  <2>6. QED
    BY <2>3, <2>5 DEF IInv
<1>4. QED
  BY <1>1, <1>2, <1>3

LEMMA ParsePointStep == ASSUME IInv, ParsePoint PROVE IInv'
<1>0. TypeInv /\ phase = "point" /\ Whole /\ (AsInteger \/ AsDouble) /\ exp = 0
      /\ error = "NO_ERROR"
  BY DEF ParsePoint, IInv, DigitsInv, ExponentInv
<1>1. /\ \/ pos' = pos + 1 /\ Peek = POINT /\ phase' = "fraction"
         \/ pos' = pos /\ phase' = "e"
      /\ UNCHANGED <<text, error, minus, expMinus, i, i64, use64bit, d, useDouble,
                     significandDigit, expFrac, exp, digits, places, skipped>>
  BY DEF ParsePoint, Go, Take, signVars, intVars, doubleVars, readVars
<1>2. pos' \in DOMAIN text /\ 1 - expFrac <= pos'
  BY <1>0, <1>1, Facts DEF TypeInv, NumberTypeOK, POINT, NUL
<1>3. TypeInv'
  BY <1>0, <1>1, <1>2 DEF TypeInv, NumberTypeOK, Phases
<1>4. Whole' /\ (AsInteger' \/ AsDouble')
  BY <1>0, <1>1 DEF Whole, AsInteger, AsDouble, Integer, Limit
<1>5. DigitsInv' /\ ExponentInv'
  BY <1>0, <1>1, <1>4 DEF DigitsInv, ExponentInv
<1>6. QED
  BY <1>3, <1>5 DEF IInv

LEMMA FractionStartsStep == ASSUME IInv, FractionStarts PROVE IInv'
<1>0. TypeInv /\ phase = "fraction" /\ Whole /\ (AsInteger \/ AsDouble) /\ exp = 0
      /\ error = "NO_ERROR"
  BY DEF FractionStarts, IInv, DigitsInv, ExponentInv
<1>1. /\ \/ phase' = "failed" /\ i64' = i64 /\ error' = "NUMBER_MISS_FRACTION"
         \/ phase' = "frac" /\ useDouble /\ i64' = i64 /\ error' = error
         \/ phase' = "fast" /\ ~useDouble /\ i64' = Integer /\ error' = error
      /\ UNCHANGED <<text, pos, minus, expMinus, i, use64bit, d, useDouble,
                     significandDigit, expFrac, exp, digits, places, skipped>>
  BY DEF FractionStarts, Go, Fail, signVars, doubleVars, readVars
<1>2. i64' \in 0..(2 * Int64 - 1)
  BY <1>0, <1>1, Widths DEF TypeInv, NumberTypeOK, Integer
<1>3. TypeInv'
  BY <1>0, <1>1, <1>2 DEF TypeInv, NumberTypeOK, Phases
<1>4. DigitsInv'
  <2>1. CASE phase' = "failed"
    BY <2>1 DEF DigitsInv
  <2>2. CASE phase' = "frac"
    <3>1. AsDouble' /\ skipped' = 1
      BY <1>0, <1>1, <2>2 DEF AsDouble, AsInteger, Whole
    <3>2. QED
      BY <2>2, <3>1 DEF DigitsInv
  <2>3. CASE phase' = "fast"
    <3>1. ~useDouble' /\ i64' = digits' /\ skipped' = 1
      BY <1>0, <1>1, <2>3 DEF AsDouble, AsInteger, Whole
    <3>2. QED
      BY <2>3, <3>1 DEF DigitsInv
  <2>4. QED
    BY <1>1, <2>1, <2>2, <2>3
<1>5. ExponentInv'
  BY <1>0, <1>1 DEF ExponentInv
<1>6. QED
  BY <1>3, <1>4, <1>5 DEF IInv

LEMMA FastDigitStep == ASSUME IInv, FastDigit PROVE IInv'
<1>0. TypeInv /\ phase = "fast" /\ ~useDouble /\ i64 = digits /\ digits \in Nat /\ skipped = 1
      /\ exp = 0 /\ error = "NO_ERROR"
  BY DEF FastDigit, IInv, DigitsInv, ExponentInv, TypeInv, NumberTypeOK
<1>1. CASE IsDigit(Peek) /\ i64 <= FastPath
  <2>1. /\ phase' = "fast" /\ pos' = pos + 1 /\ i64' = (10 * i64 + Digit) % (2 * Int64)
        /\ expFrac' = expFrac - 1 /\ significandDigit' \in {significandDigit, significandDigit + 1}
        /\ digits' = 10 * digits + Digit /\ places' = places + 1 /\ skipped' = 1 * skipped
        /\ UNCHANGED <<text, error, minus, expMinus, i, use64bit, d, useDouble, exp>>
    <3>1. /\ phase' = "fast" /\ pos' = pos + 1 /\ i64' = (10 * i64 + Digit) % (2 * Int64)
          /\ expFrac' = expFrac - 1
          /\ significandDigit' = significandDigit + (IF i64' # 0 THEN 1 ELSE 0)
          /\ digits' = 10 * digits + Digit /\ places' = places + 1 /\ skipped' = 1 * skipped
          /\ UNCHANGED <<text, error, minus, expMinus, i, use64bit, d, useDouble, exp>>
      BY <1>1 DEF FastDigit, Take, ReadPlace, signVars
    <3>2. significandDigit \in Nat
      BY <1>0 DEF TypeInv, NumberTypeOK
    <3>3. QED
      BY <3>1, <3>2
  <2>2. Digit \in 0..9 /\ pos' \in DOMAIN text /\ pos \in Nat
    BY <1>0, <1>1, <2>1, Facts
  <2>3. i64' = digits' /\ i64' \in 0..(2 * Int64 - 1) /\ digits' \in Nat
    <3>1. /\ 10 * digits + Digit \in Nat /\ 2 * Int64 \in Nat
          /\ 10 * digits + Digit < 2 * Int64
      BY <1>0, <1>1, <2>2, Widths
    <3>2. (10 * digits + Digit) % (2 * Int64) = 10 * digits + Digit
      BY <3>1, NoWrap
    <3>3. QED
      BY <1>0, <2>1, <3>1, <3>2
  <2>4. TypeInv'
    BY <1>0, <2>1, <2>2, <2>3 DEF TypeInv, NumberTypeOK, Phases
  <2>5. DigitsInv' /\ ExponentInv'
    BY <1>0, <2>1, <2>3 DEF DigitsInv, ExponentInv
  <2>6. QED
    BY <2>4, <2>5 DEF IInv
<1>2. CASE ~(IsDigit(Peek) /\ i64 <= FastPath)
  <2>1. /\ phase' = "frac" /\ d' = i64 /\ useDouble' = TRUE
        /\ UNCHANGED <<text, pos, error, minus, expMinus, i, i64, use64bit,
                       significandDigit, expFrac, exp, digits, places, skipped>>
    BY <1>2 DEF FastDigit, Go, signVars, readVars
  <2>2. TypeInv'
    BY <1>0, <2>1 DEF TypeInv, NumberTypeOK, Phases
  <2>3. AsDouble' /\ skipped' = 1
    BY <1>0, <2>1 DEF AsDouble
  <2>4. DigitsInv' /\ ExponentInv'
    BY <1>0, <2>1, <2>3 DEF DigitsInv, ExponentInv
  <2>5. QED
    BY <2>2, <2>4 DEF IInv
<1>3. QED
  BY <1>1, <1>2

\* The digits of a double stay the first ones of the number.
LEMMA TakenDigit ==
  ASSUME NEW n \in Nat, NEW m \in Nat, NEW digit \in 0..9,
         n * 1 <= m, m < (n + 1) * 1
  PROVE  (10 * n + digit) * 1 <= 10 * m + digit /\ 10 * m + digit < (10 * n + digit + 1) * 1
OBVIOUS

LEMMA SkippedDigit ==
  ASSUME NEW n \in Nat, NEW m \in Nat, NEW k \in Nat, NEW digit \in 0..9,
         n * k <= m, m < (n + 1) * k
  PROVE  n * (10 * k) <= 10 * m + digit /\ 10 * m + digit < (n + 1) * (10 * k)
<1> DEFINE low == n * k
           high == (n + 1) * k
<1>1. low \in Nat /\ high \in Nat
  BY Z3
<1>2. n * (10 * k) = 10 * low /\ (n + 1) * (10 * k) = 10 * high
  BY Z3
<1>3. low <= m /\ m < high
  OBVIOUS
<1> HIDE DEF low, high
<1>4. 10 * low <= 10 * m + digit /\ 10 * m + digit < 10 * high
  BY <1>1, <1>3
<1>5. QED
  BY <1>2, <1>4

LEMMA FractionDigitStep == ASSUME IInv, FractionDigit PROVE IInv'
<1>0. /\ TypeInv /\ phase = "frac" /\ exp = 0 /\ error = "NO_ERROR"
      /\ useDouble /\ d * skipped <= digits /\ digits < (d + 1) * skipped
      /\ significandDigit < Precision => skipped = 1
      /\ d \in Nat /\ digits \in Nat /\ skipped \in Nat \ {0} /\ significandDigit \in Nat
      /\ expFrac \in Int /\ places \in Nat
  BY DEF FractionDigit, IInv, DigitsInv, ExponentInv, AsDouble, TypeInv, NumberTypeOK
<1>1. CASE ~IsDigit(Peek)
  <2>1. phase' = "e" /\ UNCHANGED <<text, pos, error, minus, expMinus, i, i64, use64bit, d,
                    useDouble, significandDigit, expFrac, exp, digits, places, skipped>>
    BY <1>1 DEF FractionDigit, Go, signVars, intVars, readVars
  <2>2. TypeInv'
    BY <1>0, <2>1 DEF TypeInv, NumberTypeOK, Phases
  <2>3. AsDouble'
    BY <1>0, <2>1 DEF AsDouble
  <2>4. DigitsInv' /\ ExponentInv'
    BY <1>0, <2>1, <2>3 DEF DigitsInv, ExponentInv
  <2>5. QED
    BY <2>2, <2>4 DEF IInv
<1>2. CASE IsDigit(Peek) /\ significandDigit < Precision
  <2>1. /\ phase' = "frac" /\ pos' = pos + 1 /\ d' = 10 * d + Digit
        /\ expFrac' = expFrac - 1
        /\ significandDigit' = significandDigit + (IF d' > 0 THEN 1 ELSE 0)
        /\ digits' = 10 * digits + Digit /\ places' = places + 1 /\ skipped' = 1 * skipped
        /\ UNCHANGED <<text, error, minus, expMinus, i, i64, use64bit, useDouble, exp>>
    BY <1>2 DEF FractionDigit, Take, ReadPlace, signVars, intVars
  <2>2. Digit \in 0..9 /\ pos' \in DOMAIN text /\ pos \in Nat /\ 1 - expFrac <= pos
    BY <1>0, <1>2, <2>1, Facts DEF TypeInv
  <2>3. skipped = 1 /\ skipped' = 1 /\ significandDigit' \in Nat /\ d' \in Nat /\ digits' \in Nat
    BY <1>0, <1>2, <2>1, <2>2
  <2>4. TypeInv'
    BY <1>0, <2>1, <2>2, <2>3 DEF TypeInv, NumberTypeOK, Phases
  <2>5. AsDouble'
    BY <1>0, <2>1, <2>2, <2>3, TakenDigit DEF AsDouble
  <2>6. DigitsInv' /\ ExponentInv'
    BY <1>0, <2>1, <2>3, <2>5 DEF DigitsInv, ExponentInv
  <2>7. QED
    BY <2>4, <2>6 DEF IInv
<1>3. CASE IsDigit(Peek) /\ ~(significandDigit < Precision)
  <2>1. /\ phase' = "frac" /\ pos' = pos + 1
        /\ digits' = 10 * digits + Digit /\ places' = places + 1 /\ skipped' = 10 * skipped
        /\ UNCHANGED <<text, error, minus, expMinus, i, i64, use64bit, d, useDouble,
                       significandDigit, expFrac, exp>>
    BY <1>3 DEF FractionDigit, Take, ReadPlace, signVars, intVars
  <2>2. Digit \in 0..9 /\ pos' \in DOMAIN text /\ pos \in Nat /\ 1 - expFrac <= pos
    BY <1>0, <1>3, <2>1, Facts DEF TypeInv
  <2>3. digits' \in Nat /\ skipped' \in Nat \ {0}
    BY <1>0, <2>1, <2>2
  <2>4. TypeInv'
    BY <1>0, <2>1, <2>2, <2>3 DEF TypeInv, NumberTypeOK, Phases
  <2>5. AsDouble'
    BY <1>0, <2>1, <2>2, SkippedDigit DEF AsDouble
  <2>6. DigitsInv' /\ ExponentInv'
    BY <1>0, <1>3, <2>1, <2>5 DEF DigitsInv, ExponentInv
  <2>7. QED
    BY <2>4, <2>6 DEF IInv
<1>4. QED
  BY <1>1, <1>2, <1>3

LEMMA ParseEStep == ASSUME IInv, ParseE PROVE IInv'
<1>0. TypeInv /\ phase = "e" /\ (AsInteger \/ AsDouble) /\ exp = 0 /\ error = "NO_ERROR"
  BY DEF ParseE, IInv, DigitsInv, ExponentInv
<1>1. CASE IsE(Peek)
  <2>1. /\ phase' = "expSign" /\ pos' = pos + 1 /\ useDouble' = TRUE
        /\ d' = (IF useDouble THEN d ELSE Integer)
        /\ UNCHANGED <<text, error, minus, expMinus, i, i64, use64bit,
                       significandDigit, expFrac, exp, digits, places, skipped>>
    BY <1>1 DEF ParseE, Take, signVars, intVars, readVars
  <2>2. pos' \in DOMAIN text /\ 1 - expFrac <= pos' /\ d' \in Nat
    <3>1. pos \in Nat /\ expFrac \in Int /\ 1 - expFrac <= pos
      BY <1>0, Facts DEF TypeInv, NumberTypeOK
    <3>2. Peek # NUL
      BY <1>1 DEF IsE, NUL
    <3>3. pos + 1 \in DOMAIN text
      BY <1>0, <3>2, Facts
    <3>4. i \in Nat /\ i64 \in Nat /\ d \in Nat
      BY <1>0, Widths DEF TypeInv, NumberTypeOK
    <3>5. QED
      BY <2>1, <3>1, <3>3, <3>4 DEF Integer
  <2>3. TypeInv'
    BY <1>0, <2>1, <2>2 DEF TypeInv, NumberTypeOK, Phases
  <2>4. AsDouble'
    <3>1. CASE AsDouble
      BY <2>1, <3>1 DEF AsDouble
    <3>2. CASE AsInteger
      <4>1. d' = digits /\ skipped' = 1 /\ digits' = digits /\ useDouble' /\ digits \in Nat
        BY <1>0, <2>1, <3>2 DEF AsInteger, Whole, TypeInv, NumberTypeOK
      <4>2. QED
        BY <4>1 DEF AsDouble
    <3>3. QED
      BY <1>0, <3>1, <3>2
  <2>5. DigitsInv' /\ ExponentInv'
    BY <1>0, <2>1, <2>4 DEF DigitsInv, ExponentInv
  <2>6. QED
    BY <2>3, <2>5 DEF IInv
<1>2. CASE ~IsE(Peek)
  <2>1. phase' = "done" /\ UNCHANGED <<text, pos, error, minus, expMinus, i, i64, use64bit, d,
                    useDouble, significandDigit, expFrac, exp, digits, places, skipped>>
    BY <1>2 DEF ParseE, Go, signVars, intVars, readVars
  <2>2. TypeInv'
    BY <1>0, <2>1 DEF TypeInv, NumberTypeOK, Phases
  <2>3. AsInteger' \/ AsDouble'
    BY <1>0, <2>1 DEF AsInteger, AsDouble, Whole, Integer, Limit
  <2>4. exp' <= MaxExp'
    BY <1>0, <2>1, Widths DEF MaxExp, TypeInv, NumberTypeOK
  <2>5. DigitsInv' /\ ExponentInv'
    BY <1>0, <2>1, <2>3, <2>4 DEF DigitsInv, ExponentInv
  <2>6. QED
    BY <2>2, <2>5 DEF IInv
<1>3. QED
  BY <1>1, <1>2

LEMMA ExponentSignStep == ASSUME IInv, ExponentSign PROVE IInv'
<1>0. TypeInv /\ phase = "expSign" /\ AsDouble /\ exp = 0 /\ error = "NO_ERROR"
  BY DEF ExponentSign, IInv, DigitsInv, ExponentInv
<1>1. expMinus' \in BOOLEAN
  BY DEF ExponentSign
<1>2. /\ phase' = "expFirst"
      /\ pos' = pos \/ (pos' = pos + 1 /\ Peek \in {PLUS, MINUS})
      /\ UNCHANGED <<text, error, minus, i, i64, use64bit, d, useDouble,
                     significandDigit, expFrac, exp, digits, places, skipped>>
  BY DEF ExponentSign, Go, Take, intVars, doubleVars, readVars
<1>3. pos' \in DOMAIN text /\ 1 - expFrac <= pos'
  <2>1. pos \in Nat /\ pos \in DOMAIN text /\ expFrac \in Int /\ 1 - expFrac <= pos
    BY <1>0, Facts DEF TypeInv, NumberTypeOK
  <2>2. Peek # NUL => pos + 1 \in DOMAIN text
    BY <1>0, Facts
  <2>3. QED
    BY <1>2, <2>1, <2>2 DEF PLUS, MINUS, NUL
<1>4. TypeInv'
  BY <1>0, <1>1, <1>2, <1>3 DEF TypeInv, NumberTypeOK, Phases
<1>5. AsDouble'
  BY <1>0, <1>2 DEF AsDouble
<1>6. DigitsInv' /\ ExponentInv'
  BY <1>0, <1>2, <1>5 DEF DigitsInv, ExponentInv
<1>7. QED
  BY <1>4, <1>6 DEF IInv

LEMMA ExponentStartsStep == ASSUME IInv, ExponentStarts PROVE IInv'
<1>0. TypeInv /\ phase = "expFirst" /\ AsDouble /\ exp = 0 /\ error = "NO_ERROR"
  BY DEF ExponentStarts, IInv, DigitsInv, ExponentInv
<1>1. CASE IsDigit(Peek)
  <2>1. /\ phase' = "exp" /\ pos' = pos + 1 /\ exp' = Digit
        /\ UNCHANGED <<text, error, minus, expMinus, i, i64, use64bit, d, useDouble,
                       significandDigit, expFrac, digits, places, skipped>>
    BY <1>1 DEF ExponentStarts, Take, signVars, intVars, doubleVars, readVars
  <2>2. Digit \in 0..9 /\ pos' \in DOMAIN text /\ pos \in Nat
    BY <1>0, <1>1, <2>1, Facts
  <2>3. exp' \in -Int32..(Int32 - 1) /\ 1 - expFrac <= pos'
    BY <1>0, <2>1, <2>2, Widths DEF TypeInv, NumberTypeOK
  <2>4. TypeInv'
    BY <1>0, <2>1, <2>2, <2>3 DEF TypeInv, NumberTypeOK, Phases
  <2>5. AsDouble'
    BY <1>0, <2>1 DEF AsDouble
  <2>6. exp' >= 0 /\ exp' < ExponentLimit
    BY <2>1, <2>2, Widths
  <2>7. exp' <= MaxExp'
    <3>1. expFrac \in Int /\ expFrac <= 0 /\ expFrac' = expFrac
      BY <1>0, <2>1 DEF TypeInv, NumberTypeOK
    <3>2. exp' \in 0..9 /\ MaxExponent \in Nat /\ MaxExponent > 8
      BY <2>1, <2>2, Widths
    <3>3. QED
      BY <3>1, <3>2 DEF MaxExp
  <2>8. DigitsInv' /\ ExponentInv'
    BY <1>0, <2>1, <2>5, <2>6, <2>7 DEF DigitsInv, ExponentInv
  <2>9. QED
    BY <2>4, <2>8 DEF IInv
<1>2. CASE ~IsDigit(Peek)
  <2>1. /\ phase' = "failed" /\ error' = "NUMBER_MISS_EXPONENT"
        /\ UNCHANGED <<text, pos, minus, expMinus, i, i64, use64bit, d, useDouble,
                       significandDigit, expFrac, exp, digits, places, skipped>>
    BY <1>2 DEF ExponentStarts, Fail, signVars, intVars, doubleVars, readVars
  <2>2. TypeInv' /\ DigitsInv' /\ ExponentInv'
    BY <1>0, <2>1 DEF TypeInv, NumberTypeOK, Phases, DigitsInv, ExponentInv
  <2>3. QED
    BY <2>2 DEF IInv
<1>3. QED
  BY <1>1, <1>2

LEMMA ExponentDigitStep == ASSUME IInv, ExponentDigit PROVE IInv'
<1>0. /\ TypeInv /\ phase = "exp" /\ AsDouble /\ exp >= 0 /\ error = "NO_ERROR"
      /\ IF expMinus THEN exp < ExponentLimit \/ ~IsDigit(Peek) ELSE exp <= MaxExp
  BY DEF ExponentDigit, IInv, DigitsInv, ExponentInv
<1>1. /\ exp \in -Int32..(Int32 - 1) /\ exp \in Nat /\ expFrac \in Int /\ expFrac <= 0
      /\ 1 - expFrac <= pos /\ pos \in Nat /\ expMinus \in BOOLEAN
  BY <1>0, Facts, Widths DEF TypeInv, NumberTypeOK
<1>2. CASE ~IsDigit(Peek)
  <2>1. /\ phase' = "done" /\ exp' = (IF expMinus THEN -exp ELSE exp)
        /\ UNCHANGED <<text, pos, error, minus, expMinus, i, i64, use64bit, d, useDouble,
                       significandDigit, expFrac, digits, places, skipped>>
    BY <1>2 DEF ExponentDigit, Go, signVars, intVars, doubleVars, readVars
  <2>2. exp' \in -Int32..(Int32 - 1)
    BY <1>1, <2>1, Widths
  <2>3. TypeInv'
    BY <1>0, <2>1, <2>2 DEF TypeInv, NumberTypeOK, Phases
  <2>4. AsDouble'
    BY <1>0, <2>1 DEF AsDouble
  <2>5. exp' <= MaxExp'
    <3>1. expMinus => exp' <= MaxExponent - expFrac
      BY <1>1, <2>1, Widths
    <3>2. ~expMinus => exp' <= MaxExponent - expFrac
      BY <1>0, <2>1 DEF MaxExp
    <3>3. QED
      BY <2>1, <3>1, <3>2 DEF MaxExp
  <2>6. DigitsInv' /\ ExponentInv'
    BY <1>0, <2>1, <2>4, <2>5 DEF DigitsInv, ExponentInv
  <2>7. QED
    BY <2>3, <2>6 DEF IInv
<1>3. CASE IsDigit(Peek)
  <2>1. /\ exp' = 10 * exp + Digit /\ pos' = pos + 1
        /\ \/ /\ expMinus /\ error' = error
              /\ phase' = (IF exp' >= ExponentLimit THEN "expRest" ELSE "exp")
           \/ ~expMinus /\ exp' > MaxExp /\ error' = "NUMBER_TOO_BIG" /\ phase' = "failed"
           \/ ~expMinus /\ ~(exp' > MaxExp) /\ error' = error /\ phase' = "exp"
        /\ UNCHANGED <<text, minus, expMinus, i, i64, use64bit, d, useDouble,
                       significandDigit, expFrac, digits, places, skipped>>
    BY <1>3 DEF ExponentDigit, Take, signVars, intVars, doubleVars, readVars
  <2>2. Digit \in 0..9 /\ pos' \in DOMAIN text
    BY <1>0, <1>3, <2>1, Facts
  <2>3. exp' \in Nat /\ exp' < Int32
    <3>1. CASE expMinus
      BY <1>0, <1>1, <1>3, <2>1, <2>2, <3>1, Widths
    <3>2. CASE ~expMinus
      <4>1. exp <= MaxExponent + Len(text) /\ Len(text) \in Nat
        BY <1>0, <1>1, <3>2, Facts, Widths DEF MaxExp
      <4>2. 10 * (MaxExponent + Len(text)) + 9 < Int32
        BY <1>0, Facts
      <4>3. QED
        BY <1>1, <2>1, <2>2, <4>1, <4>2, Widths
    <3>3. QED
      BY <3>1, <3>2
  <2>4. exp' \in -Int32..(Int32 - 1) /\ 1 - expFrac <= pos'
    BY <1>1, <2>1, <2>3, Widths
  <2>5. TypeInv'
    BY <1>0, <2>1, <2>2, <2>4 DEF TypeInv, NumberTypeOK, Phases
  <2>6. AsDouble'
    BY <1>0, <2>1 DEF AsDouble
  <2>7. DigitsInv'
    BY <2>1, <2>6 DEF DigitsInv
  <2>8. ExponentInv'
    <3>1. CASE expMinus
      BY <1>0, <2>1, <2>3, <3>1, Widths DEF ExponentInv
    <3>2. CASE ~expMinus /\ exp' > MaxExp
      <4>1. phase' = "failed" /\ error' = "NUMBER_TOO_BIG"
        BY <2>1, <3>2
      <4>2. ParsedExponent' > MaxExponent
        BY <1>1, <2>1, <2>3, <3>2, Widths DEF ParsedExponent, MaxExp
      <4>3. QED
        BY <4>1, <4>2 DEF ExponentInv
    <3>3. CASE ~expMinus /\ ~(exp' > MaxExp)
      <4>1. phase' = "exp" /\ error' = "NO_ERROR" /\ expMinus' = expMinus
        BY <1>0, <2>1, <3>3
      <4>2. exp' >= 0 /\ exp' <= MaxExp'
        BY <1>1, <2>1, <2>3, <3>3, Widths DEF MaxExp
      <4>3. QED
        BY <3>3, <4>1, <4>2 DEF ExponentInv
    <3>4. QED
      BY <3>1, <3>2, <3>3
  <2>9. QED
    BY <2>5, <2>7, <2>8 DEF IInv
<1>4. QED
  BY <1>2, <1>3

LEMMA ExponentRestStep == ASSUME IInv, ExponentRest PROVE IInv'
<1>0. TypeInv /\ phase = "expRest" /\ AsDouble /\ expMinus /\ exp >= ExponentLimit
      /\ error = "NO_ERROR"
  BY DEF ExponentRest, IInv, DigitsInv, ExponentInv
<1>1. /\ \/ IsDigit(Peek) /\ pos' = pos + 1 /\ phase' = "expRest"
         \/ ~IsDigit(Peek) /\ pos' = pos /\ phase' = "exp"
      /\ UNCHANGED <<text, error, minus, expMinus, i, i64, use64bit, d, useDouble,
                     significandDigit, expFrac, exp, digits, places, skipped>>
  BY DEF ExponentRest, Go, Take, signVars, intVars, doubleVars, readVars
<1>2. pos' \in DOMAIN text /\ 1 - expFrac <= pos'
  <2>1. pos \in Nat /\ pos \in DOMAIN text /\ expFrac \in Int /\ 1 - expFrac <= pos
    BY <1>0, Facts DEF TypeInv, NumberTypeOK
  <2>2. IsDigit(Peek) => pos + 1 \in DOMAIN text
    BY <1>0, Facts
  <2>3. QED
    BY <1>1, <2>1, <2>2
<1>3. TypeInv'
  BY <1>0, <1>1, <1>2 DEF TypeInv, NumberTypeOK, Phases
<1>4. AsDouble'
  BY <1>0, <1>1 DEF AsDouble
<1>5. DigitsInv'
  BY <1>1, <1>4 DEF DigitsInv
<1>6. ExponentInv'
  <2>1. CASE phase' = "expRest"
    BY <1>0, <1>1, <2>1 DEF ExponentInv
  <2>2. CASE phase' = "exp"
    <3>1. ~IsDigit(Peek)' /\ exp' >= 0
      BY <1>0, <1>1, <2>2, Widths DEF Peek, IsDigit, TypeInv, NumberTypeOK
    <3>2. QED
      BY <1>0, <1>1, <2>2, <3>1 DEF ExponentInv
  <2>3. QED
    BY <1>1, <2>1, <2>2
<1>7. QED
  BY <1>3, <1>5, <1>6 DEF IInv

-----------------------------------------------------------------------------
LEMMA NextInv == ASSUME IInv, [NumberNext]_vars PROVE IInv'
<1>1. CASE NumberNext
  BY <1>1, ParseMinusStep, FirstDigitStep, IntDigitStep, Int64DigitStep, DoubleDigitStep,
     ParsePointStep, FractionStartsStep, FastDigitStep, FractionDigitStep, ParseEStep,
     ExponentSignStep, ExponentStartsStep, ExponentDigitStep, ExponentRestStep
     DEF NumberNext
<1>2. CASE UNCHANGED vars
  <2>1. UNCHANGED <<text, pos, error, phase, minus, i, i64, use64bit, d, useDouble,
                    significandDigit, expFrac, exp, expMinus, digits, places, skipped>>
    BY <1>2 DEF vars, numberVars
  <2>2. TypeInv'
    BY <2>1 DEF IInv, TypeInv, NumberTypeOK
  <2>3. AsInteger' = AsInteger /\ AsDouble' = AsDouble /\ Whole' = Whole
    BY <2>1 DEF AsInteger, AsDouble, Whole, Integer, Limit
  <2>4. Peek' = Peek /\ Limit(Int32)' = Limit(Int32) /\ Limit(Int64)' = Limit(Int64)
    BY <2>1 DEF Peek, Limit
  <2>5. DigitsInv'
    BY <2>1, <2>3, <2>4 DEF IInv, DigitsInv, Digit, IsDigit
  <2>6. ExponentInv'
    BY <2>1, <2>4 DEF IInv, ExponentInv, MaxExp, ParsedExponent, IsDigit
  <2>7. QED
    BY <2>2, <2>5, <2>6 DEF IInv
<1>3. QED
  BY <1>1, <1>2

LEMMA SpecIInv == NumberSpec => []IInv
<1>1. IInv /\ [NumberNext]_vars => IInv'
  BY NextInv
<1>2. QED
  BY InitInv, <1>1, PTL DEF NumberSpec

-----------------------------------------------------------------------------
\* The types: no digit takes an int, a uint64_t or an exponent past its width,
\* and the stream never passes the NUL that ends the text.
THEOREM SpecNumberTypeOK == NumberSpec => []NumberTypeOK
<1>1. IInv => NumberTypeOK
  BY DEF IInv, TypeInv
<1>2. QED
  BY SpecIInv, <1>1, PTL

\* What is read at the end: an integer that fits is exact, and takes the wider
\* type only when the narrower is not enough; a double has the first digits.
LEMMA DoneExact == IInv => NumberExact
<1> SUFFICES ASSUME IInv, phase = "done"
             PROVE  IF useDouble
                    THEN d * skipped <= digits /\ digits < (d + 1) * skipped
                    ELSE /\ places = 0
                         /\ ParsedInteger = (IF minus THEN -digits ELSE digits)
                         /\ use64bit => digits > Limit(Int32)
  BY DEF NumberExact
<1>1. AsInteger \/ AsDouble
  BY DEF IInv, DigitsInv
<1>2. CASE useDouble
  BY <1>1, <1>2 DEF AsInteger, AsDouble
<1>3. CASE ~useDouble
  <2>1. AsInteger
    BY <1>1, <1>3 DEF AsDouble
  <2>2. minus => ParsedInteger = -digits
    <3> SUFFICES ASSUME minus PROVE ParsedInteger = -digits
      OBVIOUS
    <3> DEFINE width == IF use64bit THEN Int64 ELSE Int32
    <3>1. Integer = digits /\ digits \in Nat /\ digits <= width
      BY <2>1 DEF AsInteger, Limit, IInv, TypeInv, NumberTypeOK
    <3>2. width \in Nat \ {0}
      BY Widths
    <3> HIDE DEF width
    <3>3. Negated(digits, width) = -digits
      BY <3>1, <3>2, NegatedExact
    <3>4. QED
      BY <3>1, <3>3 DEF ParsedInteger, width
  <2>3. ~minus => ParsedInteger = digits
    BY <2>1 DEF ParsedInteger, AsInteger
  <2>4. minus \in BOOLEAN
    BY DEF IInv, TypeInv, NumberTypeOK
  <2>5. QED
    BY <1>3, <2>1, <2>2, <2>3, <2>4 DEF AsInteger, Whole
<1>4. QED
  BY <1>2, <1>3

\* ParseNumber never loses a digit of an integer that fits, at the step from int
\* to uint64_t or in the sign it puts on at the end, and never makes the digits
\* of a double anything but the first ones of the number.
THEOREM SpecNumberExact == NumberSpec => []NumberExact
BY SpecIInv, DoneExact, PTL

\* The exponent of every number that is read is one that Pow10 has in its table,
\* and the only numbers refused as too big are those of which this is not so.
THEOREM SpecExponentInTable == NumberSpec => []ExponentInTable
<1>1. IInv => ExponentInTable
  <2> SUFFICES ASSUME IInv PROVE ExponentInTable
    OBVIOUS
  <2>1. phase = "done" => exp <= MaxExponent - expFrac
    BY DEF IInv, ExponentInv, MaxExp
  <2>2. exp \in Int /\ expFrac \in Int /\ MaxExponent \in Nat
    BY Widths DEF IInv, TypeInv, NumberTypeOK
  <2>3. phase = "done" => ParsedExponent <= MaxExponent
    BY <2>1, <2>2 DEF ParsedExponent
  <2>4. error = "NUMBER_TOO_BIG" => d >= MaxDouble \/ ParsedExponent > MaxExponent
    BY DEF IInv, ExponentInv
  <2>5. QED
    BY <2>3, <2>4 DEF ExponentInTable
<1>2. QED
  BY SpecIInv, <1>1, PTL

-----------------------------------------------------------------------------
(***************************************************************************)
(* Powers of ten.                                                          *)
(***************************************************************************)
PowerStep(f, n) == IF n = 0 THEN 1 ELSE 10 * f[n - 1]
IsPower(f, k) == f = [n \in 0..k |-> PowerStep(f, n)]

LEMMA PowerExists == ASSUME NEW k \in Nat PROVE \E f : IsPower(f, k)
<1> DEFINE Bad == {j \in Nat : ~\E f : IsPower(f, j)}
<1>1. SUFFICES ASSUME Bad # {} PROVE FALSE
  OBVIOUS
<1>2. PICK j \in Bad : \A x \in Bad : j <= x
  <2>1. Bad \in SUBSET Nat
    OBVIOUS
  <2> HIDE DEF Bad
  <2>2. QED
    BY <1>1, <2>1, LeastNat
<1>3. CASE j = 0
  <2> DEFINE g == [n \in 0..0 |-> 1]
  <2>1. IsPower(g, 0)
    BY DEF IsPower, PowerStep
  <2>2. QED
    BY <1>2, <1>3, <2>1
<1>4. CASE j # 0
  <2>1. j - 1 \in Nat /\ j - 1 \notin Bad
    BY <1>2, <1>4
  <2>2. PICK f : IsPower(f, j - 1)
    BY <2>1
  <2> DEFINE g == [n \in 0..j |-> IF n = j THEN PowerStep(f, j) ELSE f[n]]
  <2>3. \A n \in 0..(j - 1) : g[n] = f[n]
    BY <2>1
  <2>4. g[j] = PowerStep(f, j) /\ g = [n \in 0..j |-> g[n]]
    BY <2>1
  <2> HIDE DEF g
  <2>5. \A n \in 0..(j - 1) : f[n] = PowerStep(f, n)
    BY <2>2 DEF IsPower
  <2>6. ASSUME NEW n \in 0..j PROVE g[n] = PowerStep(g, n)
    <3>1. n # 0 => g[n - 1] = f[n - 1]
      BY <2>1, <2>3
    <3>2. PowerStep(g, n) = PowerStep(f, n)
      BY <3>1 DEF PowerStep
    <3>3. QED
      BY <2>3, <2>4, <2>5, <3>2
  <2>7. IsPower(g, j)
    BY <2>4, <2>6 DEF IsPower
  <2>8. QED
    BY <1>2, <2>7
<1>5. QED
  BY <1>3, <1>4

\* The functions agree where both are defined: there is no least place where not.
LEMMA PowersAgree ==
  ASSUME NEW f, NEW g, NEW n \in Nat, IsPower(f, n), IsPower(g, n + 1)
  PROVE  f[n] = g[n]
<1> DEFINE Bad == {j \in 0..n : f[j] # g[j]}
<1>1. SUFFICES ASSUME Bad # {} PROVE FALSE
  OBVIOUS
<1>2. PICK j \in Bad : \A x \in Bad : j <= x
  <2>1. Bad \in SUBSET Nat
    OBVIOUS
  <2> HIDE DEF Bad
  <2>2. QED
    BY <1>1, <2>1, LeastNat
<1>3. f[j] = PowerStep(f, j) /\ g[j] = PowerStep(g, j)
  BY <1>2 DEF IsPower
<1>4. j # 0 => f[j - 1] = g[j - 1]
  <2>1. j # 0 => j - 1 \in 0..n /\ j - 1 \notin Bad
    BY <1>2
  <2>2. QED
    BY <2>1
<1>5. QED
  BY <1>2, <1>3, <1>4 DEF PowerStep

LEMMA PowerIs ==
  /\ PowerOfTen(0) = 1
  /\ \A n \in Nat : PowerOfTen(n + 1) = 10 * PowerOfTen(n)
<1> DEFINE f(n) == CHOOSE power : IsPower(power, n)
<1>1. ASSUME NEW n \in Nat PROVE IsPower(f(n), n)
  BY PowerExists, Zenon
<1>2. ASSUME NEW n PROVE PowerOfTen(n) = f(n)[n]
  BY DEF PowerOfTen, IsPower, PowerStep
<1> HIDE DEF f
<1>3. PowerOfTen(0) = 1
  <2>1. IsPower(f(0), 0)
    BY <1>1
  <2>2. f(0)[0] = 1
    BY <2>1 DEF IsPower, PowerStep
  <2>3. QED
    BY <1>2, <2>2
<1>4. ASSUME NEW n \in Nat PROVE PowerOfTen(n + 1) = 10 * PowerOfTen(n)
  <2>1. IsPower(f(n), n) /\ IsPower(f(n + 1), n + 1)
    BY <1>1
  <2>2. f(n)[n] = f(n + 1)[n]
    BY <2>1, PowersAgree
  <2>3. f(n + 1)[n + 1] = 10 * f(n + 1)[n]
    BY <2>1 DEF IsPower, PowerStep
  <2>4. QED
    BY <1>2, <2>2, <2>3
<1>5. QED
  BY <1>3, <1>4

LEMMA PowerNat == \A n \in Nat : PowerOfTen(n) \in Nat \ {0}
<1> DEFINE Bad == {j \in Nat : PowerOfTen(j) \notin Nat \ {0}}
<1>1. SUFFICES ASSUME Bad # {} PROVE FALSE
  OBVIOUS
<1>2. PICK j \in Bad : \A x \in Bad : j <= x
  <2>1. Bad \in SUBSET Nat
    OBVIOUS
  <2> HIDE DEF Bad
  <2>2. QED
    BY <1>1, <2>1, LeastNat
<1>3. j # 0
  BY <1>2, PowerIs
<1>4. j - 1 \in Nat /\ j - 1 \notin Bad /\ (j - 1) + 1 = j
  BY <1>2, <1>3
<1>5. PowerOfTen(j) = 10 * PowerOfTen(j - 1)
  BY <1>4, PowerIs
<1>6. QED
  BY <1>2, <1>4, <1>5

LEMMA PowerGrows ==
  ASSUME NEW n \in Nat, NEW m \in Nat, n <= m
  PROVE  PowerOfTen(n) <= PowerOfTen(m)
<1> DEFINE Bad == {j \in Nat : n <= j /\ ~(PowerOfTen(n) <= PowerOfTen(j))}
<1>1. SUFFICES ASSUME Bad # {} PROVE FALSE
  OBVIOUS
<1>2. PICK j \in Bad : \A x \in Bad : j <= x
  <2>1. Bad \in SUBSET Nat
    OBVIOUS
  <2> HIDE DEF Bad
  <2>2. QED
    BY <1>1, <2>1, LeastNat
<1>3. j # n
  BY <1>2, PowerNat
<1>4. j - 1 \in Nat /\ n <= j - 1 /\ j - 1 \notin Bad /\ (j - 1) + 1 = j
  BY <1>2, <1>3
<1>5. PowerOfTen(j) = 10 * PowerOfTen(j - 1)
  BY <1>4, PowerIs
<1>6. QED
  BY <1>2, <1>4, <1>5, PowerNat

-----------------------------------------------------------------------------
(***************************************************************************)
(* How many digits are taken.                                              *)
(***************************************************************************)

\* n has so many digits, and one more if it is not 0.
Filled(n, count) == (n = 0 /\ count = 0) \/ 10 * n >= PowerOfTen(count)

\* What is being filled, phase by phase; a digit is left out once that is full.
PlacesInv ==
  /\ places + expFrac \in Nat
  /\ skipped = PowerOfTen(places + expFrac)
  /\ phase \in {"minus", "first"} => significandDigit = 0
  /\ phase = "int" => i > 0 /\ Filled(i, significandDigit)
  /\ phase = "int64" => i64 > 0 /\ Filled(i64, significandDigit)
  /\ phase \in {"double", "frac"} => Filled(d, significandDigit)
  /\ phase \in {"point", "fraction"} =>
       Filled(IF useDouble THEN d ELSE Integer, significandDigit)
  /\ phase = "fast" => Filled(i64, significandDigit)
  /\ skipped > 1 => significandDigit >= Precision /\ Filled(d, significandDigit)

LEMMA FilledByDigit ==
  ASSUME NEW n \in Nat, NEW count \in Nat, NEW digit \in 0..9, Filled(n, count)
  PROVE  /\ Filled(10 * n + digit, count)
         /\ 10 * n + digit > 0 => Filled(10 * n + digit, count + 1)
         /\ 10 * n + digit = 0 => count = 0
<1>1. /\ PowerOfTen(0) = 1
      /\ PowerOfTen(count + 1) = 10 * PowerOfTen(count)
      /\ PowerOfTen(count) \in Nat \ {0}
  BY PowerIs, PowerNat
<1>2. CASE n = 0 /\ count = 0
  <2>1. PowerOfTen(count) = 1 /\ PowerOfTen(count + 1) = 10
    BY <1>1, <1>2
  <2>2. QED
    BY <1>2, <2>1 DEF Filled
<1>3. CASE 10 * n >= PowerOfTen(count)
  BY <1>1, <1>3 DEF Filled
<1>4. QED
  BY <1>2, <1>3 DEF Filled

\* A digit that is not the first zero counts.
FilledAfter(n, count) == Filled(n, count + (IF n > 0 THEN 1 ELSE 0))

LEMMA FilledByPlace ==
  ASSUME NEW n \in Nat, NEW count \in Nat, NEW digit \in 0..9, Filled(n, count)
  PROVE  FilledAfter(10 * n + digit, count)
<1>1. CASE 10 * n + digit > 0
  BY <1>1, FilledByDigit DEF FilledAfter
<1>2. CASE ~(10 * n + digit > 0)
  BY <1>2, FilledByDigit DEF FilledAfter
<1>3. QED
  BY <1>1, <1>2

\* What does not depend on the phase.
InStep ==
  /\ places + expFrac \in Nat
  /\ skipped = PowerOfTen(places + expFrac)
  /\ skipped > 1 => significandDigit >= Precision /\ Filled(d, significandDigit)

LEMMA StillInStep ==
  ASSUME PlacesInv, UNCHANGED <<places, expFrac, skipped>>,
         UNCHANGED <<d, significandDigit>> \/ skipped = 1
  PROVE  InStep'
<1>1. CASE UNCHANGED <<d, significandDigit>>
  BY <1>1 DEF PlacesInv, InStep
<1>2. CASE skipped = 1
  <2>1. ~(skipped' > 1)
    BY <1>2
  <2>2. places' + expFrac' \in Nat /\ skipped' = PowerOfTen(places' + expFrac')
    BY DEF PlacesInv
  <2>3. QED
    BY <2>1, <2>2 DEF InStep
<1>3. QED
  BY <1>1, <1>2

LEMMA InitPlaces == Init => PlacesInv
<1> SUFFICES ASSUME Init PROVE PlacesInv
  OBVIOUS
<1>1. places + expFrac = 0 /\ skipped = 1 /\ phase = "minus" /\ significandDigit = 0
  BY DEF Init
<1>2. skipped = PowerOfTen(places + expFrac)
  BY <1>1, PowerIs
<1>3. QED
  BY <1>1, <1>2 DEF PlacesInv

LEMMA ParseMinusPlaces == ASSUME IInv, PlacesInv, ParseMinus PROVE PlacesInv'
<1>1. /\ phase = "minus" /\ phase' = "first"
      /\ UNCHANGED <<d, significandDigit, expFrac, places, skipped>>
  BY DEF ParseMinus, Go, Take, doubleVars, readVars
<1>2. significandDigit' = 0
  BY <1>1 DEF PlacesInv
<1>3. InStep'
  BY <1>1, StillInStep
<1>4. QED
  BY <1>1, <1>2, <1>3 DEF PlacesInv, InStep

\* Only "0" begins with a zero: the digits of an int add up to something.
LEMMA FirstDigitPlaces == ASSUME IInv, PlacesInv, FirstDigit PROVE PlacesInv'
<1>1. /\ phase = "first" /\ significandDigit = 0
      /\ UNCHANGED <<d, useDouble, use64bit, significandDigit, expFrac, places, skipped>>
  BY DEF FirstDigit, PlacesInv, doubleVars
<1>2. InStep'
  BY <1>1, StillInStep
<1>3. CASE IsDigit(Peek)
  <2>1. i' = Digit /\ phase' = (IF Digit = 0 THEN "point" ELSE "int")
    BY <1>3 DEF FirstDigit, Take
  <2>2. Digit \in 0..9 /\ ~useDouble /\ ~use64bit
    BY <1>1, <1>3, Facts DEF IInv, DigitsInv, AsInteger
  <2>3. Filled(i', significandDigit')
    BY <1>1, <2>1, <2>2, PowerIs DEF Filled
  <2>4. Digit # 0 => i' > 0
    BY <2>1, <2>2
  <2>5. (IF useDouble' THEN d' ELSE Integer') = i'
    BY <1>1, <2>2 DEF Integer
  <2>6. CASE Digit = 0
    <3>1. phase' = "point"
      BY <2>1, <2>6
    <3>2. QED
      BY <1>2, <2>3, <2>5, <3>1 DEF PlacesInv, InStep
  <2>7. CASE Digit # 0
    <3>1. phase' = "int"
      BY <2>1, <2>7
    <3>2. QED
      BY <1>2, <2>3, <2>4, <2>7, <3>1 DEF PlacesInv, InStep
  <2>8. QED
    BY <2>6, <2>7
<1>4. CASE ~IsDigit(Peek)
  <2>1. phase' = "failed"
    BY <1>4 DEF FirstDigit, Fail
  <2>2. QED
    BY <1>2, <2>1 DEF PlacesInv, InStep
<1>5. QED
  BY <1>3, <1>4

LEMMA IntDigitPlaces == ASSUME IInv, PlacesInv, IntDigit PROVE PlacesInv'
<1>1. /\ phase = "int" /\ i > 0 /\ Filled(i, significandDigit)
      /\ i = digits /\ digits <= Limit(Int32) /\ skipped = 1 /\ ~useDouble /\ ~use64bit
      /\ i \in Nat /\ significandDigit \in Nat
  BY Widths DEF IntDigit, IInv, TypeInv, NumberTypeOK, DigitsInv, AsInteger, Whole, Integer, PlacesInv
<1>2. UNCHANGED <<d, useDouble, expFrac, places, skipped>>
  BY DEF IntDigit, ReadDigit, readVars
<1>3. InStep'
  BY <1>1, <1>2, StillInStep
<1>4. CASE ~IsDigit(Peek)
  <2>1. phase' = "point" /\ UNCHANGED <<i, i64, use64bit, significandDigit>>
    BY <1>4 DEF IntDigit, Go
  <2>2. (IF useDouble' THEN d' ELSE Integer') = i
    BY <1>1, <1>2, <2>1 DEF Integer
  <2>3. QED
    BY <1>1, <1>3, <2>1, <2>2 DEF PlacesInv, InStep
<1>5. CASE IsDigit(Peek) /\ TooLarge(i, Limit(Int32))
  <2>1. phase' = "int64" /\ i64' = i /\ significandDigit' = significandDigit
    BY <1>5 DEF IntDigit, Go
  <2>2. QED
    BY <1>1, <1>3, <2>1 DEF PlacesInv, InStep
<1>6. CASE IsDigit(Peek) /\ ~TooLarge(i, Limit(Int32))
  <2>1. /\ phase' = "int" /\ i' = (10 * i + Digit) % (2 * Int32)
        /\ significandDigit' = significandDigit + 1
    BY <1>6 DEF IntDigit, Take
  <2>2. /\ Digit \in 0..9 /\ Limit(Int32) \in Nat /\ Limit(Int32) < 2 * Int32
    BY <1>6, Facts DEF IInv
  <2>3. 10 * i + Digit <= Limit(Int32) /\ 10 * i + Digit \in Nat /\ 10 * i + Digit > 0
    BY <1>1, <1>6, <2>2, OneMoreDigit
  <2>4. i' = 10 * i + Digit
    BY <2>1, <2>2, <2>3, NoWrap, Widths
  <2>5. Filled(i', significandDigit')
    <3>1. Filled(10 * i + Digit, significandDigit + 1)
      BY <1>1, <2>2, <2>3, FilledByDigit
    <3>2. QED
      BY <2>1, <2>4, <3>1
  <2>6. QED
    BY <1>3, <2>1, <2>3, <2>4, <2>5 DEF PlacesInv, InStep
<1>7. QED
  BY <1>4, <1>5, <1>6

LEMMA Int64DigitPlaces == ASSUME IInv, PlacesInv, Int64Digit PROVE PlacesInv'
<1>1. /\ phase = "int64" /\ i64 > 0 /\ Filled(i64, significandDigit)
      /\ i64 = digits /\ digits <= Limit(Int64) /\ skipped = 1 /\ ~useDouble /\ use64bit
      /\ i64 \in Nat /\ significandDigit \in Nat
  BY Widths DEF Int64Digit, IInv, TypeInv, NumberTypeOK, DigitsInv, Whole, PlacesInv
<1>2. UNCHANGED <<use64bit, expFrac, places, skipped>>
  BY DEF Int64Digit, ReadDigit, readVars
<1>3. InStep'
  BY <1>1, <1>2, StillInStep
<1>4. CASE ~IsDigit(Peek)
  <2>1. phase' = "point" /\ UNCHANGED <<i64, d, useDouble, significandDigit>>
    BY <1>4 DEF Int64Digit, Go
  <2>2. (IF useDouble' THEN d' ELSE Integer') = i64
    BY <1>1, <1>2, <2>1 DEF Integer
  <2>3. QED
    BY <1>1, <1>3, <2>1, <2>2 DEF PlacesInv, InStep
<1>5. CASE IsDigit(Peek) /\ TooLarge(i64, Limit(Int64))
  <2>1. phase' = "double" /\ d' = i64 /\ significandDigit' = significandDigit
    BY <1>5 DEF Int64Digit, Go
  <2>2. QED
    BY <1>1, <1>3, <2>1 DEF PlacesInv, InStep
<1>6. CASE IsDigit(Peek) /\ ~TooLarge(i64, Limit(Int64))
  <2>1. /\ phase' = "int64" /\ i64' = (10 * i64 + Digit) % (2 * Int64)
        /\ significandDigit' = significandDigit + 1
    BY <1>6 DEF Int64Digit, Take
  <2>2. /\ Digit \in 0..9 /\ Limit(Int64) \in Nat /\ Limit(Int64) < 2 * Int64
    BY <1>6, Facts DEF IInv
  <2>3. 10 * i64 + Digit <= Limit(Int64) /\ 10 * i64 + Digit \in Nat /\ 10 * i64 + Digit > 0
    BY <1>1, <1>6, <2>2, OneMoreDigit
  <2>4. i64' = 10 * i64 + Digit
    BY <2>1, <2>2, <2>3, NoWrap, Widths
  <2>5. Filled(i64', significandDigit')
    <3>1. Filled(10 * i64 + Digit, significandDigit + 1)
      BY <1>1, <2>2, <2>3, FilledByDigit
    <3>2. QED
      BY <2>1, <2>4, <3>1
  <2>6. QED
    BY <1>3, <2>1, <2>3, <2>4, <2>5 DEF PlacesInv, InStep
<1>7. QED
  BY <1>4, <1>5, <1>6

LEMMA DoubleDigitPlaces == ASSUME IInv, PlacesInv, DoubleDigit PROVE PlacesInv'
<1>1. /\ phase = "double" /\ Filled(d, significandDigit) /\ skipped = 1 /\ useDouble
      /\ d \in Nat /\ significandDigit \in Nat
  BY DEF DoubleDigit, IInv, TypeInv, NumberTypeOK, DigitsInv, AsDouble, Whole, PlacesInv
<1>2. UNCHANGED <<useDouble, significandDigit, expFrac, places, skipped>>
  BY DEF DoubleDigit, ReadDigit, readVars
<1>3. InStep'
  BY <1>1, <1>2, StillInStep
<1>4. CASE ~IsDigit(Peek)
  <2>1. phase' = "point" /\ d' = d
    BY <1>4 DEF DoubleDigit, Go
  <2>2. (IF useDouble' THEN d' ELSE Integer') = d
    BY <1>1, <1>2, <2>1
  <2>3. QED
    BY <1>1, <1>2, <1>3, <2>1, <2>2 DEF PlacesInv, InStep
<1>5. CASE IsDigit(Peek) /\ d >= MaxDouble
  <2>1. phase' = "failed"
    BY <1>5 DEF DoubleDigit, Fail
  <2>2. QED
    BY <1>3, <2>1 DEF PlacesInv, InStep
<1>6. CASE IsDigit(Peek) /\ ~(d >= MaxDouble)
  <2>1. phase' = "double" /\ d' = 10 * d + Digit
    BY <1>6 DEF DoubleDigit, Take
  <2>2. Digit \in 0..9
    BY <1>6, Facts DEF IInv
  <2>3. Filled(d', significandDigit')
    BY <1>1, <1>2, <2>1, <2>2, FilledByDigit
  <2>4. QED
    BY <1>3, <2>1, <2>3 DEF PlacesInv, InStep
<1>7. QED
  BY <1>4, <1>5, <1>6

LEMMA ParsePointPlaces == ASSUME IInv, PlacesInv, ParsePoint PROVE PlacesInv'
<1>1. /\ phase = "point" /\ phase' \in {"fraction", "e"}
      /\ UNCHANGED <<i, i64, use64bit, d, useDouble, significandDigit, expFrac, places, skipped>>
  BY DEF ParsePoint, Go, Take, intVars, doubleVars, readVars
<1>2. InStep'
  BY <1>1, StillInStep
<1>3. Filled(IF useDouble' THEN d' ELSE Integer', significandDigit')
  BY <1>1 DEF PlacesInv, Integer
<1>4. QED
  BY <1>1, <1>2, <1>3 DEF PlacesInv, InStep

LEMMA FractionStartsPlaces == ASSUME IInv, PlacesInv, FractionStarts PROVE PlacesInv'
<1>1. /\ phase = "fraction"
      /\ \/ phase' = "failed"
         \/ phase' = "frac" /\ useDouble
         \/ phase' = "fast" /\ ~useDouble /\ i64' = Integer
      /\ UNCHANGED <<d, significandDigit, expFrac, places, skipped>>
  BY DEF FractionStarts, Go, Fail, doubleVars, readVars
<1>2. InStep'
  BY <1>1, StillInStep
<1>3. Filled(IF useDouble THEN d ELSE Integer, significandDigit)
  BY <1>1 DEF PlacesInv
<1>4. CASE phase' = "failed"
  BY <1>2, <1>4 DEF PlacesInv, InStep
<1>5. CASE phase' = "frac"
  <2>1. Filled(d', significandDigit')
    BY <1>1, <1>3, <1>5
  <2>2. QED
    BY <1>2, <1>5, <2>1 DEF PlacesInv, InStep
<1>6. CASE phase' = "fast"
  <2>1. Filled(i64', significandDigit')
    BY <1>1, <1>3, <1>6
  <2>2. QED
    BY <1>2, <1>6, <2>1 DEF PlacesInv, InStep
<1>7. QED
  BY <1>1, <1>4, <1>5, <1>6

\* A place that is taken is one that the exponent counts.
LEMMA TakenPlace ==
  ASSUME PlacesInv, expFrac \in Int, places \in Nat, skipped = 1,
         expFrac' = expFrac - 1, places' = places + 1, skipped' = 1 * skipped
  PROVE  InStep'
<1>1. places' + expFrac' = places + expFrac /\ skipped' = skipped /\ ~(skipped' > 1)
  OBVIOUS
<1>2. QED
  BY <1>1 DEF PlacesInv, InStep

LEMMA FastDigitPlaces == ASSUME IInv, PlacesInv, FastDigit PROVE PlacesInv'
<1>1. /\ phase = "fast" /\ Filled(i64, significandDigit) /\ skipped = 1
      /\ i64 \in Nat /\ significandDigit \in Nat /\ expFrac \in Int /\ places \in Nat
  BY Widths DEF FastDigit, IInv, TypeInv, NumberTypeOK, DigitsInv, PlacesInv
<1>2. CASE IsDigit(Peek) /\ i64 <= FastPath
  <2>1. /\ phase' = "fast" /\ i64' = (10 * i64 + Digit) % (2 * Int64)
        /\ significandDigit' = significandDigit + (IF i64' # 0 THEN 1 ELSE 0)
        /\ expFrac' = expFrac - 1 /\ places' = places + 1 /\ skipped' = 1 * skipped
    BY <1>2 DEF FastDigit, Take, ReadPlace
  <2>2. Digit \in 0..9
    BY <1>2, Facts DEF IInv
  <2>3. /\ 10 * i64 + Digit \in Nat /\ 2 * Int64 \in Nat /\ 10 * i64 + Digit < 2 * Int64
    BY <1>1, <1>2, <2>2, Widths
  <2>4. i64' = 10 * i64 + Digit /\ i64' \in Nat
    BY <2>1, <2>3, NoWrap
  <2>5. FilledAfter(i64', significandDigit)
    BY <1>1, <2>2, <2>4, FilledByPlace
  <2>6. Filled(i64', significandDigit')
    <3>1. i64' # 0 <=> i64' > 0
      BY <2>4
    <3>2. QED
      BY <2>1, <2>5, <3>1 DEF FilledAfter
  <2>7. InStep'
    BY <1>1, <2>1, TakenPlace
  <2>8. QED
    BY <2>1, <2>6, <2>7 DEF PlacesInv, InStep
<1>3. CASE ~(IsDigit(Peek) /\ i64 <= FastPath)
  <2>1. /\ phase' = "frac" /\ d' = i64
        /\ UNCHANGED <<significandDigit, expFrac, places, skipped>>
    BY <1>3 DEF FastDigit, Go, readVars
  <2>2. InStep'
    BY <1>1, <2>1, StillInStep
  <2>3. QED
    BY <1>1, <2>1, <2>2 DEF PlacesInv, InStep
<1>4. QED
  BY <1>2, <1>3

LEMMA FractionDigitPlaces == ASSUME IInv, PlacesInv, FractionDigit PROVE PlacesInv'
<1>1. /\ phase = "frac" /\ Filled(d, significandDigit)
      /\ significandDigit < Precision => skipped = 1
      /\ d \in Nat /\ significandDigit \in Nat /\ expFrac \in Int /\ places \in Nat
      /\ skipped \in Nat
  BY DEF FractionDigit, IInv, TypeInv, NumberTypeOK, DigitsInv, PlacesInv
<1>2. CASE ~IsDigit(Peek)
  <2>1. phase' = "e" /\ UNCHANGED <<d, significandDigit, expFrac, places, skipped>>
    BY <1>2 DEF FractionDigit, Go, readVars
  <2>2. InStep'
    BY <2>1, StillInStep
  <2>3. QED
    BY <2>1, <2>2 DEF PlacesInv, InStep
<1>3. CASE IsDigit(Peek) /\ significandDigit < Precision
  <2>1. /\ phase' = "frac" /\ d' = 10 * d + Digit
        /\ significandDigit' = significandDigit + (IF d' > 0 THEN 1 ELSE 0)
        /\ expFrac' = expFrac - 1 /\ places' = places + 1 /\ skipped' = 1 * skipped
    BY <1>3 DEF FractionDigit, Take, ReadPlace
  <2>2. Digit \in 0..9
    BY <1>3, Facts DEF IInv
  <2>3. FilledAfter(d', significandDigit)
    BY <1>1, <2>1, <2>2, FilledByPlace
  <2>4. Filled(d', significandDigit')
    BY <2>1, <2>3 DEF FilledAfter
  <2>5. InStep'
    BY <1>1, <1>3, <2>1, TakenPlace
  <2>6. QED
    BY <2>1, <2>4, <2>5 DEF PlacesInv, InStep
<1>4. CASE IsDigit(Peek) /\ ~(significandDigit < Precision)
  <2>1. /\ phase' = "frac" /\ places' = places + 1 /\ skipped' = 10 * skipped
        /\ UNCHANGED <<d, expFrac, significandDigit>>
    BY <1>4 DEF FractionDigit, Take, ReadPlace
  <2>2. places' + expFrac' = (places + expFrac) + 1
    BY <1>1, <2>1
  <2>3. places + expFrac \in Nat /\ skipped = PowerOfTen(places + expFrac)
    BY DEF PlacesInv
  <2>4. PowerOfTen((places + expFrac) + 1) = 10 * PowerOfTen(places + expFrac)
    BY <2>3, PowerIs
  <2>5. skipped' = PowerOfTen(places' + expFrac') /\ places' + expFrac' \in Nat
    BY <2>1, <2>2, <2>3, <2>4
  <2>6. significandDigit' >= Precision /\ Filled(d', significandDigit')
    BY <1>1, <1>4, <2>1, Widths
  <2>7. QED
    BY <2>1, <2>5, <2>6 DEF PlacesInv
<1>5. QED
  BY <1>2, <1>3, <1>4

LEMMA ParseEPlaces == ASSUME IInv, PlacesInv, ParseE PROVE PlacesInv'
<1>1. /\ phase = "e" /\ phase' \in {"expSign", "done"}
      /\ d' = d \/ ~useDouble
      /\ UNCHANGED <<significandDigit, expFrac, places, skipped>>
  BY DEF ParseE, Go, Take, readVars
<1>2. ~useDouble => skipped = 1
  BY <1>1 DEF IInv, DigitsInv, AsInteger, AsDouble, Whole
<1>3. InStep'
  BY <1>1, <1>2, StillInStep
<1>4. QED
  BY <1>1, <1>3 DEF PlacesInv, InStep

\* The exponent is read after that, and the phases are others.
LEMMA ExponentPlaces ==
  ASSUME PlacesInv, ExponentSign \/ ExponentStarts \/ ExponentDigit \/ ExponentRest
  PROVE  PlacesInv'
<1>1. UNCHANGED <<d, significandDigit, expFrac, places, skipped>>
  BY DEF ExponentSign, ExponentStarts, ExponentDigit, ExponentRest, doubleVars, readVars
<1>2. phase' \in {"expFirst", "exp", "expRest", "done", "failed"}
  BY DEF ExponentSign, ExponentStarts, ExponentDigit, ExponentRest, Go, Take, Fail
<1>3. InStep'
  BY <1>1, StillInStep
<1>4. QED
  BY <1>2, <1>3 DEF PlacesInv, InStep

LEMMA NextPlaces == ASSUME IInv, PlacesInv, [NumberNext]_vars PROVE PlacesInv'
<1>1. CASE NumberNext
  BY <1>1, ParseMinusPlaces, FirstDigitPlaces, IntDigitPlaces, Int64DigitPlaces,
     DoubleDigitPlaces, ParsePointPlaces, FractionStartsPlaces, FastDigitPlaces,
     FractionDigitPlaces, ParseEPlaces, ExponentPlaces
     DEF NumberNext
<1>2. CASE UNCHANGED vars
  <2>1. UNCHANGED <<phase, i, i64, use64bit, d, useDouble, significandDigit, expFrac,
                    places, skipped>>
    BY <1>2 DEF vars, numberVars
  <2>2. Integer' = Integer
    BY <2>1 DEF Integer
  <2>3. QED
    BY <2>1, <2>2 DEF PlacesInv
<1>3. QED
  BY <1>1, <1>2

\* A double that leaves out a digit has as many digits as it takes.
LEMMA FullDouble == ASSUME IInv, PlacesInv PROVE PlacesKept
<1>1. /\ Precision \in Nat \ {0} /\ Precision - 1 \in Nat /\ (Precision - 1) + 1 = Precision
      /\ d \in Nat /\ significandDigit \in Nat
  BY WidthAssumption DEF IInv, TypeInv, NumberTypeOK
<1>2. ASSUME skipped > 1 PROVE d >= PowerOfTen(Precision - 1)
  <2>1. significandDigit >= Precision /\ 10 * d >= PowerOfTen(significandDigit)
    BY <1>1, <1>2 DEF PlacesInv, Filled
  <2>2. PowerOfTen(Precision) <= PowerOfTen(significandDigit)
    BY <1>1, <2>1, PowerGrows
  <2>3. PowerOfTen(Precision) = 10 * PowerOfTen(Precision - 1)
    BY <1>1, PowerIs
  <2>4. PowerOfTen(Precision - 1) \in Nat /\ PowerOfTen(significandDigit) \in Nat
    BY <1>1, PowerNat
  <2>5. QED
    BY <1>1, <2>1, <2>2, <2>3, <2>4
<1>3. QED
  BY <1>2 DEF PlacesInv, PlacesKept

\* A digit of a fraction is left out only when a double is full, however many
\* digits came before the point and in whichever type they were taken, and the
\* exponent counts exactly those that were taken.
THEOREM SpecPlacesKept == NumberSpec => []PlacesKept
<1>1. IInv /\ PlacesInv /\ [NumberNext]_vars => PlacesInv'
  BY NextPlaces
<1>2. IInv /\ PlacesInv => PlacesKept
  BY FullDouble
<1>3. Init /\ [][NumberNext]_vars /\ []IInv => []PlacesInv
  BY InitPlaces, <1>1, PTL
<1>4. QED
  BY SpecIInv, <1>2, <1>3, PTL DEF NumberSpec

-----------------------------------------------------------------------------
(***************************************************************************)
(* The stack of the document.                                              *)
(***************************************************************************)
FrameSet == [kind : {"object", "array"}, count : Nat]

\* What a call holds.
LEMMA HoldsIs ==
  ASSUME NEW calls \in Seq(FrameSet), NEW named \in 0..1, NEW k \in 1..Len(calls)
  PROVE  /\ Holds(calls, named, k) \in Nat \ {0}
         /\ calls[k].kind = "array" => Holds(calls, named, k) = 1 + calls[k].count
         /\ calls[k].kind = "object" =>
              Holds(calls, named, k) =
                1 + 2 * calls[k].count + (IF k < Len(calls) THEN 1 ELSE named)
         /\ calls[k].kind \in {"object", "array"} /\ calls[k].count \in Nat
<1>1. calls[k] \in FrameSet
  OBVIOUS
<1>2. PICK c \in Nat : c = calls[k].count
  BY <1>1 DEF FrameSet
<1>3. PICK kind \in {"object", "array"} : kind = calls[k].kind
  BY <1>1 DEF FrameSet
<1>4. CASE kind = "array"
  BY <1>2, <1>3, <1>4 DEF Holds
<1>5. CASE kind = "object" /\ k < Len(calls)
  BY <1>2, <1>3, <1>5 DEF Holds
<1>6. CASE kind = "object" /\ ~(k < Len(calls))
  BY <1>2, <1>3, <1>6 DEF Holds
<1>7. QED
  BY <1>3, <1>4, <1>5, <1>6

\* The function that Base is made of, and that there is one: were there none for
\* some number of calls, then for a least one, and the function for one call less
\* could be extended.
BaseStep(calls, named, f, n) == IF n = 0 THEN 1 ELSE f[n - 1] + Holds(calls, named, n)
IsBase(calls, named, f, k) == f = [n \in 0..k |-> BaseStep(calls, named, f, n)]

LEMMA BaseExists ==
  ASSUME NEW calls, NEW named, NEW k \in Nat
  PROVE  \E f : IsBase(calls, named, f, k)
<1> DEFINE Bad == {j \in Nat : ~\E f : IsBase(calls, named, f, j)}
<1>1. SUFFICES ASSUME Bad # {} PROVE FALSE
  OBVIOUS
<1>2. PICK j \in Bad : \A x \in Bad : j <= x
  <2>1. Bad \in SUBSET Nat
    OBVIOUS
  <2> HIDE DEF Bad
  <2>2. QED
    BY <1>1, <2>1, LeastNat
<1>3. CASE j = 0
  <2> DEFINE g == [n \in 0..0 |-> 1]
  <2>1. IsBase(calls, named, g, 0)
    BY DEF IsBase, BaseStep
  <2>2. QED
    BY <1>2, <1>3, <2>1
<1>4. CASE j # 0
  <2>1. j - 1 \in Nat /\ j - 1 \notin Bad
    BY <1>2, <1>4
  <2>2. PICK f : IsBase(calls, named, f, j - 1)
    BY <2>1
  <2> DEFINE g == [n \in 0..j |-> IF n = j THEN BaseStep(calls, named, f, j) ELSE f[n]]
  <2>3. \A n \in 0..(j - 1) : g[n] = f[n]
    BY <2>1
  <2>4. g[j] = BaseStep(calls, named, f, j) /\ g = [n \in 0..j |-> g[n]]
    BY <2>1
  <2> HIDE DEF g
  <2>5. \A n \in 0..(j - 1) : f[n] = BaseStep(calls, named, f, n)
    BY <2>2 DEF IsBase
  <2>6. ASSUME NEW n \in 0..j PROVE g[n] = BaseStep(calls, named, g, n)
    <3>1. n # 0 => g[n - 1] = f[n - 1]
      BY <2>1, <2>3
    <3>2. BaseStep(calls, named, g, n) = BaseStep(calls, named, f, n)
      BY <3>1 DEF BaseStep
    <3>3. QED
      BY <2>3, <2>4, <2>5, <3>2
  <2>7. IsBase(calls, named, g, j)
    BY <2>4, <2>6 DEF IsBase
  <2>8. QED
    BY <1>2, <2>7
<1>5. QED
  BY <1>3, <1>4

\* What each call holds begins where what the call before it holds ends.
LEMMA BaseIs ==
  ASSUME NEW calls \in Seq(FrameSet), NEW named \in 0..1
  PROVE  /\ Base(calls, named, 1) = 1
         /\ \A k \in 1..Len(calls) :
              Base(calls, named, k + 1) = Base(calls, named, k) + Holds(calls, named, k)
<1> DEFINE f == CHOOSE base : IsBase(calls, named, base, Len(calls))
<1>1. IsBase(calls, named, f, Len(calls))
  BY BaseExists, Zenon, LenProperties
<1>2. ASSUME NEW k PROVE Base(calls, named, k) = f[k - 1]
  BY DEF Base, IsBase, BaseStep
<1> HIDE DEF f
<1>3. \A n \in 0..Len(calls) : f[n] = BaseStep(calls, named, f, n)
  BY <1>1 DEF IsBase
<1>4. f[0] = 1
  BY <1>3 DEF BaseStep
<1>5. ASSUME NEW k \in 1..Len(calls) PROVE f[k] = f[k - 1] + Holds(calls, named, k)
  BY <1>3 DEF BaseStep
<1>6. QED
  BY <1>2, <1>4, <1>5

LEMMA BaseNat ==
  ASSUME NEW calls \in Seq(FrameSet), NEW named \in 0..1
  PROVE  \A k \in 1..(Len(calls) + 1) : Base(calls, named, k) \in Nat \ {0}
<1> DEFINE Bad == {j \in 1..(Len(calls) + 1) : Base(calls, named, j) \notin Nat \ {0}}
<1>1. SUFFICES ASSUME Bad # {} PROVE FALSE
  OBVIOUS
<1>2. PICK j \in Bad : \A x \in Bad : j <= x
  <2>1. Bad \in SUBSET Nat
    OBVIOUS
  <2> HIDE DEF Bad
  <2>2. QED
    BY <1>1, <2>1, LeastNat
<1>3. j # 1
  BY <1>2, BaseIs
<1>4. j - 1 \in 1..Len(calls) /\ j - 1 \notin Bad /\ (j - 1) + 1 = j
  BY <1>2, <1>3
<1>5. Base(calls, named, j - 1) \in Nat \ {0} /\ Holds(calls, named, j - 1) \in Nat
  BY <1>4, HoldsIs
<1>6. Base(calls, named, j) = Base(calls, named, j - 1) + Holds(calls, named, j - 1)
  BY <1>4, BaseIs
<1>7. QED
  BY <1>2, <1>5, <1>6

\* What a call holds is below what the calls after it hold.
LEMMA BaseGrows ==
  ASSUME NEW calls \in Seq(FrameSet), NEW named \in 0..1,
         NEW k \in 1..Len(calls), NEW l \in (k + 1)..(Len(calls) + 1)
  PROVE  Base(calls, named, k) + Holds(calls, named, k) <= Base(calls, named, l)
<1> DEFINE B(j) == Base(calls, named, j)
           H(j) == Holds(calls, named, j)
           Bad == {j \in (k + 1)..(Len(calls) + 1) : ~(B(k) + H(k) <= B(j))}
<1>n. Len(calls) \in Nat
  OBVIOUS
<1>1. SUFFICES ASSUME Bad # {} PROVE FALSE
  OBVIOUS
<1>2. PICK j \in Bad : \A x \in Bad : j <= x
  <2>1. Bad \in SUBSET Nat
    BY <1>n
  <2> HIDE DEF Bad
  <2>2. QED
    BY <1>1, <2>1, LeastNat
<1>3. /\ B(k) \in Nat /\ H(k) \in Nat /\ B(k + 1) = B(k) + H(k)
  BY <1>n, BaseNat, HoldsIs, BaseIs
<1>4. j \in (k + 1)..(Len(calls) + 1) /\ ~(B(k) + H(k) <= B(j))
  BY <1>2
<1>5. j # k + 1
  BY <1>3, <1>4
<1>6. /\ j - 1 \in (k + 1)..(Len(calls) + 1) /\ j - 1 \in 1..Len(calls) /\ (j - 1) + 1 = j
      /\ j - 1 \notin Bad
  BY <1>n, <1>2, <1>4, <1>5
<1>7. B(k) + H(k) <= B(j - 1)
  BY <1>6
<1>8. /\ B(j - 1) \in Nat /\ H(j - 1) \in Nat /\ B(j) = B(j - 1) + H(j - 1)
  <2>1. PICK e \in 1..Len(calls) : e = j - 1
    BY <1>6
  <2>2. B(e) \in Nat /\ H(e) \in Nat /\ B(e + 1) = B(e) + H(e)
    <3>1. e \in 1..(Len(calls) + 1)
      BY <1>n
    <3>2. B(e) \in Nat
      BY <3>1, BaseNat
    <3>3. H(e) \in Nat
      BY HoldsIs
    <3>4. B(e + 1) = B(e) + H(e)
      BY BaseIs
    <3>5. QED
      BY <3>2, <3>3, <3>4
  <2>3. e + 1 = j
    BY <1>6, <2>1
  <2> HIDE DEF B, H
  <2>4. QED
    BY <2>1, <2>2, <2>3
<1> HIDE DEF B, H
<1>9. QED
  BY <1>3, <1>4, <1>7, <1>8

\* Calls that hold the same begin at the same places.
LEMMA BaseSame ==
  ASSUME NEW calls \in Seq(FrameSet), NEW named \in 0..1,
         NEW calls2 \in Seq(FrameSet), NEW named2 \in 0..1,
         NEW n \in Nat, n <= Len(calls), n <= Len(calls2),
         \A k \in 1..n : Holds(calls2, named2, k) = Holds(calls, named, k)
  PROVE  \A k \in 1..(n + 1) : Base(calls2, named2, k) = Base(calls, named, k)
<1> DEFINE Bad == {j \in 1..(n + 1) : Base(calls2, named2, j) # Base(calls, named, j)}
<1>1. SUFFICES ASSUME Bad # {} PROVE FALSE
  OBVIOUS
<1>2. PICK j \in Bad : \A x \in Bad : j <= x
  <2>1. Bad \in SUBSET Nat
    OBVIOUS
  <2> HIDE DEF Bad
  <2>2. QED
    BY <1>1, <2>1, LeastNat
<1>3. j # 1
  BY <1>2, BaseIs
<1>4. /\ j - 1 \in 1..n /\ j - 1 \notin Bad /\ (j - 1) + 1 = j /\ j - 1 \in 1..Len(calls)
      /\ j - 1 \in 1..Len(calls2)
  BY <1>2, <1>3
<1>5. Base(calls2, named2, j - 1) = Base(calls, named, j - 1)
  BY <1>4
<1>6. /\ Base(calls, named, j) = Base(calls, named, j - 1) + Holds(calls, named, j - 1)
      /\ Base(calls2, named2, j) = Base(calls2, named2, j - 1) + Holds(calls2, named2, j - 1)
  BY <1>4, BaseIs
<1>7. QED
  BY <1>2, <1>4, <1>5, <1>6

\* The calls and their values before and after: what holds as much as before, and
\* whose part of the stack is as before, is still in its place.
Keeps(calls, named, stack, calls2, named2, stack2, n) ==
  /\ calls \in Seq(FrameSet) /\ calls2 \in Seq(FrameSet)
  /\ named \in 0..1 /\ named2 \in 0..1
  /\ n \in Nat /\ n <= Len(calls) /\ n <= Len(calls2)
  /\ \A k \in 1..n : /\ Holds(calls2, named2, k) = Holds(calls, named, k)
                      /\ calls2[k].kind = calls[k].kind
                      /\ Placed(calls, named, stack, k)
  /\ \A x \in 1..(Base(calls, named, n + 1) - 1) : stack2[x] = stack[x]

LEMMA StillPlaced ==
  ASSUME NEW calls, NEW named, NEW stack, NEW calls2, NEW named2, NEW stack2, NEW n,
         Keeps(calls, named, stack, calls2, named2, stack2, n)
  PROVE  /\ Base(calls2, named2, n + 1) = Base(calls, named, n + 1)
         /\ \A k \in 1..n : Placed(calls2, named2, stack2, k)
<1>0. /\ calls \in Seq(FrameSet) /\ calls2 \in Seq(FrameSet)
      /\ named \in 0..1 /\ named2 \in 0..1
      /\ n \in Nat /\ n <= Len(calls) /\ n <= Len(calls2)
      /\ \A k \in 1..n : /\ Holds(calls2, named2, k) = Holds(calls, named, k)
                          /\ calls2[k].kind = calls[k].kind
                          /\ Placed(calls, named, stack, k)
      /\ \A x \in 1..(Base(calls, named, n + 1) - 1) : stack2[x] = stack[x]
  BY DEF Keeps
<1>1. \A k \in 1..(n + 1) : Base(calls2, named2, k) = Base(calls, named, k)
  BY <1>0, BaseSame
<1>2. ASSUME NEW k \in 1..n PROVE Placed(calls2, named2, stack2, k)
  <2>1. PICK l \in Nat : l = Len(calls)
    BY <1>0
  <2>2. /\ k \in 1..l /\ k \in 1..(n + 1) /\ n + 1 \in (k + 1)..(l + 1) /\ k \in 1..(l + 1)
        /\ n + 1 \in 1..(l + 1)
    BY <1>0, <2>1
  <2>3. PICK b \in Nat \ {0} : b = Base(calls, named, k)
    BY <1>0, <2>1, <2>2, BaseNat
  <2>4. PICK h \in Nat \ {0} : h = Holds(calls, named, k)
    BY <1>0, <2>1, <2>2, HoldsIs
  <2>5. PICK next \in Nat : next = Base(calls, named, n + 1)
    BY <1>0, <2>1, <2>2, BaseNat
  <2>6. b + h <= next
    BY <2>1, <2>2, <2>3, <2>4, <2>5, <1>0, BaseGrows
  <2>7. /\ Base(calls2, named2, k) = b /\ Holds(calls2, named2, k) = h
        /\ calls2[k].kind = calls[k].kind
    BY <1>0, <1>1, <2>2, <2>3, <2>4
  <2>8. \A x \in 1..(next - 1) : stack2[x] = stack[x]
    BY <1>0, <2>5
  <2>9. stack2[b] = stack[b]
    BY <2>6, <2>8
  <2>10. ASSUME NEW m \in 1..(h \div 2) PROVE stack2[b + 2 * m - 1] = stack[b + 2 * m - 1]
    <3>1. b + 2 * m - 1 \in 1..(next - 1)
      BY <2>6
    <3>2. QED
      BY <2>8, <3>1
  <2>11. Placed(calls, named, stack, k)
    BY <1>0
  <2>12. QED
    BY <2>3, <2>4, <2>7, <2>9, <2>10, <2>11 DEF Placed
<1>3. n + 1 \in 1..(n + 1)
  BY <1>0
<1>4. QED
  BY <1>1, <1>2, <1>3

\* A value that is put on the stack and not yet counted.
LEMMA PushValue ==
  ASSUME NEW calls \in Seq(FrameSet), NEW S, NEW stack \in Seq(S), NEW v,
         InPlace(calls, 1, stack, 0)
  PROVE  InPlace(calls, 1, Append(stack, v), 1)
<1>1. PICK l \in Nat : l = Len(calls) /\ DOMAIN calls = 1..l
  OBVIOUS
<1>2. PICK n \in Nat : n = Len(stack)
  OBVIOUS
<1>3. stack \in Seq(S \cup {v})
  OBVIOUS
<1> DEFINE stack2 == Append(stack, v)
<1>4. Len(stack2) = n + 1 /\ \A x \in 1..n : stack2[x] = stack[x]
  BY <1>2, <1>3
<1> HIDE DEF stack2
<1>5. PICK b \in Nat : b = Base(calls, 1, l + 1)
  BY <1>1, BaseNat
<1>6. n = b - 1 /\ \A k \in 1..l : Placed(calls, 1, stack, k)
  BY <1>1, <1>2, <1>5 DEF InPlace
<1>7. \A k \in 1..l : Placed(calls, 1, stack2, k)
  <2>1. \A x \in 1..(Base(calls, 1, l + 1) - 1) : stack2[x] = stack[x]
    BY <1>4, <1>5, <1>6
  <2>2. l <= Len(calls) /\ 1 \in 0..1
    BY <1>1
  <2>3. Keeps(calls, 1, stack, calls, 1, stack2, l)
    BY <1>6, <2>1, <2>2 DEF Keeps
  <2>4. QED
    BY <2>3, StillPlaced
<1>8. Len(stack2) = Base(calls, 1, Len(calls) + 1) - 1 + 1
  BY <1>1, <1>4, <1>5, <1>6
<1>9. QED
  BY <1>1, <1>7, <1>8 DEF InPlace, stack2

\* The name of a member is put on the stack.
LEMMA PushName ==
  ASSUME NEW calls \in Seq(FrameSet), calls # << >>, calls[Len(calls)].kind = "object",
         NEW S, NEW stack \in Seq(S), NEW v, v.json = "string",
         InPlace(calls, 0, stack, 0)
  PROVE  InPlace(calls, 1, Append(stack, v), 0)
<1>1. PICK l \in Nat \ {0} : l = Len(calls) /\ DOMAIN calls = 1..l
  OBVIOUS
<1>2. PICK n \in Nat : n = Len(stack)
  OBVIOUS
<1>3. stack \in Seq(S \cup {v})
  OBVIOUS
<1> DEFINE stack2 == Append(stack, v)
<1>4. Len(stack2) = n + 1 /\ stack2[n + 1] = v /\ \A x \in 1..n : stack2[x] = stack[x]
  BY <1>2, <1>3
<1> HIDE DEF stack2
<1>5. PICK b \in Nat \ {0} : b = Base(calls, 0, l)
  BY <1>1, BaseNat
<1>6. PICK c \in Nat : /\ c = calls[l].count
                       /\ Holds(calls, 0, l) = 1 + 2 * c
                       /\ Holds(calls, 1, l) = 2 + 2 * c
  <2>1. l \in 1..Len(calls) /\ 0 \in 0..1 /\ 1 \in 0..1
    BY <1>1
  <2>2. calls[l].kind = "object"
    BY <1>1
  <2>3. PICK c \in Nat : c = calls[l].count
    BY <2>1, HoldsIs
  <2>4. Holds(calls, 0, l) = 1 + 2 * c + (IF l < Len(calls) THEN 1 ELSE 0)
    BY <2>1, <2>2, <2>3, HoldsIs
  <2>5. Holds(calls, 1, l) = 1 + 2 * c + (IF l < Len(calls) THEN 1 ELSE 1)
    BY <2>1, <2>2, <2>3, HoldsIs
  <2>6. QED
    BY <1>1, <2>3, <2>4, <2>5
<1>7. \A k \in 1..l : Placed(calls, 0, stack, k)
  BY <1>1 DEF InPlace
<1>8. n = b + 2 * c
  <2>1. Base(calls, 0, l + 1) = b + (1 + 2 * c)
    BY <1>1, <1>5, <1>6, BaseIs
  <2>2. n = Base(calls, 0, l + 1) - 1 + 0
    BY <1>1, <1>2 DEF InPlace
  <2>3. QED
    BY <2>1, <2>2
<1>9. \A k \in 1..(l - 1) : Holds(calls, 1, k) = Holds(calls, 0, k)
  BY <1>1 DEF Holds
<1>10. PICK m \in Nat : m = l - 1 /\ m + 1 = l
  BY <1>1
<1>11. /\ Base(calls, 1, l) = b
       /\ \A k \in 1..m : Placed(calls, 1, stack2, k)
  <2>1. \A x \in 1..(Base(calls, 0, m + 1) - 1) : stack2[x] = stack[x]
    BY <1>4, <1>5, <1>8, <1>10
  <2>2. \A k \in 1..m : Placed(calls, 0, stack, k)
    BY <1>7, <1>10
  <2>3. m <= Len(calls) /\ 0 \in 0..1 /\ 1 \in 0..1
    BY <1>1, <1>10
  <2> HIDE DEF stack2
  <2>4. \A k \in 1..m : Holds(calls, 1, k) = Holds(calls, 0, k)
    BY <1>9, <1>10
  <2>5. /\ Base(calls, 1, m + 1) = Base(calls, 0, m + 1)
        /\ \A k \in 1..m : Placed(calls, 1, stack2, k)
    <3>1. Keeps(calls, 0, stack, calls, 1, stack2, m)
      BY <2>1, <2>2, <2>3, <2>4 DEF Keeps
    <3>2. QED
      BY <3>1, StillPlaced
  <2>6. QED
    BY <1>5, <1>10, <2>5
<1>12. Placed(calls, 1, stack2, l)
  <2>1. Placed(calls, 0, stack, l)
    BY <1>1, <1>7
  <2>2. stack2[b] = Placeholder(calls[l].kind)
    <3>1. stack[b] = Placeholder(calls[l].kind)
      BY <1>5, <2>1 DEF Placed
    <3>2. QED
      BY <1>4, <1>8, <3>1
  <2>3. ASSUME NEW x \in 1..(c + 1) PROVE stack2[b + 2 * x - 1].json = "string"
    <3>1. CASE x = c + 1
      BY <1>4, <1>8, <3>1
    <3>2. CASE x # c + 1
      <4>1. x \in 1..((1 + 2 * c) \div 2) /\ b + 2 * x - 1 \in 1..n
        BY <1>8, <3>2
      <4>2. stack[b + 2 * x - 1].json = "string"
        BY <1>1, <1>5, <1>6, <2>1, <4>1 DEF Placed
      <4>3. QED
        BY <1>4, <4>1, <4>2
    <3>3. QED
      BY <3>1, <3>2
  <2>4. Holds(calls, 1, l) \div 2 = c + 1
    BY <1>6
  <2>5. QED
    BY <1>11, <2>2, <2>3, <2>4 DEF Placed
<1>13. Len(stack2) = Base(calls, 1, Len(calls) + 1) - 1 + 0
  <2>1. Base(calls, 1, l + 1) = b + (2 + 2 * c)
    BY <1>1, <1>6, <1>11, BaseIs
  <2>2. QED
    BY <1>1, <1>4, <1>8, <2>1
<1>14. \A k \in 1..l : Placed(calls, 1, stack2, k)
  BY <1>10, <1>11, <1>12
<1>15. QED
  BY <1>1, <1>13, <1>14 DEF InPlace, stack2

\* All but the last.
LEMMA FrontIs ==
  ASSUME NEW S, NEW s \in Seq(S), s # << >>
  PROVE  /\ Front(s) \in Seq(S) /\ Len(Front(s)) = Len(s) - 1
         /\ \A x \in 1..(Len(s) - 1) : Front(s)[x] = s[x]
<1>1. Len(s) \in Nat /\ Len(s) # 0
  BY EmptySeq
<1> DEFINE n == Len(s) - 1
<1>2. n \in Nat /\ \A x \in 1..n : s[x] \in S
  BY <1>1
<1> HIDE DEF n
<1>3. /\ SubSeq(s, 1, n) \in Seq(S)
      /\ Len(SubSeq(s, 1, n)) = IF 1 <= n THEN n - 1 + 1 ELSE 0
      /\ \A x \in 1..(n - 1 + 1) : SubSeq(s, 1, n)[x] = s[1 + x - 1]
  BY <1>2, SubSeqProperties
<1>4. \A x \in 1..n : 1 + x - 1 = x /\ x \in 1..(n - 1 + 1)
  BY <1>2
<1>5. Len(SubSeq(s, 1, n)) = n
  BY <1>2, <1>3
<1>6. \A x \in 1..n : SubSeq(s, 1, n)[x] = s[x]
  BY <1>3, <1>4
<1>7. QED
  BY <1>3, <1>5, <1>6 DEF Front, n

\* A call is made, with its placeholder.
LEMMA OpenFrame ==
  ASSUME NEW calls \in Seq(FrameSet), NEW S, NEW stack \in Seq(S),
         NEW kind \in {"object", "array"}, InPlace(calls, 1, stack, 0),
         NEW named \in 0..1, kind = "object" => named = 0
  PROVE  /\ Append(calls, Frame(kind)) \in Seq(FrameSet)
         /\ InPlace(Append(calls, Frame(kind)), named, Append(stack, Placeholder(kind)), 0)
<1> DEFINE v == Placeholder(kind)
           stack2 == Append(stack, v)
           calls2 == Append(calls, Frame(kind))
<1>1. PICK l \in Nat : l = Len(calls) /\ DOMAIN calls = 1..l
  OBVIOUS
<1>2. PICK n \in Nat : n = Len(stack)
  OBVIOUS
<1>3. Len(stack2) = n + 1 /\ stack2[n + 1] = v /\ \A x \in 1..n : stack2[x] = stack[x]
  <2>1. stack \in Seq(S \cup {v})
    OBVIOUS
  <2> HIDE DEF v
  <2>2. QED
    BY <1>2, <2>1
<1>4. Frame(kind) \in FrameSet /\ Frame(kind).kind = kind /\ Frame(kind).count = 0
  BY DEF Frame, FrameSet
<1>5. /\ calls2 \in Seq(FrameSet) /\ Len(calls2) = l + 1 /\ DOMAIN calls2 = 1..(l + 1)
      /\ calls2[l + 1] = Frame(kind) /\ \A k \in 1..l : calls2[k] = calls[k]
  BY <1>1, <1>4
<1> HIDE DEF stack2, calls2, v
<1>6. Base(calls, 1, l + 1) = n + 1 /\ \A k \in 1..l : Placed(calls, 1, stack, k)
  <2>1. PICK b \in Nat : b = Base(calls, 1, l + 1)
    BY <1>1, BaseNat
  <2>2. n = b - 1 + 0
    BY <1>1, <1>2, <2>1 DEF InPlace
  <2>3. QED
    BY <1>1, <2>1, <2>2 DEF InPlace
<1>7. \A k \in 1..l : Holds(calls2, named, k) = Holds(calls, 1, k)
  <2>1. ASSUME NEW k \in 1..l PROVE Holds(calls2, named, k) = Holds(calls, 1, k)
    <3>1. k < Len(calls2) /\ calls2[k] = calls[k]
      BY <1>5
    <3>2. QED
      BY <3>1 DEF Holds
  <2>2. QED
    BY <2>1
<1>8. Holds(calls2, named, l + 1) = 1
  <2>1. l + 1 \in 1..Len(calls2) /\ ~(l + 1 < Len(calls2))
    BY <1>5
  <2>2. QED
    BY <1>4, <1>5, <2>1 DEF Holds
<1>9. /\ Base(calls2, named, l + 1) = n + 1
      /\ \A k \in 1..l : Placed(calls2, named, stack2, k)
  <2>1. \A x \in 1..(Base(calls, 1, l + 1) - 1) : stack2[x] = stack[x]
    BY <1>3, <1>6
  <2>2. l <= Len(calls) /\ l <= Len(calls2) /\ 1 \in 0..1
    BY <1>1, <1>5
  <2>3. \A k \in 1..l : calls2[k].kind = calls[k].kind
    BY <1>5
  <2>4. /\ Base(calls2, named, l + 1) = Base(calls, 1, l + 1)
        /\ \A k \in 1..l : Placed(calls2, named, stack2, k)
    <3>1. Keeps(calls, 1, stack, calls2, named, stack2, l)
      BY <1>5, <1>6, <1>7, <2>1, <2>2, <2>3 DEF Keeps
    <3>2. QED
      BY <3>1, StillPlaced
  <2>5. QED
    BY <1>6, <2>4
<1>10. Placed(calls2, named, stack2, l + 1)
  <2>1. stack2[Base(calls2, named, l + 1)] = Placeholder(calls2[l + 1].kind)
    BY <1>3, <1>4, <1>5, <1>9 DEF v
  <2>2. 1..(Holds(calls2, named, l + 1) \div 2) = {}
    BY <1>8
  <2>3. QED
    BY <2>1, <2>2 DEF Placed
<1>11. Len(stack2) = Base(calls2, named, Len(calls2) + 1) - 1 + 0
  <2>1. l + 1 \in 1..Len(calls2)
    BY <1>5
  <2>2. Base(calls2, named, l + 1 + 1) = Base(calls2, named, l + 1) + Holds(calls2, named, l + 1)
    BY <1>5, <2>1, BaseIs
  <2>3. QED
    BY <1>3, <1>5, <1>8, <1>9, <2>2
<1>12. \A k \in 1..(l + 1) : Placed(calls2, named, stack2, k)
  BY <1>9, <1>10
<1>13. InPlace(calls2, named, stack2, 0)
  BY <1>5, <1>11, <1>12 DEF InPlace
<1>14. QED
  BY <1>5, <1>13 DEF calls2, stack2, v

\* What is on the stack below the innermost call, and what that one holds.
LEMMA TopFrameIs ==
  ASSUME NEW calls \in Seq(FrameSet), calls # << >>, NEW S, NEW stack \in Seq(S),
         InPlace(calls, 1, stack, 1)
  PROVE  \E l \in Nat \ {0}, b \in Nat \ {0}, c \in Nat :
           /\ l = Len(calls) /\ b = Base(calls, 1, l) /\ c = calls[l].count
           /\ calls[l].kind \in {"object", "array"}
           /\ calls[l].kind = "array" => Holds(calls, 1, l) = 1 + c /\ Len(stack) = b + 1 + c
           /\ calls[l].kind = "object" =>
                Holds(calls, 1, l) = 2 + 2 * c /\ Len(stack) = b + 2 + 2 * c
           /\ \A k \in 1..l : Placed(calls, 1, stack, k)
<1>1. PICK l \in Nat \ {0} : l = Len(calls) /\ DOMAIN calls = 1..l
  OBVIOUS
<1>2. PICK n \in Nat : n = Len(stack)
  OBVIOUS
<1>3. PICK b \in Nat \ {0} : b = Base(calls, 1, l)
  BY <1>1, BaseNat
<1>4. l \in 1..Len(calls)
  BY <1>1
<1>5. PICK c \in Nat : c = calls[l].count
  BY <1>4, HoldsIs
<1>6. PICK h \in Nat : h = Holds(calls, 1, l)
  BY <1>4, HoldsIs
<1>7. n = b + h
  <2>1. Base(calls, 1, l + 1) = b + h
    BY <1>3, <1>4, <1>6, BaseIs
  <2>2. n = Base(calls, 1, l + 1) - 1 + 1
    BY <1>1, <1>2 DEF InPlace
  <2>3. QED
    BY <2>1, <2>2
<1>8. calls[l].kind \in {"object", "array"}
  BY <1>4, HoldsIs
<1>9. calls[l].kind = "array" => h = 1 + c
  BY <1>4, <1>5, <1>6, HoldsIs
<1>10. calls[l].kind = "object" => h = 1 + 2 * c + (IF l < Len(calls) THEN 1 ELSE 1)
  BY <1>4, <1>5, <1>6, HoldsIs
<1>11. \A k \in 1..l : Placed(calls, 1, stack, k)
  BY <1>1 DEF InPlace
<1>12. /\ calls[l].kind = "array" => h = 1 + c /\ n = b + 1 + c
       /\ calls[l].kind = "object" => h = 2 + 2 * c /\ n = b + 2 + 2 * c
  BY <1>7, <1>9, <1>10
<1>13. QED
  BY <1>1, <1>2, <1>3, <1>5, <1>6, <1>8, <1>11, <1>12

\* A value, or a name and its value, is counted.
CountsOneMore(calls, calls2) ==
  /\ calls2 \in Seq(FrameSet) /\ Len(calls2) = Len(calls)
  /\ \A k \in 1..(Len(calls) - 1) : calls2[k] = calls[k]
  /\ calls2[Len(calls)].kind = calls[Len(calls)].kind
  /\ calls2[Len(calls)].count = calls[Len(calls)].count + 1

LEMMA CountTop ==
  ASSUME NEW calls \in Seq(FrameSet), calls # << >>, NEW S, NEW stack \in Seq(S),
         InPlace(calls, 1, stack, 1), NEW named \in 0..1,
         calls[Len(calls)].kind = "object" => named = 0,
         NEW calls2, CountsOneMore(calls, calls2)
  PROVE  InPlace(calls2, named, stack, 0)
<1>1. PICK l \in Nat \ {0}, b \in Nat \ {0}, c \in Nat :
        /\ l = Len(calls) /\ b = Base(calls, 1, l) /\ c = calls[l].count
        /\ calls[l].kind \in {"object", "array"}
        /\ calls[l].kind = "array" => Holds(calls, 1, l) = 1 + c /\ Len(stack) = b + 1 + c
        /\ calls[l].kind = "object" =>
             Holds(calls, 1, l) = 2 + 2 * c /\ Len(stack) = b + 2 + 2 * c
        /\ \A k \in 1..l : Placed(calls, 1, stack, k)
  BY TopFrameIs
<1>2. PICK n \in Nat : n = Len(stack)
  OBVIOUS
<1>7. /\ calls2 \in Seq(FrameSet) /\ Len(calls2) = l /\ DOMAIN calls2 = 1..l
      /\ calls2[l].kind = calls[l].kind /\ calls2[l].count = c + 1
      /\ \A k \in 1..(l - 1) : calls2[k] = calls[k]
  BY <1>1 DEF CountsOneMore
<1>8. Holds(calls2, named, l) = Holds(calls, 1, l) + 1
  <2>3. CASE calls[l].kind = "array"
    <3>0. calls2[l].kind = "array" /\ calls2[l].count = c + 1
      BY ONLY <1>7, <2>3
    <3>1. Holds(calls2, named, l) = 1 + (c + 1)
      BY ONLY <3>0 DEF Holds
    <3>2. Holds(calls, 1, l) = 1 + c /\ c \in Nat
      BY ONLY <1>1, <2>3, c \in Nat
    <3>3. QED
      BY ONLY <3>1, <3>2
  <2>4. CASE calls[l].kind = "object"
    <3>1. named = 0
      BY ONLY <1>1, <2>4, calls[Len(calls)].kind = "object" => named = 0
    <3>0. calls2[l].kind = "object" /\ calls2[l].count = c + 1 /\ Len(calls2) = l
      BY ONLY <1>7, <2>4
    <3>2. Holds(calls2, named, l) = 1 + 2 * (c + 1) + (IF l < l THEN 1 ELSE 0)
      BY ONLY <3>0, <3>1 DEF Holds
    <3>3. Holds(calls, 1, l) = 2 + 2 * c /\ c \in Nat /\ l \in Nat
      BY ONLY <1>1, <2>4, c \in Nat, l \in Nat \ {0}
    <3>4. QED
      BY ONLY <3>2, <3>3
  <2>5. QED
    BY ONLY <1>1, <2>3, <2>4
<1>9. PICK m \in Nat : m = l - 1 /\ m + 1 = l
  BY <1>1
<1>10. \A k \in 1..m : Holds(calls2, named, k) = Holds(calls, 1, k) /\ calls2[k].kind = calls[k].kind
  <2>1. ASSUME NEW k \in 1..m
        PROVE  Holds(calls2, named, k) = Holds(calls, 1, k) /\ calls2[k].kind = calls[k].kind
    <3>1. k < Len(calls2) /\ k < Len(calls) /\ calls2[k] = calls[k]
      BY <1>1, <1>7, <1>9
    <3>2. QED
      BY <3>1 DEF Holds
  <2>2. QED
    BY <2>1
<1>11. /\ Base(calls2, named, l) = b
       /\ \A k \in 1..m : Placed(calls2, named, stack, k)
  <2>1. m <= Len(calls) /\ m <= Len(calls2) /\ 1 \in 0..1
    BY <1>1, <1>7, <1>9
  <2>2. \A k \in 1..m : Placed(calls, 1, stack, k)
    BY <1>1, <1>9
  <2>3. /\ Base(calls2, named, m + 1) = Base(calls, 1, m + 1)
        /\ \A k \in 1..m : Placed(calls2, named, stack, k)
    <3>1. Keeps(calls, 1, stack, calls2, named, stack, m)
      BY <1>7, <1>10, <2>1, <2>2 DEF Keeps
    <3>2. QED
      BY <3>1, StillPlaced
  <2>4. QED
    BY <1>1, <1>9, <2>3
<1>12. PICK h \in Nat : /\ h = Holds(calls, 1, l)
                        /\ Len(stack) = b + h
                        /\ Holds(calls2, named, l) = h + 1
                        /\ calls[l].kind = "object" => h = 2 + 2 * c
  <2>1. l \in 1..Len(calls) /\ 1 \in 0..1
    BY ONLY <1>1, l \in Nat \ {0}
  <2>2. PICK h \in Nat : h = Holds(calls, 1, l)
    BY ONLY <2>1, HoldsIs, calls \in Seq(FrameSet)
  <2>3. Len(stack) = b + h
    BY ONLY <1>1, <2>2, c \in Nat, b \in Nat \ {0}
  <2>4. Holds(calls2, named, l) = h + 1
    BY ONLY <1>8, <2>2
  <2>5. calls[l].kind = "object" => h = 2 + 2 * c
    BY ONLY <1>1, <2>2
  <2>6. QED
    BY <2>2, <2>3, <2>4, <2>5
<1>13. Placed(calls2, named, stack, l)
  <2>1. Placed(calls, 1, stack, l)
    BY <1>1
  <2>2. calls2[l].kind = calls[l].kind
    BY <1>7
  <2>3. calls[l].kind = "object" => (h + 1) \div 2 = h \div 2
    <3>1. ASSUME h = 2 + 2 * c PROVE (h + 1) \div 2 = h \div 2
      BY ONLY <3>1, c \in Nat, h \in Nat
    <3>2. QED
      BY ONLY <1>12, <3>1
  <2>4. QED
    BY <1>1, <1>11, <1>12, <2>1, <2>2, <2>3 DEF Placed
<1>14. Len(stack) = Base(calls2, named, Len(calls2) + 1) - 1 + 0
  <2>1. l \in 1..Len(calls2)
    BY <1>7
  <2>2. Base(calls2, named, l + 1) = b + (h + 1)
    BY <1>7, <1>11, <1>12, <2>1, BaseIs
  <2>3. QED
    BY <1>7, <1>12, <2>2
<1>15. \A k \in 1..l : Placed(calls2, named, stack, k)
  BY <1>9, <1>11, <1>13
<1>16. InPlace(calls2, named, stack, 0)
  BY <1>7, <1>14, <1>15 DEF InPlace
<1>17. QED
  BY <1>16

LEMMA OneMore ==
  ASSUME NEW f \in FrameSet
  PROVE  /\ [f EXCEPT !.count = @ + 1] \in FrameSet
         /\ [f EXCEPT !.count = @ + 1].kind = f.kind
         /\ [f EXCEPT !.count = @ + 1].count = f.count + 1
BY DEF FrameSet

\* What NextValue makes of the calls.
LEMMA CountValue ==
  ASSUME NEW calls \in Seq(FrameSet), calls # << >>, NEW S, NEW stack \in Seq(S),
         InPlace(calls, 1, stack, 1), NEW named \in 0..1, NEW calls2,
         calls[Len(calls)].kind = "object" => named = 0,
         calls2 = Append(Front(calls), [Last(calls) EXCEPT !.count = @ + 1])
  PROVE  /\ calls2 \in Seq(FrameSet) /\ calls2 # << >>
         /\ Last(calls2).kind = calls[Len(calls)].kind
         /\ InPlace(calls2, named, stack, 0)
<1>1. PICK l \in Nat \ {0} : l = Len(calls)
  OBVIOUS
<1>2. calls[l] \in FrameSet /\ Last(calls) = calls[l]
  BY <1>1 DEF Last
<1> DEFINE top == [calls[l] EXCEPT !.count = @ + 1]
<1>3. top \in FrameSet /\ top.kind = calls[l].kind /\ top.count = calls[l].count + 1
  BY ONLY <1>2, OneMore
<1>4. calls2 = Append(Front(calls), top)
  BY <1>2
<1>5. Front(calls) \in Seq(FrameSet) /\ Len(Front(calls)) = l - 1
      /\ \A k \in 1..(l - 1) : Front(calls)[k] = calls[k]
  BY <1>1, FrontIs
<1> HIDE DEF top
<1>6. /\ calls2 \in Seq(FrameSet) /\ Len(calls2) = l /\ calls2[l] = top
      /\ \A k \in 1..(l - 1) : calls2[k] = calls[k]
  <2>1. PICK front \in Seq(FrameSet) : front = Front(calls)
    BY <1>5
  <2>2. calls2 = Append(front, top)
    BY <1>4, <2>1
  <2>3. Len(front) = l - 1 /\ \A k \in 1..(l - 1) : front[k] = calls[k]
    BY <1>5, <2>1
  <2>4. QED
    BY ONLY <1>1, <1>3, <2>2, <2>3, front \in Seq(FrameSet), l \in Nat \ {0}
<1>7. InPlace(calls2, named, stack, 0)
  <2>1. CountsOneMore(calls, calls2)
    BY ONLY <1>1, <1>3, <1>6 DEF CountsOneMore
  <2>2. QED
    BY ONLY <2>1, CountTop, calls \in Seq(FrameSet), calls # << >>, stack \in Seq(S),
            InPlace(calls, 1, stack, 1), named \in 0..1,
            calls[Len(calls)].kind = "object" => named = 0
<1>8. Last(calls2).kind = calls[Len(calls)].kind /\ calls2 # << >>
  BY ONLY <1>1, <1>3, <1>6 DEF Last
<1>9. QED
  BY <1>6, <1>7, <1>8

\* A call ends and what it holds is taken off: its placeholder, which is then on
\* top, becomes the value that nobody has counted yet.
LEMMA DropFrame ==
  ASSUME NEW calls \in Seq(FrameSet), calls # << >>, NEW S, NEW stack \in Seq(S),
         InPlace(calls, 1, stack, 1), NEW v,
         NEW rest \in Seq(S), Len(rest) = Base(calls, 1, Len(calls)),
         \A x \in 1..Len(rest) : rest[x] = stack[x]
  PROVE  /\ Front(calls) \in Seq(FrameSet)
         /\ [rest EXCEPT ![Len(rest)] = v] \in Seq(S \cup {v})
         /\ InPlace(Front(calls), 1, [rest EXCEPT ![Len(rest)] = v], 1)
<1>1. PICK l \in Nat \ {0}, b \in Nat \ {0}, c \in Nat :
        /\ l = Len(calls) /\ b = Base(calls, 1, l) /\ c = calls[l].count
        /\ \A k \in 1..l : Placed(calls, 1, stack, k)
  BY TopFrameIs
<1>3. Len(rest) = b /\ \A x \in 1..b : rest[x] = stack[x]
  BY <1>1
<1> DEFINE stack2 == [rest EXCEPT ![Len(rest)] = v]
           calls2 == Front(calls)
<1>4. stack2 \in Seq(S \cup {v}) /\ Len(stack2) = b /\ \A x \in 1..(b - 1) : stack2[x] = stack[x]
  BY <1>3
<1>5. calls2 \in Seq(FrameSet) /\ Len(calls2) = l - 1 /\ DOMAIN calls2 = 1..(l - 1)
      /\ \A k \in 1..(l - 1) : calls2[k] = calls[k]
  BY <1>1, FrontIs
<1> HIDE DEF stack2, calls2
<1>6. PICK m \in Nat : m = l - 1 /\ m + 1 = l
  BY <1>1
<1>7. \A k \in 1..m : Holds(calls2, 1, k) = Holds(calls, 1, k) /\ calls2[k].kind = calls[k].kind
  <2>1. ASSUME NEW k \in 1..m
        PROVE  Holds(calls2, 1, k) = Holds(calls, 1, k) /\ calls2[k].kind = calls[k].kind
    <3>1. k < Len(calls) /\ calls2[k] = calls[k]
      BY <1>1, <1>5, <1>6
    <3>2. QED
      BY <3>1 DEF Holds
  <2>2. QED
    BY <2>1
<1>8. /\ Base(calls2, 1, l) = b
      /\ \A k \in 1..m : Placed(calls2, 1, stack2, k)
  <2>1. m <= Len(calls) /\ m <= Len(calls2) /\ 1 \in 0..1
    BY <1>1, <1>5, <1>6
  <2>2. \A k \in 1..m : Placed(calls, 1, stack, k)
    BY <1>1, <1>6
  <2>3. \A x \in 1..(Base(calls, 1, m + 1) - 1) : stack2[x] = stack[x]
    BY <1>1, <1>4, <1>6
  <2>4. /\ Base(calls2, 1, m + 1) = Base(calls, 1, m + 1)
        /\ \A k \in 1..m : Placed(calls2, 1, stack2, k)
    <3>1. Keeps(calls, 1, stack, calls2, 1, stack2, m)
      BY <1>5, <1>7, <2>1, <2>2, <2>3 DEF Keeps
    <3>2. QED
      BY <3>1, StillPlaced
  <2>5. QED
    BY <1>1, <1>6, <2>4
<1>9. Len(stack2) = Base(calls2, 1, Len(calls2) + 1) - 1 + 1
  BY <1>4, <1>5, <1>6, <1>8
<1>10. InPlace(calls2, 1, stack2, 1)
  BY <1>5, <1>6, <1>8, <1>9 DEF InPlace
<1>11. QED
  BY <1>4, <1>5, <1>10 DEF stack2, calls2

\* EndArray and EndObject.
LEMMA CloseFrame ==
  ASSUME NEW calls \in Seq(FrameSet), calls # << >>, NEW S, NEW stack \in Seq(S),
         InPlace(calls, 1, stack, 1), NEW v, NEW size,
         size = (IF calls[Len(calls)].kind = "array" THEN calls[Len(calls)].count + 1
                 ELSE 2 * (calls[Len(calls)].count + 1)),
         NEW rest, rest = SubSeq(stack, 1, Len(stack) - size)
  PROVE  /\ Front(calls) \in Seq(FrameSet)
         /\ [rest EXCEPT ![Len(rest)] = v] \in Seq(S \cup {v})
         /\ InPlace(Front(calls), 1, [rest EXCEPT ![Len(rest)] = v], 1)
<1>1. PICK l \in Nat \ {0}, b \in Nat \ {0}, c \in Nat :
        /\ l = Len(calls) /\ b = Base(calls, 1, l) /\ c = calls[l].count
        /\ calls[l].kind \in {"object", "array"}
        /\ calls[l].kind = "array" => Len(stack) = b + 1 + c
        /\ calls[l].kind = "object" => Len(stack) = b + 2 + 2 * c
  BY TopFrameIs
<1>2. Len(stack) - size = b /\ Len(stack) >= b
  <2>1. PICK n \in Nat : n = Len(stack)
    OBVIOUS
  <2>2. size = (IF calls[l].kind = "array" THEN c + 1 ELSE 2 * (c + 1))
    BY ONLY <1>1, size = (IF calls[Len(calls)].kind = "array" THEN calls[Len(calls)].count + 1
                          ELSE 2 * (calls[Len(calls)].count + 1))
  <2>3. CASE calls[l].kind = "array"
    BY ONLY <1>1, <2>1, <2>2, <2>3
  <2>4. CASE calls[l].kind = "object"
    <3>1. size = 2 * (c + 1)
      BY ONLY <2>2, <2>4
    <3>2. c \in Nat /\ b \in Nat /\ n = b + 2 + 2 * c
      BY ONLY <1>1, <2>1, <2>4, c \in Nat, b \in Nat
    <3>3. QED
      BY ONLY <2>1, <3>1, <3>2
  <2>5. QED
    BY <1>1, <2>3, <2>4
<1>3. rest \in Seq(S) /\ Len(rest) = b /\ \A x \in 1..b : rest[x] = stack[x]
  <2>1. rest = SubSeq(stack, 1, b)
    BY <1>2
  <2>2. b \in Nat /\ b <= Len(stack) /\ Len(stack) \in Nat
    BY <1>1, <1>2
  <2>3. QED
    BY ONLY <2>1, <2>2, stack \in Seq(S)
<1>4. Len(rest) = Base(calls, 1, Len(calls)) /\ \A x \in 1..Len(rest) : rest[x] = stack[x]
  BY ONLY <1>1, <1>3
<1>5. QED
  BY ONLY <1>3, <1>4, DropFrame, calls \in Seq(FrameSet), calls # << >>, stack \in Seq(S),
          InPlace(calls, 1, stack, 1)

\* StackSound with what it rests on: a name is only read for an object.
NameWanted == at = "key" \/ (at = "string" /\ isKey)
StackInv ==
  /\ frames \in Seq(FrameSet)
  /\ \E S : values \in Seq(S)
  /\ at \in {"new", "done", "value", "key", "string", "number", "after"}
  /\ NameWanted => frames # << >> /\ TopFrame.kind = "object"
  /\ StackSound

Reading == {"value", "key", "string", "number", "after"}

LEMMA Rests ==
  ASSUME StackInv, at \in Reading
  PROVE  InPlace(frames, Named, values, IF at = "after" THEN 1 ELSE 0)
BY DEF StackInv, StackSound, Reading

\* The types of an empty stack.
LEMMA Emptied ==
  ASSUME at' \in {"new", "done"}, frames' = << >>, values' = << >>
  PROVE  StackInv'
<1>1. << >> \in Seq(FrameSet) /\ << >> \in Seq({})
  OBVIOUS
<1>2. \E S : values' \in Seq(S)
  BY <1>1
<1>3. NameWanted' <=> (at' = "key" \/ (at' = "string" /\ isKey'))
  BY DEF NameWanted
<1>4. QED
  BY <1>1, <1>2, <1>3 DEF StackInv, StackSound

LEMMA Refused ==
  ASSUME NEW code, Refuse(code)
  PROVE  StackInv'
BY Emptied DEF Refuse

\* The calls and the stack stay, and the same is wanted of them.
LEMMA Stays ==
  ASSUME StackInv, at \in Reading \ {"after"}, at' \in Reading \ {"after"},
         frames' = frames, values' = values, Named' = Named, NameWanted' => NameWanted
  PROVE  StackInv'
<1>1. InPlace(frames, Named, values, 0)
  BY Rests DEF Reading
<1>2. at' \notin {"new", "done"} /\ at' # "after"
  BY DEF Reading
<1>3. StackSound'
  BY <1>1, <1>2 DEF StackSound
<1>4. TopFrame' = TopFrame
  BY DEF TopFrame
<1>5. at' \in {"new", "done", "value", "key", "string", "number", "after"}
  BY DEF Reading
<1>6. QED
  BY <1>3, <1>4, <1>5 DEF StackInv

\* A value is there.
LEMMA Arrives ==
  ASSUME StackInv, at \in Reading \ {"after"}, Named = 1,
         NEW v, values' = Append(values, v), frames' = frames, at' = "after"
  PROVE  StackInv'
<1>1. InPlace(frames, 1, values, 0)
  BY Rests DEF Reading
<1>2. PICK S : values \in Seq(S)
  BY DEF StackInv
<1>3. values' \in Seq(S \cup {v}) /\ frames \in Seq(FrameSet)
  BY <1>2 DEF StackInv
<1>4. InPlace(frames', 1, values', 1)
  BY <1>1, <1>2, <1>3, PushValue
<1>5. Named' = 1 /\ ~NameWanted'
  BY DEF Named, NameWanted
<1>6. StackSound'
  BY <1>4, <1>5 DEF StackSound
<1>7. QED
  BY <1>3, <1>5, <1>6 DEF StackInv

LEMMA ParseLiteralStep == ASSUME StackInv, ParseLiteral PROVE StackInv'
<1>1. at = "value" /\ at \in Reading \ {"after"} /\ Named = 1
  BY DEF ParseLiteral, Named, Reading
<1>2. CASE \E literal \in Literals :
             Push(literal.value) /\ MoveTo(pos + Len(literal.word), "after") /\ UNCHANGED frames
  BY <1>1, <1>2, Arrives DEF Push, MoveTo
<1>3. CASE Refuse("VALUE_INVALID")
  BY <1>3, Refused
<1>4. QED
  BY <1>2, <1>3 DEF ParseLiteral

LEMMA BeginStringStep == ASSUME StackInv, BeginString PROVE StackInv'
<1>1. /\ at \in {"value", "key"} /\ at' = "string" /\ isKey' = (at = "key")
      /\ frames' = frames /\ values' = values
  BY DEF BeginString, MoveTo
<1>2. at \in Reading \ {"after"} /\ at' \in Reading \ {"after"}
  BY <1>1 DEF Reading
<1>3. CASE at = "value"
  <2>1. ~isKey'
    BY <1>1, <1>3
  <2>2. Named = 1 /\ Named' = 1 /\ ~NameWanted'
    BY <1>1, <1>3, <2>1 DEF Named, NameWanted
  <2>3. QED
    BY <1>1, <1>2, <2>2, Stays
<1>4. CASE at = "key"
  <2>1. isKey'
    BY <1>1, <1>4
  <2>2. Named = 0 /\ Named' = 0 /\ NameWanted
    BY <1>1, <1>4, <2>1 DEF Named, NameWanted
  <2>3. QED
    BY <1>1, <1>2, <2>2, Stays
<1>5. QED
  BY <1>1, <1>3, <1>4

LEMMA OpenStep ==
  ASSUME StackInv, NEW kind \in {"object", "array"}, NEW opening, NEW closing,
         Open(kind, opening, closing, IF kind = "object" THEN "key" ELSE "value")
  PROVE  StackInv'
<1>1. /\ at = "value" /\ at \in Reading \ {"after"} /\ Named = 1
      /\ values' = Append(values, Placeholder(kind))
  BY DEF Open, Push, Named, Reading
<1>2. CASE at' = "after" /\ frames' = frames
  BY <1>1, <1>2, Arrives
<1>3. CASE /\ at' = (IF kind = "object" THEN "key" ELSE "value")
           /\ frames' = Append(frames, Frame(kind))
  <2>1. InPlace(frames, 1, values, 0)
    BY <1>1, Rests DEF Reading
  <2>2. PICK S : values \in Seq(S)
    BY DEF StackInv
  <2>3. frames \in Seq(FrameSet)
    BY DEF StackInv
  <2>4. Named' \in 0..1 /\ (kind = "object" => Named' = 0)
    BY <1>3 DEF Named
  <2>5. frames' \in Seq(FrameSet) /\ InPlace(frames', Named', values', 0)
    BY <1>1, <1>3, <2>1, <2>2, <2>3, <2>4, OpenFrame
  <2>6. at' \in {"key", "value"}
    BY <1>3
  <2>7. StackSound'
    BY <2>5, <2>6 DEF StackSound
  <2>8. values' \in Seq(S \cup {Placeholder(kind)})
    BY <1>1, <2>2
  <2>9. NameWanted' => frames' # << >> /\ TopFrame'.kind = "object"
    <3>1. NameWanted' => kind = "object"
      BY <1>3 DEF NameWanted
    <3>2. frames' # << >> /\ Last(frames') = Frame(kind)
      <4>1. Frame(kind) \in FrameSet
        BY DEF Frame, FrameSet
      <4>2. QED
        BY <1>3, <2>3, <4>1 DEF Last
    <3>3. TopFrame'.kind = kind
      BY <3>2 DEF TopFrame, Frame
    <3>4. QED
      BY <3>1, <3>2, <3>3
  <2>10. QED
    BY <2>5, <2>6, <2>7, <2>8, <2>9 DEF StackInv
<1>4. QED
  BY <1>2, <1>3 DEF Open, MoveTo

LEMMA OpenObjectStep == ASSUME StackInv, OpenObject PROVE StackInv'
BY OpenStep DEF OpenObject

LEMMA OpenArrayStep == ASSUME StackInv, OpenArray PROVE StackInv'
BY OpenStep DEF OpenArray

LEMMA BeginNumberStep == ASSUME StackInv, BeginNumber PROVE StackInv'
<1>1. at = "value" /\ at' = "number" /\ frames' = frames /\ values' = values
  BY DEF BeginNumber, MoveTo
<1>2. /\ Named = 1 /\ Named' = 1 /\ ~NameWanted' /\ at \in Reading \ {"after"}
      /\ at' \in Reading \ {"after"}
  BY <1>1 DEF Named, NameWanted, Reading
<1>3. QED
  BY <1>1, <1>2, Stays

\* Whatever does not touch what the reader holds.
LEMMA Untouched == ASSUME StackInv, UNCHANGED parserVars PROVE StackInv'
BY DEF parserVars, StackInv, NameWanted, TopFrame, StackSound, Named

LEMMA EndNumberStep == ASSUME StackInv, EndNumber PROVE StackInv'
<1>1. at = "number" /\ at \in Reading \ {"after"} /\ Named = 1
  BY DEF EndNumber, Named, Reading
<1>2. CASE Refuse(error)
  BY <1>2, Refused
<1>3. CASE phase = "done" /\ ~Refuse(error)
  <2>1. PICK v : Push(v) /\ at' = "after" /\ frames' = frames
    BY <1>3 DEF EndNumber, MoveTo
  <2>2. QED
    BY <1>1, <2>1, Arrives DEF Push
<1>4. QED
  BY <1>2, <1>3 DEF EndNumber

LEMMA PutCharsStep ==
  ASSUME StackInv, at = "string", NEW s, NEW length, PutChars(s, length)
  PROVE  StackInv'
<1>1. at' = at /\ isKey' = isKey /\ frames' = frames /\ values' = values
  BY DEF PutChars, MoveTo
<1>2. /\ Named' = Named /\ NameWanted' = NameWanted /\ at \in Reading \ {"after"}
      /\ at' \in Reading \ {"after"}
  BY <1>1 DEF Named, NameWanted, Reading
<1>3. QED
  BY <1>1, <1>2, Stays

LEMMA StringStep ==
  ASSUME StackInv, StringChar \/ StringEscape \/ StringUnicode \/ StringFails
  PROVE  StackInv'
<1>1. at = "string"
  BY DEF StringChar, StringEscape, StringUnicode, StringFails
<1>2. \/ \E s, length : PutChars(s, length)
      \/ \E code : Refuse(code)
  BY DEF StringChar, StringEscape, StringUnicode, StringFails
<1>3. QED
  BY <1>1, <1>2, PutCharsStep, Refused

LEMMA EndStringStep == ASSUME StackInv, EndString PROVE StackInv'
<1>1. at = "string" /\ at \in Reading \ {"after"}
  BY DEF EndString, Reading
<1>2. CASE \E code : Refuse(code)
  BY <1>2, Refused
<1>3. CASE values' = Append(values, JString(chars)) /\ frames' = frames /\ isKey' = isKey
           /\ at' = IF isKey THEN "value" ELSE "after"
  <2>1. CASE ~isKey
    <3>1. Named = 1 /\ at' = "after"
      BY <1>1, <1>3, <2>1 DEF Named
    <3>2. QED
      BY <1>1, <1>3, <3>1, Arrives
  <2>2. CASE isKey
    <3>1. Named = 0 /\ at' = "value" /\ Named' = 1 /\ ~NameWanted' /\ NameWanted
      BY <1>1, <1>3, <2>2 DEF Named, NameWanted
    <3>2. InPlace(frames, 0, values, 0)
      BY <1>1, <3>1, Rests DEF Reading
    <3>3. PICK S : values \in Seq(S)
      BY DEF StackInv
    <3>4. frames \in Seq(FrameSet) /\ frames # << >> /\ frames[Len(frames)].kind = "object"
      BY <3>1 DEF StackInv, TopFrame, Last
    <3>5. JString(chars).json = "string"
      BY DEF JString
    <3>6. InPlace(frames', Named', values', 0)
      BY <1>3, <3>1, <3>2, <3>3, <3>4, <3>5, PushName
    <3>7. StackSound'
      BY <3>1, <3>6 DEF StackSound
    <3>8. values' \in Seq(S \cup {JString(chars)})
      BY <1>3, <3>3
    <3>9. QED
      BY <1>3, <3>1, <3>4, <3>7, <3>8 DEF StackInv
  <2>3. QED
    BY <2>1, <2>2
<1>4. \/ \E code : Refuse(code)
      \/ /\ values' = Append(values, JString(chars)) /\ frames' = frames /\ isKey' = isKey
         /\ at' = IF isKey THEN "value" ELSE "after"
  BY DEF EndString, Push, MoveTo
<1>5. QED
  BY <1>2, <1>3, <1>4

LEMMA NextValueStep == ASSUME StackInv, NextValue PROVE StackInv'
<1>1. at = "after" /\ frames # << >> /\ values' = values /\ Named = 1
  BY DEF NextValue, Named
<1>2. /\ frames' = Append(Front(frames), [Last(frames) EXCEPT !.count = @ + 1])
      /\ at' = IF TopFrame.kind = "array" THEN "value" ELSE "key"
  BY DEF NextValue, MoveTo, TopFrame
<1>3. InPlace(frames, 1, values, 1)
  BY <1>1, Rests DEF Reading
<1>4. PICK S : values \in Seq(S)
  BY DEF StackInv
<1>5. frames \in Seq(FrameSet) /\ TopFrame = frames[Len(frames)]
  BY DEF StackInv, TopFrame, Last
<1>6. TopFrame.kind \in {"object", "array"}
  <2>1. Len(frames) \in 1..Len(frames)
    BY <1>1, <1>5
  <2>2. frames[Len(frames)] \in FrameSet
    BY <1>5, <2>1
  <2>3. QED
    BY <1>5, <2>2 DEF FrameSet
<1>7. Named' \in 0..1 /\ (frames[Len(frames)].kind = "object" => Named' = 0)
  BY <1>2, <1>5 DEF Named
<1>8. /\ frames' \in Seq(FrameSet) /\ frames' # << >>
      /\ Last(frames').kind = frames[Len(frames)].kind
      /\ InPlace(frames', Named', values, 0)
  <2>1. frames' = Append(Front(frames), [Last(frames) EXCEPT !.count = @ + 1])
    BY <1>2
  <2>2. PICK calls2 : \E n \in 0..1 : calls2 = frames' /\ n = Named'
    BY <1>7
  <2>3. PICK named \in 0..1 : calls2 = frames' /\ named = Named'
    BY <2>2
  <2>4. calls2 = Append(Front(frames), [Last(frames) EXCEPT !.count = @ + 1])
    BY <2>1, <2>3, Zenon
  <2>5. frames[Len(frames)].kind = "object" => named = 0
    BY <1>7, <2>3, Zenon
  <2>6. frames \in Seq(FrameSet) /\ frames # << >> /\ values \in Seq(S)
    BY <1>1, <1>4, <1>5, Zenon
  <2>7. /\ calls2 \in Seq(FrameSet) /\ calls2 # << >>
        /\ Last(calls2).kind = frames[Len(frames)].kind
        /\ InPlace(calls2, named, values, 0)
    BY ONLY <1>3, <2>4, <2>5, <2>6, named \in 0..1, CountValue, Zenon
  <2>8. QED
    BY <2>3, <2>7, Zenon
<1>9. at' \in {"value", "key"}
  BY <1>2
<1>10. StackSound'
  BY <1>1, <1>8, <1>9 DEF StackSound
<1>11. NameWanted' => TopFrame'.kind = "object"
  BY <1>2, <1>5, <1>6, <1>8 DEF NameWanted, TopFrame
<1>12. QED
  BY <1>1, <1>4, <1>8, <1>9, <1>10, <1>11 DEF StackInv

LEMMA CloseStep == ASSUME StackInv, Close PROVE StackInv'
<1>1. /\ at = "after" /\ frames # << >> /\ at' = "after"
      /\ values' = Ended(TopFrame.count + 1) /\ frames' = Front(frames) /\ Named = 1
  BY DEF Close, MoveTo, Named
<1>2. InPlace(frames, 1, values, 1)
  BY <1>1, Rests DEF Reading
<1>3. PICK S : values \in Seq(S)
  BY DEF StackInv
<1>4. frames \in Seq(FrameSet) /\ TopFrame = frames[Len(frames)]
  BY DEF StackInv, TopFrame, Last
<1> DEFINE count == TopFrame.count + 1
           size == IF TopFrame.kind = "array" THEN count ELSE 2 * count
           rest == SubSeq(values, 1, Len(values) - size)
           taken == SubSeq(values, Len(rest) + 1, Len(values))
           v == IF TopFrame.kind = "array" THEN JArray(taken)
                ELSE JObject([k \in 1..count |-> Member(taken[2 * k - 1], taken[2 * k])])
<1>5. values' = [rest EXCEPT ![Len(rest)] = v]
  BY <1>1 DEF Ended
<1>6. size = (IF frames[Len(frames)].kind = "array" THEN frames[Len(frames)].count + 1
              ELSE 2 * (frames[Len(frames)].count + 1))
  BY <1>4
<1>7. rest = SubSeq(values, 1, Len(values) - size)
  OBVIOUS
<1> HIDE DEF count, size, rest, taken, v
<1>8. /\ frames' \in Seq(FrameSet) /\ values' \in Seq(S \cup {v})
      /\ InPlace(frames', 1, values', 1)
  <2>1. /\ Front(frames) \in Seq(FrameSet)
        /\ [rest EXCEPT ![Len(rest)] = v] \in Seq(S \cup {v})
        /\ InPlace(Front(frames), 1, [rest EXCEPT ![Len(rest)] = v], 1)
    BY ONLY <1>1, <1>2, <1>3, <1>4, <1>6, <1>7, CloseFrame
  <2>2. QED
    BY <1>1, <1>5, <2>1
<1>9. Named' = 1 /\ ~NameWanted'
  BY <1>1 DEF Named, NameWanted
<1>10. StackSound'
  BY <1>1, <1>8, <1>9 DEF StackSound
<1>11. QED
  BY <1>1, <1>8, <1>9, <1>10 DEF StackInv

LEMMA EndDocumentStep == ASSUME StackInv, EndDocument PROVE StackInv'
<1>1. CASE \E code : Refuse(code)
  BY <1>1, Refused
<1>2. CASE at' = "done" /\ values' = Front(values) /\ frames' = frames
  <2>1. at = "after" /\ frames = << >> /\ Named = 1
    BY DEF EndDocument, Named
  <2>2. InPlace(frames, 1, values, 1)
    BY <2>1, Rests DEF Reading
  <2>3. Base(frames, 1, 1) = 1
    BY BaseIs DEF StackInv
  <2>4. Len(values) = 1
    BY <2>1, <2>2, <2>3 DEF InPlace
  <2>5. values' = << >>
    BY <1>2, <2>4 DEF Front, StackInv
  <2>6. QED
    BY <1>2, <2>1, <2>5, Emptied
<1>3. QED
  BY <1>1, <1>2 DEF EndDocument

LEMMA ParseStep == ASSUME StackInv, NEW document, Parse(document) PROVE StackInv'
<1>1. at = "new" /\ at' \in {"done", "value"} /\ frames' = frames /\ values' = values
  BY DEF Parse
<1>2. frames = << >> /\ values = << >>
  BY <1>1 DEF StackInv, StackSound
<1>3. CASE at' = "done"
  BY <1>1, <1>2, <1>3, Emptied
<1>4. CASE at' = "value"
  <2>1. Named' = 1 /\ ~NameWanted'
    BY <1>4 DEF Named, NameWanted
  <2>2. << >> \in Seq(FrameSet) /\ Len(<< >>) = 0 /\ DOMAIN << >> = {}
    OBVIOUS
  <2>3. Base(<< >>, 1, 1) = 1
    <3>1. Base(frames, 1, 1) = 1
      BY BaseIs DEF StackInv
    <3>2. QED
      BY <1>2, <3>1
  <2>4. InPlace(<< >>, 1, << >>, 0)
    BY <2>2, <2>3 DEF InPlace
  <2>5. StackSound'
    BY <1>1, <1>2, <1>4, <2>1, <2>4 DEF StackSound
  <2>6. QED
    BY <1>1, <1>4, <2>1, <2>5 DEF StackInv
<1>5. QED
  BY <1>1, <1>3, <1>4

LEMMA DocumentStep == ASSUME StackInv, [DocumentNext]_documentVars PROVE StackInv'
<1>1. CASE PrintOn \/ UNCHANGED documentVars
  BY <1>1, Untouched DEF PrintOn, documentVars
<1>2. CASE ParsePrinted \/ ParseForeign
  BY <1>2, ParseStep DEF ParsePrinted, ParseForeign
<1>3. CASE ParseOn
  <2>1. CASE ParseLiteral \/ BeginString \/ OpenObject \/ OpenArray \/ BeginNumber
    BY <2>1, ParseLiteralStep, BeginStringStep, OpenObjectStep, OpenArrayStep, BeginNumberStep
  <2>2. CASE MissingName \/ MissingComma
    BY <2>2, Refused DEF MissingName, MissingComma
  <2>3. CASE ReadNumber \/ EndNumber
    BY <2>3, Untouched, EndNumberStep DEF ReadNumber
  <2>4. CASE StringChar \/ StringEscape \/ StringUnicode \/ StringFails \/ EndString
    BY <2>4, StringStep, EndStringStep
  <2>5. CASE NextValue \/ Close \/ EndDocument
    BY <2>5, NextValueStep, CloseStep, EndDocumentStep
  <2>6. QED
    BY <1>3, <2>1, <2>2, <2>3, <2>4, <2>5 DEF ParseOn, ParserNext
<1>4. QED
  BY <1>1, <1>2, <1>3 DEF DocumentNext

\* Whatever the document, and wherever it is wrong: each call finds its placeholder
\* below its values and its names among them, so EndArray and EndObject take off the
\* stack what was counted; in the end nothing is left.
THEOREM SpecStackSound == DocumentSpec => []StackSound
<1>1. DocumentInit => StackInv
  <2>1. << >> \in Seq(FrameSet) /\ << >> \in Seq({})
    OBVIOUS
  <2>2. QED
    BY <2>1 DEF DocumentInit, ParserInit, StackInv, StackSound, NameWanted
<1>2. StackInv /\ [DocumentNext]_documentVars => StackInv'
  BY DocumentStep
<1>3. StackInv => StackSound
  BY DEF StackInv
<1>4. QED
  BY <1>1, <1>2, <1>3, PTL DEF DocumentSpec

\* Induction up to n, over a set of numbers.
LEMMA UpTo ==
  ASSUME NEW n \in Nat, NEW T, 0 \in T, \A j \in 0..(n - 1) : j \in T => j + 1 \in T
  PROVE  \A j \in 0..n : j \in T
<1> DEFINE Bad == {j \in 0..n : j \notin T}
<1> SUFFICES ASSUME Bad # {} PROVE FALSE
  OBVIOUS
<1>1. Bad \in SUBSET Nat
  OBVIOUS
<1>2. PICK x \in Bad : \A y \in Bad : x <= y
  <2> HIDE DEF Bad
  <2>1. QED
    BY <1>1, LeastNat
<1>3. x \in 0..n /\ x \notin T /\ x # 0
  OBVIOUS
<1>4. x - 1 \in 0..(n - 1) /\ (x - 1) + 1 = x /\ x - 1 \in 0..n /\ ~(x <= x - 1)
  BY <1>3
<1>5. x - 1 \in T
  BY <1>2, <1>4
<1>6. QED
  BY <1>3, <1>4, <1>5

-----------------------------------------------------------------------------
(***************************************************************************)
(* FlattenSeq: the sequences ss one after the other, and how far the first *)
(* n of them reach.                                                        *)
(***************************************************************************)
FlatStep(ss, f, j) == IF j = 1 THEN ss[j] ELSE f[j - 1] \o ss[j]
IsFlat(ss, f, k) == f = [j \in 1..k |-> FlatStep(ss, f, j)]
Flat(ss, n) == IF n = 0 THEN << >> ELSE (CHOOSE f : IsFlat(ss, f, Len(ss)))[n]

\* The recursive function has a solution.
LEMMA FlatSolved == ASSUME NEW ss, NEW n \in Nat PROVE \E f : IsFlat(ss, f, n)
<1> DEFINE T == {k \in 0..n : \E f : IsFlat(ss, f, k)}
<1>1. 0 \in T
  <2>1. IsFlat(ss, << >>, 0)
    BY DEF IsFlat
  <2>2. QED
    BY <2>1
<1>2. ASSUME NEW k \in 0..(n - 1), k \in T PROVE k + 1 \in T
  <2>1. PICK f : IsFlat(ss, f, k)
    BY <1>2
  <2> DEFINE g == [j \in 1..(k + 1) |-> IF j = k + 1 THEN FlatStep(ss, f, j) ELSE f[j]]
  <2>2. \A j \in 1..k : f[j] = FlatStep(ss, f, j)
    BY <2>1 DEF IsFlat
  <2>3. \A j \in 1..(k + 1) : g[j] = FlatStep(ss, f, j)
    <3> TAKE j \in 1..(k + 1)
    <3>1. j # k + 1 => j \in 1..k
      OBVIOUS
    <3>2. QED
      BY ONLY j \in 1..(k + 1), <2>2, <3>1, Zenon
  <2>4. \A j \in 1..(k + 1) : j # 1 => g[j - 1] = f[j - 1]
    <3> TAKE j \in 1..(k + 1)
    <3>1. j # 1 => j - 1 \in 1..(k + 1) /\ j - 1 # k + 1
      OBVIOUS
    <3>2. QED
      BY ONLY <3>1, Zenon
  <2>5. g = [j \in 1..(k + 1) |-> g[j]]
    OBVIOUS
  <2> HIDE DEF g
  <2>6. \A j \in 1..(k + 1) : g[j] = FlatStep(ss, g, j)
    <3> TAKE j \in 1..(k + 1)
    <3>1. FlatStep(ss, g, j) = FlatStep(ss, f, j)
      BY ONLY <2>4, j \in 1..(k + 1), Zenon DEF FlatStep
    <3>2. QED
      BY ONLY <2>3, <3>1, j \in 1..(k + 1), Zenon
  <2>7. IsFlat(ss, g, k + 1)
    BY <2>5, <2>6 DEF IsFlat
  <2>8. QED
    BY <2>7
<1> HIDE DEF T
<1>3. \A k \in 0..n : k \in T
  BY ONLY n \in Nat, <1>1, <1>2, UpTo
<1>4. QED
  BY <1>3 DEF T

\* How it goes on, and that it ends with all of them.
LEMMA FlatGoesOn ==
  ASSUME NEW S, NEW ss \in Seq(Seq(S))
  PROVE  /\ Flat(ss, 0) = << >>
         /\ \A n \in 1..Len(ss) : Flat(ss, n) = Flat(ss, n - 1) \o ss[n]
         /\ FlattenSeq(ss) = Flat(ss, Len(ss))
<1> DEFINE f == CHOOSE g : IsFlat(ss, g, Len(ss))
<1>1. Len(ss) \in Nat /\ \A n \in 1..Len(ss) : ss[n] \in Seq(S)
  OBVIOUS
<1>2. IsFlat(ss, f, Len(ss))
  BY <1>1, FlatSolved
<1>3. Flat(ss, 0) = << >> /\ \A n \in 1..Len(ss) : Flat(ss, n) = f[n]
  BY <1>1 DEF Flat
<1>4. FlattenSeq(ss) = Flat(ss, Len(ss))
  <2>1. CASE Len(ss) = 0
    BY <1>3, <2>1, EmptySeq DEF FlattenSeq
  <2>2. CASE Len(ss) # 0
    <3>1. FlattenSeq(ss) = f[Len(ss)]
      BY <2>2, Zenon DEF FlattenSeq, IsFlat, FlatStep
    <3>2. Len(ss) \in 1..Len(ss)
      BY <1>1, <2>2
    <3>3. QED
      BY ONLY <1>3, <3>1, <3>2, Zenon
  <2>3. QED
    BY <2>1, <2>2
<1> HIDE DEF f
<1>5. \A n \in 1..Len(ss) : f[n] = FlatStep(ss, f, n)
  BY <1>2 DEF IsFlat
<1>6. ASSUME NEW n \in 1..Len(ss) PROVE Flat(ss, n) = Flat(ss, n - 1) \o ss[n]
  <2>1. CASE n = 1
    <3>1. Flat(ss, n) = ss[n] /\ Flat(ss, n - 1) = << >>
      BY <1>3, <1>5, <2>1 DEF FlatStep
    <3>2. << >> \o ss[n] = ss[n]
      BY <1>1
    <3>3. QED
      BY ONLY <3>1, <3>2, Zenon
  <2>2. CASE n # 1
    <3>1. n - 1 \in 1..Len(ss)
      BY <1>1, <2>2
    <3>2. Flat(ss, n) = f[n] /\ Flat(ss, n - 1) = f[n - 1]
      BY ONLY <1>3, <3>1, n \in 1..Len(ss), Zenon
    <3>3. f[n] = f[n - 1] \o ss[n]
      BY ONLY <1>5, <2>2, n \in 1..Len(ss), Zenon DEF FlatStep
    <3>4. QED
      BY ONLY <3>2, <3>3, Zenon
  <2>3. QED
    BY <2>1, <2>2
<1>7. QED
  BY <1>3, <1>4, <1>6

\* It is made of what they are made of.
LEMMA FlatType ==
  ASSUME NEW S, NEW ss \in Seq(Seq(S))
  PROVE  \A n \in 0..Len(ss) : Flat(ss, n) \in Seq(S)
<1> DEFINE T == {n \in 0..Len(ss) : Flat(ss, n) \in Seq(S)}
<1>1. Len(ss) \in Nat /\ \A n \in 1..Len(ss) : ss[n] \in Seq(S)
  OBVIOUS
<1>2. 0 \in T
  <2>1. Flat(ss, 0) = << >>
    BY FlatGoesOn
  <2>2. << >> \in Seq(S)
    OBVIOUS
  <2>3. Flat(ss, 0) \in Seq(S)
    BY ONLY <2>1, <2>2, Zenon
  <2>4. QED
    BY <1>1, <2>3
<1>3. ASSUME NEW n \in 0..(Len(ss) - 1), n \in T PROVE n + 1 \in T
  <2>1. n + 1 \in 1..Len(ss) /\ n + 1 \in 0..Len(ss) /\ (n + 1) - 1 = n
    BY <1>1
  <2>2. Flat(ss, n + 1) = Flat(ss, n) \o ss[n + 1]
    BY <2>1, FlatGoesOn
  <2>3. Flat(ss, n) \in Seq(S) /\ ss[n + 1] \in Seq(S)
    BY <1>1, <1>3, <2>1
  <2>4. Flat(ss, n + 1) \in Seq(S)
    BY <2>2, <2>3, ConcatProperties
  <2>5. QED
    BY <2>1, <2>4
<1> HIDE DEF T
<1>4. \A n \in 0..Len(ss) : n \in T
  BY ONLY <1>1, <1>2, <1>3, UpTo
<1>5. QED
  BY <1>4 DEF T

\* What the first n begin with stays.
Begins(a, b) == Len(a) <= Len(b) /\ \A j \in 1..Len(a) : b[j] = a[j]

LEMMA FlatGrows ==
  ASSUME NEW S, NEW ss \in Seq(Seq(S)), NEW n \in 0..Len(ss)
  PROVE  Begins(Flat(ss, n), FlattenSeq(ss))
<1> DEFINE a == Flat(ss, n)
           k == Len(ss) - n
           T == {j \in 0..k : Begins(a, Flat(ss, n + j))}
<1>1. Len(ss) \in Nat /\ n \in Nat /\ k \in Nat /\ n + k = Len(ss)
  OBVIOUS
<1>2. \A j \in 0..Len(ss) : Flat(ss, j) \in Seq(S) /\ Len(Flat(ss, j)) \in Nat
  BY FlatType
<1>3. 0 \in T
  <2>1. n + 0 = n /\ 0 \in 0..k
    BY <1>1
  <2>2. Len(a) \in Nat
    BY <1>2
  <2>3. Begins(a, a)
    BY <2>2 DEF Begins
  <2>4. QED
    BY <2>1, <2>3
<1>4. ASSUME NEW j \in 0..(k - 1), j \in T PROVE j + 1 \in T
  <2> DEFINE b == Flat(ss, n + j)
             c == Flat(ss, n + (j + 1))
  <2>1. /\ n + (j + 1) \in 1..Len(ss) /\ (n + (j + 1)) - 1 = n + j
        /\ n + j \in 0..Len(ss) /\ j + 1 \in 0..k
    BY <1>1
  <2>2. c = b \o ss[n + (j + 1)]
    BY <2>1, FlatGoesOn
  <2>3. /\ a \in Seq(S) /\ b \in Seq(S) /\ ss[n + (j + 1)] \in Seq(S)
    BY <1>2, <2>1
  <2>4. Begins(a, b)
    BY <1>4
  <2> HIDE DEF a, b, c
  <2>5. Len(c) >= Len(b) /\ \A h \in 1..Len(b) : c[h] = b[h]
    BY <2>2, <2>3, ConcatProperties
  <2>6. Begins(a, c)
    BY <2>3, <2>4, <2>5, <2>2, ConcatProperties DEF Begins
  <2>7. QED
    BY <2>1, <2>6 DEF c
<1> HIDE DEF T, k
<1>5. \A j \in 0..k : j \in T
  BY ONLY <1>1, <1>3, <1>4, UpTo
<1>6. k \in 0..k
  BY <1>1
<1>7. Begins(a, Flat(ss, n + k))
  BY <1>5, <1>6 DEF T
<1>8. QED
  BY <1>1, <1>7, FlatGoesOn

\* Where the n-th of them is.
LEMMA FlatPart ==
  ASSUME NEW S, NEW ss \in Seq(Seq(S)), NEW n \in 1..Len(ss)
  PROVE  /\ Len(Flat(ss, n)) = Len(Flat(ss, n - 1)) + Len(ss[n])
         /\ Len(Flat(ss, n)) <= Len(FlattenSeq(ss))
         /\ \A h \in 1..Len(ss[n]) : FlattenSeq(ss)[Len(Flat(ss, n - 1)) + h] = ss[n][h]
<1> DEFINE a == Flat(ss, n - 1)
           b == Flat(ss, n)
           x == ss[n]
           whole == FlattenSeq(ss)
<1>1. n \in 0..Len(ss) /\ n - 1 \in 0..Len(ss) /\ x \in Seq(S)
  OBVIOUS
<1>2. a \in Seq(S) /\ b \in Seq(S)
  BY <1>1, FlatType
<1>3. b = a \o x
  BY FlatGoesOn
<1>4. Begins(b, whole)
  BY <1>1, FlatGrows
<1> HIDE DEF a, b, x, whole
<1>5. /\ Len(b) = Len(a) + Len(x) /\ Len(a) \in Nat /\ Len(x) \in Nat
      /\ \A h \in 1..Len(x) : b[Len(a) + h] = x[h]
  BY <1>1, <1>2, <1>3
<1>6. \A h \in 1..Len(x) : Len(a) + h \in 1..Len(b)
  BY <1>5
<1>7. \A h \in 1..Len(x) : whole[Len(a) + h] = x[h]
  BY <1>4, <1>5, <1>6 DEF Begins
<1>8. QED
  BY <1>4, <1>5, <1>7 DEF Begins, a, b, x, whole

-----------------------------------------------------------------------------
\* One more at the end.
LEMMA FlatAppend ==
  ASSUME NEW S, NEW ss \in Seq(Seq(S)), NEW x \in Seq(S)
  PROVE  /\ FlattenSeq(Append(ss, x)) = FlattenSeq(ss) \o x
         /\ FlattenSeq(ss) \in Seq(S)
<1> DEFINE l == Len(ss)
           more == Append(ss, x)
           T == {n \in 0..l : Flat(more, n) = Flat(ss, n)}
<1>1. /\ l \in Nat /\ more \in Seq(Seq(S)) /\ Len(more) = l + 1
      /\ more[l + 1] = x /\ \A n \in 1..l : more[n] = ss[n]
  OBVIOUS
<1> HIDE DEF more
<1>2. 0 \in T
  <2>1. Flat(more, 0) = << >> /\ Flat(ss, 0) = << >>
    BY <1>1, FlatGoesOn
  <2>2. QED
    BY <1>1, <2>1
<1>3. ASSUME NEW n \in 0..(l - 1), n \in T PROVE n + 1 \in T
  <2>1. n + 1 \in 1..l /\ n + 1 \in 1..Len(more) /\ (n + 1) - 1 = n /\ n + 1 \in 0..l
    BY <1>1
  <2>2. Flat(more, n + 1) = Flat(more, n) \o more[n + 1]
    BY <1>1, <2>1, FlatGoesOn
  <2>3. Flat(ss, n + 1) = Flat(ss, n) \o ss[n + 1]
    BY <2>1, FlatGoesOn
  <2>4. more[n + 1] = ss[n + 1] /\ Flat(more, n) = Flat(ss, n)
    BY <1>1, <1>3, <2>1
  <2>5. QED
    BY <2>1, <2>2, <2>3, <2>4
<1> HIDE DEF T
<1>4. \A n \in 0..l : n \in T
  BY ONLY <1>1, <1>2, <1>3, UpTo
<1>5. Flat(more, l) = FlattenSeq(ss)
  <2>1. l \in 0..l
    BY <1>1
  <2>2. l \in T
    BY ONLY <1>4, <2>1, Zenon
  <2>3. QED
    BY <2>2, FlatGoesOn DEF T
<1>6. FlattenSeq(more) = Flat(more, l + 1) /\ Flat(more, l + 1) = Flat(more, l) \o more[l + 1]
  <2>1. l + 1 \in 1..Len(more) /\ (l + 1) - 1 = l
    BY <1>1
  <2>2. QED
    BY <1>1, <2>1, FlatGoesOn
<1>7. FlattenSeq(ss) \in Seq(S)
  <2>1. l \in 0..l
    BY <1>1
  <2>2. QED
    BY <2>1, FlatType, FlatGoesOn
<1>8. QED
  BY <1>1, <1>5, <1>6, <1>7 DEF more

\* A sequence is what is before its last element, and that.
LEMMA FrontLast ==
  ASSUME NEW S, NEW s \in Seq(S), s # << >>
  PROVE  /\ Front(s) \in Seq(S) /\ Last(s) \in S /\ Last(s) = s[Len(s)]
         /\ Len(s) \in Nat \ {0} /\ Len(Front(s)) = Len(s) - 1
         /\ s = Append(Front(s), Last(s))
         /\ \A k \in 1..(Len(s) - 1) : Front(s)[k] = s[k]
<1>1. Len(s) \in Nat \ {0}
  BY EmptySeq
<1>2. Last(s) = s[Len(s)] /\ Last(s) \in S
  BY <1>1 DEF Last
<1>3. /\ Front(s) \in Seq(S) /\ Len(Front(s)) = Len(s) - 1
      /\ \A k \in 1..(Len(s) - 1) : Front(s)[k] = s[k]
  BY FrontIs
<1>4. s = Append(Front(s), Last(s))
  <2> DEFINE t == Append(Front(s), Last(s))
  <2>1. t \in Seq(S) /\ Len(t) = Len(s) /\ \A k \in 1..Len(s) : t[k] = s[k]
    BY <1>1, <1>2, <1>3
  <2> HIDE DEF t
  <2>2. t = s
    BY <2>1, SeqEqual
  <2>3. QED
    BY <2>2 DEF t
<1>5. QED
  BY <1>1, <1>2, <1>3, <1>4

LEMMA AppendIs ==
  ASSUME NEW S, NEW s \in Seq(S), NEW x \in S
  PROVE  /\ Append(s, x) \in Seq(S) /\ Append(s, x) # << >>
         /\ Front(Append(s, x)) = s /\ Last(Append(s, x)) = x
         /\ Len(Append(s, x)) = Len(s) + 1 /\ Len(s) \in Nat
         /\ Append(s, x)[Len(s) + 1] = x
         /\ \A k \in 1..Len(s) : Append(s, x)[k] = s[k]
<1> DEFINE t == Append(s, x)
<1>1. /\ t \in Seq(S) /\ Len(t) = Len(s) + 1 /\ Len(s) \in Nat
      /\ t[Len(s) + 1] = x /\ \A k \in 1..Len(s) : t[k] = s[k]
  OBVIOUS
<1> HIDE DEF t
<1>2. t # << >>
  BY <1>1, EmptySeq
<1>3. /\ Front(t) \in Seq(S) /\ Last(t) = t[Len(t)] /\ Len(Front(t)) = Len(t) - 1
      /\ \A k \in 1..(Len(t) - 1) : Front(t)[k] = t[k]
  BY <1>1, <1>2, FrontLast
<1>4. Len(Front(t)) = Len(s) /\ \A k \in 1..Len(s) : Front(t)[k] = s[k]
  BY <1>1, <1>3
<1>5. Front(t) = s
  BY <1>3, <1>4, SeqEqual
<1>6. QED
  BY <1>1, <1>2, <1>3, <1>5 DEF t

LEMMA ConcatIs ==
  ASSUME NEW S, NEW s \in Seq(S), NEW t \in Seq(S)
  PROVE  /\ s \o t \in Seq(S) /\ Len(s) \in Nat /\ Len(t) \in Nat
         /\ Len(s \o t) = Len(s) + Len(t)
         /\ \A k \in 1..Len(s) : (s \o t)[k] = s[k]
         /\ \A k \in 1..Len(t) : (s \o t)[Len(s) + k] = t[k]
OBVIOUS

LEMMA ConcatAppend ==
  ASSUME NEW S, NEW s \in Seq(S), NEW t \in Seq(S), NEW x \in S
  PROVE  s \o Append(t, x) = Append(s \o t, x) /\ s \o t \in Seq(S)
<1>1. s \o t \in Seq(S)
  BY ConcatProperties
<1>2. <<x>> \in Seq(S) /\ Append(t, x) = t \o <<x>>
  OBVIOUS
<1>3. Append(s \o t, x) = (s \o t) \o <<x>>
  BY <1>1
<1>4. (s \o t) \o <<x>> = s \o (t \o <<x>>)
  BY ONLY s \in Seq(S), t \in Seq(S), <1>2, ConcatAssociative
<1>5. QED
  BY <1>1, <1>2, <1>3, <1>4

-----------------------------------------------------------------------------
(***************************************************************************)
(* The stack of the document as the Writer's levels and lists make it: a   *)
(* placeholder for each level, and after it what was written there.        *)
(***************************************************************************)
LevelSet == [valueCount : Nat, inArray : BOOLEAN]

KindOf(level) == IF level.inArray THEN "array" ELSE "object"
Opened(level) == Placeholder(KindOf(level))
Piece(ls, lists, k) == IF k = 1 THEN lists[1] ELSE <<Opened(ls[k - 1])>> \o lists[k]
Pieces(ls, lists) == [k \in 1..Len(lists) |-> Piece(ls, lists, k)]
Stacked(ls, lists) == FlattenSeq(Pieces(ls, lists))

\* The same kinds of levels.
SameKinds(ls, ls2) ==
  Len(ls) = Len(ls2) /\ \A k \in 1..Len(ls) : ls[k].inArray = ls2[k].inArray

\* What the values are made of.
IsContent(S) == Placeholder("array") \in S /\ Placeholder("object") \in S

LEMMA PiecesType ==
  ASSUME NEW S, IsContent(S), NEW ls, NEW lists \in Seq(Seq(S))
  PROVE  /\ Pieces(ls, lists) \in Seq(Seq(S))
         /\ Len(Pieces(ls, lists)) = Len(lists)
         /\ \A k \in 1..Len(lists) : Pieces(ls, lists)[k] =
              Piece(ls, lists, k)
<1> DEFINE l == Len(lists)
           piece(k) == Piece(ls, lists, k)
<1>1. l \in Nat /\ \A k \in 1..l : lists[k] \in Seq(S)
  OBVIOUS
<1>2. ASSUME NEW k \in 1..l PROVE piece(k) \in Seq(S)
  <2>1. Opened(ls[k - 1]) \in S
    BY DEF IsContent, Opened, KindOf
  <2>2. <<Opened(ls[k - 1])>> \in Seq(S)
    BY <2>1
  <2>3. <<Opened(ls[k - 1])>> \o lists[k] \in Seq(S)
    BY <1>1, <2>2, ConcatProperties
  <2>4. QED
    BY <1>1, <2>3 DEF Piece
<1>3. Pieces(ls, lists) = [k \in 1..l |-> piece(k)]
  BY DEF Pieces
<1> HIDE DEF piece
<1>4. [k \in 1..l |-> piece(k)] \in Seq(Seq(S)) /\ Len([k \in 1..l |-> piece(k)]) = l
  BY <1>1, <1>2
<1>5. QED
  BY <1>3, <1>4 DEF piece

LEMMA StackedType ==
  ASSUME NEW S, IsContent(S), NEW ls, NEW lists \in Seq(Seq(S))
  PROVE  Stacked(ls, lists) \in Seq(S)
<1>1. Pieces(ls, lists) \in Seq(Seq(S))
  BY PiecesType
<1>2. Len(Pieces(ls, lists)) \in 0..Len(Pieces(ls, lists))
  BY <1>1
<1>3. QED
  BY ONLY <1>1, <1>2, FlatType, FlatGoesOn DEF Stacked

\* The last piece comes last.
LEMMA StackedLast ==
  ASSUME NEW S, IsContent(S), NEW ls, NEW lists \in Seq(Seq(S)), lists # << >>
  PROVE  LET p == Pieces(ls, lists)
         IN  /\ p \in Seq(Seq(S)) /\ p # << >>
             /\ Front(p) \in Seq(Seq(S)) /\ FlattenSeq(Front(p)) \in Seq(S)
             /\ Last(p) \in Seq(S)
             /\ Stacked(ls, lists) = FlattenSeq(Front(p)) \o Last(p)
<1> DEFINE p == Pieces(ls, lists)
<1>1. p \in Seq(Seq(S)) /\ Len(p) = Len(lists)
  BY PiecesType
<1>2. p # << >>
  BY <1>1, EmptySeq
<1> HIDE DEF p
<1>3. Front(p) \in Seq(Seq(S)) /\ Last(p) \in Seq(S) /\ p = Append(Front(p), Last(p))
  BY <1>1, <1>2, FrontLast
<1>4. /\ FlattenSeq(Append(Front(p), Last(p))) = FlattenSeq(Front(p)) \o Last(p)
      /\ FlattenSeq(Front(p)) \in Seq(S)
  BY <1>3, FlatAppend
<1>5. QED
  BY <1>1, <1>2, <1>3, <1>4 DEF p, Stacked

\* A value is added to the innermost list.
LEMMA StackedAdd ==
  ASSUME NEW S, IsContent(S), NEW ls, NEW ls2, NEW lists \in Seq(Seq(S)), lists # << >>,
         Len(lists) = Len(ls) + 1, SameKinds(ls, ls2), NEW v \in S
  PROVE  /\ Stacked(ls2, AddTo(lists, v)) = Append(Stacked(ls, lists), v)
         /\ AddTo(lists, v) \in Seq(Seq(S)) /\ AddTo(lists, v) # << >>
         /\ Len(AddTo(lists, v)) = Len(lists)
<1> DEFINE f == Front(lists)
           x == Last(lists)
           y == Append(x, v)
           lists2 == AddTo(lists, v)
           p == Pieces(ls, lists)
           p2 == Pieces(ls2, lists2)
           l == Len(lists)
<1>1. /\ f \in Seq(Seq(S)) /\ x \in Seq(S) /\ x = lists[l] /\ l \in Nat \ {0}
      /\ Len(f) = l - 1 /\ \A k \in 1..(l - 1) : f[k] = lists[k]
  BY FrontLast
<1>2. y \in Seq(S)
  BY <1>1
<1> HIDE DEF f, x, y, l
<1>3. lists2 = Append(f, y)
  BY DEF AddTo, f, x, y
<1> HIDE DEF lists2
<1>4. /\ lists2 \in Seq(Seq(S)) /\ Len(lists2) = l /\ lists2[l] = y /\ lists2 # << >>
      /\ \A k \in 1..(l - 1) : lists2[k] = lists[k]
  <2> DEFINE T == Seq(S)
  <2>1. f \in Seq(T) /\ y \in T
    BY <1>1, <1>2
  <2> HIDE DEF T
  <2>2. /\ Append(f, y) \in Seq(T) /\ Append(f, y) # << >>
        /\ Len(Append(f, y)) = Len(f) + 1 /\ Append(f, y)[Len(f) + 1] = y
        /\ \A k \in 1..Len(f) : Append(f, y)[k] = f[k]
    BY ONLY <2>1, AppendIs
  <2>3. QED
    BY ONLY <1>1, <1>3, <2>2 DEF T
<1>5. /\ p \in Seq(Seq(S)) /\ Len(p) = l
      /\ \A k \in 1..l : p[k] = Piece(ls, lists, k)
  BY PiecesType DEF l
<1>6. /\ p2 \in Seq(Seq(S)) /\ Len(p2) = l
      /\ \A k \in 1..l : p2[k] = Piece(ls2, lists2, k)
  <2>1. /\ Pieces(ls2, lists2) \in Seq(Seq(S))
        /\ Len(Pieces(ls2, lists2)) = Len(lists2)
        /\ \A k \in 1..Len(lists2) : Pieces(ls2, lists2)[k] =
             Piece(ls2, lists2, k)
    BY ONLY <1>4, IsContent(S), PiecesType
  <2>2. QED
    BY ONLY <1>4, <2>1
<1>7. \A k \in 1..l : k # 1 => Opened(ls2[k - 1]) = Opened(ls[k - 1])
  <2> TAKE k \in 1..l
  <2>1. k # 1 => k - 1 \in 1..Len(ls)
    BY <1>1 DEF l
  <2>2. QED
    BY <2>1 DEF SameKinds, Opened, KindOf
<1> HIDE DEF p, p2
<1>8. ASSUME NEW k \in 1..(l - 1) PROVE p2[k] = p[k]
  <2>1. k \in 1..l /\ lists2[k] = lists[k]
    BY <1>1, <1>4
  <2>2. CASE k = 1
    BY ONLY <1>5, <1>6, <2>1, <2>2 DEF Piece
  <2>3. CASE k # 1
    BY ONLY <1>5, <1>6, <1>7, <2>1, <2>3 DEF Piece
  <2>4. QED
    BY <2>2, <2>3
<1>9. p[l] \in Seq(S) /\ p2[l] = Append(p[l], v)
  <2>1. l \in 1..l
    BY <1>1
  <2>2. CASE l = 1
    BY <1>1, <1>4, <1>5, <1>6, <2>1, <2>2 DEF y, Piece
  <2>3. CASE l # 1
    <3>1. p[l] = <<Opened(ls[l - 1])>> \o x /\ p2[l] = <<Opened(ls[l - 1])>> \o y
      BY ONLY <1>1, <1>4, <1>5, <1>6, <1>7, <2>1, <2>3 DEF Piece
    <3>2. Opened(ls[l - 1]) \in S
      BY DEF IsContent, Opened, KindOf
    <3> DEFINE o == <<Opened(ls[l - 1])>>
    <3>3. o \in Seq(S)
      BY <3>2
    <3> HIDE DEF o
    <3>4. o \o Append(x, v) = Append(o \o x, v) /\ o \o x \in Seq(S)
      BY ONLY <1>1, <3>3, v \in S, ConcatAppend
    <3>5. QED
      BY <3>1, <3>4 DEF y, o
  <2>4. QED
    BY <2>2, <2>3
<1>10. /\ Front(p) \in Seq(Seq(S)) /\ FlattenSeq(Front(p)) \in Seq(S)
       /\ Last(p) = p[l] /\ Len(Front(p)) = l - 1
       /\ \A k \in 1..(l - 1) : Front(p)[k] = p[k]
       /\ Stacked(ls, lists) = FlattenSeq(Front(p)) \o Last(p)
  <2>1. p # << >>
    BY <1>1, <1>5
  <2>2. /\ Front(p) \in Seq(Seq(S)) /\ Last(p) = p[l] /\ Len(Front(p)) = l - 1
        /\ \A k \in 1..(l - 1) : Front(p)[k] = p[k]
    BY ONLY <1>5, <2>1, FrontLast
  <2>3. /\ FlattenSeq(Front(p)) \in Seq(S)
        /\ Stacked(ls, lists) = FlattenSeq(Front(p)) \o Last(p)
    BY ONLY lists \in Seq(Seq(S)), lists # << >>, IsContent(S), StackedLast DEF p
  <2>4. QED
    BY ONLY <2>2, <2>3
<1>11. /\ Front(p2) \in Seq(Seq(S))
       /\ Last(p2) = p2[l] /\ Len(Front(p2)) = l - 1
       /\ \A k \in 1..(l - 1) : Front(p2)[k] = p2[k]
       /\ Stacked(ls2, lists2) = FlattenSeq(Front(p2)) \o Last(p2)
  <2>1. p2 # << >>
    BY <1>1, <1>6
  <2>2. /\ Front(p2) \in Seq(Seq(S)) /\ Last(p2) = p2[l] /\ Len(Front(p2)) = l - 1
        /\ \A k \in 1..(l - 1) : Front(p2)[k] = p2[k]
    BY ONLY <1>6, <2>1, FrontLast
  <2>3. Stacked(ls2, lists2) = FlattenSeq(Front(p2)) \o Last(p2)
    BY ONLY <1>4, IsContent(S), StackedLast DEF p2
  <2>4. QED
    BY ONLY <2>2, <2>3
<1>12. Front(p2) = Front(p)
  BY ONLY <1>8, <1>10, <1>11, SeqEqual
<1> DEFINE rest == FlattenSeq(Front(p))
<1> HIDE DEF rest
<1>13. /\ rest \in Seq(S) /\ Stacked(ls, lists) = rest \o p[l]
       /\ Stacked(ls2, lists2) = rest \o Append(p[l], v)
  BY <1>9, <1>10, <1>11, <1>12 DEF rest
<1>14. rest \o Append(p[l], v) = Append(rest \o p[l], v)
  BY ONLY <1>9, <1>13, v \in S, ConcatAppend
<1>15. QED
  BY <1>4, <1>13, <1>14 DEF lists2, l

\* A level is begun.
LEMMA StackedOpen ==
  ASSUME NEW S, IsContent(S), NEW ls, NEW ls2 \in Seq(LevelSet), NEW lists \in Seq(Seq(S)),
         lists # << >>, Len(lists) = Len(ls) + 1, SameKinds(ls, ls2), NEW level \in LevelSet
  PROVE  /\ Stacked(Append(ls2, level), Append(lists, << >>)) =
              Append(Stacked(ls, lists), Opened(level))
         /\ Append(lists, << >>) \in Seq(Seq(S)) /\ Append(lists, << >>) # << >>
         /\ Len(Append(lists, << >>)) = Len(lists) + 1
<1> DEFINE T == Seq(S)
           l == Len(lists)
           lists2 == Append(lists, << >>)
           ls3 == Append(ls2, level)
           p == Pieces(ls, lists)
           p2 == Pieces(ls3, lists2)
           o == <<Opened(level)>>
           p3 == Append(p, o)
<1>1. << >> \in T /\ lists \in Seq(T) /\ l \in Nat \ {0}
  BY EmptySeq
<1>2. Opened(level) \in S
  BY DEF IsContent, Opened, KindOf
<1>3. o \in T
  BY <1>2
<1>4. /\ lists2 \in Seq(T) /\ Len(lists2) = l + 1 /\ lists2[l + 1] = << >> /\ lists2 # << >>
      /\ \A k \in 1..l : lists2[k] = lists[k]
  <2> HIDE DEF T
  <2>1. QED
    BY ONLY <1>1, AppendIs
<1>5. /\ Len(ls3) = l /\ ls3[l] = level
      /\ \A k \in 1..(l - 1) : ls3[k].inArray = ls[k].inArray
  <2>1. Len(ls2) = l - 1 /\ l \in Nat \ {0}
    BY <1>1 DEF SameKinds
  <2>2. /\ Len(ls3) = Len(ls2) + 1 /\ ls3[Len(ls2) + 1] = level
        /\ \A k \in 1..Len(ls2) : ls3[k] = ls2[k]
    BY ONLY ls2 \in Seq(LevelSet), level \in LevelSet, AppendIs
  <2>3. \A k \in 1..(l - 1) : ls2[k].inArray = ls[k].inArray
    BY <2>1 DEF SameKinds
  <2> HIDE DEF ls3, l
  <2>4. QED
    BY ONLY <2>1, <2>2, <2>3
<1>6. /\ p \in Seq(T) /\ Len(p) = l
      /\ \A k \in 1..l : p[k] = Piece(ls, lists, k)
  BY ONLY IsContent(S), lists \in Seq(Seq(S)), PiecesType
<1> HIDE DEF lists2, ls3
<1>7. /\ p2 \in Seq(T) /\ Len(p2) = l + 1
      /\ \A k \in 1..(l + 1) :
           p2[k] = Piece(ls3, lists2, k)
  <2>1. /\ p2 \in Seq(Seq(S)) /\ Len(p2) = Len(lists2)
        /\ \A k \in 1..Len(lists2) :
             p2[k] = Piece(ls3, lists2, k)
    <3>1. lists2 \in Seq(Seq(S))
      BY <1>4
    <3>2. QED
      BY ONLY IsContent(S), <3>1, PiecesType
  <2>2. QED
    BY ONLY <1>4, <2>1
<1> HIDE DEF p, p2, o, l
<1>8. /\ p3 \in Seq(T) /\ Len(p3) = l + 1 /\ p3[l + 1] = o
      /\ \A k \in 1..l : p3[k] = p[k]
  <2> HIDE DEF T
  <2>1. QED
    BY ONLY <1>3, <1>6, AppendIs
<1>9. ASSUME NEW k \in 1..(l + 1) PROVE p2[k] = p3[k]
  <2>1. CASE k = l + 1
    <3>1. k # 1 /\ k - 1 = l
      BY <1>1, <2>1
    <3>2. p2[k] = <<Opened(level)>> \o << >>
      BY ONLY <1>4, <1>5, <1>7, <2>1, <3>1, k \in 1..(l + 1) DEF Piece
    <3>3. o \o << >> = o
      BY <1>3, ConcatEmptySeq
    <3>4. QED
      BY ONLY <1>8, <2>1, <3>2, <3>3 DEF o
  <2>2. CASE k = 1
    <3>1. k \in 1..l
      BY <1>1, <2>2
    <3>2. QED
      BY ONLY <1>4, <1>6, <1>7, <1>8, <2>2, <3>1, k \in 1..(l + 1) DEF Piece
  <2>3. CASE k # 1 /\ k # l + 1
    <3>1. k \in 1..l /\ k - 1 \in 1..(l - 1)
      BY <1>1, <2>3
    <3>2. Opened(ls3[k - 1]) = Opened(ls[k - 1])
      BY ONLY <1>5, <3>1 DEF Opened, KindOf
    <3>3. /\ p2[k] = <<Opened(ls3[k - 1])>> \o lists2[k] /\ p[k] = <<Opened(ls[k - 1])>> \o lists[k]
          /\ p3[k] = p[k] /\ lists2[k] = lists[k]
      BY ONLY <1>4, <1>6, <1>7, <1>8, <2>3, <3>1, k \in 1..(l + 1) DEF Piece
    <3>4. QED
      BY ONLY <3>2, <3>3, Zenon
  <2>4. QED
    BY <2>1, <2>2, <2>3
<1>10. p2 = p3
  <2> HIDE DEF T, p3
  <2>1. QED
    BY ONLY <1>7, <1>8, <1>9, SeqEqual
<1>11. FlattenSeq(p3) = FlattenSeq(p) \o o /\ FlattenSeq(p) \in Seq(S)
  BY ONLY <1>3, <1>6, FlatAppend
<1>12. FlattenSeq(p) \o o = Append(FlattenSeq(p), Opened(level))
  BY ONLY <1>2, <1>11 DEF o
<1>13. QED
  BY ONLY <1>4, <1>10, <1>11, <1>12 DEF Stacked, p, p2, ls3, lists2, l

\* A level is ended: what was written there came last.
LEMMA StackedClose ==
  ASSUME NEW S, IsContent(S), NEW ls \in Seq(LevelSet), ls # << >>,
         NEW lists \in Seq(Seq(S)), Len(lists) = Len(ls) + 1
  PROVE  /\ Stacked(ls, lists) =
              Stacked(Front(ls), Front(lists)) \o (<<Opened(Last(ls))>> \o Last(lists))
         /\ Front(lists) \in Seq(Seq(S)) /\ Front(lists) # << >>
         /\ Len(Front(lists)) = Len(Front(ls)) + 1
         /\ Last(lists) \in Seq(S) /\ Last(lists) = lists[Len(lists)]
<1> DEFINE T == Seq(S)
           l == Len(lists)
           ls2 == Front(ls)
           lists2 == Front(lists)
           p == Pieces(ls, lists)
           p2 == Pieces(ls2, lists2)
<1>1. /\ ls2 \in Seq(LevelSet) /\ Len(ls) \in Nat \ {0} /\ Len(ls2) = Len(ls) - 1
      /\ Last(ls) = ls[Len(ls)] /\ \A k \in 1..(Len(ls) - 1) : ls2[k] = ls[k]
  BY FrontLast
<1>2. l \in Nat /\ l >= 2 /\ Len(ls) = l - 1 /\ lists \in Seq(T)
  BY <1>1
<1>3. lists # << >>
  BY <1>2, EmptySeq
<1>4. /\ lists2 \in Seq(T) /\ Last(lists) \in T /\ Last(lists) = lists[l] /\ Len(lists2) = l - 1
      /\ \A k \in 1..(l - 1) : lists2[k] = lists[k]
  <2> HIDE DEF T
  <2>1. QED
    BY ONLY <1>2, <1>3, FrontLast
<1>5. lists2 # << >>
  BY <1>2, <1>4, EmptySeq
<1>6. /\ p \in Seq(T) /\ Len(p) = l
      /\ \A k \in 1..l : p[k] = Piece(ls, lists, k)
  BY ONLY IsContent(S), lists \in Seq(Seq(S)), PiecesType
<1> HIDE DEF lists2, ls2
<1>7. /\ p2 \in Seq(T) /\ Len(p2) = l - 1
      /\ \A k \in 1..(l - 1) :
           p2[k] = Piece(ls2, lists2, k)
  <2>1. /\ p2 \in Seq(Seq(S)) /\ Len(p2) = Len(lists2)
        /\ \A k \in 1..Len(lists2) :
             p2[k] = Piece(ls2, lists2, k)
    <3>1. lists2 \in Seq(Seq(S))
      BY <1>4
    <3>2. QED
      BY ONLY IsContent(S), <3>1, PiecesType
  <2>2. QED
    BY ONLY <1>4, <2>1
<1>8. FlattenSeq(p) = FlattenSeq(Front(p)) \o Last(p)
  BY ONLY lists \in Seq(Seq(S)), <1>3, IsContent(S), StackedLast DEF Stacked
<1> HIDE DEF p, p2, l
<1>9. p # << >>
  BY <1>2, <1>6, EmptySeq
<1>10. /\ Front(p) \in Seq(T) /\ Last(p) = p[l] /\ Len(Front(p)) = l - 1
       /\ \A k \in 1..(l - 1) : Front(p)[k] = p[k]
  <2> HIDE DEF T
  <2>1. QED
    BY ONLY <1>6, <1>9, FrontLast
<1>11. ASSUME NEW k \in 1..(l - 1) PROVE p2[k] = Front(p)[k]
  <2>1. k \in 1..l /\ Front(p)[k] = p[k] /\ lists2[k] = lists[k]
    BY <1>2, <1>4, <1>10
  <2>2. CASE k = 1
    BY ONLY <1>6, <1>7, <2>1, <2>2, k \in 1..(l - 1) DEF Piece
  <2>3. CASE k # 1
    <3>1. ls2[k - 1] = ls[k - 1]
      BY <1>1, <1>2, <2>3
    <3>2. p2[k] = <<Opened(ls2[k - 1])>> \o lists2[k] /\ p[k] = <<Opened(ls[k - 1])>> \o lists[k]
      BY ONLY <1>6, <1>7, <2>1, <2>3, k \in 1..(l - 1) DEF Piece
    <3>3. QED
      BY ONLY <2>1, <3>1, <3>2, Zenon
  <2>4. QED
    BY <2>2, <2>3
<1>12. p2 = Front(p)
  <2> HIDE DEF T
  <2>1. QED
    BY ONLY <1>7, <1>10, <1>11, SeqEqual
<1>13. Last(p) = <<Opened(Last(ls))>> \o Last(lists)
  <2>1. l \in 1..l /\ l # 1 /\ l - 1 = Len(ls)
    BY <1>2
  <2>2. p[l] = <<Opened(ls[l - 1])>> \o lists[l]
    BY ONLY <1>6, <2>1 DEF Piece
  <2>3. QED
    BY ONLY <1>1, <1>4, <1>10, <2>1, <2>2, Zenon
<1>14. Len(Front(lists)) = Len(Front(ls)) + 1
  BY <1>1, <1>2, <1>4 DEF lists2, ls2
<1>15. QED
  BY ONLY <1>4, <1>5, <1>8, <1>12, <1>13, <1>14 DEF Stacked, p, p2, ls2, lists2, l

-----------------------------------------------------------------------------
(***************************************************************************)
(* What the Writer makes of a string.                                      *)
(***************************************************************************)
Byte == 0..255
Escapes(t) == [k \in DOMAIN t |-> Escape(t[k])]

LEMMA EscapeIs ==
  ASSUME NEW c \in Byte
  PROVE  /\ Escape(c) \in Seq(Byte)
         /\ \/ c \in {QUOTE, BACKSLASH} /\ Escape(c) = <<BACKSLASH, c>>
            \/ \E e \in Letters :
                 e.code = c /\ Escape(c) = <<BACKSLASH, e.letter>>
            \/ /\ c < 32
               /\ Escape(c) = <<BACKSLASH, LOWER_U, 48, 48, HexDigit(c \div 16), HexDigit(c % 16)>>
            \/ c >= 32 /\ c \notin {QUOTE, BACKSLASH} /\ Escape(c) = <<c>>
<1>1. CASE c \in {QUOTE, BACKSLASH}
  BY <1>1 DEF Escape, Byte, BACKSLASH
<1>2. CASE c \notin {QUOTE, BACKSLASH} /\ \E e \in Letters : e.code = c
  <2>1. PICK e \in Letters : e.code = c /\ e = CHOOSE x \in Letters : x.code = c
    BY <1>2
  <2>2. Escape(c) = <<BACKSLASH, e.letter>>
    BY <1>2, <2>1 DEF Escape
  <2>3. e.letter \in Byte /\ BACKSLASH \in Byte
    BY DEF Letters, Byte, BACKSLASH
  <2>4. Escape(c) \in Seq(Byte)
    BY ONLY <2>2, <2>3
  <2>5. QED
    BY ONLY <2>1, <2>2, <2>4, Zenon
<1>3. CASE c \notin {QUOTE, BACKSLASH} /\ (~\E e \in Letters : e.code = c) /\ c < 32
  <2>1. Escape(c) = <<BACKSLASH, LOWER_U, 48, 48, HexDigit(c \div 16), HexDigit(c % 16)>>
    BY <1>3 DEF Escape
  <2>2. c \div 16 \in 0..1 /\ c % 16 \in 0..15
    BY <1>3 DEF Byte
  <2>3. HexDigit(c \div 16) \in Byte /\ HexDigit(c % 16) \in Byte
    BY <2>2 DEF HexDigit, Byte
  <2>4. BACKSLASH \in Byte /\ LOWER_U \in Byte /\ 48 \in Byte
    BY DEF BACKSLASH, LOWER_U, Byte
  <2>5. <<BACKSLASH, LOWER_U, 48, 48, HexDigit(c \div 16), HexDigit(c % 16)>> \in Seq(Byte)
    BY <2>3, <2>4
  <2>6. QED
    BY <1>3, <2>1, <2>5
<1>4. CASE c \notin {QUOTE, BACKSLASH} /\ (~\E e \in Letters : e.code = c) /\ ~(c < 32)
  BY <1>4 DEF Escape, Byte
<1>5. QED
  BY <1>1, <1>2, <1>3, <1>4

LEMMA EscapesType ==
  ASSUME NEW t \in Seq(Byte)
  PROVE  /\ Escapes(t) \in Seq(Seq(Byte)) /\ Len(Escapes(t)) = Len(t)
         /\ \A k \in 1..Len(t) : Escapes(t)[k] = Escape(t[k]) /\ t[k] \in Byte
<1>1. Len(t) \in Nat /\ DOMAIN t = 1..Len(t) /\ \A k \in 1..Len(t) : t[k] \in Byte
  OBVIOUS
<1>2. \A k \in 1..Len(t) : Escape(t[k]) \in Seq(Byte)
  BY <1>1, EscapeIs
<1>3. QED
  BY <1>1, <1>2 DEF Escapes

\* Where a string begins and ends, and where a character of it is.
Reached(t, m) == Len(Flat(Escapes(t), m))

LEMMA QuotedIs ==
  ASSUME NEW t \in Seq(Byte)
  PROVE  /\ Quoted(t) \in Seq(Byte)
         /\ Reached(t, 0) = 0 /\ Reached(t, Len(t)) \in Nat
         /\ Len(Quoted(t)) = Reached(t, Len(t)) + 2
         /\ Quoted(t)[1] = QUOTE /\ Quoted(t)[Reached(t, Len(t)) + 2] = QUOTE
<1> DEFINE f == FlattenSeq(Escapes(t))
           q == <<QUOTE>>
<1>1. Escapes(t) \in Seq(Seq(Byte)) /\ Len(Escapes(t)) = Len(t) /\ Len(t) \in Nat
  BY EscapesType
<1>2. f = Flat(Escapes(t), Len(t)) /\ Flat(Escapes(t), 0) = << >>
  BY ONLY <1>1, FlatGoesOn
<1>3. f \in Seq(Byte)
  <2>1. Len(t) \in 0..Len(Escapes(t))
    BY <1>1
  <2>2. QED
    BY ONLY <1>1, <1>2, <2>1, FlatType
<1>4. Quoted(t) = q \o f \o q
  BY DEF Quoted, Escapes
<1>5. q \in Seq(Byte) /\ Len(q) = 1 /\ q[1] = QUOTE
  BY DEF QUOTE, Byte
<1> HIDE DEF f, q
<1>6. Len(f) \in Nat
  BY <1>3
<1>7. q \o f \in Seq(Byte) /\ Len(q \o f) = Len(f) + 1 /\ (q \o f)[1] = QUOTE
  <2>1. q \o f \in Seq(Byte) /\ Len(q \o f) = Len(q) + Len(f)
    BY ONLY <1>3, <1>5, ConcatProperties
  <2>2. 1 \in 1..Len(q) /\ Len(q) + Len(f) = Len(f) + 1
    BY <1>5, <1>6
  <2>3. (q \o f)[1] = QUOTE
    BY ONLY <1>3, <1>5, <1>6, <2>2, ConcatProperties
  <2>4. QED
    BY ONLY <2>1, <2>2, <2>3
<1>8. /\ (q \o f) \o q \in Seq(Byte) /\ Len((q \o f) \o q) = Len(f) + 2
      /\ ((q \o f) \o q)[1] = QUOTE /\ ((q \o f) \o q)[Len(f) + 2] = QUOTE
  <2>1. 1 \in 1..Len(q \o f) /\ 1 \in 1..Len(q) /\ Len(q \o f) + 1 = Len(f) + 2
    BY <1>5, <1>6, <1>7
  <2>2. QED
    BY ONLY <1>5, <1>6, <1>7, <2>1
<1>9. QED
  BY <1>2, <1>4, <1>6, <1>8 DEF Reached

LEMMA QuotedPart ==
  ASSUME NEW t \in Seq(Byte), NEW m \in 0..(Len(t) - 1)
  PROVE  /\ t[m + 1] \in Byte /\ Reached(t, m) \in Nat
         /\ Reached(t, m + 1) = Reached(t, m) + Len(Escape(t[m + 1]))
         /\ Reached(t, m + 1) <= Reached(t, Len(t))
         /\ \A k \in 1..Len(Escape(t[m + 1])) :
              Quoted(t)[1 + Reached(t, m) + k] = Escape(t[m + 1])[k]
<1> DEFINE ss == Escapes(t)
           f == FlattenSeq(ss)
           q == <<QUOTE>>
           x == Escape(t[m + 1])
           n == m + 1
<1>1. /\ ss \in Seq(Seq(Byte)) /\ Len(ss) = Len(t) /\ Len(t) \in Nat
      /\ \A k \in 1..Len(t) : ss[k] = Escape(t[k]) /\ t[k] \in Byte
  BY EscapesType
<1>2. n \in 1..Len(t) /\ m \in 0..Len(t) /\ n - 1 = m /\ Len(t) \in 0..Len(t)
  BY <1>1
<1>3. ss[n] = x /\ t[m + 1] \in Byte
  BY ONLY <1>1, <1>2
<1>4. x \in Seq(Byte)
  BY ONLY <1>3, EscapeIs
<1>5. Quoted(t) = q \o f \o q
  BY DEF Quoted, Escapes
<1> HIDE DEF ss, f, q, x, n
<1>6. /\ Len(Flat(ss, n)) = Len(Flat(ss, n - 1)) + Len(ss[n])
      /\ Len(Flat(ss, n)) <= Len(FlattenSeq(ss))
      /\ \A k \in 1..Len(ss[n]) : FlattenSeq(ss)[Len(Flat(ss, n - 1)) + k] = ss[n][k]
  <2>1. n \in 1..Len(ss) /\ ss \in Seq(Seq(Byte))
    BY <1>1, <1>2
  <2>2. QED
    BY ONLY <2>1, FlatPart
<1>7. Flat(ss, m) \in Seq(Byte) /\ f \in Seq(Byte) /\ f = Flat(ss, Len(t))
  <2>1. \A k \in 0..Len(ss) : Flat(ss, k) \in Seq(Byte)
    BY ONLY <1>1, FlatType
  <2>2. f = Flat(ss, Len(ss))
    BY ONLY <1>1, FlatGoesOn DEF f
  <2>3. QED
    BY <1>1, <1>2, <2>1, <2>2
<1>8. /\ Reached(t, m) = Len(Flat(ss, m)) /\ Reached(t, m + 1) = Len(Flat(ss, n))
      /\ Reached(t, Len(t)) = Len(f)
  BY <1>7 DEF Reached, ss, n
<1>9. /\ Len(Flat(ss, n)) = Reached(t, m) + Len(x) /\ Len(Flat(ss, n)) <= Len(f)
      /\ \A k \in 1..Len(x) : f[Reached(t, m) + k] = x[k]
  BY ONLY <1>2, <1>3, <1>6, <1>8 DEF f
<1>10. Reached(t, m) \in Nat /\ Len(x) \in Nat /\ Len(f) \in Nat
  BY <1>4, <1>7, <1>8
<1>11. ASSUME NEW k \in 1..Len(x) PROVE Quoted(t)[1 + Reached(t, m) + k] = x[k]
  <2> DEFINE p == Reached(t, m) + k
  <2>1. p \in 1..Len(f) /\ f[p] = x[k] /\ 1 + Reached(t, m) + k = p + 1
    BY <1>9, <1>10
  <2> HIDE DEF p
  <2>2. q \in Seq(Byte) /\ Len(q) = 1
    BY DEF q, QUOTE, Byte
  <2>3. q \o f \in Seq(Byte) /\ Len(q \o f) = Len(f) + 1 /\ (q \o f)[p + 1] = f[p]
    <3>1. q \o f \in Seq(Byte) /\ Len(q \o f) = Len(q) + Len(f)
      BY ONLY <1>7, <2>2, ConcatProperties
    <3>2. p + 1 \in 1..(Len(q) + Len(f)) /\ ~(p + 1 <= Len(q)) /\ (p + 1) - Len(q) = p
      BY ONLY <1>10, <2>1, <2>2
    <3>3. (q \o f)[p + 1] = f[(p + 1) - Len(q)]
      BY ONLY <1>7, <2>2, <3>2, ConcatProperties
    <3>4. QED
      BY ONLY <1>10, <2>2, <3>1, <3>2, <3>3
  <2>4. ((q \o f) \o q)[p + 1] = (q \o f)[p + 1]
    <3>1. p + 1 \in 1..Len(q \o f)
      BY <1>10, <2>1, <2>3
    <3>2. QED
      BY ONLY <2>2, <2>3, <3>1
  <2>5. QED
    BY ONLY <1>5, <2>1, <2>3, <2>4
<1>12. QED
  BY ONLY <1>3, <1>8, <1>9, <1>10, <1>11 DEF x

-----------------------------------------------------------------------------
(***************************************************************************)
(* What the Writer makes of an integer: its first digits are the number    *)
(* without the others.                                                     *)
(***************************************************************************)
LEMMA PowerAbove == \A n \in Nat : n < PowerOfTen(n)
<1> DEFINE Bad == {j \in Nat : ~(j < PowerOfTen(j))}
<1>1. SUFFICES ASSUME Bad # {} PROVE FALSE
  OBVIOUS
<1>2. PICK j \in Bad : \A x \in Bad : j <= x
  <2>1. Bad \in SUBSET Nat
    OBVIOUS
  <2> HIDE DEF Bad
  <2>2. QED
    BY <1>1, <2>1, LeastNat
<1>3. j # 0
  BY <1>2, PowerIs
<1>4. j - 1 \in Nat /\ j - 1 \notin Bad /\ (j - 1) + 1 = j
  BY <1>2, <1>3
<1>5. PowerOfTen(j) = 10 * PowerOfTen(j - 1)
  BY <1>4, PowerIs
<1>6. j - 1 < PowerOfTen(j - 1) /\ PowerOfTen(j - 1) \in Nat /\ PowerOfTen(j) \in Nat
  BY <1>2, <1>4, PowerNat
<1>7. QED
  BY <1>2, <1>4, <1>5, <1>6

\* A quotient is what it is.
LEMMA Quotient ==
  ASSUME NEW a \in Nat, NEW m \in Nat \ {0}, NEW q \in Nat, NEW r \in Nat,
         a = m * q + r, r < m
  PROVE  a \div m = q
<1>1. /\ a \div m \in Nat /\ a % m \in Nat /\ a % m < m
      /\ a = m * (a \div m) + (a % m)
  BY Z3
<1>2. m * q + r = m * (a \div m) + (a % m)
  BY <1>1
<1> DEFINE p == a \div m
           s == a % m
<1> HIDE DEF p, s
<1>3. p \in Nat /\ s \in Nat /\ s < m /\ m * q + r = m * p + s
  BY <1>1, <1>2 DEF p, s
<1>4. ~(q > p)
  <2> SUFFICES ASSUME q > p PROVE FALSE
    OBVIOUS
  <2>1. PICK x \in Nat : q = p + 1 + x
    <3>1. q - p - 1 \in Nat /\ q = p + 1 + (q - p - 1)
      BY <1>3
    <3>2. QED
      BY <3>1
  <2>2. m * q = m * p + m + m * x /\ m * x \in Nat
    BY <1>3, <2>1, Z3
  <2>3. QED
    BY <1>3, <2>2
<1>5. ~(p > q)
  <2> SUFFICES ASSUME p > q PROVE FALSE
    OBVIOUS
  <2>1. PICK x \in Nat : p = q + 1 + x
    <3>1. p - q - 1 \in Nat /\ p = q + 1 + (p - q - 1)
      BY <1>3
    <3>2. QED
      BY <3>1
  <2>2. m * p = m * q + m + m * x /\ m * x \in Nat
    BY <1>3, <2>1, Z3
  <2>3. QED
    BY <1>3, <2>2
<1>6. QED
  BY <1>3, <1>4, <1>5 DEF p

LEMMA NextQuotient ==
  ASSUME NEW a \in Nat, NEW m \in Nat \ {0}
  PROVE  /\ a \div m \in Nat /\ a \div (10 * m) \in Nat
         /\ a \div m = 10 * (a \div (10 * m)) + ((a \div m) % 10)
         /\ a \div m <= a
<1> DEFINE p == a \div m
           r == a % m
           c == p % 10
           b == p \div 10
<1>1. p \in Nat /\ r \in Nat /\ r < m /\ a = m * p + r
  BY Z3
<1> HIDE DEF p, r
<1>2. c \in 0..9 /\ b \in Nat /\ p = 10 * b + c
  BY <1>1, Z3
<1> HIDE DEF b, c
<1>3. m * p = 10 * (m * b) + m * c /\ m * b \in Nat /\ m * c \in Nat
  BY <1>2, Z3
<1>4. a = (10 * m) * b + (m * c + r) /\ m * c + r \in Nat /\ 10 * m \in Nat \ {0}
  <2>1. (10 * m) * b = 10 * (m * b)
    BY <1>2, Z3
  <2>2. QED
    BY <1>1, <1>3, <2>1
<1>5. m * c + r < 10 * m
  <2>1. m * c <= m * 9
    BY <1>2, Z3
  <2>2. QED
    BY <1>1, <1>3, <2>1
<1>6. a \div (10 * m) = b
  BY ONLY <1>2, <1>4, <1>5, a \in Nat, Quotient
<1>7. p <= a
  <2>1. m * p >= p
    BY <1>1, Z3
  <2>2. m * p \in Nat
    BY <1>1, Z3
  <2>3. QED
    BY <1>1, <2>1, <2>2
<1>8. QED
  BY <1>1, <1>2, <1>6, <1>7 DEF p, c

\* The first k of the l digits of n.
Leading(n, l, k) == n \div PowerOfTen(l - k)

\* l is how many digits n has.
IsLength(n, l) == l \in 1..(n + 1) /\ n < PowerOfTen(l) /\ (l = 1 \/ n >= PowerOfTen(l - 1))

LEMMA DecimalLength ==
  ASSUME NEW n \in Nat
  PROVE  \E l : IsLength(n, l)
<1> DEFINE T == {k \in Nat \ {0} : n < PowerOfTen(k)}
<1>1. n + 1 \in T
  BY PowerAbove, PowerNat
<1>2. T \in SUBSET Nat
  OBVIOUS
<1> HIDE DEF T
<1>3. PICK l \in T : \A k \in T : l <= k
  BY ONLY <1>1, <1>2, LeastNat
<1>4. l \in Nat \ {0} /\ n < PowerOfTen(l) /\ l <= n + 1
  BY <1>1, <1>3 DEF T
<1>5. l = 1 \/ n >= PowerOfTen(l - 1)
  <2> SUFFICES ASSUME l # 1 PROVE n >= PowerOfTen(l - 1)
    OBVIOUS
  <2>1. l - 1 \in Nat \ {0} /\ ~(l <= l - 1)
    BY <1>4
  <2>2. l - 1 \notin T
    BY <1>3, <2>1
  <2>3. QED
    BY <2>1, <2>2, PowerNat DEF T
<1>6. QED
  BY <1>4, <1>5 DEF IsLength

\* A digit, and the number so far with it.
LEMMA LeadingIs ==
  ASSUME NEW n \in Nat, NEW l, IsLength(n, l)
  PROVE  /\ Leading(n, l, 0) = 0 /\ Leading(n, l, l) = n
         /\ \A k \in 1..l :
              /\ Leading(n, l, k) \in Nat /\ Leading(n, l, k) <= n
              /\ Leading(n, l, k - 1) \in Nat
              /\ Leading(n, l, k) % 10 \in 0..9
              /\ Leading(n, l, k) = 10 * Leading(n, l, k - 1) + (Leading(n, l, k) % 10)
         /\ Leading(n, l, 1) % 10 = 0 => n = 0 /\ l = 1
<1>1. l \in Nat \ {0} /\ n < PowerOfTen(l) /\ (l = 1 \/ n >= PowerOfTen(l - 1))
  BY DEF IsLength
<1>2. Leading(n, l, 0) = 0
  <2>1. l - 0 = l /\ PowerOfTen(l) \in Nat \ {0}
    BY <1>1, PowerNat
  <2>2. n \div PowerOfTen(l) = 0
    BY <1>1, <2>1, Quotient
  <2>3. QED
    BY <2>1, <2>2 DEF Leading
<1>3. Leading(n, l, l) = n
  <2>1. l - l = 0 /\ PowerOfTen(0) = 1
    BY <1>1, PowerIs
  <2>2. n \div 1 = n
    OBVIOUS
  <2>3. QED
    BY <2>1, <2>2 DEF Leading
<1>4. ASSUME NEW k \in 1..l
      PROVE  /\ Leading(n, l, k) \in Nat /\ Leading(n, l, k) <= n
             /\ Leading(n, l, k - 1) \in Nat
             /\ Leading(n, l, k) % 10 \in 0..9
             /\ Leading(n, l, k) = 10 * Leading(n, l, k - 1) + (Leading(n, l, k) % 10)
  <2> DEFINE m == PowerOfTen(l - k)
  <2>1. l - k \in Nat /\ l - (k - 1) = (l - k) + 1
    BY <1>1
  <2>2. m \in Nat \ {0} /\ PowerOfTen(l - (k - 1)) = 10 * m
    BY <2>1, PowerNat, PowerIs
  <2> HIDE DEF m
  <2>3. /\ n \div m \in Nat /\ n \div (10 * m) \in Nat
        /\ n \div m = 10 * (n \div (10 * m)) + ((n \div m) % 10)
        /\ n \div m <= n
    BY ONLY n \in Nat, <2>2, NextQuotient
  <2>4. Leading(n, l, k) = n \div m /\ Leading(n, l, k - 1) = n \div (10 * m)
    BY <2>2 DEF Leading, m
  <2>5. (n \div m) % 10 \in 0..9
    BY <2>3
  <2>6. QED
    BY ONLY <2>3, <2>4, <2>5
<1>5. ASSUME Leading(n, l, 1) % 10 = 0 PROVE n = 0 /\ l = 1
  <2>1. 1 \in 1..l /\ 1 - 1 = 0
    BY <1>1
  <2>2. Leading(n, l, 1) = 0
    BY <1>2, <1>4, <1>5, <2>1
  <2>3. CASE l = 1
    BY <1>3, <2>2, <2>3
  <2>4. CASE l # 1
    <3> DEFINE m == PowerOfTen(l - 1)
    <3>1. l - 1 \in Nat /\ m \in Nat \ {0} /\ n >= m
      BY <1>1, <2>4, PowerNat
    <3> HIDE DEF m
    <3>2. n \div m = 0
      BY <2>2 DEF Leading, m
    <3>3. n = m * (n \div m) + (n % m) /\ n % m < m
      BY <3>1, Z3
    <3>4. n % m \in Nat /\ m * 0 = 0
      BY <3>1, Z3
    <3>5. QED
      BY <3>1, <3>2, <3>3, <3>4
  <2>5. QED
    BY <2>3, <2>4
<1>6. QED
  BY <1>2, <1>3, <1>4, <1>5

\* The digits are those.
LEMMA DecimalIs ==
  ASSUME NEW n \in Nat
  PROVE  \E l : /\ IsLength(n, l)
                /\ Decimal(n) \in Seq(48..57) /\ Len(Decimal(n)) = l
                /\ \A k \in 1..l : Decimal(n)[k] = 48 + (Leading(n, l, k) % 10)
<1> DEFINE l == CHOOSE k \in 1..(n + 1) :
                  n < PowerOfTen(k) /\ (k = 1 \/ n >= PowerOfTen(k - 1))
<1>1. \E k \in 1..(n + 1) : n < PowerOfTen(k) /\ (k = 1 \/ n >= PowerOfTen(k - 1))
  BY DecimalLength DEF IsLength
<1>2. IsLength(n, l)
  BY <1>1 DEF IsLength
<1>3. Decimal(n) = [k \in 1..l |-> 48 + (Leading(n, l, k) % 10)]
  BY DEF Decimal, Leading
<1> HIDE DEF l
<1>4. l \in Nat
  BY <1>2 DEF IsLength
<1>5. \A k \in 1..l : Leading(n, l, k) % 10 \in 0..9
  BY <1>2, LeadingIs
<1>6. \A k \in 1..l : 48 + (Leading(n, l, k) % 10) \in 48..57
  BY <1>5
<1>7. Decimal(n) \in Seq(48..57) /\ Len(Decimal(n)) = l
  BY <1>3, <1>4, <1>6
<1>8. \A k \in 1..l : Decimal(n)[k] = 48 + (Leading(n, l, k) % 10)
  BY ONLY <1>3, Zenon
<1>9. QED
  BY <1>2, <1>7, <1>8

-----------------------------------------------------------------------------
(***************************************************************************)
(* What is written, and what it begins with.                               *)
(***************************************************************************)
IsLiteral(v) == v = JNull \/ v = JBool(TRUE) \/ v = JBool(FALSE)
IsNumber(v) == v = JNumber(v.number) /\ v.number \in -Int64..(Int64 - 1)
IsString(v) == v = JString(v.string) /\ v.string \in Seq(Byte)

LEMMA Kinds ==
  ASSUME NEW v \in Scalars
  PROVE  IsLiteral(v) \/ IsNumber(v) \/ IsString(v)
BY WrittenValuesAssumption DEF IsLiteral, IsNumber, IsString, Byte

LEMMA SpeltLiteral ==
  /\ Spelt(JNull) = NullText /\ Spelt(JBool(TRUE)) = TrueText /\ Spelt(JBool(FALSE)) = FalseText
  /\ NullText \in Seq(Byte) /\ TrueText \in Seq(Byte) /\ FalseText \in Seq(Byte)
  /\ Len(NullText) = 4 /\ Len(TrueText) = 4 /\ Len(FalseText) = 5
  /\ NullText[1] = 110 /\ TrueText[1] = 116 /\ FalseText[1] = 102
<1>1. JNull.json = "null" /\ JBool(TRUE).json = "bool" /\ JBool(FALSE).json = "bool"
      /\ JBool(TRUE).bool = TRUE /\ JBool(FALSE).bool = FALSE
  BY DEF JNull, JBool
<1>2. Spelt(JNull) = NullText
  BY <1>1 DEF Spelt
<1>3. Spelt(JBool(TRUE)) = TrueText
  BY <1>1 DEF Spelt
<1>4. Spelt(JBool(FALSE)) = FalseText
  BY <1>1 DEF Spelt
<1>5. NullText \in Seq(Byte) /\ TrueText \in Seq(Byte) /\ FalseText \in Seq(Byte)
  BY DEF NullText, TrueText, FalseText, Byte
<1>6. /\ Len(NullText) = 4 /\ Len(TrueText) = 4 /\ Len(FalseText) = 5
      /\ NullText[1] = 110 /\ TrueText[1] = 116 /\ FalseText[1] = 102
  BY DEF NullText, TrueText, FalseText
<1>7. QED
  BY <1>2, <1>3, <1>4, <1>5, <1>6

\* Its sign, and what is left of it.
Signs(n) == IF n < 0 THEN <<45>> ELSE << >>
Size(n) == IF n < 0 THEN -n ELSE n

LEMMA SpeltNumber ==
  ASSUME NEW v, IsNumber(v)
  PROVE  /\ Size(v.number) \in Nat
         /\ Spelt(v) = Signs(v.number) \o Decimal(Size(v.number))
         /\ Spelt(v) \in Seq(Byte) /\ Len(Spelt(v)) \in Nat \ {0}
         /\ Spelt(v)[1] \in {45} \cup 48..57
<1> DEFINE n == v.number
           a == Signs(n)
           b == Decimal(Size(n))
<1>1. v.json = "number" /\ n \in Int
  BY Widths DEF IsNumber, JNumber
<1>2. Size(n) \in Nat
  BY <1>1 DEF Size
<1>3. PICK l : IsLength(Size(n), l) /\ b \in Seq(48..57) /\ Len(b) = l
  BY <1>2, DecimalIs
<1>4. l \in Nat \ {0}
  BY <1>2, <1>3 DEF IsLength
<1>5. b[1] \in 48..57
  <2>1. 1 \in 1..Len(b)
    BY <1>3, <1>4
  <2>2. QED
    BY ONLY <1>3, <2>1, ElementOfSeq
<1>6. b \in Seq(Byte)
  <2>1. 48..57 \subseteq Byte
    BY DEF Byte
  <2>2. QED
    BY ONLY <1>3, <2>1, SeqMonotonic
<1>7. Spelt(v) = IF n < 0 THEN <<45>> \o b ELSE b
  BY <1>1 DEF Spelt, Size
<1> HIDE DEF b
<1>8. CASE n < 0
  <2>1. a = <<45>> /\ <<45>> \in Seq(Byte) /\ Spelt(v) = <<45>> \o b
    BY <1>7, <1>8 DEF Signs, Byte
  <2>2. <<45>> \o b \in Seq(Byte) /\ Len(<<45>> \o b) = 1 + Len(b) /\ (<<45>> \o b)[1] = 45
    BY <1>6, <2>1
  <2>3. QED
    BY <1>2, <1>3, <1>4, <2>1, <2>2 DEF b
<1>9. CASE ~(n < 0)
  <2>1. a = << >> /\ Spelt(v) = b
    BY <1>7, <1>9 DEF Signs
  <2>2. << >> \o b = b
    BY ONLY <1>6, ConcatEmptySeq
  <2>3. QED
    BY <1>2, <1>3, <1>4, <1>5, <1>6, <2>1, <2>2 DEF b
<1>10. QED
  BY <1>8, <1>9

LEMMA SpeltString ==
  ASSUME NEW v, IsString(v)
  PROVE  Spelt(v) = Quoted(v.string) /\ v.string \in Seq(Byte)
<1>1. v.json = "string"
  BY DEF IsString, JString
<1>2. QED
  BY <1>1 DEF Spelt, IsString

\* What a name or a value begins with: no blank, no separator, no end.
Beginnings == {110, 116, 102, QUOTE, 45, OPEN_BRACKET, OPEN_BRACE} \cup 48..57

LEMMA QuotedStarts ==
  ASSUME NEW t \in Seq(Byte)
  PROVE  Quoted(t) \in Seq(Byte) /\ Len(Quoted(t)) \in Nat \ {0} /\ Quoted(t)[1] \in Beginnings
<1>1. /\ Quoted(t) \in Seq(Byte) /\ Quoted(t)[1] = QUOTE
      /\ Reached(t, Len(t)) \in Nat /\ Len(Quoted(t)) = Reached(t, Len(t)) + 2
  BY QuotedIs
<1>2. QED
  BY <1>1 DEF Beginnings

LEMMA SpeltStarts ==
  ASSUME NEW v \in Scalars
  PROVE  Spelt(v) \in Seq(Byte) /\ Len(Spelt(v)) \in Nat \ {0} /\ Spelt(v)[1] \in Beginnings
<1>1. CASE IsLiteral(v)
  <2>1. PICK word : Spelt(v) = word /\ word \in Seq(Byte) /\ Len(word) \in 4..5
                    /\ word[1] \in {110, 116, 102}
    <3>1. CASE v = JNull
      BY <3>1, SpeltLiteral
    <3>2. CASE v = JBool(TRUE)
      <4>1. Spelt(v) = TrueText
        BY ONLY <3>2, SpeltLiteral, Zenon
      <4>2. QED
        BY ONLY <4>1, SpeltLiteral
    <3>3. CASE v = JBool(FALSE)
      <4>1. Spelt(v) = FalseText
        BY ONLY <3>3, SpeltLiteral, Zenon
      <4>2. QED
        BY ONLY <4>1, SpeltLiteral
    <3>4. QED
      BY <1>1, <3>1, <3>2, <3>3 DEF IsLiteral
  <2>2. QED
    BY ONLY <2>1 DEF Beginnings
<1>2. CASE IsNumber(v)
  BY ONLY <1>2, SpeltNumber DEF Beginnings
<1>3. CASE IsString(v)
  <2>1. Spelt(v) = Quoted(v.string) /\ v.string \in Seq(Byte)
    BY <1>3, SpeltString
  <2>2. QED
    BY <2>1, QuotedStarts
<1>4. QED
  BY <1>1, <1>2, <1>3, Kinds

-----------------------------------------------------------------------------
(***************************************************************************)
(* The Writer as a state, and its operations as moves from one to another. *)
(***************************************************************************)
State(o, ls, rooted, lists) ==
  [out |-> o, levels |-> ls, hasRoot |-> rooted, written |-> lists]
Now == State(out, levels, hasRoot, written)
Blank == State(<< >>, << >>, FALSE, <<<< >>>>)

PrefixOf(ls) ==
  IF ls = << >> \/ Last(ls).valueCount = 0 THEN << >>
  ELSE IF Last(ls).inArray \/ Last(ls).valueCount % 2 = 0 THEN <<COMMA>> ELSE <<COLON>>
OneCounted(level) == [level EXCEPT !.valueCount = @ + 1]
CountedIn(ls) == IF ls = << >> THEN << >> ELSE Append(Front(ls), OneCounted(Last(ls)))

ValueIn(s) ==
  IF s.levels = << >> THEN ~s.hasRoot
  ELSE Last(s.levels).inArray \/ Last(s.levels).valueCount % 2 = 1
NameIn(s) ==
  s.levels # << >> /\ ~Last(s.levels).inArray /\ Last(s.levels).valueCount % 2 = 0

\* s with x after it, which is where a value or a name begins, and v among what was
\* written.
Adds(s, t, x, v) ==
  /\ t.out = s.out \o PrefixOf(s.levels) \o x
  /\ t.levels = CountedIn(s.levels)
  /\ t.written = AddTo(s.written, v)
  /\ t.hasRoot = TRUE

ValueMove(s, t, v) == ValueIn(s) /\ Adds(s, t, Spelt(v), v)
NameMove(s, t, name) == NameIn(s) /\ Adds(s, t, Quoted(name), JString(name))

Bracket(inArray) == IF inArray THEN OPEN_BRACKET ELSE OPEN_BRACE
StartMove(s, t, inArray) ==
  /\ ValueIn(s)
  /\ t.out = s.out \o PrefixOf(s.levels) \o <<Bracket(inArray)>>
  /\ t.levels = Append(CountedIn(s.levels), Level(inArray))
  /\ t.written = Append(s.written, << >>)
  /\ t.hasRoot = TRUE

EndBracket(level) == IF level.inArray THEN CLOSE_BRACKET ELSE CLOSE_BRACE
Pairs(list) == [k \in 1..(Len(list) \div 2) |-> Member(list[2 * k - 1], list[2 * k])]
Collected(level, list) == IF level.inArray THEN JArray(list) ELSE JObject(Pairs(list))
EndMove(s, t) ==
  /\ s.levels # << >> /\ (Last(s.levels).inArray \/ Last(s.levels).valueCount % 2 = 0)
  /\ t.out = Append(s.out, EndBracket(Last(s.levels)))
  /\ t.levels = Front(s.levels)
  /\ t.written = AddTo(Front(s.written), Collected(Last(s.levels), Last(s.written)))
  /\ t.hasRoot = s.hasRoot

Moves(s, t) ==
  \/ \E v \in Scalars : ValueMove(s, t, v)
  \/ \E name \in Names : NameMove(s, t, name)
  \/ \E inArray \in BOOLEAN : StartMove(s, t, inArray)
  \/ EndMove(s, t)

\* What holds of the Writer: what it counts is what was written, and there is
\* one root.
Sound(s, S) ==
  /\ s.out \in Seq(Byte)
  /\ s.levels \in Seq(LevelSet)
  /\ s.hasRoot \in BOOLEAN
  /\ s.written \in Seq(Seq(S)) /\ Len(s.written) = Len(s.levels) + 1
  /\ \A k \in 1..Len(s.levels) :
       s.levels[k].valueCount =
         Len(s.written[k + 1]) + (IF k < Len(s.levels) THEN 1 ELSE 0)
  /\ Len(s.written[1]) = IF s.levels = << >> /\ s.hasRoot THEN 1 ELSE 0
  /\ s.levels # << >> => s.hasRoot

Stack(s) == Stacked(s.levels, s.written)

LEMMA PrinterMoves == ASSUME PrinterNext, (levels # << >> => hasRoot) PROVE Moves(Now, Now')
<1> DEFINE s == Now
           t == Now'
<1>1. s.out = out /\ s.levels = levels /\ s.hasRoot = hasRoot /\ s.written = written
  BY DEF Now, State
<1>2. t.out = out' /\ t.levels = levels' /\ t.hasRoot = hasRoot' /\ t.written = written'
  BY DEF Now, State
<1> HIDE DEF s, t
<1>3. Prefix = PrefixOf(levels) /\ Counted = CountedIn(levels)
  BY DEF Prefix, PrefixOf, Counted, CountedIn, OneCounted, TopLevel
<1>4. TakesValue <=> ValueIn(s)
  BY <1>1 DEF TakesValue, ValueIn, TopLevel
<1>5. TakesName <=> NameIn(s)
  BY <1>1 DEF TakesName, NameIn, TopLevel
<1>6. ASSUME NEW v \in Scalars, WriteScalar(v) PROVE ValueMove(s, t, v)
  BY <1>1, <1>2, <1>3, <1>4, <1>6 DEF WriteScalar, ValueMove, Adds
<1>7. ASSUME NEW name \in Names, Key(name) PROVE NameMove(s, t, name)
  <2>1. hasRoot' = TRUE
    BY <1>7 DEF Key, TakesName
  <2>2. QED
    BY <1>1, <1>2, <1>3, <1>5, <1>7, <2>1 DEF Key, NameMove, Adds
<1>8. ASSUME NEW inArray \in BOOLEAN, Start(inArray) PROVE StartMove(s, t, inArray)
  BY <1>1, <1>2, <1>3, <1>4, <1>8 DEF Start, StartMove, Bracket
<1>9. ASSUME EndArray PROVE EndMove(s, t)
  BY <1>1, <1>2, <1>9 DEF EndArray, EndMove, EndBracket, Collected, TopLevel
<1>10. ASSUME EndObject PROVE EndMove(s, t)
  BY <1>1, <1>2, <1>10
     DEF EndObject, EndMove, EndBracket, Collected, Pairs, TopLevel, TakesName
<1>11. QED
  BY <1>6, <1>7, <1>8, <1>9, <1>10 DEF PrinterNext, Moves, s, t

-----------------------------------------------------------------------------
(***************************************************************************)
(* A move keeps the Writer sound, and adds to the stack.                   *)
(***************************************************************************)
LEMMA SoundMore ==
  ASSUME NEW s, NEW S, NEW S2, Sound(s, S), S \subseteq S2
  PROVE  Sound(s, S2)
<1>1. Seq(S) \subseteq Seq(S2)
  <2> SUFFICES ASSUME NEW x \in Seq(S) PROVE x \in Seq(S2)
    OBVIOUS
  <2>1. QED
    BY SeqMonotonic
<1>2. s.written \in Seq(Seq(S))
  BY DEF Sound
<1> DEFINE T == Seq(S)
           T2 == Seq(S2)
<1>3. s.written \in Seq(T2)
  <2>1. T \subseteq T2 /\ s.written \in Seq(T)
    BY <1>1, <1>2
  <2> HIDE DEF T, T2
  <2>2. QED
    BY ONLY <2>1, SeqMonotonic
<1>4. QED
  BY <1>3 DEF Sound

LEMMA PrefixIs ==
  ASSUME NEW ls
  PROVE  PrefixOf(ls) \in Seq(Byte)
<1>1. << >> \in Seq(Byte) /\ <<COMMA>> \in Seq(Byte) /\ <<COLON>> \in Seq(Byte)
  BY DEF Byte, COMMA, COLON
<1>2. PrefixOf(ls) \in {<< >>, <<COMMA>>, <<COLON>>}
  BY Zenon DEF PrefixOf
<1>3. QED
  BY ONLY <1>1, <1>2, Zenon

LEMMA OneCountedIs ==
  ASSUME NEW level \in LevelSet
  PROVE  /\ OneCounted(level) \in LevelSet
         /\ OneCounted(level).valueCount = level.valueCount + 1
         /\ OneCounted(level).inArray = level.inArray
BY DEF OneCounted, LevelSet

LEMMA CountedIs ==
  ASSUME NEW ls \in Seq(LevelSet)
  PROVE  /\ CountedIn(ls) \in Seq(LevelSet) /\ Len(CountedIn(ls)) = Len(ls) /\ Len(ls) \in Nat
         /\ SameKinds(ls, CountedIn(ls))
         /\ \A k \in 1..Len(ls) : CountedIn(ls)[k].valueCount =
              ls[k].valueCount + (IF k = Len(ls) THEN 1 ELSE 0)
         /\ \A k \in 1..Len(ls) : ls[k].valueCount \in Nat /\ ls[k].inArray \in BOOLEAN
<1>1. Len(ls) \in Nat /\ \A k \in 1..Len(ls) : ls[k] \in LevelSet
  OBVIOUS
<1>2. \A k \in 1..Len(ls) : ls[k].valueCount \in Nat /\ ls[k].inArray \in BOOLEAN
  BY <1>1 DEF LevelSet
<1>3. CASE ls = << >>
  BY <1>1, <1>3 DEF CountedIn, SameKinds
<1>4. CASE ls # << >>
  <2> DEFINE f == Front(ls)
             x == OneCounted(Last(ls))
             l == Len(ls)
             ls2 == CountedIn(ls)
  <2>1. /\ f \in Seq(LevelSet) /\ Last(ls) = ls[l] /\ l \in Nat \ {0} /\ Len(f) = l - 1
        /\ Last(ls) \in LevelSet /\ \A k \in 1..(l - 1) : f[k] = ls[k]
    BY ONLY ls \in Seq(LevelSet), <1>4, FrontLast
  <2>2. x \in LevelSet /\ x.valueCount = ls[l].valueCount + 1 /\ x.inArray = ls[l].inArray
    BY ONLY <2>1, OneCountedIs
  <2>3. ls2 = Append(f, x)
    BY <1>4 DEF CountedIn
  <2> HIDE DEF f, x, l, ls2
  <2>4. /\ ls2 \in Seq(LevelSet) /\ Len(ls2) = Len(f) + 1 /\ ls2[Len(f) + 1] = x
        /\ \A k \in 1..Len(f) : ls2[k] = f[k]
    BY ONLY <2>1, <2>2, <2>3, AppendIs
  <2>5. Len(ls2) = l /\ ls2[l] = x /\ \A k \in 1..(l - 1) : ls2[k] = ls[k]
    BY ONLY <2>1, <2>4
  <2>6. \A k \in 1..l : ls2[k].inArray = ls[k].inArray
    BY ONLY <2>1, <2>2, <2>5
  <2>7. \A k \in 1..l : ls[k].valueCount \in Nat
    BY <1>2 DEF l
  <2>8. \A k \in 1..l : ls2[k].valueCount = ls[k].valueCount + (IF k = l THEN 1 ELSE 0)
    BY ONLY <2>1, <2>2, <2>5, <2>7
  <2>9. QED
    BY ONLY <1>2, <2>1, <2>4, <2>5, <2>6, <2>8 DEF l, ls2, SameKinds
<1>5. QED
  BY <1>3, <1>4

LEMMA AddToIs ==
  ASSUME NEW S, NEW lists \in Seq(Seq(S)), lists # << >>, NEW v \in S
  PROVE  /\ AddTo(lists, v) \in Seq(Seq(S)) /\ Len(AddTo(lists, v)) = Len(lists)
         /\ Len(lists) \in Nat \ {0}
         /\ lists[Len(lists)] \in Seq(S)
         /\ AddTo(lists, v)[Len(lists)] = Append(lists[Len(lists)], v)
         /\ Len(AddTo(lists, v)[Len(lists)]) = Len(lists[Len(lists)]) + 1
         /\ \A k \in 1..(Len(lists) - 1) : AddTo(lists, v)[k] = lists[k]
<1> DEFINE T == Seq(S)
           l == Len(lists)
           f == Front(lists)
           x == Last(lists)
           y == Append(x, v)
           lists2 == AddTo(lists, v)
<1>1. lists \in Seq(T)
  OBVIOUS
<1>2. lists2 = Append(f, y)
  BY DEF AddTo
<1> HIDE DEF T, f, x, y, l, lists2
<1>3. /\ f \in Seq(T) /\ x \in T /\ x = lists[l] /\ l \in Nat \ {0} /\ Len(f) = l - 1
      /\ \A k \in 1..(l - 1) : f[k] = lists[k]
  BY ONLY <1>1, lists # << >>, FrontLast DEF f, x, l
<1>4. x \in Seq(S)
  BY <1>3 DEF T
<1>5. y \in T /\ y = Append(lists[l], v) /\ Len(y) = Len(lists[l]) + 1
  BY <1>3, <1>4, v \in S DEF y, T
<1>6. /\ lists2 \in Seq(T) /\ Len(lists2) = Len(f) + 1 /\ lists2[Len(f) + 1] = y
      /\ \A k \in 1..Len(f) : lists2[k] = f[k]
  BY ONLY <1>2, <1>3, <1>5, AppendIs
<1>7. Len(lists2) = l /\ lists2[l] = y /\ \A k \in 1..(l - 1) : lists2[k] = lists[k]
  BY ONLY <1>3, <1>6
<1>8. QED
  BY ONLY <1>3, <1>4, <1>5, <1>6, <1>7 DEF T, l, lists2

\* A value or a name.
LEMMA AddsSound ==
  ASSUME NEW s, NEW t, NEW S, NEW v, NEW x, Sound(s, S), IsContent(S), Adds(s, t, x, v),
         v \in S, x \in Seq(Byte), s.levels = << >> => ~s.hasRoot
  PROVE  Sound(t, S) /\ Stack(t) = Append(Stack(s), v)
<1> DEFINE ls == s.levels
           ls2 == t.levels
           lists == s.written
           lists2 == t.written
           l == Len(ls)
<1>1. /\ s.out \in Seq(Byte) /\ ls \in Seq(LevelSet) /\ s.hasRoot \in BOOLEAN
      /\ lists \in Seq(Seq(S)) /\ Len(lists) = l + 1
      /\ \A k \in 1..l :
           ls[k].valueCount = Len(lists[k + 1]) + (IF k < l THEN 1 ELSE 0)
      /\ Len(lists[1]) = IF ls = << >> /\ s.hasRoot THEN 1 ELSE 0
      /\ ls # << >> => s.hasRoot
  BY DEF Sound
<1>2. /\ t.out = s.out \o PrefixOf(ls) \o x /\ ls2 = CountedIn(ls)
      /\ lists2 = AddTo(lists, v) /\ t.hasRoot = TRUE
  BY DEF Adds
<1> HIDE DEF ls, ls2, lists, lists2
<1>3. l \in Nat /\ lists # << >>
  BY <1>1
<1>4. /\ ls2 \in Seq(LevelSet) /\ Len(ls2) = l /\ SameKinds(ls, ls2)
      /\ \A k \in 1..l : ls2[k].valueCount = ls[k].valueCount + (IF k = l THEN 1 ELSE 0)
  BY ONLY <1>1, <1>2, CountedIs
<1>5. /\ lists2 \in Seq(Seq(S)) /\ Len(lists2) = Len(lists)
      /\ Len(lists2[Len(lists)]) = Len(lists[Len(lists)]) + 1
      /\ \A k \in 1..(Len(lists) - 1) : lists2[k] = lists[k]
  <2>1. lists \in Seq(Seq(S)) /\ lists # << >> /\ lists2 = AddTo(lists, v)
    BY <1>1, <1>2, <1>3
  <2>2. lists2 \in Seq(Seq(S)) /\ Len(lists2) = Len(lists)
    BY ONLY <2>1, v \in S, AddToIs
  <2>3. Len(lists2[Len(lists)]) = Len(lists[Len(lists)]) + 1
    BY ONLY <2>1, v \in S, AddToIs
  <2>4. \A k \in 1..(Len(lists) - 1) : lists2[k] = lists[k]
    BY ONLY <2>1, v \in S, AddToIs
  <2>5. QED
    BY ONLY <2>2, <2>3, <2>4
<1>6. Len(lists2) = l + 1 /\ Len(lists2[l + 1]) = Len(lists[l + 1]) + 1
      /\ \A k \in 1..l : lists2[k] = lists[k]
  BY ONLY <1>1, <1>3, <1>5
<1> HIDE DEF l
<1>7. ASSUME NEW k \in 1..l
      PROVE  ls2[k].valueCount = Len(lists2[k + 1]) + (IF k < l THEN 1 ELSE 0)
  <2>1. ls[k].valueCount = Len(lists[k + 1]) + (IF k < l THEN 1 ELSE 0)
    BY <1>1
  <2>2. CASE k = l
    <3>1. Len(lists2[k + 1]) = Len(lists[k + 1]) + 1
      BY ONLY <1>6, <2>2
    <3>2. ls2[k].valueCount = ls[k].valueCount + 1
      BY ONLY <1>4, <2>2, k \in 1..l
    <3>3. lists[k + 1] \in Seq(S)
      BY <1>1, <1>3
    <3>4. Len(lists[k + 1]) \in Nat
      BY <3>3
    <3>5. ~(k < l)
      BY <1>3, <2>2
    <3>6. QED
      BY ONLY <2>1, <3>1, <3>2, <3>4, <3>5
  <2>3. CASE k # l
    <3>1. k + 1 \in 1..l
      BY <1>3, <2>3
    <3>2. lists2[k + 1] = lists[k + 1]
      BY ONLY <1>6, <3>1
    <3>3. ls2[k].valueCount = ls[k].valueCount + 0 /\ ls[k].valueCount \in Nat
      BY ONLY <1>1, <1>4, <2>3, k \in 1..l, CountedIs DEF l
    <3>4. QED
      BY ONLY <2>1, <3>2, <3>3
  <2>4. QED
    BY <2>2, <2>3
<1>8. ls2 = << >> <=> ls = << >>
  BY <1>1, <1>4 DEF l
<1>9. Len(lists2[1]) = IF ls2 = << >> /\ t.hasRoot THEN 1 ELSE 0
  <2>1. CASE ls = << >>
    <3>1. l = 0 /\ ~s.hasRoot
      BY <2>1 DEF l, ls
    <3>2. Len(lists2[1]) = Len(lists[1]) + 1 /\ Len(lists[1]) = 0
      <4>1. l + 1 = 1
        BY <3>1
      <4>2. Len(lists2[1]) = Len(lists[1]) + 1
        BY ONLY <1>6, <4>1
      <4>3. Len(lists[1]) = 0
        BY ONLY <1>1, <3>1
      <4>4. QED
        BY <4>2, <4>3
    <3>3. QED
      BY <1>2, <1>8, <2>1, <3>2
  <2>2. CASE ls # << >>
    <3>1. 1 \in 1..l
      BY <1>1, <1>3, <2>2 DEF l
    <3>2. lists2[1] = lists[1]
      BY ONLY <1>6, <3>1
    <3>3. QED
      BY <1>1, <1>8, <2>2, <3>2
  <2>3. QED
    BY <2>1, <2>2
<1>10. t.out \in Seq(Byte)
  <2>1. PrefixOf(ls) \in Seq(Byte)
    BY PrefixIs
  <2>2. s.out \o PrefixOf(ls) \in Seq(Byte)
    BY ONLY <1>1, <2>1, ConcatProperties
  <2>3. (s.out \o PrefixOf(ls)) \o x \in Seq(Byte)
    BY ONLY <2>2, x \in Seq(Byte), ConcatProperties
  <2>4. QED
    BY <1>2, <2>3
<1>11. Sound(t, S)
  BY ONLY <1>2, <1>4, <1>5, <1>6, <1>7, <1>9, <1>10 DEF Sound, ls2, lists2
<1>12. Stacked(ls2, AddTo(lists, v)) = Append(Stacked(ls, lists), v)
  <2>1. lists \in Seq(Seq(S)) /\ lists # << >> /\ Len(lists) = Len(ls) + 1 /\ SameKinds(ls, ls2)
    BY <1>1, <1>3, <1>4 DEF l
  <2>2. QED
    BY ONLY <2>1, IsContent(S), v \in S, StackedAdd
<1>13. QED
  BY <1>2, <1>11, <1>12 DEF Stack, ls, ls2, lists, lists2

\* An array or an object is begun.
LEMMA StartSound ==
  ASSUME NEW s, NEW t, NEW S, Sound(s, S), IsContent(S), NEW inArray \in BOOLEAN,
         StartMove(s, t, inArray)
  PROVE  Sound(t, S) /\ Stack(t) = Append(Stack(s), Opened(Level(inArray)))
<1> DEFINE ls == s.levels
           ls2 == t.levels
           lists == s.written
           lists2 == t.written
           l == Len(ls)
           counted == CountedIn(ls)
           level == Level(inArray)
<1>1. /\ s.out \in Seq(Byte) /\ ls \in Seq(LevelSet) /\ s.hasRoot \in BOOLEAN
      /\ lists \in Seq(Seq(S)) /\ Len(lists) = l + 1
      /\ \A k \in 1..l :
           ls[k].valueCount = Len(lists[k + 1]) + (IF k < l THEN 1 ELSE 0)
      /\ Len(lists[1]) = IF ls = << >> /\ s.hasRoot THEN 1 ELSE 0
  BY DEF Sound
<1>2. /\ t.out = s.out \o PrefixOf(ls) \o <<Bracket(inArray)>> /\ ls2 = Append(counted, level)
      /\ lists2 = Append(lists, << >>) /\ t.hasRoot = TRUE
      /\ ls = << >> => ~s.hasRoot
  BY DEF StartMove, ValueIn
<1>3. level \in LevelSet /\ level.valueCount = 0
  BY DEF Level, LevelSet
<1> HIDE DEF ls, ls2, lists, lists2, counted, level
<1>4. l \in Nat /\ lists # << >>
  BY <1>1
<1>5. /\ counted \in Seq(LevelSet) /\ Len(counted) = l /\ SameKinds(ls, counted)
      /\ \A k \in 1..l : counted[k].valueCount = ls[k].valueCount + (IF k = l THEN 1 ELSE 0)
  BY ONLY <1>1, CountedIs DEF counted
<1>6. ls2 \in Seq(LevelSet) /\ Len(ls2) = l + 1 /\ ls2[l + 1] = level
  BY ONLY <1>2, <1>3, <1>5, AppendIs
<1>7. \A k \in 1..l : ls2[k] = counted[k]
  BY ONLY <1>2, <1>3, <1>5, AppendIs
<1>8. ls2 # << >>
  BY <1>4, <1>6
<1>9. /\ lists2 \in Seq(Seq(S)) /\ Len(lists2) = l + 2 /\ lists2[l + 2] = << >>
      /\ \A k \in 1..(l + 1) : lists2[k] = lists[k]
  <2> DEFINE T == Seq(S)
  <2>1. << >> \in T /\ lists \in Seq(T)
    BY <1>1
  <2> HIDE DEF T
  <2>2. /\ lists2 \in Seq(T) /\ Len(lists2) = Len(lists) + 1
        /\ lists2[Len(lists) + 1] = << >>
    BY ONLY <1>2, <2>1, AppendIs
  <2>3. \A k \in 1..Len(lists) : lists2[k] = lists[k]
    BY ONLY <1>2, <2>1, AppendIs
  <2>4. Len(lists) + 1 = l + 2 /\ Len(lists) = l + 1
    BY <1>1, <1>4
  <2>5. QED
    BY ONLY <2>2, <2>3, <2>4 DEF T
<1>10. \A k \in 1..(l + 1) : lists2[k] = lists[k]
  BY ONLY <1>9
<1> HIDE DEF l
<1>11. ASSUME NEW k \in 1..(l + 1)
       PROVE  ls2[k].valueCount = Len(lists2[k + 1]) + (IF k < l + 1 THEN 1 ELSE 0)
  <2>1. CASE k = l + 1
    <3>1. Len(lists2[k + 1]) = 0 /\ ls2[k].valueCount = 0
      <4>1. k + 1 = l + 2 /\ Len(<< >>) = 0
        BY <1>4, <2>1
      <4>2. QED
        BY ONLY <1>3, <1>6, <1>9, <2>1, <4>1
    <3>2. QED
      BY <1>4, <2>1, <3>1
  <2>2. CASE k # l + 1
    <3>1. k \in 1..l /\ k + 1 \in 1..(l + 1)
      BY <1>4, <2>2
    <3>2. lists2[k + 1] = lists[k + 1] /\ ls2[k] = counted[k]
      BY ONLY <1>7, <1>10, <3>1
    <3>3. counted[k].valueCount = ls[k].valueCount + (IF k = l THEN 1 ELSE 0)
      BY ONLY <1>5, <3>1
    <3>4. ls[k].valueCount = Len(lists[k + 1]) + (IF k < l THEN 1 ELSE 0)
      BY ONLY <1>1, <3>1
    <3>5. lists[k + 1] \in Seq(S)
      BY <1>1, <1>4, <3>1
    <3>6. Len(lists[k + 1]) \in Nat
      BY <3>5
    <3>7. k < l <=> k # l
      BY <1>4, <3>1
    <3>8. k < l + 1
      BY <1>4, <3>1
    <3>9. counted[k].valueCount = Len(lists[k + 1]) + 1
      <4>1. CASE k = l
        BY ONLY <3>3, <3>4, <3>6, <3>7, <4>1
      <4>2. CASE k # l
        <5>1. k < l
          BY ONLY <3>7, <4>2
        <5>2. ls[k].valueCount = Len(lists[k + 1]) + 1
          BY ONLY <3>4, <5>1
        <5>3. counted[k].valueCount = ls[k].valueCount + 0
          BY ONLY <3>3, <4>2
        <5>4. QED
          BY ONLY <3>6, <5>2, <5>3
      <4>3. QED
        BY <4>1, <4>2
    <3>10. QED
      BY ONLY <3>2, <3>8, <3>9
  <2>3. QED
    BY <2>1, <2>2
<1>12. Len(lists2[1]) = 0
  <2>1. 1 \in 1..(l + 1)
    BY <1>4
  <2>2. lists2[1] = lists[1]
    BY ONLY <1>10, <2>1
  <2>3. QED
    BY <1>1, <1>2, <2>2
<1>13. t.out \in Seq(Byte)
  <2>1. <<Bracket(inArray)>> \in Seq(Byte)
    BY DEF Bracket, OPEN_BRACKET, OPEN_BRACE, Byte
  <2>2. s.out \o PrefixOf(ls) \in Seq(Byte)
    BY ONLY <1>1, PrefixIs, ConcatProperties
  <2>3. (s.out \o PrefixOf(ls)) \o <<Bracket(inArray)>> \in Seq(Byte)
    BY ONLY <2>1, <2>2, ConcatProperties
  <2>4. QED
    BY <1>2, <2>3
<1>14. Sound(t, S)
  <2>1. Len(lists2) = (l + 1) + 1
    BY <1>4, <1>9
  <2>2. QED
    BY ONLY <1>2, <1>6, <1>8, <1>9, <1>11, <1>12, <1>13, <2>1 DEF Sound, ls2, lists2
<1>15. Stacked(Append(counted, level), Append(lists, << >>)) = Append(Stacked(ls, lists), Opened(level))
  BY ONLY <1>1, <1>3, <1>4, <1>5, IsContent(S), StackedOpen DEF l
<1>16. QED
  BY <1>2, <1>14, <1>15 DEF Stack, ls, ls2, lists, lists2, level

\* An array or an object is ended.
LEMMA EndSound ==
  ASSUME NEW s, NEW t, NEW S, Sound(s, S), IsContent(S), EndMove(s, t),
         Collected(Last(s.levels), Last(s.written)) \in S
  PROVE  /\ Sound(t, S)
         /\ Stack(t) = Append(Stacked(Front(s.levels), Front(s.written)),
                              Collected(Last(s.levels), Last(s.written)))
         /\ Stack(s) = Stacked(Front(s.levels), Front(s.written))
                         \o (<<Opened(Last(s.levels))>> \o Last(s.written))
         /\ Last(s.written) \in Seq(S)
         /\ Len(Last(s.written)) = Last(s.levels).valueCount
<1> DEFINE ls == s.levels
           lists == s.written
           f == Front(ls)
           g == Front(lists)
           lists2 == t.written
           l == Len(ls)
           c == Collected(Last(ls), Last(lists))
<1>1. /\ s.out \in Seq(Byte) /\ ls \in Seq(LevelSet)
      /\ lists \in Seq(Seq(S)) /\ Len(lists) = l + 1
      /\ \A k \in 1..l :
           ls[k].valueCount = Len(lists[k + 1]) + (IF k < l THEN 1 ELSE 0)
      /\ Len(lists[1]) = IF ls = << >> /\ s.hasRoot THEN 1 ELSE 0
      /\ ls # << >> => s.hasRoot
      /\ s.hasRoot \in BOOLEAN
  BY DEF Sound
<1>2. /\ ls # << >> /\ t.levels = f /\ lists2 = AddTo(g, c) /\ t.hasRoot = s.hasRoot
      /\ t.out = Append(s.out, EndBracket(Last(ls)))
  BY DEF EndMove
<1>3. c \in S
  OBVIOUS
<1> HIDE DEF ls, lists, f, g, lists2, c
<1>4. /\ f \in Seq(LevelSet) /\ Last(ls) = ls[l] /\ l \in Nat \ {0} /\ Len(f) = l - 1
      /\ \A k \in 1..(l - 1) : f[k] = ls[k]
  BY ONLY <1>1, <1>2, FrontLast DEF f
<1>5. /\ Stacked(ls, lists) = Stacked(f, g) \o (<<Opened(Last(ls))>> \o Last(lists))
      /\ g \in Seq(Seq(S)) /\ g # << >> /\ Len(g) = Len(f) + 1
      /\ Last(lists) \in Seq(S) /\ Last(lists) = lists[Len(lists)]
  <2>1. ls \in Seq(LevelSet) /\ ls # << >> /\ lists \in Seq(Seq(S)) /\ Len(lists) = Len(ls) + 1
    BY <1>1, <1>2 DEF l
  <2>2. Stacked(ls, lists) = Stacked(f, g) \o (<<Opened(Last(ls))>> \o Last(lists))
    BY ONLY <2>1, IsContent(S), StackedClose DEF f, g
  <2>3. g \in Seq(Seq(S)) /\ g # << >>
    BY ONLY <2>1, IsContent(S), StackedClose DEF f, g
  <2>4. Len(g) = Len(f) + 1
    BY ONLY <2>1, IsContent(S), StackedClose DEF f, g
  <2>5. Last(lists) \in Seq(S)
    BY ONLY <2>1, IsContent(S), StackedClose DEF f, g
  <2>6. Last(lists) = lists[Len(lists)]
    BY DEF Last
  <2>7. QED
    BY <2>2, <2>3, <2>4, <2>5, <2>6
<1>6. Len(g) = l /\ \A k \in 1..l : g[k] = lists[k]
  <2> DEFINE T == Seq(S)
  <2>1. lists \in Seq(T) /\ lists # << >>
    BY <1>1, <1>4
  <2> HIDE DEF T
  <2>2. Len(g) = Len(lists) - 1 /\ \A k \in 1..(Len(lists) - 1) : g[k] = lists[k]
    BY ONLY <2>1, FrontLast DEF g
  <2>3. Len(lists) - 1 = l
    BY <1>1, <1>4
  <2>4. QED
    BY ONLY <2>2, <2>3
<1>7. Stacked(f, AddTo(g, c)) = Append(Stacked(f, g), c)
  <2>1. SameKinds(f, f)
    BY DEF SameKinds
  <2>2. QED
    BY ONLY <1>3, <1>5, <2>1, IsContent(S), StackedAdd
<1>8. /\ lists2 \in Seq(Seq(S)) /\ Len(lists2) = Len(g)
  BY ONLY <1>2, <1>3, <1>5, AddToIs
<1>9. Len(lists2[Len(g)]) = Len(g[Len(g)]) + 1 /\ g[Len(g)] \in Seq(S)
  BY ONLY <1>2, <1>3, <1>5, AddToIs
<1>10. \A k \in 1..(Len(g) - 1) : lists2[k] = g[k]
  <2>1. lists2 = AddTo(g, c) /\ g \in Seq(Seq(S)) /\ g # << >> /\ c \in S
    BY <1>2, <1>3, <1>5
  <2>2. QED
    BY ONLY <2>1, AddToIs
<1>11. /\ Len(lists2) = l /\ Len(lists2[l]) = Len(lists[l]) + 1
       /\ lists[l] \in Seq(S)
       /\ \A k \in 1..(l - 1) : lists2[k] = lists[k]
  <2>1. l \in 1..l /\ \A k \in 1..(l - 1) : k \in 1..l
    BY <1>4
  <2>2. g[l] = lists[l] /\ Len(g) = l
    BY ONLY <1>6, <2>1
  <2>3. Len(lists2) = l /\ Len(lists2[l]) = Len(lists[l]) + 1 /\ lists[l] \in Seq(S)
    BY ONLY <1>8, <1>9, <2>2
  <2>4. \A k \in 1..(l - 1) : lists2[k] = lists[k]
    BY ONLY <1>6, <1>10, <2>1, <2>2
  <2>5. QED
    BY ONLY <2>3, <2>4
<1> HIDE DEF l
<1>12. Len(lists[l]) \in Nat
  BY <1>11
<1>13. Len(Last(lists)) = Last(ls).valueCount
  <2>1. Len(lists) = l + 1 /\ l \in 1..l /\ ~(l < l)
    BY <1>1, <1>4
  <2>2. ls[l].valueCount = Len(lists[l + 1]) + 0
    BY ONLY <1>1, <2>1
  <2>3. Len(Last(lists)) \in Nat
    BY <1>5
  <2>4. QED
    BY ONLY <1>4, <1>5, <2>1, <2>2, <2>3
<1>14. ASSUME NEW k \in 1..(l - 1)
       PROVE  f[k].valueCount = Len(lists2[k + 1]) + (IF k < l - 1 THEN 1 ELSE 0)
  <2>1. f[k] = ls[k] /\ k \in 1..l /\ k < l
    BY <1>4
  <2>2. ls[k].valueCount = Len(lists[k + 1]) + 1
    BY ONLY <1>1, <2>1
  <2>3. CASE k = l - 1
    <3>1. k + 1 = l /\ ~(k < l - 1)
      BY <1>4, <2>3
    <3>2. Len(lists2[k + 1]) = Len(lists[k + 1]) + 1 /\ Len(lists[k + 1]) \in Nat
      BY ONLY <1>11, <1>12, <3>1
    <3>3. QED
      BY ONLY <2>1, <2>2, <3>1, <3>2
  <2>4. CASE k # l - 1
    <3>1. k + 1 \in 1..(l - 1) /\ k < l - 1
      BY <1>4, <2>4
    <3>2. lists2[k + 1] = lists[k + 1]
      BY ONLY <1>11, <3>1
    <3>3. QED
      BY ONLY <2>1, <2>2, <3>1, <3>2
  <2>5. QED
    BY <2>3, <2>4
<1>15. Len(lists2[1]) = IF f = << >> /\ t.hasRoot THEN 1 ELSE 0
  <2>1. Len(lists[1]) = 0 /\ t.hasRoot
    BY ONLY <1>1, <1>2
  <2>2. CASE l = 1
    <3>1. f = << >>
      BY <1>4, <2>2
    <3>2. Len(lists2[1]) = Len(lists[1]) + 1
      BY ONLY <1>11, <2>2
    <3>3. QED
      BY ONLY <2>1, <3>1, <3>2
  <2>3. CASE l # 1
    <3>1. f # << >> /\ 1 \in 1..(l - 1)
      BY <1>4, <2>3
    <3>2. lists2[1] = lists[1]
      BY ONLY <1>11, <3>1
    <3>3. QED
      BY ONLY <2>1, <3>1, <3>2
  <2>4. QED
    BY <2>2, <2>3
<1>16. t.out \in Seq(Byte)
  <2>1. EndBracket(Last(ls)) \in Byte
    BY DEF EndBracket, CLOSE_BRACKET, CLOSE_BRACE, Byte
  <2>2. QED
    BY ONLY <1>1, <1>2, <2>1, AppendIs
<1>17. Sound(t, S)
  <2>1. Len(f) + 1 = l /\ Len(lists2) = Len(f) + 1
    BY <1>4, <1>11
  <2>2. t.hasRoot /\ t.hasRoot \in BOOLEAN
    BY ONLY <1>1, <1>2
  <2>3. \A k \in 1..Len(f) :
          f[k].valueCount = Len(lists2[k + 1]) + (IF k < Len(f) THEN 1 ELSE 0)
    BY ONLY <1>4, <1>14
  <2>4. QED
    BY ONLY <1>2, <1>4, <1>8, <1>15, <1>16, <2>1, <2>2, <2>3 DEF Sound, lists2
<1>18. QED
  BY ONLY <1>2, <1>5, <1>7, <1>13, <1>17 DEF Stack, ls, lists, f, g, lists2, c

-----------------------------------------------------------------------------
(***************************************************************************)
(* The history of the Writer: the states it went through, each of which    *)
(* begins the text of the next.                                            *)
(***************************************************************************)
HasAll(S) == IsContent(S) /\ Scalars \subseteq S /\ \A name \in Names : JString(name) \in S

MovesIn(s, t, S) ==
  Moves(s, t) /\ (EndMove(s, t) => Collected(Last(s.levels), Last(s.written)) \in S)

History(H, n, S) ==
  /\ n \in Nat \ {0} /\ HasAll(S)
  /\ H[1] = Blank
  /\ \A k \in 1..n : Sound(H[k], S) /\ Begins(H[k].out, H[n].out)
  /\ \A k \in 1..(n - 1) : MovesIn(H[k], H[k + 1], S)

LEMMA BeginsConcat ==
  ASSUME NEW S, NEW a \in Seq(S), NEW x \in Seq(S)
  PROVE  Begins(a, a \o x)
<1>1. /\ Len(a) \in Nat /\ Len(x) \in Nat /\ Len(a \o x) = Len(a) + Len(x)
      /\ \A j \in 1..Len(a) : (a \o x)[j] = a[j]
  OBVIOUS
<1>2. QED
  BY ONLY <1>1 DEF Begins

LEMMA BeginsOn ==
  ASSUME NEW a, NEW b, NEW c, Begins(a, b), Begins(b, c),
         Len(a) \in Nat, Len(b) \in Nat, Len(c) \in Nat
  PROVE  Begins(a, c)
BY DEF Begins

\* A move keeps the Writer sound and the text there was.
LEMMA MoveSound ==
  ASSUME NEW s, NEW t, NEW S, Sound(s, S), HasAll(S), MovesIn(s, t, S)
  PROVE  Sound(t, S) /\ Begins(s.out, t.out)
<1>1. s.out \in Seq(Byte) /\ IsContent(S) /\ PrefixOf(s.levels) \in Seq(Byte)
  BY PrefixIs DEF Sound, HasAll
<1>2. ASSUME NEW x \in Seq(Byte), t.out = s.out \o PrefixOf(s.levels) \o x
      PROVE  Begins(s.out, t.out)
  <2> DEFINE p == PrefixOf(s.levels)
             a == s.out
  <2>1. a \in Seq(Byte) /\ p \in Seq(Byte) /\ t.out = (a \o p) \o x
    BY <1>1, <1>2
  <2> HIDE DEF p, a
  <2>2. (a \o p) \o x = a \o (p \o x) /\ p \o x \in Seq(Byte)
    BY ONLY <2>1, x \in Seq(Byte), ConcatAssociative, ConcatProperties
  <2>3. Begins(a, a \o (p \o x))
    BY ONLY <2>1, <2>2, BeginsConcat
  <2>4. QED
    BY <2>1, <2>2, <2>3 DEF a
<1>3. CASE \E v \in Scalars : ValueMove(s, t, v)
  <2>1. PICK v \in Scalars : ValueMove(s, t, v)
    BY <1>3
  <2>2. v \in S /\ Spelt(v) \in Seq(Byte) /\ Adds(s, t, Spelt(v), v)
        /\ (s.levels = << >> => ~s.hasRoot)
    BY <2>1, SpeltStarts DEF HasAll, ValueMove, ValueIn
  <2>3. Sound(t, S)
    BY ONLY <1>1, <2>2, Sound(s, S), AddsSound
  <2>4. QED
    BY <1>2, <2>2, <2>3 DEF Adds
<1>4. CASE \E name \in Names : NameMove(s, t, name)
  <2>1. PICK name \in Names : NameMove(s, t, name)
    BY <1>4
  <2>2. JString(name) \in S /\ name \in Seq(Byte) /\ s.levels # << >>
        /\ Adds(s, t, Quoted(name), JString(name))
    BY <2>1, WrittenValuesAssumption DEF HasAll, NameMove, NameIn, Byte
  <2>3. Quoted(name) \in Seq(Byte)
    BY ONLY <2>2, QuotedStarts
  <2>4. Sound(t, S)
    BY ONLY <1>1, <2>2, <2>3, Sound(s, S), AddsSound
  <2>5. QED
    BY <1>2, <2>2, <2>3, <2>4 DEF Adds
<1>5. CASE \E inArray \in BOOLEAN : StartMove(s, t, inArray)
  <2>1. PICK inArray \in BOOLEAN : StartMove(s, t, inArray)
    BY <1>5
  <2>2. Sound(t, S)
    BY ONLY <1>1, <2>1, Sound(s, S), StartSound
  <2>3. <<Bracket(inArray)>> \in Seq(Byte)
    BY DEF Bracket, OPEN_BRACKET, OPEN_BRACE, Byte
  <2>4. QED
    BY <1>2, <2>1, <2>2, <2>3 DEF StartMove
<1>6. CASE EndMove(s, t)
  <2>1. Collected(Last(s.levels), Last(s.written)) \in S
    BY <1>6 DEF MovesIn
  <2>2. Sound(t, S)
    BY ONLY <1>1, <1>6, <2>1, Sound(s, S), EndSound
  <2>3. EndBracket(Last(s.levels)) \in Byte
    BY DEF EndBracket, CLOSE_BRACKET, CLOSE_BRACE, Byte
  <2>4. t.out = Append(s.out, EndBracket(Last(s.levels)))
    BY <1>6 DEF EndMove
  <2>5. Begins(s.out, t.out)
    <3>1. \A j \in 1..Len(s.out) : t.out[j] = s.out[j]
      BY ONLY <1>1, <2>3, <2>4, AppendIs
    <3>2. Len(t.out) = Len(s.out) + 1 /\ Len(s.out) \in Nat
      BY ONLY <1>1, <2>3, <2>4, AppendIs
    <3>3. QED
      BY ONLY <3>1, <3>2 DEF Begins
  <2>6. QED
    BY <2>2, <2>5
<1>7. QED
  BY <1>3, <1>4, <1>5, <1>6 DEF MovesIn, Moves

LEMMA BlankHistory ==
  ASSUME NEW S, HasAll(S)
  PROVE  \E H : History(H, 1, S) /\ H[1] = Blank
<1> DEFINE H == [k \in {1} |-> Blank]
<1>1. H[1] = Blank /\ \A k \in 1..1 : k = 1
  OBVIOUS
<1> HIDE DEF H
<1>2. Sound(Blank, S)
  <2>1. /\ Blank.out = << >> /\ Blank.levels = << >> /\ Blank.hasRoot = FALSE
        /\ Blank.written = <<<< >>>>
    BY DEF Blank, State
  <2>2. <<<< >>>> \in Seq(Seq(S)) /\ Len(<<<< >>>>) = 0 + 1 /\ <<<< >>>>[1] = << >>
    OBVIOUS
  <2>3. << >> \in Seq(Byte) /\ << >> \in Seq(LevelSet) /\ Len(<< >>) = 0
    OBVIOUS
  <2>4. \A k \in 1..0 : FALSE
    OBVIOUS
  <2>5. QED
    <3>1. Blank.out \in Seq(Byte) /\ Blank.levels \in Seq(LevelSet) /\ Blank.hasRoot \in BOOLEAN
      BY ONLY <2>1, <2>3
    <3>2. Blank.written \in Seq(Seq(S)) /\ Len(Blank.written) = Len(Blank.levels) + 1
      BY ONLY <2>1, <2>2, <2>3
    <3>3. Len(Blank.levels) = 0 /\ Len(Blank.written[1]) = 0
      BY ONLY <2>1, <2>2, <2>3
    <3>4. \A k \in 1..Len(Blank.levels) :
            Blank.levels[k].valueCount =
              Len(Blank.written[k + 1]) + (IF k < Len(Blank.levels) THEN 1 ELSE 0)
      BY ONLY <2>4, <3>3
    <3>5. QED
      BY ONLY <2>1, <3>1, <3>2, <3>3, <3>4 DEF Sound
<1>3. Begins(Blank.out, Blank.out)
  BY DEF Blank, State, Begins
<1>4. 1 \in Nat \ {0} /\ \A k \in 1..(1 - 1) : FALSE
  OBVIOUS
<1>5. History(H, 1, S)
  BY ONLY <1>1, <1>2, <1>3, <1>4, HasAll(S) DEF History
<1>6. QED
  BY <1>1, <1>5

LEMMA HistoryGoesOn ==
  ASSUME NEW H, NEW n, NEW S, NEW t, History(H, n, S), Moves(H[n], t)
  PROVE  \E H2, n2, S2 : History(H2, n2, S2) /\ H2[n2] = t
<1> DEFINE s == H[n]
           c == Collected(Last(s.levels), Last(s.written))
           S2 == S \cup {c}
           H2 == [k \in 1..(n + 1) |-> IF k = n + 1 THEN t ELSE H[k]]
<1>1. /\ n \in Nat \ {0} /\ HasAll(S) /\ H[1] = Blank
      /\ \A k \in 1..n : Sound(H[k], S) /\ Begins(H[k].out, s.out)
      /\ \A k \in 1..(n - 1) : MovesIn(H[k], H[k + 1], S)
  BY DEF History
<1>2. S \subseteq S2 /\ c \in S2 /\ HasAll(S2)
  BY <1>1 DEF HasAll, IsContent
<1>3. MovesIn(s, t, S2)
  BY <1>2 DEF MovesIn
<1>4. n + 1 \in 1..(n + 1) /\ n \in 1..n /\ 1 # n + 1 /\ n + 1 \in Nat \ {0} /\ 1 \in 1..n
      /\ (n + 1) - 1 = n /\ \A k \in 1..n : k \in 1..(n + 1) /\ k # n + 1
  BY <1>1
<1>5. H2[n + 1] = t /\ \A k \in 1..n : H2[k] = H[k]
  BY ONLY <1>4
<1> HIDE DEF H2, S2, c
<1>6. \A k \in 1..n : Sound(H[k], S2)
  BY ONLY <1>1, <1>2, SoundMore
<1>7. Sound(t, S2) /\ Begins(s.out, t.out)
  BY ONLY <1>2, <1>3, <1>4, <1>6, MoveSound
<1> HIDE DEF s
<1>8. ASSUME NEW k \in 1..n PROVE Begins(H[k].out, t.out)
  <2>1. Len(H[k].out) \in Nat
    BY <1>6 DEF Sound
  <2>2. Len(s.out) \in Nat
    BY <1>4, <1>6 DEF Sound, s
  <2>3. Len(t.out) \in Nat
    BY <1>7 DEF Sound
  <2>4. Begins(H[k].out, s.out)
    BY <1>1
  <2>5. QED
    BY ONLY <1>7, <2>1, <2>2, <2>3, <2>4, BeginsOn
<1>9. Begins(t.out, t.out)
  <2>1. Len(t.out) \in Nat
    BY <1>7 DEF Sound
  <2>2. QED
    BY <2>1 DEF Begins
<1>10. \A k \in 1..(n + 1) : Sound(H2[k], S2) /\ Begins(H2[k].out, H2[n + 1].out)
  <2> SUFFICES ASSUME NEW k \in 1..(n + 1)
               PROVE  Sound(H2[k], S2) /\ Begins(H2[k].out, H2[n + 1].out)
    OBVIOUS
  <2>1. CASE k = n + 1
    BY ONLY <1>5, <1>7, <1>9, <2>1
  <2>2. CASE k # n + 1
    <3>1. k \in 1..n
      BY <1>1, <2>2
    <3>2. QED
      BY ONLY <1>5, <1>6, <1>8, <3>1
  <2>3. QED
    BY <2>1, <2>2
<1>11. \A k \in 1..n : MovesIn(H2[k], H2[k + 1], S2)
  <2> SUFFICES ASSUME NEW k \in 1..n PROVE MovesIn(H2[k], H2[k + 1], S2)
    OBVIOUS
  <2>1. CASE k = n
    BY ONLY <1>3, <1>4, <1>5, <2>1 DEF s
  <2>2. CASE k # n
    <3>1. k \in 1..(n - 1) /\ k + 1 \in 1..n
      BY <1>1, <2>2
    <3>2. MovesIn(H[k], H[k + 1], S)
      BY <1>1, <3>1
    <3>3. MovesIn(H[k], H[k + 1], S2)
      BY ONLY <1>2, <3>2 DEF MovesIn
    <3>4. QED
      BY ONLY <1>5, <3>1, <3>3
  <2>3. QED
    BY <2>1, <2>2
<1>12. History(H2, n + 1, S2)
  BY ONLY <1>1, <1>2, <1>4, <1>5, <1>10, <1>11 DEF History
<1>13. QED
  BY <1>5, <1>12

-----------------------------------------------------------------------------
(***************************************************************************)
(* The calls of the reader and the levels of the Writer.                   *)
(***************************************************************************)

\* A call has counted all that is behind a comma: what was written in the level
\* and what is still to be read is one element or one pair more.
SameCount(frame, level, left) ==
  /\ frame.kind = KindOf(level)
  /\ level.valueCount + left =
       IF level.inArray THEN frame.count + 1 ELSE 2 * (frame.count + 1)
LeftIn(k, l, left) == IF k = l THEN left ELSE 0
Matched(calls, ls, left) ==
  /\ calls \in Seq(FrameSet) /\ ls \in Seq(LevelSet) /\ Len(calls) = Len(ls)
  /\ \A k \in 1..Len(ls) : SameCount(calls[k], ls[k], LeftIn(k, Len(ls), left))

\* A value or a name is read.
LEMMA MatchRead ==
  ASSUME NEW calls, NEW ls, NEW left \in Nat, Matched(calls, ls, left + 1)
  PROVE  Matched(calls, CountedIn(ls), left)
<1> DEFINE ls2 == CountedIn(ls)
           l == Len(ls)
<1>1. /\ calls \in Seq(FrameSet) /\ ls \in Seq(LevelSet) /\ Len(calls) = l
      /\ \A k \in 1..l : SameCount(calls[k], ls[k], LeftIn(k, l, left + 1))
  BY DEF Matched
<1>2. /\ ls2 \in Seq(LevelSet) /\ Len(ls2) = l /\ l \in Nat
      /\ SameKinds(ls, ls2)
      /\ \A k \in 1..l : ls2[k].valueCount = ls[k].valueCount + (IF k = l THEN 1 ELSE 0)
      /\ \A k \in 1..l : ls[k].valueCount \in Nat
  BY ONLY <1>1, CountedIs
<1> HIDE DEF ls2, l
<1>3. ASSUME NEW k \in 1..l PROVE SameCount(calls[k], ls2[k], LeftIn(k, l, left))
  <2>1. ls2[k].inArray = ls[k].inArray
    BY <1>2 DEF SameKinds, l
  <2>2. SameCount(calls[k], ls[k], LeftIn(k, l, left + 1)) /\ ls[k].valueCount \in Nat
    BY ONLY <1>1, <1>2, k \in 1..l
  <2>3. ls2[k].valueCount + LeftIn(k, l, left) = ls[k].valueCount + LeftIn(k, l, left + 1)
    <3>1. CASE k = l
      <4>1. ls2[k].valueCount = ls[k].valueCount + 1
        BY ONLY <1>2, <3>1, k \in 1..l
      <4>2. QED
        BY <2>2, <3>1, <4>1 DEF LeftIn
    <3>2. CASE k # l
      <4>1. ls2[k].valueCount = ls[k].valueCount + 0
        BY ONLY <1>2, <3>2, k \in 1..l
      <4>2. QED
        BY <2>2, <3>2, <4>1 DEF LeftIn
    <3>3. QED
      BY <3>1, <3>2
  <2>4. QED
    BY ONLY <2>1, <2>2, <2>3 DEF SameCount, KindOf
<1>4. QED
  BY ONLY <1>1, <1>2, <1>3 DEF Matched, ls2

\* What is known of the innermost call.
LEMMA MatchTop ==
  ASSUME NEW calls, NEW ls, NEW left \in Nat, Matched(calls, ls, left), ls # << >>
  PROVE  /\ calls # << >> /\ Last(ls) \in LevelSet /\ Last(calls) \in FrameSet
         /\ Last(ls).valueCount \in Nat /\ Last(ls).inArray \in BOOLEAN
         /\ Last(calls).count \in Nat
         /\ SameCount(Last(calls), Last(ls), left)
<1>1. /\ calls \in Seq(FrameSet) /\ ls \in Seq(LevelSet) /\ Len(calls) = Len(ls)
      /\ \A k \in 1..Len(ls) : SameCount(calls[k], ls[k], LeftIn(k, Len(ls), left))
  BY DEF Matched
<1>2. Last(ls) \in LevelSet /\ Last(ls) = ls[Len(ls)] /\ Len(ls) \in Nat \ {0}
  BY ONLY <1>1, ls # << >>, FrontLast
<1>3. calls # << >>
  BY <1>1, <1>2
<1>4. Last(calls) \in FrameSet /\ Last(calls) = calls[Len(calls)]
  BY ONLY <1>1, <1>3, FrontLast
<1>5. Len(ls) \in 1..Len(ls) /\ LeftIn(Len(ls), Len(ls), left) = left
  BY <1>2 DEF LeftIn
<1>6. SameCount(Last(calls), Last(ls), left)
  <2>1. SameCount(calls[Len(ls)], ls[Len(ls)], LeftIn(Len(ls), Len(ls), left))
    BY ONLY <1>1, <1>5
  <2>2. QED
    BY ONLY <1>1, <1>2, <1>4, <1>5, <2>1
<1>7. QED
  BY <1>2, <1>3, <1>4, <1>6 DEF LevelSet, FrameSet

\* The innermost call counts one more, behind a comma.
LEMMA MatchComma ==
  ASSUME NEW calls, NEW ls, Matched(calls, ls, 0), ls # << >>
  PROVE  Matched(Append(Front(calls), [Last(calls) EXCEPT !.count = @ + 1]), ls,
                 IF Last(ls).inArray THEN 1 ELSE 2)
<1> DEFINE f == Front(calls)
           x == Last(calls)
           y == [x EXCEPT !.count = @ + 1]
           calls2 == Append(f, y)
           l == Len(ls)
           left == IF Last(ls).inArray THEN 1 ELSE 2
<1>1. /\ calls \in Seq(FrameSet) /\ ls \in Seq(LevelSet) /\ Len(calls) = l
      /\ \A k \in 1..l : SameCount(calls[k], ls[k], LeftIn(k, l, 0))
  BY DEF Matched
<1>2. Last(ls) = ls[l] /\ l \in Nat \ {0}
  BY ONLY <1>1, ls # << >>, FrontLast
<1>3. /\ calls # << >> /\ x \in FrameSet /\ SameCount(x, Last(ls), 0)
      /\ Last(ls).valueCount \in Nat /\ Last(ls).inArray \in BOOLEAN /\ x.count \in Nat
  <2>1. 0 \in Nat
    OBVIOUS
  <2>2. QED
    BY ONLY <2>1, Matched(calls, ls, 0), ls # << >>, MatchTop
<1>4. y \in FrameSet /\ y.kind = x.kind /\ y.count = x.count + 1
  BY ONLY <1>3 DEF FrameSet
<1>5. SameCount(y, Last(ls), left)
  BY ONLY <1>3, <1>4 DEF SameCount
<1>6. f \in Seq(FrameSet) /\ Len(f) = Len(calls) - 1 /\ \A k \in 1..(Len(calls) - 1) : f[k] = calls[k]
  BY ONLY <1>1, <1>3, FrontLast
<1> HIDE DEF f, x, y, calls2, l, left
<1>7. calls2 \in Seq(FrameSet) /\ Len(calls2) = Len(f) + 1 /\ calls2[Len(f) + 1] = y
  BY ONLY <1>4, <1>6, AppendIs DEF calls2
<1>8. \A k \in 1..Len(f) : calls2[k] = f[k]
  BY ONLY <1>4, <1>6, AppendIs DEF calls2
<1>9. Len(calls2) = l /\ calls2[l] = y /\ \A k \in 1..(l - 1) : calls2[k] = calls[k]
  BY ONLY <1>1, <1>2, <1>6, <1>7, <1>8
<1>10. ASSUME NEW k \in 1..l PROVE SameCount(calls2[k], ls[k], LeftIn(k, l, left))
  <2>1. CASE k = l
    BY ONLY <1>2, <1>5, <1>9, <2>1 DEF LeftIn
  <2>2. CASE k # l
    <3>1. k \in 1..(l - 1) /\ LeftIn(k, l, left) = 0 /\ LeftIn(k, l, 0) = 0
      BY <1>2, <2>2 DEF LeftIn
    <3>2. SameCount(calls[k], ls[k], LeftIn(k, l, 0))
      BY <1>1
    <3>3. QED
      BY ONLY <1>9, <3>1, <3>2
  <2>3. QED
    BY <2>1, <2>2
<1>11. Matched(calls2, ls, left)
  BY ONLY <1>1, <1>7, <1>9, <1>10 DEF Matched, l
<1>12. QED
  BY <1>11 DEF calls2, f, x, y, left

\* A call is made.
LEMMA MatchOpen ==
  ASSUME NEW calls, NEW ls, Matched(calls, ls, 1), NEW inArray \in BOOLEAN
  PROVE  Matched(Append(calls, Frame(KindOf(Level(inArray)))),
                 Append(CountedIn(ls), Level(inArray)), IF inArray THEN 1 ELSE 2)
<1> DEFINE counted == CountedIn(ls)
           x == Frame(KindOf(Level(inArray)))
           y == Level(inArray)
           calls2 == Append(calls, x)
           ls2 == Append(counted, y)
           l == Len(counted)
           left == IF inArray THEN 1 ELSE 2
<1>1. Matched(calls, counted, 0)
  <2>1. Matched(calls, ls, 0 + 1) /\ 0 \in Nat
    OBVIOUS
  <2>2. QED
    BY ONLY <2>1, MatchRead
<1>2. /\ calls \in Seq(FrameSet) /\ counted \in Seq(LevelSet) /\ Len(calls) = l
      /\ \A k \in 1..l : SameCount(calls[k], counted[k], LeftIn(k, l, 0))
  BY <1>1 DEF Matched
<1>3. l \in Nat
  BY <1>2
<1>4. x \in FrameSet /\ y \in LevelSet /\ SameCount(x, y, left)
  BY DEF Frame, FrameSet, Level, LevelSet, KindOf, SameCount
<1> HIDE DEF counted, x, y, calls2, ls2, l, left
<1>5. calls2 \in Seq(FrameSet) /\ Len(calls2) = Len(calls) + 1 /\ calls2[Len(calls) + 1] = x
  BY ONLY <1>2, <1>4, AppendIs DEF calls2
<1>6. \A k \in 1..Len(calls) : calls2[k] = calls[k]
  BY ONLY <1>2, <1>4, AppendIs DEF calls2
<1>7. ls2 \in Seq(LevelSet) /\ Len(ls2) = Len(counted) + 1 /\ ls2[Len(counted) + 1] = y
  BY ONLY <1>2, <1>4, AppendIs DEF ls2
<1>8. \A k \in 1..Len(counted) : ls2[k] = counted[k]
  BY ONLY <1>2, <1>4, AppendIs DEF ls2
<1>9. ASSUME NEW k \in 1..(l + 1) PROVE SameCount(calls2[k], ls2[k], LeftIn(k, l + 1, left))
  <2>1. CASE k = l + 1
    <3>1. calls2[k] = x /\ ls2[k] = y
      BY ONLY <1>2, <1>5, <1>7, <2>1 DEF l
    <3>2. QED
      BY ONLY <1>4, <2>1, <3>1 DEF LeftIn
  <2>2. CASE k # l + 1
    <3>1. k \in 1..l /\ LeftIn(k, l + 1, left) = 0 /\ LeftIn(k, l, 0) = 0
      BY <1>3, <2>2 DEF LeftIn
    <3>2. SameCount(calls[k], counted[k], LeftIn(k, l, 0))
      BY ONLY <1>2, <3>1
    <3>3. calls2[k] = calls[k] /\ ls2[k] = counted[k]
      BY ONLY <1>2, <1>6, <1>8, <3>1 DEF l
    <3>4. QED
      BY ONLY <3>1, <3>2, <3>3
  <2>3. QED
    BY <2>1, <2>2
<1>10. Len(ls2) = l + 1 /\ Len(calls2) = Len(ls2)
  BY ONLY <1>2, <1>5, <1>7 DEF l
<1>11. Matched(calls2, ls2, left)
  BY ONLY <1>5, <1>7, <1>9, <1>10 DEF Matched
<1>12. QED
  BY <1>11 DEF calls2, ls2, x, y, counted, left

\* A call is done.
LEMMA MatchClose ==
  ASSUME NEW calls, NEW ls, Matched(calls, ls, 0), ls # << >>
  PROVE  Matched(Front(calls), Front(ls), 0)
<1> DEFINE calls2 == Front(calls)
           ls2 == Front(ls)
           l == Len(ls)
<1>1. /\ calls \in Seq(FrameSet) /\ ls \in Seq(LevelSet) /\ Len(calls) = l
      /\ \A k \in 1..l : SameCount(calls[k], ls[k], LeftIn(k, l, 0))
  BY DEF Matched
<1>2. /\ ls2 \in Seq(LevelSet) /\ Len(ls2) = l - 1 /\ l \in Nat \ {0}
      /\ \A k \in 1..(l - 1) : ls2[k] = ls[k]
  BY ONLY <1>1, ls # << >>, FrontLast
<1>3. calls # << >>
  BY <1>1, <1>2
<1>4. /\ calls2 \in Seq(FrameSet) /\ Len(calls2) = Len(calls) - 1
      /\ \A k \in 1..(Len(calls) - 1) : calls2[k] = calls[k]
  BY ONLY <1>1, <1>3, FrontLast
<1> HIDE DEF calls2, ls2, l
<1>5. ASSUME NEW k \in 1..(l - 1) PROVE SameCount(calls2[k], ls2[k], LeftIn(k, l - 1, 0))
  <2>1. k \in 1..l /\ LeftIn(k, l - 1, 0) = 0 /\ LeftIn(k, l, 0) = 0
    BY <1>2 DEF LeftIn
  <2>2. calls2[k] = calls[k] /\ ls2[k] = ls[k]
    BY ONLY <1>1, <1>2, <1>4, k \in 1..(l - 1)
  <2>3. SameCount(calls[k], ls[k], LeftIn(k, l, 0))
    BY ONLY <1>1, <2>1
  <2>4. QED
    BY ONLY <2>1, <2>2, <2>3
<1>6. Len(ls2) = l - 1 /\ Len(calls2) = Len(ls2)
  BY ONLY <1>1, <1>2, <1>4
<1>7. Matched(calls2, ls2, 0)
  BY ONLY <1>2, <1>4, <1>5, <1>6 DEF Matched
<1>8. QED
  BY <1>7 DEF calls2, ls2

-----------------------------------------------------------------------------
(***************************************************************************)
(* The document is what the Writer wrote.                                  *)
(***************************************************************************)
Printed(H, n, S) ==
  History(H, n, S) /\ H[n] = Now /\ Complete /\ text = Append(out, NUL)

Where(s) == Len(s.out) + Len(PrefixOf(s.levels))

LEMMA PrintedText ==
  ASSUME NEW H, NEW n, NEW S, Printed(H, n, S)
  PROVE  /\ n \in Nat \ {0} /\ HasAll(S) /\ IsContent(S) /\ H[1] = Blank
         /\ H[n].out = out /\ H[n].levels = << >> /\ H[n].hasRoot /\ H[n].written = written
         /\ out \in Seq(Byte) /\ Len(out) \in Nat
         /\ text \in Seq(Byte) /\ Len(text) = Len(out) + 1 /\ text[Len(out) + 1] = NUL
         /\ \A j \in 1..Len(out) : text[j] = out[j]
         /\ \A k \in 1..n : Sound(H[k], S) /\ Begins(H[k].out, out) /\ Len(H[k].out) \in Nat
         /\ \A k \in 1..(n - 1) : MovesIn(H[k], H[k + 1], S)
<1>1. /\ n \in Nat \ {0} /\ HasAll(S) /\ H[1] = Blank
      /\ \A k \in 1..n : Sound(H[k], S) /\ Begins(H[k].out, H[n].out)
      /\ \A k \in 1..(n - 1) : MovesIn(H[k], H[k + 1], S)
  BY DEF Printed, History
<1>2. H[n].out = out /\ H[n].levels = << >> /\ H[n].hasRoot /\ H[n].written = written
  BY DEF Printed, Now, State, Complete
<1>3. out \in Seq(Byte)
  <2>1. n \in 1..n
    BY <1>1
  <2>2. QED
    BY <1>1, <1>2, <2>1 DEF Sound
<1>4. NUL \in Byte /\ text = Append(out, NUL)
  BY DEF NUL, Byte, Printed
<1>5. text \in Seq(Byte) /\ Len(text) = Len(out) + 1 /\ text[Len(out) + 1] = NUL
  BY ONLY <1>3, <1>4, AppendIs
<1>6. \A j \in 1..Len(out) : text[j] = out[j]
  BY ONLY <1>3, <1>4, AppendIs
<1>7. \A k \in 1..n : Len(H[k].out) \in Nat
  <2> SUFFICES ASSUME NEW k \in 1..n PROVE Len(H[k].out) \in Nat
    OBVIOUS
  <2>1. H[k].out \in Seq(Byte)
    BY <1>1 DEF Sound
  <2>2. QED
    BY <2>1
<1>8. Len(out) \in Nat
  BY <1>3
<1>9. IsContent(S)
  BY <1>1 DEF HasAll
<1>10. \A k \in 1..n : Sound(H[k], S) /\ Begins(H[k].out, out) /\ Len(H[k].out) \in Nat
  BY ONLY <1>1, <1>2, <1>7
<1>11. QED
  BY ONLY <1>1, <1>2, <1>3, <1>5, <1>6, <1>8, <1>9, <1>10

\* A state of the Writer and the next one.
Follows(H, n, S, s, t) ==
  Printed(H, n, S) /\ \E k \in 1..(n - 1) : s = H[k] /\ t = H[k + 1]

LEMMA FollowsIs ==
  ASSUME NEW H, NEW n, NEW S, NEW s, NEW t, Follows(H, n, S, s, t)
  PROVE  /\ IsContent(S) /\ HasAll(S) /\ MovesIn(s, t, S)
         /\ Sound(s, S) /\ s.out \in Seq(Byte) /\ Len(s.out) \in Nat
         /\ Sound(t, S) /\ t.out \in Seq(Byte) /\ Len(t.out) \in Nat
         /\ Begins(t.out, out)
<1>1. PICK k \in 1..(n - 1) : s = H[k] /\ t = H[k + 1]
  BY DEF Follows
<1>2. Printed(H, n, S)
  BY DEF Follows
<1>3. n \in Nat \ {0}
  BY ONLY <1>2, PrintedText
<1>4. k \in 1..n /\ k + 1 \in 1..n
  BY <1>3
<1>5. IsContent(S) /\ HasAll(S) /\ MovesIn(H[k], H[k + 1], S)
  BY ONLY <1>1, <1>2, PrintedText
<1>6. Sound(H[k], S) /\ Len(H[k].out) \in Nat
  BY ONLY <1>2, <1>4, PrintedText
<1>7. Sound(H[k + 1], S) /\ Len(H[k + 1].out) \in Nat /\ Begins(H[k + 1].out, out)
  BY ONLY <1>2, <1>4, PrintedText
<1>8. QED
  BY ONLY <1>1, <1>5, <1>6, <1>7 DEF Sound

\* What a move writes stays in the text.
Writes(s, t, p, x) == t.out = s.out \o p \o x

LEMMA Wrote ==
  ASSUME NEW H, NEW n, NEW S, NEW s, NEW t, Follows(H, n, S, s, t),
         NEW p \in Seq(Byte), NEW x \in Seq(Byte), Writes(s, t, p, x)
  PROVE  /\ Len(p) \in Nat /\ Len(x) \in Nat
         /\ Len(t.out) = Len(s.out) + Len(p) + Len(x)
         /\ Len(t.out) < Len(text)
         /\ \A j \in 1..Len(p) : text[Len(s.out) + j] = p[j]
         /\ \A j \in 1..Len(x) : text[Len(s.out) + Len(p) + j] = x[j]
<1> DEFINE a == s.out
           b == t.out
<1>1. Printed(H, n, S)
  BY DEF Follows
<1>2. Begins(b, out) /\ Len(b) \in Nat /\ a \in Seq(Byte)
  BY FollowsIs
<1>3. /\ Len(text) = Len(out) + 1 /\ Len(out) \in Nat
      /\ \A j \in 1..Len(out) : text[j] = out[j]
  BY ONLY <1>1, PrintedText
<1>4. a \in Seq(Byte) /\ b = (a \o p) \o x
  BY <1>2 DEF Writes
<1> HIDE DEF a, b
<1>5. Len(a) \in Nat /\ Len(p) \in Nat /\ Len(x) \in Nat
  BY <1>4
<1>6. /\ a \o p \in Seq(Byte) /\ Len(a \o p) = Len(a) + Len(p)
      /\ \A j \in 1..Len(p) : (a \o p)[Len(a) + j] = p[j]
  BY ONLY <1>4, <1>5, p \in Seq(Byte)
<1> DEFINE c == a \o p
<1>7. c \in Seq(Byte) /\ b = c \o x
  BY <1>4, <1>6
<1>8. Len(c) = Len(a) + Len(p) /\ \A j \in 1..Len(p) : c[Len(a) + j] = p[j]
  BY <1>6
<1> HIDE DEF c
<1>9. /\ Len(b) = Len(c) + Len(x)
      /\ \A j \in 1..Len(x) : b[Len(c) + j] = x[j]
      /\ \A j \in 1..Len(c) : b[j] = c[j]
  BY ONLY <1>5, <1>7, x \in Seq(Byte)
<1>10. Len(b) <= Len(out) /\ \A j \in 1..Len(b) : text[j] = b[j]
  BY ONLY <1>2, <1>3 DEF Begins
<1>11. \A j \in 1..Len(x) : text[Len(a) + Len(p) + j] = x[j]
  <2> SUFFICES ASSUME NEW j \in 1..Len(x) PROVE text[Len(a) + Len(p) + j] = x[j]
    OBVIOUS
  <2>1. Len(c) + j \in 1..Len(b) /\ Len(c) + j = Len(a) + Len(p) + j
    BY <1>5, <1>8, <1>9
  <2>2. QED
    BY ONLY <1>9, <1>10, <2>1, j \in 1..Len(x)
<1>12. \A j \in 1..Len(p) : text[Len(a) + j] = p[j]
  <2> SUFFICES ASSUME NEW j \in 1..Len(p) PROVE text[Len(a) + j] = p[j]
    OBVIOUS
  <2>1. Len(a) + j \in 1..Len(c) /\ Len(a) + j \in 1..Len(b)
    BY <1>5, <1>8, <1>9
  <2>2. QED
    BY ONLY <1>8, <1>9, <1>10, <2>1, j \in 1..Len(p)
<1>13. Len(b) = Len(a) + Len(p) + Len(x) /\ Len(b) < Len(text)
  BY <1>3, <1>5, <1>8, <1>9, <1>10
<1>14. QED
  BY ONLY <1>5, <1>11, <1>12, <1>13 DEF a, b

\* Nothing is skipped before what is no blank.
LEMMA SkipsNothing ==
  ASSUME NEW t, NEW p \in Nat, Len(t) \in Nat, p <= Len(t), ~IsBlank(t[p])
  PROVE  Skip(t, p) = p
<1> DEFINE Q(q) == q \in p..Len(t) /\ ~IsBlank(t[q]) /\ \A k \in p..(q - 1) : IsBlank(t[k])
<1>1. p \in p..Len(t) /\ \A k \in p..(p - 1) : FALSE
  OBVIOUS
<1>2. Q(p)
  BY <1>1
<1>3. ASSUME NEW q, Q(q) PROVE q = p
  <2>1. q \in p..Len(t) /\ \A k \in p..(q - 1) : IsBlank(t[k])
    BY <1>3
  <2>2. CASE q # p
    <3>1. p \in p..(q - 1)
      BY <2>1, <2>2
    <3>2. QED
      BY <2>1, <3>1
  <2>3. QED
    BY <2>2
<1>4. Skip(t, p) = CHOOSE q : Q(q)
  BY DEF Skip
<1> HIDE DEF Q
<1>5. QED
  BY <1>2, <1>3, <1>4

\* What comes after a state, and where.
LEMMA NextPrefix ==
  ASSUME NEW H, NEW n, NEW S, NEW s, NEW t, Follows(H, n, S, s, t),
         NEW x \in Seq(Byte), x # << >>, Writes(s, t, PrefixOf(s.levels), x)
  PROVE  /\ Len(s.out) \in Nat /\ Len(x) \in Nat \ {0} /\ Where(s) \in Nat
         /\ Len(t.out) = Where(s) + Len(x)
         /\ Len(t.out) < Len(text)
         /\ \A j \in 1..Len(x) : text[Where(s) + j] = x[j]
         /\ text[Where(s) + 1] = x[1]
         /\ \/ PrefixOf(s.levels) = << >> /\ Where(s) = Len(s.out)
            \/ /\ PrefixOf(s.levels) \in {<<COMMA>>, <<COLON>>}
               /\ Where(s) = Len(s.out) + 1
               /\ text[Len(s.out) + 1] = PrefixOf(s.levels)[1]
<1> DEFINE p == PrefixOf(s.levels)
<1>1. p \in Seq(Byte)
  BY PrefixIs
<1>2. p \in {<< >>, <<COMMA>>, <<COLON>>}
  BY Zenon DEF PrefixOf
<1>3. Where(s) = Len(s.out) + Len(p)
  BY DEF Where
<1>4. Writes(s, t, p, x)
  OBVIOUS
<1> HIDE DEF p
<1>5. /\ Len(p) \in Nat /\ Len(x) \in Nat
      /\ Len(t.out) = Len(s.out) + Len(p) + Len(x)
      /\ Len(t.out) < Len(text)
  BY ONLY <1>1, <1>4, Follows(H, n, S, s, t), x \in Seq(Byte), Wrote
<1>6. \A j \in 1..Len(p) : text[Len(s.out) + j] = p[j]
  BY ONLY <1>1, <1>4, Follows(H, n, S, s, t), x \in Seq(Byte), Wrote
<1>7. \A j \in 1..Len(x) : text[Len(s.out) + Len(p) + j] = x[j]
  BY ONLY <1>1, <1>4, Follows(H, n, S, s, t), x \in Seq(Byte), Wrote
<1>8. Len(x) \in Nat \ {0} /\ Len(s.out) \in Nat
  BY <1>5, FollowsIs
<1>9. 1 \in 1..Len(x)
  BY <1>8
<1>10. text[Where(s) + 1] = x[1]
  BY ONLY <1>3, <1>7, <1>9
<1>11. \/ p = << >> /\ Where(s) = Len(s.out)
       \/ /\ p \in {<<COMMA>>, <<COLON>>}
          /\ Where(s) = Len(s.out) + 1
          /\ text[Len(s.out) + 1] = p[1]
  <2>1. CASE p = << >>
    BY <1>3, <1>8, <2>1
  <2>2. CASE p # << >>
    <3>1. p \in {<<COMMA>>, <<COLON>>} /\ Len(p) = 1
      BY <1>2, <2>2
    <3>2. 1 \in 1..Len(p)
      BY <3>1
    <3>3. QED
      BY ONLY <1>3, <1>6, <3>1, <3>2
  <2>3. QED
    BY <2>1, <2>2
<1>12. Where(s) \in Nat /\ Len(t.out) = Where(s) + Len(x)
  BY ONLY <1>3, <1>5, <1>8
<1>13. \A j \in 1..Len(x) : text[Where(s) + j] = x[j]
  BY ONLY <1>3, <1>7
<1>14. QED
  BY ONLY <1>5, <1>8, <1>10, <1>11, <1>12, <1>13 DEF p

\* A value or a name among them.
LEMMA AddsWritten ==
  ASSUME NEW H, NEW n, NEW S, NEW s, NEW t, Follows(H, n, S, s, t),
         NEW x \in Seq(Byte), NEW v \in S, Adds(s, t, x, v), s.levels = << >> => ~s.hasRoot
  PROVE  /\ t.levels = CountedIn(s.levels) /\ t.hasRoot
         /\ Stack(t) = Append(Stack(s), v)
         /\ Writes(s, t, PrefixOf(s.levels), x)
<1>1. Sound(s, S) /\ IsContent(S)
  BY FollowsIs
<1>2. Stack(t) = Append(Stack(s), v)
  BY ONLY <1>1, Adds(s, t, x, v), s.levels = << >> => ~s.hasRoot, x \in Seq(Byte), v \in S,
          AddsSound
<1>3. QED
  BY <1>2 DEF Adds, Writes

-----------------------------------------------------------------------------
(***************************************************************************)
(* The reader and the state of the Writer it has come to.                  *)
(***************************************************************************)
Reaches(H, n, S, s) == Printed(H, n, S) /\ \E k \in 1..n : s = H[k]

TakesA(s, t) ==
  \/ \E v \in Scalars : ValueMove(s, t, v)
  \/ \E inArray \in BOOLEAN : StartMove(s, t, inArray)

AfterSync(s) ==
  /\ at = "after" /\ pos = Len(s.out) + 1
  /\ Matched(frames, s.levels, 0) /\ values = Stack(s) /\ s.hasRoot

ValueSync(s, t) ==
  /\ at = "value" /\ pos = Where(s) + 1
  /\ Matched(frames, s.levels, 1) /\ values = Stack(s) /\ TakesA(s, t)

KeySync(s, t) ==
  /\ at = "key" /\ pos = Where(s) + 1
  /\ Matched(frames, s.levels, 2) /\ values = Stack(s)
  /\ \E name \in Names : NameMove(s, t, name)

\* m characters of x are read.
StringSync(s, t, x, m) ==
  /\ at = "string" /\ x \in Seq(Byte) /\ m \in 0..Len(x)
  /\ pos = Where(s) + 2 + Reached(x, m) /\ chars = SubSeq(x, 1, m)
  /\ isKey \in BOOLEAN
  /\ Matched(frames, s.levels, IF isKey THEN 2 ELSE 1) /\ values = Stack(s)
  /\ IF isKey THEN x \in Names /\ NameMove(s, t, x)
     ELSE JString(x) \in Scalars /\ ValueMove(s, t, JString(x))

LEMMA ReachesStays ==
  ASSUME NEW H, NEW n, NEW S, NEW s, Reaches(H, n, S, s), UNCHANGED printerVars, text' = text
  PROVE  Reaches(H, n, S, s)'
BY DEF Reaches, Printed, printerVars, Now, State, Complete

LEMMA FollowsStays ==
  ASSUME NEW H, NEW n, NEW S, NEW s, NEW t, Follows(H, n, S, s, t),
         UNCHANGED printerVars, text' = text
  PROVE  Follows(H, n, S, s, t)'
BY DEF Follows, Printed, printerVars, Now, State, Complete

LEMMA FollowsReaches ==
  ASSUME NEW H, NEW n, NEW S, NEW s, NEW t, Follows(H, n, S, s, t)
  PROVE  Reaches(H, n, S, s) /\ Reaches(H, n, S, t)
<1>1. PICK k \in 1..(n - 1) : s = H[k] /\ t = H[k + 1]
  BY DEF Follows
<1>2. Printed(H, n, S)
  BY DEF Follows
<1>3. n \in Nat \ {0}
  BY ONLY <1>2, PrintedText
<1>4. k \in 1..n /\ k + 1 \in 1..n
  BY <1>3
<1>5. QED
  BY <1>1, <1>2, <1>4 DEF Reaches

\* The Writer is not done before every level is ended.
LEMMA MoreFollows ==
  ASSUME NEW H, NEW n, NEW S, NEW s, Reaches(H, n, S, s), s.levels # << >>
  PROVE  \E t : Follows(H, n, S, s, t)
<1>1. PICK k \in 1..n : s = H[k]
  BY DEF Reaches
<1>2. Printed(H, n, S)
  BY DEF Reaches
<1>3. n \in Nat \ {0} /\ H[n].levels = << >>
  BY ONLY <1>2, PrintedText
<1>4. k # n
  BY <1>1, <1>3
<1>5. k \in 1..(n - 1)
  BY <1>3, <1>4
<1>6. QED
  BY <1>1, <1>2, <1>5 DEF Follows

\* It does nothing more when they are.
LEMMA NothingFollows ==
  ASSUME NEW H, NEW n, NEW S, NEW s, Reaches(H, n, S, s), s.levels = << >>, s.hasRoot
  PROVE  s.out = out /\ s.written = written
<1>1. PICK k \in 1..n : s = H[k]
  BY DEF Reaches
<1>2. Printed(H, n, S)
  BY DEF Reaches
<1>3. n \in Nat \ {0} /\ H[n].out = out /\ H[n].written = written
  BY ONLY <1>2, PrintedText
<1>4. CASE k # n
  <2>1. k \in 1..(n - 1)
    BY <1>3, <1>4
  <2>2. Moves(H[k], H[k + 1])
    BY ONLY <1>2, <2>1, PrintedText DEF MovesIn
  <2>3. ~ValueIn(s) /\ ~NameIn(s)
    BY DEF ValueIn, NameIn
  <2>4. QED
    BY <1>1, <2>2, <2>3 DEF Moves, ValueMove, NameMove, StartMove, EndMove
<1>5. QED
  BY <1>1, <1>3, <1>4

\* What Reaches says of a state.
LEMMA ReachesIs ==
  ASSUME NEW H, NEW n, NEW S, NEW s, Reaches(H, n, S, s)
  PROVE  /\ Sound(s, S) /\ IsContent(S) /\ Begins(s.out, out) /\ Len(s.out) \in Nat
         /\ s.out \in Seq(Byte) /\ s.levels \in Seq(LevelSet)
         /\ Len(out) \in Nat /\ Len(text) = Len(out) + 1 /\ text[Len(out) + 1] = NUL
         /\ Len(s.out) <= Len(out)
<1>1. PICK k \in 1..n : s = H[k]
  BY DEF Reaches
<1>2. Printed(H, n, S)
  BY DEF Reaches
<1>3. Sound(H[k], S) /\ Begins(H[k].out, out) /\ Len(H[k].out) \in Nat
  BY ONLY <1>2, k \in 1..n, PrintedText
<1>4. IsContent(S) /\ Len(out) \in Nat /\ Len(text) = Len(out) + 1 /\ text[Len(out) + 1] = NUL
  BY ONLY <1>2, PrintedText
<1>5. QED
  BY ONLY <1>1, <1>3, <1>4 DEF Sound, Begins

\* What a value or a name begins with is nothing else.
LEMMA BeginningsAre ==
  ASSUME NEW c \in Beginnings
  PROVE  ~IsBlank(c) /\ c \notin {COMMA, COLON, CLOSE_BRACKET, CLOSE_BRACE, NUL}
BY DEF Beginnings, IsBlank, COMMA, COLON, CLOSE_BRACKET, CLOSE_BRACE, NUL, QUOTE,
       OPEN_BRACKET, OPEN_BRACE

LEMMA SeparatorsAre ==
  ASSUME NEW c \in {COMMA, COLON, CLOSE_BRACKET, CLOSE_BRACE, NUL}
  PROVE  ~IsBlank(c)
BY DEF IsBlank, COMMA, COLON, CLOSE_BRACKET, CLOSE_BRACE, NUL

\* What begins a value, where it is.
LEMMA ValueBegins ==
  ASSUME NEW s, NEW t, TakesA(s, t)
  PROVE  \E x \in Seq(Byte) :
           x # << >> /\ Writes(s, t, PrefixOf(s.levels), x) /\ x[1] \in Beginnings
<1>1. CASE \E v \in Scalars : ValueMove(s, t, v)
  <2>1. PICK v \in Scalars : ValueMove(s, t, v)
    BY <1>1
  <2>2. Spelt(v) \in Seq(Byte) /\ Len(Spelt(v)) \in Nat \ {0} /\ Spelt(v)[1] \in Beginnings
    BY ONLY v \in Scalars, SpeltStarts
  <2>3. Spelt(v) # << >>
    BY <2>2
  <2>4. Writes(s, t, PrefixOf(s.levels), Spelt(v))
    BY <2>1 DEF ValueMove, Adds, Writes
  <2>5. QED
    BY <2>2, <2>3, <2>4
<1>2. CASE \E inArray \in BOOLEAN : StartMove(s, t, inArray)
  <2>1. PICK inArray \in BOOLEAN : StartMove(s, t, inArray)
    BY <1>2
  <2> DEFINE c == Bracket(inArray)
             x == <<c>>
  <2>2. c \in Byte /\ c \in Beginnings
    BY DEF Bracket, Beginnings, Byte, OPEN_BRACKET, OPEN_BRACE
  <2>3. Writes(s, t, PrefixOf(s.levels), x)
    BY <2>1 DEF StartMove, Writes
  <2> HIDE DEF c
  <2>4. x \in Seq(Byte) /\ x # << >> /\ x[1] = c
    BY <2>2
  <2>5. QED
    BY <2>2, <2>3, <2>4
<1>3. QED
  BY <1>1, <1>2 DEF TakesA

LEMMA NameBegins ==
  ASSUME NEW H, NEW n, NEW S, NEW s, NEW t, NEW name \in Names, Follows(H, n, S, s, t),
         NameMove(s, t, name)
  PROVE  \E x \in Seq(Byte) :
           x # << >> /\ Writes(s, t, PrefixOf(s.levels), x) /\ x[1] \in Beginnings
<1>1. name \in Seq(Byte)
  BY WrittenValuesAssumption DEF Byte
<1>2. /\ Quoted(name) \in Seq(Byte) /\ Len(Quoted(name)) \in Nat \ {0}
      /\ Quoted(name)[1] \in Beginnings
  BY ONLY <1>1, QuotedStarts
<1>3. Quoted(name) # << >>
  BY <1>2
<1>4. Writes(s, t, PrefixOf(s.levels), Quoted(name))
  BY DEF NameMove, Adds, Writes
<1>5. QED
  BY <1>2, <1>3, <1>4

\* Where it begins nothing is skipped.
LEMMA BeginsThere ==
  ASSUME NEW H, NEW n, NEW S, NEW s, NEW t, Follows(H, n, S, s, t),
         TakesA(s, t) \/ \E name \in Names : NameMove(s, t, name)
  PROVE  /\ text[Where(s) + 1] \in Beginnings /\ Skip(text, Where(s) + 1) = Where(s) + 1
         /\ Where(s) \in Nat /\ Len(s.out) \in Nat
         /\ \/ PrefixOf(s.levels) = << >> /\ Where(s) = Len(s.out)
            \/ /\ PrefixOf(s.levels) \in {<<COMMA>>, <<COLON>>}
               /\ Where(s) = Len(s.out) + 1
               /\ text[Len(s.out) + 1] = PrefixOf(s.levels)[1]
               /\ Skip(text, Len(s.out) + 1) = Len(s.out) + 1
<1>1. PICK x \in Seq(Byte) :
        x # << >> /\ Writes(s, t, PrefixOf(s.levels), x) /\ x[1] \in Beginnings
  BY ONLY Follows(H, n, S, s, t), TakesA(s, t) \/ \E name \in Names : NameMove(s, t, name),
          ValueBegins, NameBegins
<1>2. /\ Len(s.out) \in Nat /\ Len(x) \in Nat \ {0} /\ Where(s) \in Nat
      /\ Len(t.out) = Where(s) + Len(x) /\ Len(t.out) < Len(text)
      /\ text[Where(s) + 1] = x[1]
  BY ONLY <1>1, Follows(H, n, S, s, t), NextPrefix
<1>3. \/ PrefixOf(s.levels) = << >> /\ Where(s) = Len(s.out)
      \/ /\ PrefixOf(s.levels) \in {<<COMMA>>, <<COLON>>}
         /\ Where(s) = Len(s.out) + 1
         /\ text[Len(s.out) + 1] = PrefixOf(s.levels)[1]
  BY ONLY <1>1, Follows(H, n, S, s, t), NextPrefix
<1>4. Len(text) \in Nat
  <2>1. Reaches(H, n, S, s)
    BY FollowsReaches
  <2>2. Len(text) = Len(out) + 1 /\ Len(out) \in Nat
    BY ONLY <2>1, ReachesIs
  <2>3. QED
    BY <2>2
<1>5. text[Where(s) + 1] \in Beginnings
  BY <1>1, <1>2
<1>6. Skip(text, Where(s) + 1) = Where(s) + 1
  <2>1. Where(s) + 1 \in Nat /\ Where(s) + 1 <= Len(text)
    BY <1>2, <1>4
  <2>2. ~IsBlank(text[Where(s) + 1])
    BY <1>5, BeginningsAre
  <2>3. QED
    BY ONLY <1>4, <2>1, <2>2, SkipsNothing
<1>7. CASE PrefixOf(s.levels) = << >>
  BY ONLY <1>2, <1>3, <1>5, <1>6, <1>7
<1>8. CASE PrefixOf(s.levels) # << >>
  <2>1. /\ PrefixOf(s.levels) \in {<<COMMA>>, <<COLON>>} /\ Where(s) = Len(s.out) + 1
        /\ text[Len(s.out) + 1] = PrefixOf(s.levels)[1]
    BY ONLY <1>3, <1>8
  <2>2. text[Len(s.out) + 1] \in {COMMA, COLON, CLOSE_BRACKET, CLOSE_BRACE, NUL}
    BY <2>1
  <2>3. Len(s.out) + 1 \in Nat /\ Len(s.out) + 1 <= Len(text)
    BY <1>2, <1>4, <2>1
  <2>4. ~IsBlank(text[Len(s.out) + 1])
    BY ONLY <2>2, SeparatorsAre
  <2>5. Skip(text, Len(s.out) + 1) = Len(s.out) + 1
    BY ONLY <1>4, <2>3, <2>4, SkipsNothing
  <2>6. QED
    BY ONLY <1>2, <1>5, <1>6, <2>1, <2>5
<1>9. QED
  BY ONLY <1>7, <1>8

\* What an end is.
LEMMA EndThere ==
  ASSUME NEW H, NEW n, NEW S, NEW s, NEW t, Follows(H, n, S, s, t), EndMove(s, t)
  PROVE  /\ text[Len(s.out) + 1] = EndBracket(Last(s.levels))
         /\ Skip(text, Len(s.out) + 1) = Len(s.out) + 1
         /\ Len(t.out) = Len(s.out) + 1 /\ Len(s.out) \in Nat
<1> DEFINE c == EndBracket(Last(s.levels))
<1>1. c \in {COMMA, COLON, CLOSE_BRACKET, CLOSE_BRACE, NUL} /\ c \in Byte
  BY DEF EndBracket, CLOSE_BRACKET, CLOSE_BRACE, Byte
<1>2. t.out = Append(s.out, c)
  BY DEF EndMove
<1>3. s.out \in Seq(Byte) /\ Begins(t.out, out) /\ Len(t.out) \in Nat
  BY FollowsIs
<1> HIDE DEF c
<1>4. Len(t.out) = Len(s.out) + 1 /\ t.out[Len(s.out) + 1] = c /\ Len(s.out) \in Nat
  BY ONLY <1>1, <1>2, <1>3, AppendIs
<1>5. Printed(H, n, S)
  BY DEF Follows
<1>6. Len(text) = Len(out) + 1 /\ Len(out) \in Nat /\ \A j \in 1..Len(out) : text[j] = out[j]
  BY ONLY <1>5, PrintedText
<1>7. Len(s.out) + 1 \in 1..Len(t.out) /\ Len(t.out) <= Len(out)
  BY <1>3, <1>4 DEF Begins
<1>8. Len(s.out) + 1 \in 1..Len(out)
  BY <1>4, <1>6, <1>7
<1>9. text[Len(s.out) + 1] = c
  BY ONLY <1>3, <1>4, <1>6, <1>7, <1>8 DEF Begins
<1>10. Skip(text, Len(s.out) + 1) = Len(s.out) + 1
  <2>1. ~IsBlank(text[Len(s.out) + 1])
    BY ONLY <1>1, <1>9, SeparatorsAre
  <2>2. Len(s.out) + 1 \in Nat /\ Len(s.out) + 1 <= Len(text) /\ Len(text) \in Nat
    BY <1>4, <1>6, <1>8
  <2>3. QED
    BY ONLY <2>1, <2>2, SkipsNothing
<1>11. QED
  BY <1>4, <1>9, <1>10 DEF c

-----------------------------------------------------------------------------
(***************************************************************************)
(* After a value.                                                          *)
(***************************************************************************)

\* A comma comes between two elements and between two pairs.
LEMMA CommaBetween ==
  ASSUME NEW calls, NEW ls, Matched(calls, ls, 0), ls # << >>
  PROVE  /\ PrefixOf(ls) = <<COMMA>> /\ calls # << >>
         /\ Last(ls).inArray \in BOOLEAN /\ Last(calls).kind = KindOf(Last(ls))
         /\ Last(calls).count \in Nat
         /\ Last(ls).valueCount = IF Last(ls).inArray THEN Last(calls).count + 1
                                  ELSE 2 * (Last(calls).count + 1)
         /\ Last(ls).valueCount % 2 = 1 => Last(ls).inArray
<1> DEFINE level == Last(ls)
           c == Last(calls).count
<1>1. /\ calls # << >> /\ level.valueCount \in Nat /\ level.inArray \in BOOLEAN
      /\ c \in Nat /\ SameCount(Last(calls), level, 0)
  <2>1. 0 \in Nat
    OBVIOUS
  <2>2. QED
    BY ONLY <2>1, Matched(calls, ls, 0), ls # << >>, MatchTop
<1>2. /\ Last(calls).kind = KindOf(level)
      /\ level.valueCount + 0 = IF level.inArray THEN c + 1 ELSE 2 * (c + 1)
  BY <1>1 DEF SameCount
<1> HIDE DEF level, c
<1>3. level.valueCount = IF level.inArray THEN c + 1 ELSE 2 * (c + 1)
  BY ONLY <1>1, <1>2
<1>4. level.valueCount # 0
  BY ONLY <1>1, <1>3
<1>5. level.inArray \/ level.valueCount % 2 = 0
  <2>1. CASE ~level.inArray
    <3>1. level.valueCount = 2 * (c + 1)
      BY ONLY <1>3, <2>1
    <3>2. (2 * (c + 1)) % 2 = 0
      BY ONLY <1>1
    <3>3. QED
      BY <3>1, <3>2
  <2>2. QED
    BY <1>1, <2>1
<1>6. PrefixOf(ls) = <<COMMA>>
  <2>1. ~(ls = << >> \/ Last(ls).valueCount = 0)
    BY <1>4 DEF level
  <2>2. Last(ls).inArray \/ Last(ls).valueCount % 2 = 0
    BY <1>5 DEF level
  <2>3. QED
    BY ONLY <2>1, <2>2, Zenon DEF PrefixOf
<1>7. level.valueCount % 2 = 1 => level.inArray
  BY ONLY <1>1, <1>5
<1>8. QED
  BY ONLY <1>1, <1>2, <1>3, <1>6, <1>7 DEF level, c

LEMMA AfterText ==
  ASSUME NEW H, NEW n, NEW S, NEW s, Reaches(H, n, S, s), AfterSync(s), s.levels # << >>
  PROVE  /\ Skip(text, pos) = pos /\ frames # << >> /\ pos \in Nat
         /\ \E t :
              /\ Follows(H, n, S, s, t)
              /\ \/ EndMove(s, t) /\ text[pos] = Closing(TopFrame)
                 \/ /\ text[pos] = COMMA /\ Where(s) = pos /\ Skip(text, pos + 1) = pos + 1
                    /\ \/ Last(s.levels).inArray /\ TakesA(s, t)
                       \/ /\ ~Last(s.levels).inArray
                          /\ \E name \in Names : NameMove(s, t, name)
<1>1. PICK t : Follows(H, n, S, s, t)
  BY MoreFollows
<1>2. pos = Len(s.out) + 1 /\ Matched(frames, s.levels, 0)
  BY DEF AfterSync
<1>3. /\ PrefixOf(s.levels) = <<COMMA>> /\ frames # << >>
      /\ Last(s.levels).inArray \in BOOLEAN
      /\ Last(frames).kind = KindOf(Last(s.levels))
      /\ Last(s.levels).valueCount % 2 = 1 => Last(s.levels).inArray
  BY ONLY <1>2, s.levels # << >>, CommaBetween
<1>4. CASE EndMove(s, t)
  <2>1. /\ text[Len(s.out) + 1] = EndBracket(Last(s.levels))
        /\ Skip(text, Len(s.out) + 1) = Len(s.out) + 1 /\ Len(s.out) \in Nat
    BY ONLY <1>1, <1>4, EndThere
  <2>2. EndBracket(Last(s.levels)) = Closing(TopFrame)
    BY <1>3 DEF EndBracket, Closing, TopFrame, KindOf
  <2>3. pos \in Nat
    BY <1>2, <2>1
  <2>4. QED
    BY <1>1, <1>2, <1>3, <1>4, <2>1, <2>2, <2>3
<1>5. CASE TakesA(s, t) \/ \E name \in Names : NameMove(s, t, name)
  <2>1. /\ Skip(text, Where(s) + 1) = Where(s) + 1
        /\ Where(s) \in Nat /\ Len(s.out) \in Nat
        /\ \/ PrefixOf(s.levels) = << >> /\ Where(s) = Len(s.out)
           \/ /\ PrefixOf(s.levels) \in {<<COMMA>>, <<COLON>>}
              /\ Where(s) = Len(s.out) + 1
              /\ text[Len(s.out) + 1] = PrefixOf(s.levels)[1]
              /\ Skip(text, Len(s.out) + 1) = Len(s.out) + 1
    BY ONLY <1>1, <1>5, BeginsThere
  <2>2. <<COMMA>> # << >> /\ <<COMMA>>[1] = COMMA
    OBVIOUS
  <2>3. /\ Where(s) = Len(s.out) + 1 /\ text[Len(s.out) + 1] = COMMA
        /\ Skip(text, Len(s.out) + 1) = Len(s.out) + 1
    BY ONLY <1>3, <2>1, <2>2
  <2>4. pos \in Nat
    BY <1>2, <2>1
  <2>5. CASE TakesA(s, t)
    <3>1. ValueIn(s)
      BY <2>5 DEF TakesA, ValueMove, StartMove
    <3>2. Last(s.levels).inArray
      BY <1>3, <3>1 DEF ValueIn
    <3>3. QED
      BY <1>1, <1>2, <1>3, <2>1, <2>3, <2>4, <2>5, <3>2
  <2>6. CASE \E name \in Names : NameMove(s, t, name)
    <3>1. ~Last(s.levels).inArray
      BY <2>6 DEF NameMove, NameIn
    <3>2. QED
      BY <1>1, <1>2, <1>3, <2>1, <2>3, <2>4, <2>6, <3>1
  <2>7. QED
    BY <1>5, <2>5, <2>6
<1>6. QED
  <2>1. Moves(s, t)
    BY <1>1, FollowsIs DEF MovesIn
  <2>2. QED
    BY <1>4, <1>5, <2>1 DEF Moves, TakesA

\* After the root there is nothing.
LEMMA RootIs ==
  ASSUME NEW H, NEW n, NEW S, NEW s, Reaches(H, n, S, s), AfterSync(s), s.levels = << >>
  PROVE  /\ Skip(text, pos) = pos /\ text[pos] = NUL /\ frames = << >>
         /\ Last(values) = written[1][1]
<1>1. /\ pos = Len(s.out) + 1 /\ Matched(frames, s.levels, 0) /\ s.hasRoot
      /\ values = Stack(s)
  BY DEF AfterSync
<1>2. s.out = out /\ s.written = written
  BY <1>1, NothingFollows
<1>3. /\ Len(out) \in Nat /\ Len(text) = Len(out) + 1 /\ text[Len(out) + 1] = NUL
      /\ Sound(s, S) /\ IsContent(S)
  BY ReachesIs
<1>4. Skip(text, pos) = pos /\ text[pos] = NUL
  <2>1. text[pos] = NUL
    BY <1>1, <1>2, <1>3
  <2>2. ~IsBlank(text[pos])
    BY <2>1, SeparatorsAre
  <2>3. pos \in Nat /\ pos <= Len(text) /\ Len(text) \in Nat
    BY <1>1, <1>2, <1>3
  <2>4. QED
    BY ONLY <2>1, <2>2, <2>3, SkipsNothing
<1>5. frames = << >>
  BY <1>1 DEF Matched
<1>6. /\ written \in Seq(Seq(S)) /\ Len(written) = 1 /\ Len(written[1]) = 1
  <2>1. /\ s.written \in Seq(Seq(S)) /\ Len(s.written) = Len(s.levels) + 1
        /\ Len(s.written[1]) = IF s.levels = << >> /\ s.hasRoot THEN 1 ELSE 0
    BY <1>3 DEF Sound
  <2>2. Len(s.levels) = 0
    OBVIOUS
  <2>3. QED
    BY <1>1, <1>2, <2>1, <2>2
<1>7. values = written[1]
  <2> DEFINE p == Pieces(s.levels, written)
             x == written[1]
  <2>1. p \in Seq(Seq(S)) /\ Len(p) = 1 /\ p[1] = Piece(s.levels, written, 1)
    <3>1. p \in Seq(Seq(S)) /\ Len(p) = Len(written)
      BY ONLY <1>3, <1>6, PiecesType
    <3>2. \A k \in 1..Len(written) : p[k] = Piece(s.levels, written, k)
      BY ONLY <1>3, <1>6, PiecesType
    <3>3. 1 \in 1..Len(written)
      BY <1>6
    <3>4. QED
      BY ONLY <1>6, <3>1, <3>2, <3>3
  <2>2. p[1] = x
    BY <2>1 DEF Piece
  <2>3. x \in Seq(S)
    <3>1. 1 \in 1..Len(written)
      BY <1>6
    <3>2. QED
      BY <1>6, <3>1
  <2>4. values = FlattenSeq(p)
    BY <1>1, <1>2 DEF Stack, Stacked
  <2> HIDE DEF p, x
  <2>5. Flat(p, 0) = << >> /\ FlattenSeq(p) = Flat(p, 1)
    BY ONLY <2>1, FlatGoesOn
  <2>6. Flat(p, 1) = Flat(p, 1 - 1) \o p[1]
    <3>1. 1 \in 1..Len(p)
      BY <2>1
    <3>2. QED
      BY ONLY <2>1, <3>1, FlatGoesOn
  <2>7. FlattenSeq(p) = << >> \o x
    <3>1. 1 - 1 = 0
      OBVIOUS
    <3>2. QED
      BY ONLY <2>2, <2>5, <2>6, <3>1, Zenon
  <2>8. << >> \o x = x
    BY ONLY <2>3, ConcatEmptySeq
  <2>9. QED
    BY <2>4, <2>7, <2>8 DEF x
<1>8. Last(values) = written[1][1]
  BY <1>6, <1>7 DEF Last
<1>9. QED
  BY <1>4, <1>5, <1>8

\* A part of a sequence.
LEMMA PartIs ==
  ASSUME NEW S, NEW s \in Seq(S), NEW m \in Nat \ {0}, NEW k \in Nat, m + k - 1 <= Len(s)
  PROVE  /\ SubSeq(s, m, m + k - 1) \in Seq(S) /\ Len(SubSeq(s, m, m + k - 1)) = k
         /\ \A j \in 1..k : SubSeq(s, m, m + k - 1)[j] = s[m + j - 1]
<1> DEFINE l == m + k - 1
<1>1. l \in Int /\ l - m + 1 = k /\ Len(s) \in Nat
  OBVIOUS
<1>2. \A x \in m..l : s[x] \in S
  BY <1>1
<1> HIDE DEF l
<1>3. /\ SubSeq(s, m, l) \in Seq(S)
      /\ Len(SubSeq(s, m, l)) = IF m <= l THEN l - m + 1 ELSE 0
      /\ \A x \in 1..(l - m + 1) : SubSeq(s, m, l)[x] = s[m + x - 1]
  BY <1>1, <1>2, SubSeqProperties
<1>4. Len(SubSeq(s, m, l)) = k
  BY <1>1, <1>3
<1>5. QED
  BY <1>1, <1>3, <1>4 DEF l

\* What an end takes off the stack is what was written since the beginning.
LEMMA EndedIs ==
  ASSUME NEW S, NEW a \in Seq(S), NEW o \in S, NEW list \in Seq(S),
         values = a \o (<<o>> \o list), NEW count \in Nat, NEW level \in LevelSet,
         TopFrame.kind = KindOf(level),
         Len(list) = IF level.inArray THEN count ELSE 2 * count
  PROVE  Ended(count) = Append(a, Collected(level, list))
<1> DEFINE size == IF TopFrame.kind = "array" THEN count ELSE 2 * count
           rest == SubSeq(values, 1, Len(values) - size)
           taken == SubSeq(values, Len(rest) + 1, Len(values))
           c == Collected(level, list)
           la == Len(a)
<1>1. level.inArray \in BOOLEAN /\ (TopFrame.kind = "array" <=> level.inArray)
  BY DEF LevelSet, KindOf
<1>2. size = Len(list)
  BY <1>1
<1>3. la \in Nat /\ Len(list) \in Nat
  OBVIOUS
<1>4. /\ values \in Seq(S) /\ Len(values) = la + 1 + Len(list)
      /\ \A j \in 1..la : values[j] = a[j]
      /\ values[la + 1] = o
      /\ \A j \in 1..Len(list) : values[la + 1 + j] = list[j]
  <2> DEFINE b == <<o>> \o list
  <2>1. /\ b \in Seq(S) /\ Len(b) = 1 + Len(list) /\ b[1] = o
        /\ \A j \in 1..Len(list) : b[1 + j] = list[j]
    <3>1. <<o>> \in Seq(S) /\ Len(<<o>>) = 1 /\ <<o>>[1] = o
      OBVIOUS
    <3>2. QED
      BY ONLY <3>1, list \in Seq(S), <1>3, ConcatIs
  <2>2. values = a \o b
    OBVIOUS
  <2> HIDE DEF b, la
  <2>3. /\ values \in Seq(S) /\ Len(values) = Len(a) + Len(b)
        /\ \A j \in 1..Len(a) : values[j] = a[j]
        /\ \A j \in 1..Len(b) : values[Len(a) + j] = b[j]
    <3> DEFINE e == a \o b
    <3>1. /\ e \in Seq(S) /\ Len(e) = Len(a) + Len(b)
          /\ \A j \in 1..Len(a) : e[j] = a[j]
          /\ \A j \in 1..Len(b) : e[Len(a) + j] = b[j]
      <4>1. b \in Seq(S)
        BY <2>1
      <4>2. e \in Seq(S) /\ Len(e) = Len(a) + Len(b)
        BY ONLY <4>1, a \in Seq(S), ConcatIs
      <4>3. \A j \in 1..Len(a) : e[j] = a[j]
        BY ONLY <4>1, a \in Seq(S), ConcatIs
      <4>4. \A j \in 1..Len(b) : e[Len(a) + j] = b[j]
        BY ONLY <4>1, a \in Seq(S), ConcatIs
      <4>5. QED
        BY ONLY <4>2, <4>3, <4>4, Zenon
    <3>2. values = e
      BY <2>2
    <3> HIDE DEF e
    <3>3. QED
      BY ONLY <3>1, <3>2, Zenon
  <2>4. Len(values) = la + 1 + Len(list)
    BY ONLY <1>3, <2>1, <2>3 DEF la
  <2>5. values[la + 1] = o
    <3>1. 1 \in 1..Len(b)
      BY <1>3, <2>1
    <3>2. QED
      BY ONLY <2>1, <2>3, <3>1 DEF la
  <2>6. ASSUME NEW j \in 1..Len(list) PROVE values[la + 1 + j] = list[j]
    <3>1. 1 + j \in 1..Len(b) /\ la + 1 + j = la + (1 + j)
      BY <1>3, <2>1
    <3>2. QED
      BY ONLY <2>1, <2>3, <3>1, j \in 1..Len(list) DEF la
  <2>7. QED
    BY ONLY <2>3, <2>4, <2>5, <2>6 DEF la
<1>5. Len(values) - size = la + 1
  BY <1>2, <1>3, <1>4
<1> HIDE DEF size, la
<1>6. /\ rest \in Seq(S) /\ Len(rest) = la + 1 /\ \A j \in 1..(la + 1) : rest[j] = values[j]
  <2>1. rest = SubSeq(values, 1, la + 1)
    BY <1>5
  <2>2. la + 1 \in Nat /\ la + 1 <= Len(values) /\ Len(values) \in Nat
    BY <1>3, <1>4
  <2>3. la + 1 = 1 + (la + 1) - 1 /\ \A j \in 1..(la + 1) : 1 + j - 1 = j
    BY <1>3
  <2> DEFINE k == la + 1
  <2>4. k = 1 + k - 1 /\ k \in Nat /\ 1 \in Nat \ {0} /\ 1 + k - 1 <= Len(values)
    BY <2>2, <2>3
  <2> HIDE DEF k, rest
  <2>5. rest = SubSeq(values, 1, 1 + k - 1)
    BY <2>1, <2>4 DEF k
  <2>6. rest \in Seq(S) /\ Len(rest) = k /\ \A j \in 1..k : rest[j] = values[1 + j - 1]
    BY ONLY <1>4, <2>4, <2>5, PartIs
  <2>7. QED
    BY ONLY <2>3, <2>6 DEF k
<1> HIDE DEF rest
<1>7. taken = list
  <2> DEFINE k == Len(list)
             m == la + 2
  <2>1. k \in Nat /\ m \in Nat \ {0} /\ m + k - 1 <= Len(values)
    BY <1>3, <1>4
  <2>2. Len(rest) + 1 = m /\ Len(values) = m + k - 1
    BY ONLY <1>3, <1>4, <1>6
  <2> HIDE DEF k, m
  <2>3. taken \in Seq(S) /\ Len(taken) = k /\ \A j \in 1..k : taken[j] = values[m + j - 1]
    <3> DEFINE e == SubSeq(values, m, m + k - 1)
    <3>1. e \in Seq(S) /\ Len(e) = k /\ \A j \in 1..k : e[j] = values[m + j - 1]
      BY ONLY <1>4, <2>1, PartIs
    <3>2. taken = e
      BY ONLY <2>2, Zenon
    <3> HIDE DEF e, taken
    <3>3. QED
      BY ONLY <3>1, <3>2, Zenon
  <2> HIDE DEF taken
  <2>4. ASSUME NEW j \in 1..k PROVE taken[j] = list[j]
    <3>1. m + j - 1 = la + 1 + j
      BY <1>3 DEF m
    <3>2. QED
      BY ONLY <1>4, <2>3, <3>1, j \in 1..k DEF k
  <2>5. QED
    BY ONLY <2>3, <2>4, list \in Seq(S), SeqEqual DEF k
<1>8. Ended(count) = [rest EXCEPT ![Len(rest)] = c]
  <2>1. Ended(count) = [rest EXCEPT ![Len(rest)] =
           IF TopFrame.kind = "array" THEN JArray(taken)
           ELSE JObject([k \in 1..count |-> Member(taken[2 * k - 1], taken[2 * k])])]
    BY DEF Ended, rest, size
  <2>2. CASE level.inArray
    <3>1. c = JArray(list)
      BY <2>2 DEF Collected
    <3>2. QED
      BY <1>1, <1>7, <2>1, <2>2, <3>1
  <2>3. CASE ~level.inArray
    <3>1. Len(list) \div 2 = count
      <4>1. Len(list) = 2 * count
        BY <2>3
      <4>2. (2 * count) \div 2 = count
        OBVIOUS
      <4>3. QED
        BY <4>1, <4>2
    <3>2. c = JObject([k \in 1..count |-> Member(list[2 * k - 1], list[2 * k])])
      BY <2>3, <3>1 DEF Collected, Pairs
    <3>3. TopFrame.kind # "array"
      BY <1>1, <2>3
    <3>4. QED
      BY ONLY <1>7, <2>1, <3>2, <3>3
  <2>4. QED
    BY <2>2, <2>3
<1> HIDE DEF c, taken
<1>9. [rest EXCEPT ![Len(rest)] = c] = Append(a, c)
  <2> DEFINE e == [rest EXCEPT ![Len(rest)] = c]
             f == Append(a, c)
             T == S \cup {c}
  <2>1. a \in Seq(T) /\ rest \in Seq(T) /\ c \in T
    BY <1>6, SeqMonotonic
  <2>2. e \in Seq(T) /\ Len(e) = Len(rest) /\ e[la + 1] = c /\ \A j \in 1..la : e[j] = rest[j]
    <3>1. la + 1 \in 1..Len(rest) /\ \A j \in 1..la : j \in 1..Len(rest) /\ j # la + 1
      BY <1>3, <1>6
    <3> HIDE DEF T
    <3>2. e = [rest EXCEPT ![la + 1] = c]
      BY <1>6
    <3>3. QED
      BY ONLY <2>1, <3>1, <3>2
  <2> HIDE DEF e, f, T
  <2>3. f \in Seq(T) /\ Len(f) = la + 1 /\ f[la + 1] = c /\ \A j \in 1..la : f[j] = a[j]
    BY ONLY <2>1, AppendIs DEF f, la
  <2>4. Len(e) = Len(f) /\ \A j \in 1..Len(f) : e[j] = f[j]
    <3>1. Len(e) = la + 1 /\ Len(f) = la + 1
      BY <1>6, <2>2, <2>3
    <3>2. ASSUME NEW j \in 1..(la + 1) PROVE e[j] = f[j]
      <4>1. CASE j = la + 1
        BY ONLY <2>2, <2>3, <4>1
      <4>2. CASE j # la + 1
        <5>1. j \in 1..la
          BY <1>3, <4>2
        <5>2. QED
          BY ONLY <1>4, <1>6, <2>2, <2>3, <5>1, j \in 1..(la + 1)
      <4>3. QED
        BY <4>1, <4>2
    <3>3. QED
      BY ONLY <3>1, <3>2
  <2>5. e = f
    BY ONLY <2>2, <2>3, <2>4, SeqEqual
  <2>6. QED
    BY <2>5 DEF e, f
<1>10. QED
  BY <1>8, <1>9 DEF c

-----------------------------------------------------------------------------
\* q digits of n are read, which begins at start.
Length(n) == Len(Decimal(Size(n)))
Taken(n, q) == Leading(Size(n), Length(n), q)
NumberRead(n, start, q) ==
  /\ q \in 0..Length(n)
  /\ ~useDouble
  /\ minus = (phase # "minus" /\ n < 0)
  /\ pos = start + (IF phase = "minus" THEN 0 ELSE Len(Signs(n))) + q
  /\ \/ phase \in {"minus", "first"} /\ q = 0 /\ use64bit = FALSE
     \/ /\ phase = "int" /\ q # 0 /\ use64bit = FALSE
        /\ i = Taken(n, q) /\ i <= Limit(Int32)
     \/ phase = "int64" /\ q # 0 /\ use64bit = TRUE /\ i64 = Taken(n, q)
     \/ /\ phase \in {"point", "e", "done"} /\ q = Length(n)
        /\ use64bit \in BOOLEAN /\ Integer = Size(n)
        /\ ~use64bit => Size(n) <= Limit(Int32)

NumberSync(s, t, v, q) ==
  /\ at = "number" /\ Matched(frames, s.levels, 1) /\ values = Stack(s)
  /\ v \in Scalars /\ IsNumber(v) /\ ValueMove(s, t, v)
  /\ NumberRead(v.number, Where(s) + 1, q)

ReadingSync(s, t) ==
  \/ ValueSync(s, t) \/ KeySync(s, t)
  \/ \E x, m : StringSync(s, t, x, m)
  \/ \E v, q : NumberSync(s, t, v, q)

\* The reader is where the Writer was, or it has read what was written.
Sync(H, n, S) ==
  /\ error = "NO_ERROR"
  /\ \/ \E s : Reaches(H, n, S, s) /\ AfterSync(s)
     \/ \E s, t : Follows(H, n, S, s, t) /\ ReadingSync(s, t)
     \/ at = "done" /\ root = written[1][1]

LEMMA ToAfter ==
  ASSUME NEW H, NEW n, NEW S, NEW s, Reaches(H, n, S, s),
         UNCHANGED printerVars, text' = text, error' = "NO_ERROR", AfterSync(s)'
  PROVE  Sync(H, n, S)'
<1>1. Reaches(H, n, S, s)'
  BY ReachesStays
<1>2. QED
  BY <1>1 DEF Sync

LEMMA ToReading ==
  ASSUME NEW H, NEW n, NEW S, NEW s, NEW t, Follows(H, n, S, s, t),
         UNCHANGED printerVars, text' = text, error' = "NO_ERROR", ReadingSync(s, t)'
  PROVE  Sync(H, n, S)'
<1>1. Follows(H, n, S, s, t)'
  BY FollowsStays
<1>2. QED
  BY <1>1 DEF Sync

\* A value or a name is to be read, after a comma or not.
LEMMA ToValue ==
  ASSUME NEW H, NEW n, NEW S, NEW s, NEW t, Follows(H, n, S, s, t),
         UNCHANGED printerVars, text' = text, error' = "NO_ERROR",
         at' = "value", pos' = Where(s) + 1, Matched(frames', s.levels, 1),
         values' = Stack(s), TakesA(s, t)
  PROVE  Sync(H, n, S)'
<1>1. ValueSync(s, t)'
  BY DEF ValueSync
<1>2. QED
  BY <1>1, ToReading DEF ReadingSync

LEMMA ToKey ==
  ASSUME NEW H, NEW n, NEW S, NEW s, NEW t, Follows(H, n, S, s, t),
         UNCHANGED printerVars, text' = text, error' = "NO_ERROR",
         at' = "key", pos' = Where(s) + 1, Matched(frames', s.levels, 2),
         values' = Stack(s), \E name \in Names : NameMove(s, t, name)
  PROVE  Sync(H, n, S)'
<1>1. KeySync(s, t)'
  BY DEF KeySync
<1>2. QED
  BY <1>1, ToReading DEF ReadingSync

-----------------------------------------------------------------------------
LEMMA NextValueSync ==
  ASSUME NEW H, NEW n, NEW S, NEW s, Reaches(H, n, S, s), AfterSync(s), error = "NO_ERROR",
         NextValue, UNCHANGED printerVars
  PROVE  Sync(H, n, S)'
<1>1. Matched(frames, s.levels, 0) /\ values = Stack(s)
  BY DEF AfterSync
<1>2. frames # << >> /\ text' = text /\ error' = "NO_ERROR" /\ values' = values
  BY DEF NextValue, MoveTo
<1>3. s.levels # << >>
  <2>1. frames \in Seq(FrameSet) /\ Len(frames) = Len(s.levels)
    BY <1>1 DEF Matched
  <2>2. Len(frames) # 0
    BY <1>2, <2>1
  <2>3. QED
    BY <2>1, <2>2
<1>4. Skip(text, pos) = pos /\ pos \in Nat
  BY <1>3, AfterText
<1>5. PICK t :
        /\ Follows(H, n, S, s, t)
        /\ \/ EndMove(s, t) /\ text[pos] = Closing(TopFrame)
           \/ /\ text[pos] = COMMA /\ Where(s) = pos /\ Skip(text, pos + 1) = pos + 1
              /\ \/ Last(s.levels).inArray /\ TakesA(s, t)
                 \/ /\ ~Last(s.levels).inArray
                    /\ \E name \in Names : NameMove(s, t, name)
  BY <1>3, AfterText
<1>6. text[pos] = COMMA
  BY <1>4 DEF NextValue
<1>7. COMMA # Closing(TopFrame)
  BY DEF COMMA, Closing, CLOSE_BRACKET, CLOSE_BRACE
<1>8. /\ Where(s) = pos /\ Skip(text, pos + 1) = pos + 1
      /\ \/ Last(s.levels).inArray /\ TakesA(s, t)
         \/ /\ ~Last(s.levels).inArray
            /\ \E name \in Names : NameMove(s, t, name)
  BY <1>5, <1>6, <1>7
<1>9. Last(frames).kind = KindOf(Last(s.levels))
  BY <1>1, <1>3, CommaBetween
<1>10. /\ frames' = Append(Front(frames), [Last(frames) EXCEPT !.count = @ + 1])
       /\ at' = IF Last(frames).kind = "array" THEN "value" ELSE "key"
       /\ pos' = Skip(text, pos + 1)
  BY <1>4 DEF NextValue, MoveTo, TopFrame
<1>11. Matched(frames', s.levels, IF Last(s.levels).inArray THEN 1 ELSE 2)
  <2>1. Matched(Append(Front(frames), [Last(frames) EXCEPT !.count = @ + 1]), s.levels,
                IF Last(s.levels).inArray THEN 1 ELSE 2)
    BY ONLY <1>1, <1>3, MatchComma
  <2>2. QED
    BY ONLY <1>10, <2>1, Zenon
<1>12. pos' = Where(s) + 1
  BY <1>8, <1>10
<1>13. CASE Last(s.levels).inArray
  <2>1. at' = "value" /\ Matched(frames', s.levels, 1) /\ TakesA(s, t)
    BY <1>8, <1>9, <1>10, <1>11, <1>13 DEF KindOf
  <2>2. QED
    BY <1>1, <1>2, <1>5, <1>12, <2>1, ToValue
<1>14. CASE ~Last(s.levels).inArray
  <2>1. at' = "key" /\ Matched(frames', s.levels, 2) /\ \E name \in Names : NameMove(s, t, name)
    BY <1>8, <1>9, <1>10, <1>11, <1>14 DEF KindOf
  <2>2. QED
    BY <1>1, <1>2, <1>5, <1>12, <2>1, ToKey
<1>15. QED
  BY <1>13, <1>14

\* What the end of an array or an object leaves.
LEMMA EndLeaves ==
  ASSUME NEW H, NEW n, NEW S, NEW s, NEW t, Follows(H, n, S, s, t), EndMove(s, t)
  PROVE  \E a \in Seq(S), list \in Seq(S) :
           /\ s.levels # << >> /\ Last(s.levels) \in LevelSet
           /\ t.levels = Front(s.levels) /\ t.hasRoot
           /\ Stack(s) = a \o (<<Opened(Last(s.levels))>> \o list)
           /\ Stack(t) = Append(a, Collected(Last(s.levels), list))
           /\ Len(list) = Last(s.levels).valueCount
           /\ Opened(Last(s.levels)) \in S
<1>1. IsContent(S) /\ MovesIn(s, t, S) /\ Sound(s, S)
  BY FollowsIs
<1>2. Collected(Last(s.levels), Last(s.written)) \in S
  BY <1>1 DEF MovesIn
<1> DEFINE a == Stacked(Front(s.levels), Front(s.written))
           list == Last(s.written)
<1>3. Stack(t) = Append(a, Collected(Last(s.levels), list))
  BY ONLY <1>1, <1>2, EndMove(s, t), EndSound
<1>4. /\ Stack(s) = a \o (<<Opened(Last(s.levels))>> \o list)
      /\ list \in Seq(S) /\ Len(list) = Last(s.levels).valueCount
  BY ONLY <1>1, <1>2, EndMove(s, t), EndSound
<1>5. s.levels # << >> /\ t.levels = Front(s.levels) /\ t.hasRoot = s.hasRoot
  BY DEF EndMove
<1>6. t.hasRoot
  BY <1>1, <1>5 DEF Sound
<1>7. s.levels \in Seq(LevelSet)
  BY <1>1 DEF Sound
<1>8. Last(s.levels) \in LevelSet
  BY ONLY <1>5, <1>7, FrontLast
<1>9. Opened(Last(s.levels)) \in S
  BY <1>1 DEF IsContent, Opened, KindOf
<1>10. a \in Seq(S)
  <2>1. s.written \in Seq(Seq(S)) /\ Len(s.written) = Len(s.levels) + 1
    BY <1>1 DEF Sound
  <2>2. Front(s.written) \in Seq(Seq(S)) /\ Front(s.written) # << >>
    BY ONLY <1>1, <1>5, <1>7, <2>1, StackedClose
  <2>3. QED
    BY ONLY <1>1, <2>2, StackedType
<1> HIDE DEF a, list
<1>11. QED
  BY ONLY <1>3, <1>4, <1>5, <1>6, <1>8, <1>9, <1>10

LEMMA CloseSync ==
  ASSUME NEW H, NEW n, NEW S, NEW s, Reaches(H, n, S, s), AfterSync(s), error = "NO_ERROR",
         Close, UNCHANGED printerVars
  PROVE  Sync(H, n, S)'
<1>1. Matched(frames, s.levels, 0) /\ values = Stack(s) /\ pos = Len(s.out) + 1
  BY DEF AfterSync
<1>2. frames # << >> /\ text' = text /\ error' = "NO_ERROR"
  BY DEF Close, MoveTo
<1>3. s.levels # << >>
  <2>1. frames \in Seq(FrameSet) /\ Len(frames) = Len(s.levels)
    BY <1>1 DEF Matched
  <2>2. Len(frames) # 0
    BY <1>2, <2>1
  <2>3. QED
    BY <2>1, <2>2
<1>4. Skip(text, pos) = pos /\ pos \in Nat
  BY <1>3, AfterText
<1>5. PICK t :
        /\ Follows(H, n, S, s, t)
        /\ \/ EndMove(s, t) /\ text[pos] = Closing(TopFrame)
           \/ /\ text[pos] = COMMA /\ Where(s) = pos /\ Skip(text, pos + 1) = pos + 1
              /\ \/ Last(s.levels).inArray /\ TakesA(s, t)
                 \/ /\ ~Last(s.levels).inArray
                    /\ \E name \in Names : NameMove(s, t, name)
  BY <1>3, AfterText
<1>6. text[pos] = Closing(TopFrame)
  BY <1>4 DEF Close
<1>7. COMMA # Closing(TopFrame)
  BY DEF COMMA, Closing, CLOSE_BRACKET, CLOSE_BRACE
<1>8. EndMove(s, t)
  BY <1>5, <1>6, <1>7
<1>9. PICK a \in Seq(S), list \in Seq(S) :
           /\ s.levels # << >> /\ Last(s.levels) \in LevelSet
           /\ t.levels = Front(s.levels) /\ t.hasRoot
           /\ Stack(s) = a \o (<<Opened(Last(s.levels))>> \o list)
           /\ Stack(t) = Append(a, Collected(Last(s.levels), list))
           /\ Len(list) = Last(s.levels).valueCount
           /\ Opened(Last(s.levels)) \in S
  BY <1>5, <1>8, EndLeaves
<1> DEFINE level == Last(s.levels)
           count == TopFrame.count + 1
           o == Opened(level)
           c == Collected(level, list)
<1>10. /\ Last(frames).kind = KindOf(level) /\ Last(frames).count \in Nat
       /\ level.valueCount = IF level.inArray THEN Last(frames).count + 1
                             ELSE 2 * (Last(frames).count + 1)
  BY ONLY <1>1, <1>3, CommaBetween
<1>11. /\ TopFrame.kind = KindOf(level) /\ count \in Nat
       /\ Len(list) = IF level.inArray THEN count ELSE 2 * count
  BY <1>9, <1>10 DEF TopFrame
<1>12. values = a \o (<<o>> \o list) /\ o \in S /\ level \in LevelSet /\ Stack(t) = Append(a, c)
  BY <1>1, <1>9
<1>13. values' = Ended(count) /\ frames' = Front(frames) /\ pos' = pos + 1 /\ at' = "after"
  BY <1>4 DEF Close, MoveTo
<1> HIDE DEF level, count, o, c
<1>14. Ended(count) = Append(a, c)
  BY ONLY <1>11, <1>12, EndedIs DEF c
<1>15. values' = Stack(t)
  BY ONLY <1>12, <1>13, <1>14, Zenon
<1>16. Matched(frames', t.levels, 0)
  <2>1. Matched(Front(frames), Front(s.levels), 0)
    BY ONLY <1>1, <1>3, MatchClose
  <2>2. QED
    BY ONLY <1>9, <1>13, <2>1, Zenon
<1>17. pos' = Len(t.out) + 1
  <2>1. Len(t.out) = Len(s.out) + 1 /\ Len(s.out) \in Nat
    BY <1>5, <1>8, EndThere
  <2>2. QED
    BY <1>1, <1>13, <2>1
<1>18. AfterSync(t)'
  BY ONLY <1>9, <1>13, <1>15, <1>16, <1>17 DEF AfterSync
<1>19. Reaches(H, n, S, t)
  BY <1>5, FollowsReaches
<1>20. QED
  BY <1>2, <1>18, <1>19, ToAfter

LEMMA NoMissingComma ==
  ASSUME NEW H, NEW n, NEW S, NEW s, Reaches(H, n, S, s), AfterSync(s), MissingComma
  PROVE  FALSE
<1>1. Matched(frames, s.levels, 0) /\ frames # << >>
  BY DEF AfterSync, MissingComma
<1>2. s.levels # << >>
  <2>1. frames \in Seq(FrameSet) /\ Len(frames) = Len(s.levels)
    BY <1>1 DEF Matched
  <2>2. Len(frames) # 0
    BY <1>1, <2>1
  <2>3. QED
    BY <2>1, <2>2
<1>3. Skip(text, pos) = pos /\ (text[pos] = Closing(TopFrame) \/ text[pos] = COMMA)
  BY <1>2, AfterText
<1>4. QED
  BY <1>3 DEF MissingComma

LEMMA EndDocumentSync ==
  ASSUME NEW H, NEW n, NEW S, NEW s, Reaches(H, n, S, s), AfterSync(s), error = "NO_ERROR",
         EndDocument, UNCHANGED printerVars
  PROVE  Sync(H, n, S)'
<1>1. frames = << >> /\ Matched(frames, s.levels, 0)
  BY DEF EndDocument, AfterSync
<1>2. s.levels = << >>
  <2>1. s.levels \in Seq(LevelSet) /\ Len(frames) = Len(s.levels)
    BY <1>1 DEF Matched
  <2>2. Len(s.levels) = 0
    BY <1>1, <2>1
  <2>3. QED
    BY <2>1, <2>2
<1>3. Skip(text, pos) = pos /\ text[pos] = NUL /\ Last(values) = written[1][1]
  BY <1>2, RootIs
<1>4. at' = "done" /\ root' = Last(values) /\ error' = error
  BY <1>3 DEF EndDocument
<1>5. written' = written
  BY DEF printerVars
<1>6. QED
  BY <1>3, <1>4, <1>5 DEF Sync

LEMMA AfterStep ==
  ASSUME NEW H, NEW n, NEW S, NEW s, Reaches(H, n, S, s), AfterSync(s), error = "NO_ERROR",
         ParserNext, UNCHANGED printerVars
  PROVE  Sync(H, n, S)'
<1>1. at = "after"
  BY DEF AfterSync
<1>2. NextValue \/ Close \/ MissingComma \/ EndDocument
  BY <1>1 DEF ParserNext, ParseLiteral, BeginString, MissingName, OpenObject, OpenArray, Open,
              BeginNumber, ReadNumber, EndNumber, StringChar, StringEscape, StringUnicode,
              StringFails, EndString
<1>3. QED
  BY <1>2, NextValueSync, CloseSync, NoMissingComma, EndDocumentSync

-----------------------------------------------------------------------------
(***************************************************************************)
(* The beginning of a value or a name.                                     *)
(***************************************************************************)

\* What is known of a value that is to be read.
LEMMA ValueThere ==
  ASSUME NEW H, NEW n, NEW S, NEW s, NEW t, NEW v \in Scalars, Follows(H, n, S, s, t),
         ValueMove(s, t, v)
  PROVE  /\ v \in S /\ Spelt(v) \in Seq(Byte) /\ Len(Spelt(v)) \in Nat \ {0}
         /\ Where(s) \in Nat /\ Len(t.out) = Where(s) + Len(Spelt(v)) /\ Len(t.out) < Len(text)
         /\ Len(text) \in Nat /\ text \in Seq(Byte)
         /\ \A j \in 1..Len(Spelt(v)) : text[Where(s) + j] = Spelt(v)[j]
         /\ t.levels = CountedIn(s.levels) /\ t.hasRoot /\ Stack(t) = Append(Stack(s), v)
<1> DEFINE x == Spelt(v)
<1>1. /\ Adds(s, t, x, v) /\ (s.levels = << >> => ~s.hasRoot)
  BY DEF ValueMove, ValueIn
<1>2. v \in S
  BY FollowsIs DEF HasAll
<1>3. x \in Seq(Byte) /\ Len(x) \in Nat \ {0}
  BY ONLY v \in Scalars, SpeltStarts
<1> HIDE DEF x
<1>4. /\ t.levels = CountedIn(s.levels) /\ t.hasRoot /\ Stack(t) = Append(Stack(s), v)
      /\ Writes(s, t, PrefixOf(s.levels), x)
  BY ONLY <1>1, <1>2, <1>3, Follows(H, n, S, s, t), AddsWritten
<1>5. x # << >>
  BY <1>3
<1>6. /\ Where(s) \in Nat /\ Len(t.out) = Where(s) + Len(x) /\ Len(t.out) < Len(text)
      /\ \A j \in 1..Len(x) : text[Where(s) + j] = x[j]
  BY ONLY <1>3, <1>4, <1>5, Follows(H, n, S, s, t), NextPrefix
<1>7. text \in Seq(Byte) /\ Len(text) \in Nat
  <2>1. Printed(H, n, S)
    BY DEF Follows
  <2>2. text \in Seq(Byte)
    BY ONLY <2>1, PrintedText
  <2>3. QED
    BY <2>2
<1>8. QED
  BY ONLY <1>2, <1>3, <1>4, <1>6, <1>7 DEF x

\* A value that is read.
LEMMA ValueRead ==
  ASSUME NEW H, NEW n, NEW S, NEW s, NEW t, NEW v \in Scalars, Follows(H, n, S, s, t),
         ValueMove(s, t, v), Matched(frames, s.levels, 1), values = Stack(s),
         UNCHANGED printerVars, text' = text, error' = "NO_ERROR", frames' = frames,
         at' = "after", pos' = Len(t.out) + 1, values' = Append(values, v)
  PROVE  Sync(H, n, S)'
<1>1. t.levels = CountedIn(s.levels) /\ t.hasRoot /\ Stack(t) = Append(Stack(s), v)
  BY ONLY v \in Scalars, Follows(H, n, S, s, t), ValueMove(s, t, v), ValueThere
<1>2. Matched(frames, CountedIn(s.levels), 0)
  <2>1. Matched(frames, s.levels, 0 + 1) /\ 0 \in Nat
    OBVIOUS
  <2>2. QED
    BY ONLY <2>1, MatchRead
<1>3. Matched(frames', t.levels, 0)
  BY ONLY <1>1, <1>2, frames' = frames, Zenon
<1>4. values' = Stack(t)
  BY ONLY <1>1, values' = Append(values, v), values = Stack(s), Zenon
<1>5. AfterSync(t)'
  BY <1>1, <1>3, <1>4 DEF AfterSync
<1>6. Reaches(H, n, S, t)
  BY FollowsReaches
<1>7. QED
  BY <1>5, <1>6, ToAfter

LEMMA WordMatches ==
  ASSUME NEW word \in Seq(Byte), NEW p \in Nat, text \in Seq(Byte), Len(text) \in Nat,
         p + Len(word) < Len(text), \A j \in 1..Len(word) : text[p + j] = word[j],
         Len(word) # 0
  PROVE  Matches(word, p + 1)
<1> DEFINE m == p + 1
           k == Len(word)
           e == SubSeq(text, m, m + k - 1)
<1>1. m \in Nat \ {0} /\ k \in Nat /\ m + k - 1 <= Len(text) /\ k <= Len(text) - m
      /\ \A j \in 1..k : m + j - 1 = p + j
  OBVIOUS
<1>2. e \in Seq(Byte) /\ Len(e) = k /\ \A j \in 1..k : e[j] = text[m + j - 1]
  <2> HIDE DEF m, k
  <2>1. QED
    BY ONLY <1>1, text \in Seq(Byte), PartIs
<1>3. \A j \in 1..k : e[j] = word[j]
  BY ONLY <1>1, <1>2, \A j \in 1..k : text[p + j] = word[j]
<1> HIDE DEF e
<1>4. e = word
  BY ONLY <1>2, <1>3, word \in Seq(Byte), SeqEqual
<1>5. QED
  BY <1>1, <1>4 DEF Matches, e

LEMMA WordBegins ==
  ASSUME NEW word \in Seq(Byte), NEW m \in Nat \ {0}, text \in Seq(Byte), Len(text) \in Nat,
         Len(word) \in Nat \ {0}, Matches(word, m)
  PROVE  text[m] = word[1]
<1> DEFINE k == Len(word)
           e == SubSeq(text, m, m + k - 1)
<1>1. k \in Nat \ {0} /\ k <= Len(text) - m /\ e = word
  BY DEF Matches
<1>2. m + k - 1 <= Len(text) /\ 1 \in 1..k /\ m + 1 - 1 = m /\ k \in Nat
  BY <1>1
<1>3. e[1] = text[m]
  <2> HIDE DEF k
  <2>1. \A j \in 1..k : e[j] = text[m + j - 1]
    BY ONLY <1>2, text \in Seq(Byte), m \in Nat \ {0}, PartIs
  <2> HIDE DEF e
  <2>2. QED
    BY ONLY <1>2, <2>1
<1> HIDE DEF e
<1>4. QED
  BY <1>1, <1>3

LEMMA LiteralsAre ==
  ASSUME NEW literal \in Literals
  PROVE  /\ literal.word \in Seq(Byte) /\ Len(literal.word) \in Nat \ {0}
         /\ literal.value \in {JNull, JBool(TRUE), JBool(FALSE)}
         /\ Spelt(literal.value) = literal.word
         /\ literal.word[1] \in {110, 116, 102}
         /\ \A other \in Literals : other.word[1] = literal.word[1] => other = literal
<1> DEFINE a == [word |-> NullText, value |-> JNull]
           b == [word |-> TrueText, value |-> JBool(TRUE)]
           c == [word |-> FalseText, value |-> JBool(FALSE)]
<1>1. Literals = {a, b, c}
  BY Zenon DEF Literals
<1>2. /\ a.word = NullText /\ a.value = JNull /\ b.word = TrueText /\ b.value = JBool(TRUE)
      /\ c.word = FalseText /\ c.value = JBool(FALSE)
  BY Zenon
<1>3. a.word[1] = 110 /\ b.word[1] = 116 /\ c.word[1] = 102
  BY <1>2, SpeltLiteral
<1>4. /\ Spelt(a.value) = a.word /\ Spelt(b.value) = b.word /\ Spelt(c.value) = c.word
  BY <1>2, SpeltLiteral, Zenon
<1>5. /\ a.word \in Seq(Byte) /\ b.word \in Seq(Byte) /\ c.word \in Seq(Byte)
      /\ Len(a.word) \in Nat \ {0} /\ Len(b.word) \in Nat \ {0} /\ Len(c.word) \in Nat \ {0}
  BY <1>2, SpeltLiteral
<1>6. literal.value \in {JNull, JBool(TRUE), JBool(FALSE)}
  BY ONLY <1>1, <1>2, literal \in Literals, Zenon
<1> HIDE DEF a, b, c
<1>7. Spelt(literal.value) = literal.word
  BY ONLY <1>1, <1>4, literal \in Literals, Zenon
<1>8. /\ literal.word[1] \in {110, 116, 102}
      /\ \A other \in Literals : other.word[1] = literal.word[1] => other = literal
  BY ONLY <1>1, <1>3, literal \in Literals
<1>9. literal.word \in Seq(Byte) /\ Len(literal.word) \in Nat \ {0}
  BY ONLY <1>1, <1>5, literal \in Literals
<1>10. QED
  BY <1>6, <1>7, <1>8, <1>9

LEMMA InitialsAre == \A c : c \in Initials <=> c \in {110, 116, 102}
<1>1. ASSUME NEW c \in Initials PROVE c \in {110, 116, 102}
  <2>1. PICK literal \in Literals : c = literal.word[1]
    BY DEF Initials
  <2>2. QED
    BY ONLY <2>1, LiteralsAre
<1>2. 110 \in Initials /\ 116 \in Initials /\ 102 \in Initials
  <2> DEFINE a == [word |-> NullText, value |-> JNull]
             b == [word |-> TrueText, value |-> JBool(TRUE)]
             c == [word |-> FalseText, value |-> JBool(FALSE)]
  <2>1. a \in Literals /\ b \in Literals /\ c \in Literals
    BY DEF Literals
  <2>2. a.word[1] = 110 /\ b.word[1] = 116 /\ c.word[1] = 102
    BY SpeltLiteral
  <2> HIDE DEF a, b, c
  <2>3. QED
    BY <2>1, <2>2 DEF Initials
<1>3. QED
  BY ONLY <1>1, <1>2

\* null, true or false.
LEMMA LiteralIs ==
  ASSUME NEW v, IsLiteral(v)
  PROVE  \E literal \in Literals : literal.value = v /\ literal.word = Spelt(v)
<1>1. CASE v = JNull
  <2> DEFINE a == [word |-> NullText, value |-> JNull]
  <2>1. a \in Literals /\ a.value = v /\ a.word = NullText
    BY <1>1 DEF Literals
  <2>2. Spelt(v) = NullText
    BY <1>1, SpeltLiteral
  <2>3. QED
    BY <2>1, <2>2
<1>2. CASE v = JBool(TRUE)
  <2> DEFINE a == [word |-> TrueText, value |-> JBool(TRUE)]
  <2>1. a \in Literals /\ a.value = v /\ a.word = TrueText
    BY <1>2 DEF Literals
  <2>2. Spelt(v) = TrueText
    BY ONLY <1>2, SpeltLiteral, Zenon
  <2>3. QED
    BY <2>1, <2>2
<1>3. CASE v = JBool(FALSE)
  <2> DEFINE a == [word |-> FalseText, value |-> JBool(FALSE)]
  <2>1. a \in Literals /\ a.value = v /\ a.word = FalseText
    BY <1>3 DEF Literals
  <2>2. Spelt(v) = FalseText
    BY ONLY <1>3, SpeltLiteral, Zenon
  <2>3. QED
    BY <2>1, <2>2
<1>4. QED
  BY <1>1, <1>2, <1>3 DEF IsLiteral

\* What a move writes first tells what it is.
LEMMA FirstOfValue ==
  ASSUME NEW H, NEW n, NEW S, NEW s, NEW t, NEW v \in Scalars, Follows(H, n, S, s, t),
         ValueMove(s, t, v)
  PROVE  /\ text[Where(s) + 1] = Spelt(v)[1]
         /\ IsLiteral(v) => text[Where(s) + 1] \in {110, 116, 102}
         /\ IsNumber(v) => text[Where(s) + 1] \in {45} \cup 48..57
         /\ IsString(v) => text[Where(s) + 1] = QUOTE
<1>1. /\ Len(Spelt(v)) \in Nat \ {0}
      /\ \A j \in 1..Len(Spelt(v)) : text[Where(s) + j] = Spelt(v)[j]
  BY ONLY v \in Scalars, Follows(H, n, S, s, t), ValueMove(s, t, v), ValueThere
<1>2. text[Where(s) + 1] = Spelt(v)[1]
  <2>1. 1 \in 1..Len(Spelt(v))
    BY <1>1
  <2>2. QED
    BY ONLY <1>1, <2>1
<1>3. ASSUME IsLiteral(v) PROVE Spelt(v)[1] \in {110, 116, 102}
  <2>1. PICK literal \in Literals : literal.word = Spelt(v)
    BY <1>3, LiteralIs
  <2>2. QED
    BY ONLY <2>1, LiteralsAre
<1>4. ASSUME IsNumber(v) PROVE Spelt(v)[1] \in {45} \cup 48..57
  BY <1>4, SpeltNumber
<1>5. ASSUME IsString(v) PROVE Spelt(v)[1] = QUOTE
  <2>1. Spelt(v) = Quoted(v.string) /\ v.string \in Seq(Byte)
    BY <1>5, SpeltString
  <2>2. Quoted(v.string)[1] = QUOTE
    BY ONLY <2>1, QuotedIs
  <2>3. QED
    BY <2>1, <2>2
<1>6. QED
  BY <1>2, <1>3, <1>4, <1>5

LEMMA StartThere ==
  ASSUME NEW H, NEW n, NEW S, NEW s, NEW t, NEW inArray \in BOOLEAN, Follows(H, n, S, s, t),
         StartMove(s, t, inArray)
  PROVE  /\ Where(s) \in Nat /\ Len(t.out) = Where(s) + 1
         /\ text[Where(s) + 1] = Bracket(inArray)
         /\ Stack(t) = Append(Stack(s), Opened(Level(inArray)))
         /\ t.levels = Append(CountedIn(s.levels), Level(inArray))
         /\ t.levels # << >> /\ Last(t.levels) = Level(inArray)
         /\ Front(t.levels) = CountedIn(s.levels)
<1> DEFINE c == Bracket(inArray)
           x == <<c>>
<1>1. Sound(s, S) /\ IsContent(S)
  BY FollowsIs
<1>2. c \in Byte
  BY DEF Bracket, Byte, OPEN_BRACKET, OPEN_BRACE
<1>3. Writes(s, t, PrefixOf(s.levels), x)
  BY DEF StartMove, Writes
<1> HIDE DEF c
<1>4. x \in Seq(Byte) /\ x # << >> /\ x[1] = c /\ Len(x) = 1
  BY <1>2
<1> HIDE DEF x
<1>5. Where(s) \in Nat /\ Len(t.out) = Where(s) + Len(x) /\ text[Where(s) + 1] = x[1]
  BY ONLY <1>3, <1>4, Follows(H, n, S, s, t), NextPrefix
<1>6. Stack(t) = Append(Stack(s), Opened(Level(inArray)))
  BY ONLY <1>1, StartMove(s, t, inArray), inArray \in BOOLEAN, StartSound
<1>7. t.levels = Append(CountedIn(s.levels), Level(inArray))
  BY DEF StartMove
<1>8. CountedIn(s.levels) \in Seq(LevelSet) /\ Level(inArray) \in LevelSet
  <2>1. s.levels \in Seq(LevelSet)
    BY <1>1 DEF Sound
  <2>2. CountedIn(s.levels) \in Seq(LevelSet)
    BY ONLY <2>1, CountedIs
  <2>3. QED
    BY <2>2 DEF Level, LevelSet
<1>9. t.levels # << >> /\ Last(t.levels) = Level(inArray) /\ Front(t.levels) = CountedIn(s.levels)
  <2> DEFINE e == Append(CountedIn(s.levels), Level(inArray))
  <2>1. e # << >> /\ Last(e) = Level(inArray) /\ Front(e) = CountedIn(s.levels)
    BY ONLY <1>8, AppendIs
  <2> HIDE DEF e
  <2>2. t.levels = e
    BY <1>7 DEF e
  <2>3. QED
    BY ONLY <2>1, <2>2, Zenon
<1>10. QED
  BY ONLY <1>4, <1>5, <1>6, <1>7, <1>9 DEF c

\* Which move it is, seen from the first byte.
LEMMA FirstByte ==
  ASSUME NEW H, NEW n, NEW S, NEW s, NEW t, Follows(H, n, S, s, t), ValueSync(s, t)
  PROVE  \/ /\ Peek \in {110, 116, 102}
            /\ \E v \in Scalars : IsLiteral(v) /\ ValueMove(s, t, v)
         \/ /\ Peek \in {45} \cup 48..57
            /\ \E v \in Scalars : IsNumber(v) /\ ValueMove(s, t, v)
         \/ /\ Peek = QUOTE
            /\ \E v \in Scalars : IsString(v) /\ ValueMove(s, t, v)
         \/ \E inArray \in BOOLEAN : Peek = Bracket(inArray) /\ StartMove(s, t, inArray)
<1>1. Peek = text[Where(s) + 1] /\ TakesA(s, t)
  BY DEF ValueSync, Peek
<1>2. CASE \E v \in Scalars : ValueMove(s, t, v)
  <2>1. PICK v \in Scalars : ValueMove(s, t, v)
    BY <1>2
  <2>2. /\ IsLiteral(v) => Peek \in {110, 116, 102}
        /\ IsNumber(v) => Peek \in {45} \cup 48..57
        /\ IsString(v) => Peek = QUOTE
    BY ONLY <1>1, <2>1, Follows(H, n, S, s, t), FirstOfValue
  <2>3. IsLiteral(v) \/ IsNumber(v) \/ IsString(v)
    BY Kinds
  <2>4. QED
    BY <2>1, <2>2, <2>3
<1>3. CASE \E inArray \in BOOLEAN : StartMove(s, t, inArray)
  <2>1. PICK inArray \in BOOLEAN : StartMove(s, t, inArray)
    BY <1>3
  <2>2. text[Where(s) + 1] = Bracket(inArray)
    BY ONLY <2>1, Follows(H, n, S, s, t), StartThere
  <2>3. QED
    BY <1>1, <2>1, <2>2
<1>4. QED
  BY <1>1, <1>2, <1>3 DEF TakesA

LEMMA LiteralSync ==
  ASSUME NEW H, NEW n, NEW S, NEW s, NEW t, Follows(H, n, S, s, t), ValueSync(s, t),
         error = "NO_ERROR", ParseLiteral, UNCHANGED printerVars
  PROVE  Sync(H, n, S)'
<1>1. Peek \in {110, 116, 102}
  BY InitialsAre DEF ParseLiteral
<1>2. PICK v \in Scalars : IsLiteral(v) /\ ValueMove(s, t, v)
  BY <1>1, FirstByte DEF QUOTE, Bracket, OPEN_BRACKET, OPEN_BRACE
<1>3. PICK literal \in Literals : literal.value = v /\ literal.word = Spelt(v)
  BY <1>2, LiteralIs
<1> DEFINE word == literal.word
<1>4. /\ word \in Seq(Byte) /\ Len(word) \in Nat \ {0}
      /\ Where(s) \in Nat /\ Len(t.out) = Where(s) + Len(word) /\ Len(t.out) < Len(text)
      /\ Len(text) \in Nat /\ text \in Seq(Byte)
      /\ \A j \in 1..Len(word) : text[Where(s) + j] = word[j]
  BY ONLY <1>2, <1>3, Follows(H, n, S, s, t), ValueThere
<1>5. /\ pos = Where(s) + 1 /\ Matched(frames, s.levels, 1) /\ values = Stack(s)
  BY DEF ValueSync
<1>6. Matches(word, pos)
  <2>1. Where(s) + Len(word) < Len(text) /\ Len(word) # 0
    BY <1>4
  <2> HIDE DEF word
  <2>2. Matches(word, Where(s) + 1)
    BY ONLY <1>4, <2>1, WordMatches
  <2>3. QED
    BY <1>5, <2>2
<1>7. PICK other \in Literals :
          /\ Matches(other.word, pos)
          /\ Push(other.value)
          /\ MoveTo(pos + Len(other.word), "after")
          /\ UNCHANGED <<frames, chars, isKey>>
  BY <1>6 DEF ParseLiteral
<1>8. other = literal
  <2>1. other.word \in Seq(Byte) /\ Len(other.word) \in Nat \ {0}
    BY ONLY other \in Literals, LiteralsAre
  <2>2. pos \in Nat \ {0}
    BY <1>4, <1>5
  <2>3. text[pos] = other.word[1]
    BY ONLY <1>4, <1>7, <2>1, <2>2, WordBegins
  <2>4. text[pos] = word[1]
    BY ONLY <1>4, <1>6, <2>2, WordBegins
  <2>5. \A o \in Literals : o.word[1] = literal.word[1] => o = literal
    BY ONLY literal \in Literals, LiteralsAre
  <2>6. other.word[1] = literal.word[1]
    BY <2>3, <2>4
  <2>7. QED
    BY ONLY <2>5, <2>6, other \in Literals
<1>9. /\ values' = Append(values, v) /\ pos' = pos + Len(word) /\ at' = "after"
      /\ text' = text /\ error' = error /\ frames' = frames
  BY <1>3, <1>7, <1>8 DEF Push, MoveTo
<1>10. pos' = Len(t.out) + 1
  <2>1. /\ Len(word) \in Nat /\ Where(s) \in Nat /\ Len(t.out) = Where(s) + Len(word)
        /\ pos' = pos + Len(word) /\ pos = Where(s) + 1
    BY ONLY <1>4, <1>5, <1>9
  <2> HIDE DEF word
  <2>2. QED
    BY ONLY <2>1
<1>11. error' = "NO_ERROR"
  BY <1>9
<1>12. QED
  BY ONLY <1>2, <1>5, <1>9, <1>10, <1>11, Follows(H, n, S, s, t), UNCHANGED printerVars, ValueRead

\* A string begins.
LEMMA StringStarts ==
  ASSUME NEW H, NEW n, NEW S, NEW s, NEW t, NEW x \in Seq(Byte), Follows(H, n, S, s, t),
         UNCHANGED printerVars, text' = text, error' = "NO_ERROR",
         at' = "string", pos' = Where(s) + 2, Where(s) \in Nat, chars' = << >>,
         isKey' \in BOOLEAN,
         Matched(frames', s.levels, IF isKey' THEN 2 ELSE 1), values' = Stack(s),
         IF isKey' THEN x \in Names /\ NameMove(s, t, x)
         ELSE JString(x) \in Scalars /\ ValueMove(s, t, JString(x))
  PROVE  Sync(H, n, S)'
<1>1. Reached(x, 0) = 0
  BY QuotedIs
<1>2. 0 \in 0..Len(x)
  OBVIOUS
<1>3. SubSeq(x, 1, 0) = << >>
  OBVIOUS
<1>4. pos' = Where(s) + 2 + Reached(x, 0)
  BY <1>1
<1>5. StringSync(s, t, x, 0)'
  BY <1>2, <1>3, <1>4 DEF StringSync
<1>6. ReadingSync(s, t)'
  BY <1>5 DEF ReadingSync
<1>7. QED
  BY <1>6, ToReading

LEMMA BeginStringSync ==
  ASSUME NEW H, NEW n, NEW S, NEW s, NEW t, Follows(H, n, S, s, t), ValueSync(s, t),
         error = "NO_ERROR", BeginString, UNCHANGED printerVars
  PROVE  Sync(H, n, S)'
<1>1. Peek = QUOTE
  BY DEF BeginString
<1>2. PICK v \in Scalars : IsString(v) /\ ValueMove(s, t, v)
  BY <1>1, FirstByte DEF QUOTE, Bracket, OPEN_BRACKET, OPEN_BRACE
<1>3. v = JString(v.string) /\ v.string \in Seq(Byte)
  BY <1>2 DEF IsString
<1>4. /\ at = "value" /\ pos = Where(s) + 1 /\ Matched(frames, s.levels, 1) /\ values = Stack(s)
  BY DEF ValueSync
<1>5. /\ isKey' = FALSE /\ chars' = << >> /\ pos' = pos + 1 /\ at' = "string"
      /\ text' = text /\ error' = error /\ frames' = frames /\ values' = values
  BY <1>4 DEF BeginString, MoveTo
<1>6. Where(s) \in Nat
  BY <1>2, ValueThere
<1>7. pos' = Where(s) + 2
  BY <1>4, <1>5, <1>6
<1>8. JString(v.string) \in Scalars /\ ValueMove(s, t, JString(v.string))
  BY ONLY <1>2, <1>3, v \in Scalars, Zenon
<1>9. Matched(frames', s.levels, IF isKey' THEN 2 ELSE 1)
  BY <1>4, <1>5
<1>10. values' = Stack(s) /\ isKey' \in BOOLEAN /\ error' = "NO_ERROR"
  BY <1>4, <1>5
<1>11. QED
  BY ONLY <1>3, <1>5, <1>6, <1>7, <1>8, <1>9, <1>10, Follows(H, n, S, s, t), UNCHANGED printerVars,
          StringStarts

LEMMA BeginNameSync ==
  ASSUME NEW H, NEW n, NEW S, NEW s, NEW t, Follows(H, n, S, s, t), KeySync(s, t),
         error = "NO_ERROR", BeginString, UNCHANGED printerVars
  PROVE  Sync(H, n, S)'
<1>1. /\ at = "key" /\ pos = Where(s) + 1 /\ Matched(frames, s.levels, 2) /\ values = Stack(s)
  BY DEF KeySync
<1>2. PICK name \in Names : NameMove(s, t, name)
  BY DEF KeySync
<1>3. name \in Seq(Byte)
  BY WrittenValuesAssumption DEF Byte
<1>4. /\ isKey' = TRUE /\ chars' = << >> /\ pos' = pos + 1 /\ at' = "string"
      /\ text' = text /\ error' = error /\ frames' = frames /\ values' = values
  BY <1>1 DEF BeginString, MoveTo
<1>5. Where(s) \in Nat
  BY <1>2, BeginsThere
<1>6. pos' = Where(s) + 2
  BY <1>1, <1>4, <1>5
<1>7. Matched(frames', s.levels, IF isKey' THEN 2 ELSE 1)
  BY <1>1, <1>4
<1>8. values' = Stack(s) /\ isKey' \in BOOLEAN /\ error' = "NO_ERROR"
  BY <1>1, <1>4
<1>9. QED
  BY ONLY <1>2, <1>3, <1>4, <1>5, <1>6, <1>7, <1>8, Follows(H, n, S, s, t), UNCHANGED printerVars,
          StringStarts

LEMMA KeyStep ==
  ASSUME NEW H, NEW n, NEW S, NEW s, NEW t, Follows(H, n, S, s, t), KeySync(s, t),
         error = "NO_ERROR", ParserNext, UNCHANGED printerVars
  PROVE  Sync(H, n, S)'
<1>1. at = "key" /\ pos = Where(s) + 1
  BY DEF KeySync
<1>2. BeginString \/ MissingName
  BY <1>1 DEF ParserNext, ParseLiteral, OpenObject, OpenArray, Open,
              BeginNumber, ReadNumber, EndNumber, StringChar, StringEscape, StringUnicode,
              StringFails, EndString, NextValue, Close, MissingComma, EndDocument
<1>3. ~MissingName
  <2>1. PICK name \in Names : NameMove(s, t, name)
    BY DEF KeySync
  <2>2. name \in Seq(Byte)
    BY WrittenValuesAssumption DEF Byte
  <2>3. Quoted(name) \in Seq(Byte) /\ Len(Quoted(name)) \in Nat \ {0}
    BY ONLY <2>2, QuotedStarts
  <2>4. Quoted(name) # << >> /\ Writes(s, t, PrefixOf(s.levels), Quoted(name))
    BY <2>1, <2>3 DEF NameMove, Adds, Writes
  <2>5. text[Where(s) + 1] = Quoted(name)[1]
    BY ONLY <2>3, <2>4, Follows(H, n, S, s, t), NextPrefix
  <2>6. Quoted(name)[1] = QUOTE
    BY ONLY <2>2, QuotedIs
  <2>7. QED
    BY <1>1, <2>5, <2>6 DEF MissingName, Peek
<1>4. QED
  BY <1>2, <1>3, BeginNameSync

\* An array or an object that is empty leaves its placeholder.
LEMMA EmptyStays ==
  ASSUME NEW H, NEW n, NEW S, NEW t, NEW u, Follows(H, n, S, t, u), EndMove(t, u),
         Last(t.levels).valueCount = 0
  PROVE  /\ Stack(u) = Stack(t) /\ u.levels = Front(t.levels) /\ u.hasRoot
<1>1. PICK a \in Seq(S), list \in Seq(S) :
           /\ t.levels # << >> /\ Last(t.levels) \in LevelSet
           /\ u.levels = Front(t.levels) /\ u.hasRoot
           /\ Stack(t) = a \o (<<Opened(Last(t.levels))>> \o list)
           /\ Stack(u) = Append(a, Collected(Last(t.levels), list))
           /\ Len(list) = Last(t.levels).valueCount
           /\ Opened(Last(t.levels)) \in S
  BY EndLeaves
<1> DEFINE level == Last(t.levels)
           o == Opened(level)
<1>2. list = << >>
  BY <1>1
<1>3. Collected(level, << >>) = o
  <2>1. level.inArray \in BOOLEAN
    BY <1>1 DEF LevelSet
  <2>2. CASE level.inArray
    BY <2>2 DEF Collected, Opened, Placeholder, KindOf
  <2>3. CASE ~level.inArray
    <3>1. Pairs(<< >>) = << >>
      <4>1. Len(<< >>) \div 2 = 0
        OBVIOUS
      <4>2. QED
        BY <4>1 DEF Pairs
    <3> HIDE DEF level
    <3>2. Collected(level, << >>) = JObject(<< >>)
      BY <2>3, <3>1 DEF Collected
    <3>3. o = JObject(<< >>)
      BY <2>3 DEF Opened, Placeholder, KindOf
    <3>4. QED
      BY <3>2, <3>3
  <2>4. QED
    BY <2>1, <2>2, <2>3
<1> HIDE DEF level, o
<1>4. Stack(t) = a \o (<<o>> \o << >>) /\ Stack(u) = Append(a, Collected(level, << >>)) /\ o \in S
  BY ONLY <1>1, <1>2 DEF level, o
<1> DEFINE e == a \o (<<o>> \o << >>)
           f == Append(a, o)
<1>5. e = f
  BY ONLY <1>4, a \in Seq(S)
<1>6. Stack(t) = e /\ Stack(u) = f
  BY ONLY <1>3, <1>4, Zenon
<1> HIDE DEF e, f
<1>7. Stack(u) = Stack(t)
  BY ONLY <1>5, <1>6, Zenon
<1>8. QED
  BY <1>1, <1>7

LEMMA OpenSync ==
  ASSUME NEW H, NEW n, NEW S, NEW s, NEW t, Follows(H, n, S, s, t), ValueSync(s, t),
         error = "NO_ERROR", NEW inArray \in BOOLEAN, UNCHANGED printerVars,
         Open(KindOf(Level(inArray)), Bracket(inArray), EndBracket(Level(inArray)),
              IF inArray THEN "value" ELSE "key")
  PROVE  Sync(H, n, S)'
<1> DEFINE level == Level(inArray)
           o == Opened(level)
           p == Len(t.out) + 1
           first == IF inArray THEN "value" ELSE "key"
<1>1. StartMove(s, t, inArray)
  <2>1. Peek = Bracket(inArray)
    BY DEF Open
  <2>2. Peek \notin {110, 116, 102} \cup {45} \cup 48..57 \cup {QUOTE}
    BY <2>1 DEF Bracket, OPEN_BRACKET, OPEN_BRACE, QUOTE
  <2>3. PICK other \in BOOLEAN : Peek = Bracket(other) /\ StartMove(s, t, other)
    BY ONLY <2>2, Follows(H, n, S, s, t), ValueSync(s, t), FirstByte
  <2>4. other = inArray
    BY <2>1, <2>3 DEF Bracket, OPEN_BRACKET, OPEN_BRACE
  <2>5. QED
    BY <2>3, <2>4
<1>2. /\ Where(s) \in Nat /\ Len(t.out) = Where(s) + 1
      /\ Stack(t) = Append(Stack(s), o)
      /\ t.levels = Append(CountedIn(s.levels), level)
      /\ t.levels # << >> /\ Last(t.levels) = level /\ Front(t.levels) = CountedIn(s.levels)
  BY ONLY <1>1, Follows(H, n, S, s, t), inArray \in BOOLEAN, StartThere
<1>3. pos = Where(s) + 1 /\ Matched(frames, s.levels, 1) /\ values = Stack(s)
  BY DEF ValueSync
<1>4. pos + 1 = p /\ p \in Nat
  BY <1>2, <1>3
<1>5. level.valueCount = 0 /\ level.inArray = inArray
  BY DEF Level
<1>6. PrefixOf(t.levels) = << >>
  BY <1>2, <1>5 DEF PrefixOf
<1>7. Reaches(H, n, S, t)
  BY FollowsReaches
<1>8. PICK u : Follows(H, n, S, t, u)
  BY <1>2, <1>7, MoreFollows
<1>9. text' = text /\ error' = "NO_ERROR"
  BY DEF Open, MoveTo
<1>10. values' = Stack(t)
  <2>1. values' = Append(values, o)
    BY DEF Open, Push, Opened
  <2>2. QED
    BY ONLY <1>2, <1>3, <2>1, Zenon
<1>11. /\ text[Skip(text, p)] = EndBracket(level) =>
            at' = "after" /\ pos' = Skip(text, p) + 1 /\ frames' = frames
       /\ text[Skip(text, p)] # EndBracket(level) =>
            at' = first /\ pos' = Skip(text, p) /\ frames' = Append(frames, Frame(KindOf(level)))
  BY <1>4 DEF Open, MoveTo
<1> HIDE DEF level, o, first
<1>12. CASE EndMove(t, u)
  <2>1. /\ Stack(u) = Stack(t) /\ u.levels = Front(t.levels) /\ u.hasRoot
    <3>1. Last(t.levels).valueCount = 0
      BY <1>2, <1>5
    <3>2. QED
      BY ONLY <1>8, <1>12, <3>1, EmptyStays
  <2>2. /\ text[p] = EndBracket(Last(t.levels)) /\ Skip(text, p) = p
        /\ Len(u.out) = Len(t.out) + 1 /\ Len(t.out) \in Nat
    BY ONLY <1>8, <1>12, EndThere
  <2>3. EndBracket(Last(t.levels)) = EndBracket(level)
    BY <1>2
  <2>4. at' = "after" /\ pos' = p + 1 /\ frames' = frames
    <3> HIDE DEF p
    <3>1. QED
      BY ONLY <1>11, <2>2, <2>3
  <2>5. Matched(frames', u.levels, 0)
    <3>1. 0 \in Nat /\ Matched(frames, s.levels, 0 + 1)
      BY <1>3
    <3>2. Matched(frames, CountedIn(s.levels), 0)
      BY ONLY <3>1, MatchRead
    <3>3. u.levels = CountedIn(s.levels)
      BY <1>2, <2>1
    <3>4. QED
      BY ONLY <2>4, <3>2, <3>3
  <2>6. pos' = Len(u.out) + 1 /\ values' = Stack(u)
    BY <1>10, <2>1, <2>2, <2>4
  <2>7. AfterSync(u)'
    BY ONLY <2>1, <2>4, <2>5, <2>6 DEF AfterSync
  <2>8. Reaches(H, n, S, u)
    BY <1>8, FollowsReaches
  <2>9. QED
    BY ONLY <1>9, <2>7, <2>8, UNCHANGED printerVars, ToAfter
<1>13. CASE TakesA(t, u) \/ \E name \in Names : NameMove(t, u, name)
  <2>1. /\ text[Where(t) + 1] \in Beginnings /\ Skip(text, Where(t) + 1) = Where(t) + 1
        /\ Len(t.out) \in Nat
        /\ \/ PrefixOf(t.levels) = << >> /\ Where(t) = Len(t.out)
           \/ PrefixOf(t.levels) \in {<<COMMA>>, <<COLON>>}
    BY ONLY <1>8, <1>13, BeginsThere
  <2>2. <<COMMA>> # << >> /\ <<COLON>> # << >>
    OBVIOUS
  <2>3. Where(t) + 1 = p
    BY <1>6, <2>1, <2>2
  <2>4. text[p] \in Beginnings /\ Skip(text, p) = p
    BY <2>1, <2>3
  <2>5. text[p] # EndBracket(level)
    BY ONLY <2>4, BeginningsAre DEF EndBracket
  <2>6. at' = first /\ pos' = p /\ frames' = Append(frames, Frame(KindOf(level)))
    <3> HIDE DEF p
    <3>1. QED
      BY ONLY <1>11, <2>4, <2>5
  <2>7. Matched(frames', t.levels, IF inArray THEN 1 ELSE 2)
    <3>1. Matched(Append(frames, Frame(KindOf(level))), Append(CountedIn(s.levels), level),
                  IF inArray THEN 1 ELSE 2)
      BY ONLY <1>3, inArray \in BOOLEAN, MatchOpen DEF level
    <3>2. QED
      BY ONLY <1>2, <2>6, <3>1, Zenon
  <2>8. pos' = Where(t) + 1
    BY <2>3, <2>6
  <2>9. CASE inArray
    <3>1. TakesA(t, u)
      BY <1>2, <1>5, <1>13, <2>9 DEF NameMove, NameIn
    <3>2. at' = "value" /\ Matched(frames', t.levels, 1)
      BY <2>6, <2>7, <2>9 DEF first
    <3>3. QED
      BY ONLY <1>8, <1>9, <1>10, <2>8, <3>1, <3>2, UNCHANGED printerVars, ToValue
  <2>10. CASE ~inArray
    <3>1. ~TakesA(t, u)
      <4>1. ~ValueIn(t)
        <5>1. Last(t.levels).valueCount % 2 # 1
          BY <1>2, <1>5
        <5>2. QED
          BY <1>2, <1>5, <2>10, <5>1 DEF ValueIn
      <4>2. QED
        BY <4>1 DEF TakesA, ValueMove, StartMove
    <3>2. at' = "key" /\ Matched(frames', t.levels, 2)
      BY <2>6, <2>7, <2>10 DEF first
    <3>3. \E name \in Names : NameMove(t, u, name)
      BY <1>13, <3>1
    <3>4. QED
      BY ONLY <1>8, <1>9, <1>10, <2>8, <3>2, <3>3, UNCHANGED printerVars, ToKey
  <2>11. QED
    BY <2>9, <2>10
<1>14. QED
  <2>1. Moves(t, u)
    BY <1>8, FollowsIs DEF MovesIn
  <2>2. QED
    BY <1>12, <1>13, <2>1 DEF Moves, TakesA

LEMMA BeginNumberSync ==
  ASSUME NEW H, NEW n, NEW S, NEW s, NEW t, Follows(H, n, S, s, t), ValueSync(s, t),
         error = "NO_ERROR", BeginNumber, UNCHANGED printerVars
  PROVE  Sync(H, n, S)'
<1>1. Peek \notin {110, 116, 102} \cup {QUOTE} /\ \A inArray \in BOOLEAN : Peek # Bracket(inArray)
  BY InitialsAre DEF BeginNumber, Bracket
<1>2. PICK v \in Scalars : IsNumber(v) /\ ValueMove(s, t, v)
  BY <1>1, FirstByte
<1>3. pos = Where(s) + 1 /\ Matched(frames, s.levels, 1) /\ values = Stack(s)
  BY DEF ValueSync
<1>4. /\ at' = "number" /\ frames' = frames /\ values' = values /\ pos' = pos
      /\ text' = text /\ error' = error
      /\ phase' = "minus" /\ useDouble' = FALSE /\ minus' = FALSE /\ use64bit' = FALSE
  BY DEF BeginNumber, MoveTo, StartNumber
<1>5. NumberRead(v.number, Where(s) + 1, 0)'
  <2>1. Where(s) \in Nat
    BY <1>2, ValueThere
  <2>2. Length(v.number) \in Nat
    <3>1. Size(v.number) \in Nat
      BY <1>2, SpeltNumber
    <3>2. Decimal(Size(v.number)) \in Seq(48..57)
      BY <3>1, DecimalIs
    <3>3. QED
      BY <3>2 DEF Length
  <2>3. 0 \in 0..Length(v.number)
    BY <2>2
  <2>4. pos' = (Where(s) + 1) + 0 + 0
    BY <1>3, <1>4, <2>1
  <2>5. QED
    BY ONLY <1>4, <2>3, <2>4 DEF NumberRead
<1>6. NumberSync(s, t, v, 0)'
  BY <1>2, <1>3, <1>4, <1>5 DEF NumberSync
<1>7. ReadingSync(s, t)'
  BY <1>6 DEF ReadingSync
<1>8. error' = "NO_ERROR"
  BY <1>4
<1>9. QED
  BY ONLY <1>4, <1>7, <1>8, Follows(H, n, S, s, t), UNCHANGED printerVars, ToReading

LEMMA ValueStep ==
  ASSUME NEW H, NEW n, NEW S, NEW s, NEW t, Follows(H, n, S, s, t), ValueSync(s, t),
         error = "NO_ERROR", ParserNext, UNCHANGED printerVars
  PROVE  Sync(H, n, S)'
<1>1. at = "value"
  BY DEF ValueSync
<1>2. ParseLiteral \/ BeginString \/ OpenObject \/ OpenArray \/ BeginNumber
  BY <1>1 DEF ParserNext, MissingName, ReadNumber, EndNumber, StringChar, StringEscape,
              StringUnicode, StringFails, EndString, NextValue, Close, MissingComma, EndDocument
<1>3. CASE ParseLiteral
  BY <1>3, LiteralSync
<1>4. CASE BeginString
  BY <1>4, BeginStringSync
<1>5. CASE OpenObject
  <2>1. Open(KindOf(Level(FALSE)), Bracket(FALSE), EndBracket(Level(FALSE)),
             IF FALSE THEN "value" ELSE "key")
    BY <1>5 DEF OpenObject, KindOf, Level, Bracket, EndBracket
  <2>2. QED
    BY <2>1, OpenSync
<1>6. CASE OpenArray
  <2>1. Open(KindOf(Level(TRUE)), Bracket(TRUE), EndBracket(Level(TRUE)),
             IF TRUE THEN "value" ELSE "key")
    BY <1>6 DEF OpenArray, KindOf, Level, Bracket, EndBracket
  <2>2. QED
    BY <2>1, OpenSync
<1>7. CASE BeginNumber
  BY <1>7, BeginNumberSync
<1>8. QED
  BY <1>2, <1>3, <1>4, <1>5, <1>6, <1>7

\* What is known of a string that is being read.
LEMMA StringThere ==
  ASSUME NEW H, NEW n, NEW S, NEW s, NEW t, NEW x, NEW m, Follows(H, n, S, s, t),
         StringSync(s, t, x, m)
  PROVE  /\ x \in Seq(Byte) /\ Len(x) \in Nat /\ m \in 0..Len(x)
         /\ Reached(x, Len(x)) \in Nat
         /\ Where(s) \in Nat /\ Len(t.out) = Where(s) + Reached(x, Len(x)) + 2
         /\ Len(t.out) < Len(text) /\ Len(text) \in Nat
         /\ \A j \in 1..(Reached(x, Len(x)) + 2) : text[Where(s) + j] = Quoted(x)[j]
         /\ t.levels = CountedIn(s.levels) /\ t.hasRoot
         /\ Stack(t) = Append(Stack(s), JString(x))
<1> DEFINE w == Quoted(x)
<1>1. x \in Seq(Byte) /\ m \in 0..Len(x) /\ Len(x) \in Nat
  BY DEF StringSync
<1>2. JString(x).json = "string" /\ Spelt(JString(x)) = w
  BY DEF Spelt, JString
<1>3. Adds(s, t, w, JString(x)) /\ (s.levels = << >> => ~s.hasRoot)
  <2>1. CASE isKey
    BY <2>1 DEF StringSync, NameMove, NameIn
  <2>2. CASE ~isKey
    <3>1. ValueMove(s, t, JString(x))
      BY <2>2 DEF StringSync
    <3>2. QED
      BY <1>2, <3>1 DEF ValueMove, ValueIn
  <2>3. QED
    BY <2>1, <2>2
<1>4. JString(x) \in S
  <2>1. HasAll(S)
    BY FollowsIs
  <2>2. CASE isKey
    BY <2>1, <2>2 DEF StringSync, HasAll
  <2>3. CASE ~isKey
    BY <2>1, <2>3 DEF StringSync, HasAll
  <2>4. QED
    BY <2>2, <2>3
<1>5. w \in Seq(Byte) /\ Len(w) = Reached(x, Len(x)) + 2 /\ Reached(x, Len(x)) \in Nat
  BY ONLY <1>1, QuotedIs
<1> HIDE DEF w
<1>6. w # << >>
  BY <1>5
<1>7. /\ t.levels = CountedIn(s.levels) /\ t.hasRoot
      /\ Stack(t) = Append(Stack(s), JString(x))
      /\ Writes(s, t, PrefixOf(s.levels), w)
  BY ONLY <1>3, <1>4, <1>5, Follows(H, n, S, s, t), AddsWritten
<1>8. /\ Where(s) \in Nat /\ Len(t.out) = Where(s) + Len(w) /\ Len(t.out) < Len(text)
      /\ \A j \in 1..Len(w) : text[Where(s) + j] = w[j]
  BY ONLY <1>5, <1>6, <1>7, Follows(H, n, S, s, t), NextPrefix
<1>9. Len(text) \in Nat
  <2>1. Printed(H, n, S)
    BY DEF Follows
  <2>2. text \in Seq(Byte)
    BY ONLY <2>1, PrintedText
  <2>3. QED
    BY <2>2
<1>10. Len(t.out) = Where(s) + Reached(x, Len(x)) + 2
  BY <1>5, <1>8
<1>11. \A j \in 1..(Reached(x, Len(x)) + 2) : text[Where(s) + j] = w[j]
  BY <1>5, <1>8
<1>12. QED
  BY ONLY <1>1, <1>5, <1>7, <1>8, <1>9, <1>10, <1>11 DEF w

\* The next character, as it is written.
LEMMA CharacterThere ==
  ASSUME NEW H, NEW n, NEW S, NEW s, NEW t, NEW x, NEW m, Follows(H, n, S, s, t),
         StringSync(s, t, x, m), m # Len(x)
  PROVE  /\ x[m + 1] \in Byte /\ pos \in Nat \ {0} /\ Len(text) \in Nat
         /\ \A k \in 1..Len(Escape(x[m + 1])) :
              text[pos + k - 1] = Escape(x[m + 1])[k] /\ pos + k - 1 \in 1..Len(text)
         /\ pos + Len(Escape(x[m + 1])) = Where(s) + 2 + Reached(x, m + 1)
<1> DEFINE w == Escape(x[m + 1])
           r == Reached(x, Len(x))
<1>1. /\ x \in Seq(Byte) /\ Len(x) \in Nat /\ m \in 0..Len(x) /\ r \in Nat
      /\ Where(s) \in Nat /\ Len(t.out) = Where(s) + r + 2
      /\ Len(t.out) < Len(text) /\ Len(text) \in Nat
      /\ \A j \in 1..(r + 2) : text[Where(s) + j] = Quoted(x)[j]
  BY ONLY Follows(H, n, S, s, t), StringSync(s, t, x, m), StringThere
<1>2. m \in 0..(Len(x) - 1)
  BY <1>1
<1>3. /\ x[m + 1] \in Byte /\ Reached(x, m) \in Nat
      /\ Reached(x, m + 1) = Reached(x, m) + Len(w)
      /\ Reached(x, m + 1) <= r
      /\ \A k \in 1..Len(w) : Quoted(x)[1 + Reached(x, m) + k] = w[k]
  BY ONLY <1>1, <1>2, QuotedPart
<1>4. w \in Seq(Byte)
  BY ONLY <1>3, EscapeIs
<1>5. Len(w) \in Nat
  BY <1>4
<1>6. pos = Where(s) + 2 + Reached(x, m)
  BY DEF StringSync
<1> DEFINE a == Reached(x, m)
           b == Reached(x, m + 1)
           l == Len(w)
           o == Where(s)
           z == Len(text)
<1> HIDE DEF w, r
<1>sizes. /\ a \in Nat /\ b = a + l /\ b <= r /\ l \in Nat /\ o \in Nat /\ r \in Nat
      /\ o + r + 2 < z /\ z \in Nat /\ pos = o + 2 + a
  BY <1>1, <1>3, <1>5, <1>6
<1>7. ASSUME NEW k \in 1..Len(w)
      PROVE  text[pos + k - 1] = w[k] /\ pos + k - 1 \in 1..Len(text)
  <2> DEFINE j == 1 + Reached(x, m) + k
  <2>1. j \in 1..(r + 2) /\ pos + k - 1 = Where(s) + j /\ pos + k - 1 \in 1..Len(text)
    <3> HIDE DEF a, b, l, o, z
    <3>1. k \in 1..l
      BY DEF l
    <3>2. 1 + a + k \in 1..(r + 2) /\ pos + k - 1 = o + (1 + a + k) /\ pos + k - 1 \in 1..z
      BY ONLY <1>sizes, <3>1
    <3>3. QED
      BY <3>2 DEF a, o, z
  <2>2. Quoted(x)[j] = w[k]
    BY <1>3
  <2> HIDE DEF j
  <2>3. QED
    BY ONLY <1>1, <2>1, <2>2
<1>8. pos \in Nat \ {0} /\ pos + Len(w) = Where(s) + 2 + Reached(x, m + 1)
  <2> HIDE DEF a, b, l, o, z
  <2>1. pos \in Nat \ {0} /\ pos + l = o + 2 + b
    BY ONLY <1>sizes
  <2>2. QED
    BY <2>1 DEF b, l, o
<1>9. QED
  BY ONLY <1>1, <1>3, <1>7, <1>8 DEF w

\* It is read.
LEMMA CharacterRead ==
  ASSUME NEW H, NEW n, NEW S, NEW s, NEW t, NEW x, NEW m, Follows(H, n, S, s, t),
         StringSync(s, t, x, m), m # Len(x), error = "NO_ERROR",
         PutChars(<<x[m + 1]>>, Len(Escape(x[m + 1]))), UNCHANGED printerVars
  PROVE  Sync(H, n, S)'
<1> DEFINE c == x[m + 1]
           e == SubSeq(x, 1, m + 1)
           f == SubSeq(x, 1, m) \o <<c>>
<1>1. x \in Seq(Byte) /\ m \in 0..Len(x) /\ Len(x) \in Nat
  BY DEF StringSync
<1>2. m \in Nat /\ m + 1 \in 0..Len(x) /\ m + 1 \in 1..Len(x) /\ c \in Byte
  <2>1. m + 1 \in 1..Len(x) /\ m \in Nat /\ m + 1 \in 0..Len(x)
    BY <1>1
  <2>2. QED
    BY <1>1, <2>1
<1>3. e = f
  BY <1>1, <1>2
<1>4. pos + Len(Escape(c)) = Where(s) + 2 + Reached(x, m + 1)
  BY ONLY Follows(H, n, S, s, t), StringSync(s, t, x, m), m # Len(x), CharacterThere
<1>5. chars = SubSeq(x, 1, m)
  BY DEF StringSync
<1>6. chars' = f
  BY <1>5 DEF PutChars
<1>7. /\ at' = "string" /\ pos' = pos + Len(Escape(c)) /\ text' = text /\ error' = error
      /\ frames' = frames /\ values' = values /\ isKey' = isKey
  BY DEF PutChars, MoveTo
<1> HIDE DEF c, e, f
<1>8. chars' = e
  BY <1>3, <1>6
<1>9. pos' = Where(s) + 2 + Reached(x, m + 1)
  BY <1>4, <1>7
<1>10. StringSync(s, t, x, m + 1)'
  BY ONLY <1>1, <1>2, <1>7, <1>8, <1>9, StringSync(s, t, x, m) DEF StringSync, e
<1>11. ReadingSync(s, t)'
  BY <1>10 DEF ReadingSync
<1>12. error' = "NO_ERROR" /\ text' = text
  BY <1>7
<1>13. QED
  BY ONLY <1>11, <1>12, Follows(H, n, S, s, t), UNCHANGED printerVars, ToReading

-----------------------------------------------------------------------------
\* A letter stands for one character.
LEMMA LetterIs ==
  ASSUME NEW e \in Letters
  PROVE  /\ e.letter \notin {QUOTE, BACKSLASH, SLASH, LOWER_U}
         /\ (CHOOSE l \in Letters : l.letter = e.letter).code = e.code
<1>1. \A l \in Letters : l.letter = e.letter => l = e
  BY DEF Letters
<1>2. (CHOOSE l \in Letters : l.letter = e.letter) = e
  BY <1>1
<1>3. QED
  BY <1>2 DEF Letters, QUOTE, BACKSLASH, SLASH, LOWER_U

LEMMA HexIs ==
  ASSUME NEW k \in 0..15
  PROVE  HexValue(HexDigit(k)) = k
<1>1. CASE k < 10
  <2>1. HexDigit(k) = 48 + k /\ 48 + k \in 48..57
    BY <1>1 DEF HexDigit
  <2>2. (48 + k) - 48 = k
    OBVIOUS
  <2>3. QED
    BY <2>1, <2>2 DEF HexValue
<1>2. CASE ~(k < 10)
  <2>1. HexDigit(k) = 55 + k /\ 55 + k \in 65..70 /\ 55 + k \notin 48..57
    BY <1>2 DEF HexDigit
  <2>2. (55 + k) - 55 = k
    OBVIOUS
  <2>3. QED
    BY <2>1, <2>2 DEF HexValue
<1>3. QED
  BY <1>1, <1>2

\* Four hexadecimal digits of a control character.
LEMMA HexRead ==
  ASSUME NEW p \in Nat, NEW c \in 0..31,
         \A k \in 0..3 : p + k \in DOMAIN text,
         text[p] = 48, text[p + 1] = 48, text[p + 2] = HexDigit(c \div 16),
         text[p + 3] = HexDigit(c % 16)
  PROVE  Hex4(p) = c
<1> DEFINE h(k) == HexValue(text[p + k])
<1>1. c \div 16 \in 0..15 /\ c % 16 \in 0..15 /\ c = 16 * (c \div 16) + (c % 16)
  OBVIOUS
<1>2. HexValue(48) = 0
  BY DEF HexValue
<1>3. p + 0 = p
  OBVIOUS
<1>4. h(0) = 0 /\ h(1) = 0 /\ h(2) = c \div 16 /\ h(3) = c % 16
  BY <1>1, <1>2, <1>3, HexIs
<1>5. \A k \in 0..3 : k = 0 \/ k = 1 \/ k = 2 \/ k = 3
  OBVIOUS
<1>6. \A k \in 0..3 : ~(h(k) < 0)
  <2> HIDE DEF h
  <2>1. QED
    BY <1>1, <1>4, <1>5
<1>7. Hex4(p) = 4096 * h(0) + 256 * h(1) + 16 * h(2) + h(3)
  BY <1>6 DEF Hex4
<1> HIDE DEF h
<1>8. QED
  BY ONLY <1>1, <1>4, <1>7

\* What the reader makes of a control character.
LEMMA ControlRead ==
  ASSUME NEW c \in Byte, c < 32, pos \in Nat \ {0}, text \in Seq(Byte),
         NEW w, w = <<BACKSLASH, LOWER_U, 48, 48, HexDigit(c \div 16), HexDigit(c % 16)>>,
         \A k \in 1..Len(w) : text[pos + k - 1] = w[k] /\ pos + k - 1 \in 1..Len(text),
         StringUnicode
  PROVE  PutChars(<<c>>, 6)
<1>1. /\ Len(w) = 6 /\ w[3] = 48 /\ w[4] = 48
      /\ w[5] = HexDigit(c \div 16) /\ w[6] = HexDigit(c % 16)
  OBVIOUS
<1> DEFINE p == pos + 2
<1>2. /\ p \in Nat /\ pos + 3 - 1 = p /\ pos + 4 - 1 = p + 1 /\ pos + 5 - 1 = p + 2
      /\ pos + 6 - 1 = p + 3 /\ p + 0 = p
  OBVIOUS
<1>3. /\ text[p] = 48 /\ text[p + 1] = 48 /\ text[p + 2] = HexDigit(c \div 16)
      /\ text[p + 3] = HexDigit(c % 16)
      /\ p \in 1..Len(text) /\ p + 1 \in 1..Len(text) /\ p + 2 \in 1..Len(text)
      /\ p + 3 \in 1..Len(text)
  <2>1. 3 \in 1..Len(w) /\ 4 \in 1..Len(w) /\ 5 \in 1..Len(w) /\ 6 \in 1..Len(w)
    BY <1>1
  <2> HIDE DEF p
  <2>2. QED
    BY ONLY <1>1, <1>2, <2>1,
            \A k \in 1..Len(w) : text[pos + k - 1] = w[k] /\ pos + k - 1 \in 1..Len(text)
<1>4. DOMAIN text = 1..Len(text)
  OBVIOUS
<1>5. Hex4(p) = c
  <2>1. \A k \in 0..3 : p + k \in DOMAIN text
    <3>1. \A k \in 0..3 : k = 0 \/ k = 1 \/ k = 2 \/ k = 3
      OBVIOUS
    <3> HIDE DEF p
    <3>2. QED
      BY ONLY <1>2, <1>3, <1>4, <3>1
  <2>2. c \in 0..31
    BY DEF Byte
  <2> HIDE DEF p
  <2>3. QED
    BY ONLY <1>2, <1>3, <2>1, <2>2, HexRead
<1>6. c # -1 /\ ~IsHighSurrogate(c) /\ Encode(c) = <<c>>
  <2>1. c \in Int /\ c >= 0 /\ c < 128
    BY ONLY c \in Byte, c < 32 DEF Byte
  <2>2. c # -1 /\ ~IsHighSurrogate(c)
    BY ONLY <2>1 DEF IsHighSurrogate
  <2>3. Encode(c) = <<c>>
    BY ONLY <2>1 DEF Encode
  <2>4. QED
    BY <2>2, <2>3
<1>7. QED
  BY <1>5, <1>6 DEF StringUnicode

LEMMA CharacterStep ==
  ASSUME NEW H, NEW n, NEW S, NEW s, NEW t, NEW x, NEW m, Follows(H, n, S, s, t),
         StringSync(s, t, x, m), m # Len(x), error = "NO_ERROR", UNCHANGED printerVars,
         StringChar \/ StringEscape \/ StringUnicode \/ StringFails \/ EndString
  PROVE  Sync(H, n, S)'
<1> DEFINE c == x[m + 1]
           w == Escape(c)
<1>1. /\ c \in Byte /\ pos \in Nat \ {0} /\ Len(text) \in Nat
      /\ \A k \in 1..Len(w) : text[pos + k - 1] = w[k] /\ pos + k - 1 \in 1..Len(text)
  BY ONLY Follows(H, n, S, s, t), StringSync(s, t, x, m), m # Len(x), CharacterThere
<1> HIDE DEF c
<1>9. text \in Seq(Byte)
  <2>1. Printed(H, n, S)
    BY DEF Follows
  <2>2. QED
    BY ONLY <2>1, PrintedText
<1>2. pos + 1 - 1 = pos /\ pos + 2 - 1 = pos + 1
  BY <1>1
<1>3. SUFFICES PutChars(<<c>>, Len(w))
  BY CharacterRead DEF c
<1>4. CASE c \in {QUOTE, BACKSLASH}
  <2>1. w = <<BACKSLASH, c>>
    BY <1>4 DEF Escape
  <2>2. Len(w) = 2 /\ w[1] = BACKSLASH /\ w[2] = c
    BY <2>1
  <2> HIDE DEF w
  <2>3. Peek = BACKSLASH /\ text[pos + 1] = c
    <3>1. 1 \in 1..Len(w) /\ 2 \in 1..Len(w)
      BY <2>2
    <3>2. QED
      BY ONLY <1>1, <1>2, <2>2, <3>1 DEF Peek
  <2>4. StringEscape
    BY <1>4, <2>3 DEF StringChar, StringUnicode, StringFails, EndString, BACKSLASH, QUOTE, LOWER_U
  <2>5. QED
    BY <1>4, <2>2, <2>3, <2>4 DEF StringEscape
<1>5. CASE \E e \in Letters : e.code = c /\ w = <<BACKSLASH, e.letter>>
  <2>1. PICK e \in Letters : e.code = c /\ w = <<BACKSLASH, e.letter>>
    BY <1>5
  <2>2. Len(w) = 2 /\ w[1] = BACKSLASH /\ w[2] = e.letter
    BY <2>1
  <2>3. /\ e.letter \notin {QUOTE, BACKSLASH, SLASH, LOWER_U}
        /\ (CHOOSE l \in Letters : l.letter = e.letter).code = c
    BY <2>1, LetterIs
  <2> HIDE DEF w
  <2>4. Peek = BACKSLASH /\ text[pos + 1] = e.letter
    <3>1. 1 \in 1..Len(w) /\ 2 \in 1..Len(w)
      BY <2>2
    <3>2. QED
      BY ONLY <1>1, <1>2, <2>2, <3>1 DEF Peek
  <2>5. StringEscape
    BY <2>3, <2>4 DEF StringChar, StringUnicode, StringFails, EndString, BACKSLASH, QUOTE
  <2>6. \E l \in Letters : l.letter = e.letter
    OBVIOUS
  <2>7. PutChars(<<(CHOOSE l \in Letters : l.letter = e.letter).code>>, 2)
    BY ONLY <2>3, <2>4, <2>5, <2>6, Zenon DEF StringEscape
  <2>8. QED
    BY ONLY <2>2, <2>3, <2>7
<1>6. CASE /\ c < 32
           /\ w = <<BACKSLASH, LOWER_U, 48, 48, HexDigit(c \div 16), HexDigit(c % 16)>>
  <2>1. Len(w) = 6 /\ w[1] = BACKSLASH /\ w[2] = LOWER_U
    BY <1>6
  <2> HIDE DEF w
  <2>2. Peek = BACKSLASH /\ text[pos + 1] = LOWER_U
    <3>1. 1 \in 1..Len(w) /\ 2 \in 1..Len(w)
      BY <2>1
    <3>2. QED
      BY ONLY <1>1, <1>2, <2>1, <3>1 DEF Peek
  <2>3. StringUnicode
    BY <2>2 DEF StringChar, StringEscape, StringFails, EndString, BACKSLASH, QUOTE
  <2>4. PutChars(<<c>>, 6)
    BY ONLY <1>1, <1>6, <1>9, <2>3, ControlRead
  <2>5. QED
    BY ONLY <2>1, <2>4
<1>7. CASE c >= 32 /\ c \notin {QUOTE, BACKSLASH} /\ w = <<c>>
  <2>1. Len(w) = 1 /\ w[1] = c
    BY <1>7
  <2> HIDE DEF w
  <2>2. Peek = c
    <3>1. 1 \in 1..Len(w)
      BY <2>1
    <3>2. QED
      BY ONLY <1>1, <1>2, <2>1, <3>1 DEF Peek
  <2>3. StringChar
    BY <1>1, <1>7, <2>2 DEF StringEscape, StringUnicode, StringFails, EndString, Byte
  <2>4. QED
    BY ONLY <2>1, <2>2, <2>3 DEF StringChar
<1>8. QED
  <2>1. \/ c \in {QUOTE, BACKSLASH} /\ w = <<BACKSLASH, c>>
        \/ \E e \in Letters : e.code = c /\ w = <<BACKSLASH, e.letter>>
        \/ /\ c < 32
           /\ w = <<BACKSLASH, LOWER_U, 48, 48, HexDigit(c \div 16), HexDigit(c % 16)>>
        \/ c >= 32 /\ c \notin {QUOTE, BACKSLASH} /\ w = <<c>>
    BY ONLY <1>1, EscapeIs
  <2>2. QED
    BY ONLY <1>4, <1>5, <1>6, <1>7, <2>1

-----------------------------------------------------------------------------
\* The innermost level has one more.
LEMMA CountedLast ==
  ASSUME NEW ls \in Seq(LevelSet), ls # << >>
  PROVE  /\ CountedIn(ls) # << >>
         /\ Last(CountedIn(ls)).inArray = Last(ls).inArray /\ Last(ls).inArray \in BOOLEAN
         /\ Last(CountedIn(ls)).valueCount = Last(ls).valueCount + 1
         /\ Last(ls).valueCount \in Nat
<1> DEFINE level == Last(ls)
           a == Front(ls)
           o == OneCounted(level)
           e == Append(a, o)
<1>1. level \in LevelSet /\ a \in Seq(LevelSet)
  BY ONLY ls \in Seq(LevelSet), ls # << >>, FrontLast
<1>2. /\ o \in LevelSet
      /\ o.valueCount = level.valueCount + 1
      /\ o.inArray = level.inArray
  BY ONLY <1>1, OneCountedIs
<1>3. CountedIn(ls) = e
  BY DEF CountedIn
<1> HIDE DEF a, o
<1>4. e # << >> /\ Last(e) = o
  BY ONLY <1>1, <1>2, AppendIs
<1> HIDE DEF e
<1>5. CountedIn(ls) # << >> /\ Last(CountedIn(ls)) = o
  BY ONLY <1>3, <1>4, Zenon
<1>6. level.inArray \in BOOLEAN /\ level.valueCount \in Nat
  BY <1>1 DEF LevelSet
<1>7. QED
  BY <1>2, <1>5, <1>6

\* After a name there is a colon, and a value.
LEMMA ColonThere ==
  ASSUME NEW H, NEW n, NEW S, NEW s, NEW t, NEW name, Follows(H, n, S, s, t),
         NameMove(s, t, name)
  PROVE  LET p == Len(t.out) + 1
         IN  /\ p \in Nat
             /\ Skip(text, p) = p /\ text[p] = COLON /\ Skip(text, p + 1) = p + 1
             /\ \E u : Follows(H, n, S, t, u) /\ TakesA(t, u) /\ Where(t) = p
<1> DEFINE level == Last(s.levels)
           top == Last(t.levels)
<1>1. s.levels # << >> /\ ~level.inArray /\ level.valueCount % 2 = 0
      /\ t.levels = CountedIn(s.levels)
  BY DEF NameMove, NameIn, Adds
<1>2. s.levels \in Seq(LevelSet)
  BY FollowsIs DEF Sound
<1>3. /\ t.levels # << >> /\ top.inArray = FALSE
      /\ top.valueCount = level.valueCount + 1 /\ level.valueCount \in Nat
  <2>1. /\ CountedIn(s.levels) # << >>
        /\ Last(CountedIn(s.levels)).inArray = level.inArray /\ level.inArray \in BOOLEAN
        /\ Last(CountedIn(s.levels)).valueCount = level.valueCount + 1
        /\ level.valueCount \in Nat
    BY ONLY <1>1, <1>2, CountedLast
  <2>2. QED
    BY ONLY <1>1, <2>1
<1>4. top.valueCount # 0 /\ top.valueCount % 2 = 1
  <2> DEFINE k == level.valueCount
  <2>1. k \in Nat /\ k % 2 = 0
    BY <1>1, <1>3
  <2> HIDE DEF k
  <2>2. k + 1 # 0 /\ (k + 1) % 2 = 1
    BY ONLY <2>1
  <2>3. QED
    BY <1>3, <2>2 DEF k
<1> HIDE DEF top, level
<1>5. PrefixOf(t.levels) = <<COLON>>
  <2>1. top.valueCount % 2 # 0
    BY <1>4
  <2>2. QED
    BY ONLY <1>3, <1>4, <2>1, Zenon DEF PrefixOf, top
<1>6. Reaches(H, n, S, t)
  BY FollowsReaches
<1>7. PICK u : Follows(H, n, S, t, u)
  BY <1>3, <1>6, MoreFollows
<1>8. Moves(t, u)
  BY <1>7, FollowsIs DEF MovesIn
<1>9. ~EndMove(t, u) /\ \A other \in Names : ~NameMove(t, u, other)
  <2>1. ~(top.inArray \/ top.valueCount % 2 = 0)
    BY <1>3, <1>4
  <2>2. QED
    BY ONLY <2>1, <1>3 DEF EndMove, NameMove, NameIn, top
<1>10. TakesA(t, u)
  BY <1>8, <1>9 DEF Moves, TakesA
<1>11. /\ Skip(text, Where(t) + 1) = Where(t) + 1
       /\ Where(t) \in Nat /\ Len(t.out) \in Nat
       /\ \/ PrefixOf(t.levels) = << >>
          \/ /\ Where(t) = Len(t.out) + 1
             /\ text[Len(t.out) + 1] = PrefixOf(t.levels)[1]
             /\ Skip(text, Len(t.out) + 1) = Len(t.out) + 1
  BY ONLY <1>7, <1>10, BeginsThere
<1>12. <<COLON>> # << >> /\ <<COLON>>[1] = COLON
  OBVIOUS
<1>13. /\ Where(t) = Len(t.out) + 1 /\ text[Len(t.out) + 1] = COLON
       /\ Skip(text, Len(t.out) + 1) = Len(t.out) + 1
  BY ONLY <1>5, <1>11, <1>12
<1>14. Len(t.out) + 1 \in Nat /\ Skip(text, (Len(t.out) + 1) + 1) = (Len(t.out) + 1) + 1
  BY ONLY <1>11, <1>13
<1>15. QED
  BY ONLY <1>7, <1>10, <1>13, <1>14

LEMMA EndStringSync ==
  ASSUME NEW H, NEW n, NEW S, NEW s, NEW t, NEW x, NEW m, Follows(H, n, S, s, t),
         StringSync(s, t, x, m), m = Len(x), error = "NO_ERROR", UNCHANGED printerVars,
         StringChar \/ StringEscape \/ StringUnicode \/ StringFails \/ EndString
  PROVE  Sync(H, n, S)'
<1> DEFINE r == Reached(x, Len(x))
           p == Len(t.out) + 1
<1>1. /\ x \in Seq(Byte) /\ Len(x) \in Nat /\ r \in Nat
      /\ Where(s) \in Nat /\ Len(t.out) = Where(s) + r + 2
      /\ \A j \in 1..(r + 2) : text[Where(s) + j] = Quoted(x)[j]
      /\ t.levels = CountedIn(s.levels) /\ t.hasRoot
      /\ Stack(t) = Append(Stack(s), JString(x))
  BY ONLY Follows(H, n, S, s, t), StringSync(s, t, x, m), StringThere
<1>2. /\ pos = Where(s) + 2 + r /\ chars = SubSeq(x, 1, Len(x)) /\ isKey \in BOOLEAN
      /\ Matched(frames, s.levels, IF isKey THEN 2 ELSE 1) /\ values = Stack(s)
      /\ IF isKey THEN x \in Names /\ NameMove(s, t, x)
         ELSE JString(x) \in Scalars /\ ValueMove(s, t, JString(x))
  BY DEF StringSync
<1>3. Quoted(x)[r + 2] = QUOTE
  BY ONLY <1>1, QuotedIs
<1> HIDE DEF r
<1>4. r + 2 \in 1..(r + 2) /\ pos = Where(s) + (r + 2) /\ pos + 1 = p
  BY ONLY <1>1, <1>2
<1>5. Peek = QUOTE
  BY <1>1, <1>3, <1>4 DEF Peek
<1>6. EndString
  BY <1>5 DEF StringChar, StringEscape, StringUnicode, StringFails, QUOTE, BACKSLASH
<1>7. chars = x
  BY <1>1, <1>2
<1>8. CASE ~isKey
  <2>1. /\ values' = Append(values, JString(x)) /\ at' = "after" /\ pos' = pos + 1
        /\ frames' = frames /\ text' = text /\ error' = error
    BY ONLY <1>6, <1>7, <1>8 DEF EndString, Push, MoveTo
  <2>2. JString(x) \in Scalars /\ ValueMove(s, t, JString(x)) /\ Matched(frames, s.levels, 1)
    BY <1>2, <1>8
  <2>3. pos' = Len(t.out) + 1 /\ error' = "NO_ERROR"
    BY <1>4, <2>1
  <2>4. QED
    BY ONLY <1>2, <2>1, <2>2, <2>3, Follows(H, n, S, s, t), UNCHANGED printerVars, ValueRead
<1>9. CASE isKey
  <2>1. NameMove(s, t, x) /\ Matched(frames, s.levels, 1 + 1)
    BY <1>2, <1>9
  <2>2. /\ p \in Nat
        /\ Skip(text, p) = p /\ text[p] = COLON /\ Skip(text, p + 1) = p + 1
        /\ \E u : Follows(H, n, S, t, u) /\ TakesA(t, u) /\ Where(t) = p
    BY ONLY <2>1, Follows(H, n, S, s, t), ColonThere
  <2>3. PICK u : Follows(H, n, S, t, u) /\ TakesA(t, u) /\ Where(t) = p
    BY <2>2
  <2> HIDE DEF p
  <2>4. /\ values' = Append(values, JString(x)) /\ at' = "value" /\ pos' = p + 1
        /\ frames' = frames /\ text' = text /\ error' = error
    BY ONLY <1>4, <1>6, <1>7, <1>9, <2>2 DEF EndString, Push, MoveTo
  <2>5. values' = Stack(t)
    BY ONLY <1>1, <1>2, <2>4, Zenon
  <2>6. Matched(frames', t.levels, 1)
    <3>1. 1 \in Nat
      OBVIOUS
    <3>2. Matched(frames, CountedIn(s.levels), 1)
      BY ONLY <2>1, <3>1, MatchRead
    <3>3. QED
      BY ONLY <1>1, <2>4, <3>2, Zenon
  <2>7. pos' = Where(t) + 1 /\ error' = "NO_ERROR"
    BY <2>3, <2>4
  <2>8. QED
    BY ONLY <2>3, <2>4, <2>5, <2>6, <2>7, UNCHANGED printerVars, ToValue
<1>10. QED
  BY <1>2, <1>8, <1>9

LEMMA StringReads ==
  ASSUME NEW H, NEW n, NEW S, NEW s, NEW t, NEW x, NEW m, Follows(H, n, S, s, t),
         StringSync(s, t, x, m), error = "NO_ERROR", ParserNext, UNCHANGED printerVars
  PROVE  Sync(H, n, S)'
<1>1. at = "string"
  BY DEF StringSync
<1>2. StringChar \/ StringEscape \/ StringUnicode \/ StringFails \/ EndString
  BY <1>1 DEF ParserNext, ParseLiteral, BeginString, MissingName, OpenObject, OpenArray, Open,
              BeginNumber, ReadNumber, EndNumber, NextValue, Close, MissingComma, EndDocument
<1>3. QED
  BY <1>2, CharacterStep, EndStringSync

-----------------------------------------------------------------------------
(***************************************************************************)
(* A number is read.                                                       *)
(***************************************************************************)
Separators == {COMMA, COLON, CLOSE_BRACKET, CLOSE_BRACE, NUL}

\* What comes after a value.
LEMMA SeparatorAfter ==
  ASSUME NEW H, NEW n, NEW S, NEW s, NEW t, NEW v \in Scalars, Follows(H, n, S, s, t),
         ValueMove(s, t, v)
  PROVE  text[Len(t.out) + 1] \in Separators
<1>1. t.levels = CountedIn(s.levels) /\ t.hasRoot
  BY ONLY v \in Scalars, Follows(H, n, S, s, t), ValueMove(s, t, v), ValueThere
<1>2. Reaches(H, n, S, t)
  BY FollowsReaches
<1>3. CASE t.levels = << >>
  <2>1. t.out = out
    BY ONLY <1>1, <1>2, <1>3, NothingFollows
  <2>2. text[Len(out) + 1] = NUL
    BY ONLY <1>2, ReachesIs
  <2>3. QED
    BY <2>1, <2>2 DEF Separators
<1>4. CASE t.levels # << >>
  <2>1. s.levels \in Seq(LevelSet)
    BY FollowsIs DEF Sound
  <2>2. s.levels # << >>
    BY <1>1, <1>4 DEF CountedIn
  <2>3. /\ Last(t.levels).valueCount = Last(s.levels).valueCount + 1
        /\ Last(s.levels).valueCount \in Nat
    BY ONLY <1>1, <2>1, <2>2, CountedLast
  <2>4. Last(t.levels).valueCount # 0
    BY <2>3
  <2>5. PrefixOf(t.levels) = <<COMMA>> \/ PrefixOf(t.levels) = <<COLON>>
    BY ONLY <1>4, <2>4, Zenon DEF PrefixOf
  <2>6. PICK u : Follows(H, n, S, t, u)
    BY <1>2, <1>4, MoreFollows
  <2>7. CASE EndMove(t, u)
    <3>1. text[Len(t.out) + 1] = EndBracket(Last(t.levels))
      BY ONLY <2>6, <2>7, EndThere
    <3>2. QED
      BY ONLY <3>1 DEF EndBracket, Separators
  <2>8. CASE TakesA(t, u) \/ \E name \in Names : NameMove(t, u, name)
    <3>1. \/ PrefixOf(t.levels) = << >>
          \/ text[Len(t.out) + 1] = PrefixOf(t.levels)[1]
      BY ONLY <2>6, <2>8, BeginsThere
    <3>2. /\ <<COLON>> # << >> /\ <<COLON>>[1] = COLON
          /\ <<COMMA>> # << >> /\ <<COMMA>>[1] = COMMA
      OBVIOUS
    <3>3. text[Len(t.out) + 1] = COLON \/ text[Len(t.out) + 1] = COMMA
      BY ONLY <2>5, <3>1, <3>2
    <3>4. QED
      BY <3>3 DEF Separators
  <2>9. QED
    <3>1. Moves(t, u)
      BY <2>6, FollowsIs DEF MovesIn
    <3>2. QED
      BY <2>7, <2>8, <3>1 DEF Moves, TakesA
<1>5. QED
  BY <1>3, <1>4

\* The integer n is in the text, from start on.
InText(n, start) ==
  /\ n \in -Int64..(Int64 - 1) /\ start \in Nat
  /\ IsLength(Size(n), Length(n))
  /\ n < 0 => text[start] = MINUS
  /\ \A j \in 1..Length(n) :
       text[start + Len(Signs(n)) + j - 1] = 48 + (Taken(n, j) % 10)
  /\ text[start + Len(Signs(n)) + Length(n)] \in Separators

LEMMA NumberThere ==
  ASSUME NEW H, NEW n, NEW S, NEW s, NEW t, NEW v \in Scalars, IsNumber(v),
         Follows(H, n, S, s, t), ValueMove(s, t, v)
  PROVE  /\ InText(v.number, Where(s) + 1)
         /\ Len(t.out) + 1 = Where(s) + 1 + Len(Signs(v.number)) + Length(v.number)
<1> DEFINE number == v.number
           a == Signs(number)
           b == Decimal(Size(number))
           w == Spelt(v)
           o == Where(s)
           g == Len(a)
           l == Len(b)
<1>1. Size(number) \in Nat /\ w = a \o b
  BY ONLY IsNumber(v), SpeltNumber
<1>2. /\ o \in Nat /\ Len(t.out) = o + Len(w) /\ \A j \in 1..Len(w) : text[o + j] = w[j]
  BY ONLY v \in Scalars, Follows(H, n, S, s, t), ValueMove(s, t, v), ValueThere
<1>3. PICK k : /\ IsLength(Size(number), k) /\ b \in Seq(48..57) /\ l = k
               /\ \A j \in 1..k : b[j] = 48 + (Leading(Size(number), k, j) % 10)
  BY ONLY <1>1, DecimalIs
<1>4. l = Length(number) /\ l \in Nat
  BY <1>3 DEF Length
<1>5. a \in Seq(Byte) /\ g \in Nat /\ (number < 0 => g = 1 /\ a[1] = 45)
  <2>1. 45 \in Byte
    BY DEF Byte
  <2>2. CASE number < 0
    BY <2>1, <2>2 DEF Signs
  <2>3. CASE ~(number < 0)
    BY <2>3 DEF Signs
  <2>4. QED
    BY <2>2, <2>3
<1>6. b \in Seq(Byte)
  <2>1. 48..57 \subseteq Byte
    BY DEF Byte
  <2>2. QED
    BY ONLY <1>3, <2>1, SeqMonotonic
<1> HIDE DEF a, b, w, o
<1> DEFINE e == a \o b
<1>7. /\ Len(e) = g + l /\ (\A j \in 1..g : e[j] = a[j]) /\ \A j \in 1..l : e[g + j] = b[j]
  BY ONLY <1>5, <1>6, ConcatIs
<1>8. w = e
  BY <1>1
<1> HIDE DEF e
<1>9. /\ Len(w) = g + l /\ (\A j \in 1..g : w[j] = a[j]) /\ \A j \in 1..l : w[g + j] = b[j]
  BY ONLY <1>7, <1>8, Zenon
<1> HIDE DEF g, l
<1>10. number < 0 => text[o + 1] = MINUS
  <2>1. SUFFICES ASSUME number < 0 PROVE text[o + 1] = MINUS
    OBVIOUS
  <2>2. g = 1 /\ a[1] = 45
    BY <1>5, <2>1
  <2>3. 1 \in 1..g /\ 1 \in 1..Len(w)
    BY ONLY <1>4, <1>9, <2>2
  <2>4. QED
    BY ONLY <1>2, <1>9, <2>2, <2>3 DEF MINUS
<1>11. ASSUME NEW j \in 1..l
       PROVE  text[(o + 1) + g + j - 1] = 48 + (Taken(number, j) % 10)
  <2>1. (o + 1) + g + j - 1 = o + (g + j) /\ g + j \in 1..Len(w)
    BY ONLY <1>2, <1>4, <1>5, <1>9, j \in 1..l
  <2>2. text[o + (g + j)] = b[j]
    BY ONLY <1>2, <1>9, <2>1, j \in 1..l
  <2>3. b[j] = 48 + (Leading(Size(number), l, j) % 10)
    BY <1>3
  <2>4. Taken(number, j) = Leading(Size(number), l, j)
    BY <1>4 DEF Taken
  <2>5. QED
    BY <2>1, <2>2, <2>3, <2>4
<1>12. Len(t.out) + 1 = (o + 1) + g + l
  BY ONLY <1>2, <1>4, <1>5, <1>9
<1>13. text[(o + 1) + g + l] \in Separators
  BY <1>12, SeparatorAfter
<1>14. number \in -Int64..(Int64 - 1)
  BY DEF IsNumber
<1>15. o + 1 \in Nat
  BY <1>2
<1>16. /\ IsLength(Size(number), Length(number)) /\ l = Length(number) /\ g = Len(Signs(number))
       /\ o = Where(s)
  BY <1>3, <1>4 DEF g, a, o
<1> HIDE DEF number
<1>17. InText(number, o + 1) /\ Len(t.out) + 1 = Where(s) + 1 + Len(Signs(number)) + Length(number)
  BY ONLY <1>10, <1>11, <1>12, <1>13, <1>14, <1>15, <1>16 DEF InText
<1>18. QED
  BY <1>16, <1>17 DEF number

LEMMA InTextIs ==
  ASSUME NEW n, NEW start, InText(n, start)
  PROVE  /\ n \in Int /\ start \in Nat
         /\ Size(n) \in Nat /\ Size(n) = (IF n < 0 THEN -n ELSE n)
         /\ Len(Signs(n)) = (IF n < 0 THEN 1 ELSE 0)
         /\ Length(n) \in Nat \ {0}
         /\ Taken(n, 0) = 0 /\ Taken(n, Length(n)) = Size(n)
         /\ Size(n) <= Int64 /\ (n >= 0 => Size(n) <= Int64 - 1)
<1>1. n \in -Int64..(Int64 - 1) /\ start \in Nat /\ IsLength(Size(n), Length(n))
  BY DEF InText
<1>2. /\ n \in Int /\ Size(n) \in Nat /\ Size(n) = (IF n < 0 THEN -n ELSE n)
      /\ Size(n) <= Int64 /\ (n >= 0 => Size(n) <= Int64 - 1)
  BY <1>1, Widths DEF Size
<1>3. Len(Signs(n)) = (IF n < 0 THEN 1 ELSE 0)
  BY DEF Signs
<1>4. Length(n) \in Nat \ {0}
  BY <1>1, <1>2 DEF IsLength
<1>5. Taken(n, 0) = 0 /\ Taken(n, Length(n)) = Size(n)
  BY <1>1, <1>2, LeadingIs DEF Taken
<1>6. QED
  BY <1>1, <1>2, <1>3, <1>4, <1>5

\* The next digit, where it is.
LEMMA DigitThere ==
  ASSUME NEW n, NEW start, InText(n, start), NEW q \in Nat, q < Length(n),
         pos = start + Len(Signs(n)) + q
  PROVE  /\ IsDigit(Peek) /\ Digit \in 0..9
         /\ Taken(n, q) \in Nat /\ Taken(n, q + 1) \in Nat /\ Taken(n, q + 1) <= Size(n)
         /\ Taken(n, q + 1) = 10 * Taken(n, q) + Digit
         /\ q = 0 /\ Digit = 0 => Size(n) = 0 /\ Length(n) = 1
<1> DEFINE k == q + 1
           l == Length(n)
           g == Len(Signs(n))
<1>1. start \in Nat /\ g \in Nat /\ l \in Nat /\ Size(n) \in Nat
  BY InTextIs
<1>2. k \in 1..l /\ k - 1 = q
  BY <1>1
<1>3. /\ Taken(n, k) \in Nat /\ Taken(n, k) <= Size(n) /\ Taken(n, q) \in Nat
      /\ Taken(n, k) % 10 \in 0..9
      /\ Taken(n, k) = 10 * Taken(n, q) + (Taken(n, k) % 10)
      /\ Taken(n, 1) % 10 = 0 => Size(n) = 0 /\ l = 1
  <2>1. IsLength(Size(n), l)
    BY DEF InText
  <2> HIDE DEF k, l
  <2>2. /\ Leading(Size(n), l, k) \in Nat /\ Leading(Size(n), l, k) <= Size(n)
        /\ Leading(Size(n), l, k - 1) \in Nat
        /\ Leading(Size(n), l, k) % 10 \in 0..9
        /\ Leading(Size(n), l, k) = 10 * Leading(Size(n), l, k - 1) + (Leading(Size(n), l, k) % 10)
        /\ Leading(Size(n), l, 1) % 10 = 0 => Size(n) = 0 /\ l = 1
    BY ONLY <1>1, <1>2, <2>1, LeadingIs
  <2>3. QED
    BY <1>2, <2>2 DEF Taken, l
<1>4. Peek = 48 + (Taken(n, k) % 10)
  <2>1. pos = start + g + k - 1
    BY <1>1
  <2>2. text[start + g + k - 1] = 48 + (Taken(n, k) % 10)
    BY <1>2 DEF InText
  <2>3. QED
    BY <2>1, <2>2 DEF Peek
<1> DEFINE c == Taken(n, k) % 10
<1>5. c \in 0..9 /\ Peek = 48 + c
  BY <1>3, <1>4
<1>6. IsDigit(Peek) /\ Digit = c
  <2> HIDE DEF c
  <2>1. QED
    BY ONLY <1>5 DEF IsDigit, Digit
<1>7. q = 0 => k = 1
  OBVIOUS
<1>8. QED
  BY <1>3, <1>6, <1>7

\* What follows the last one is none, and nothing of a number.
LEMMA NoDigitThere ==
  ASSUME NEW n, NEW start, InText(n, start), pos = start + Len(Signs(n)) + Length(n)
  PROVE  ~IsDigit(Peek) /\ Peek # POINT /\ ~IsE(Peek)
<1>1. Peek \in Separators
  BY DEF InText, Peek
<1>2. QED
  BY ONLY <1>1 DEF Separators, COMMA, COLON, CLOSE_BRACKET, CLOSE_BRACE, NUL, POINT, IsDigit, IsE

\* What a step of the reader keeps.
Steady == text' = text /\ error' = error

LEMMA MinusRead ==
  ASSUME NEW n, NEW start, InText(n, start), NEW q, NumberRead(n, start, q), phase = "minus",
         ParseMinus
  PROVE  Steady /\ NumberRead(n, start, 0)'
<1> DEFINE g == Len(Signs(n))
           l == Length(n)
<1>1. /\ n \in Int /\ start \in Nat /\ l \in Nat \ {0} /\ g = (IF n < 0 THEN 1 ELSE 0)
  BY InTextIs
<1>2. q = 0 /\ pos = start + 0 + q /\ use64bit = FALSE /\ ~useDouble
  BY DEF NumberRead
<1>3. pos = start
  BY <1>1, <1>2
<1>4. Peek = MINUS <=> n < 0
  <2>1. CASE n < 0
    BY <1>3, <2>1 DEF InText, Peek
  <2>2. CASE ~(n < 0)
    <3>1. 0 \in Nat /\ 0 < Length(n) /\ pos = start + Len(Signs(n)) + 0
      BY <1>1, <1>3, <2>2
    <3>2. IsDigit(Peek)
      BY ONLY <3>1, InText(n, start), DigitThere
    <3>3. QED
      BY <2>2, <3>2 DEF IsDigit, MINUS
  <2>3. QED
    BY <2>1, <2>2
<1>5. /\ phase' = "first" /\ minus' = (n < 0) /\ pos' = (IF n < 0 THEN pos + 1 ELSE pos)
      /\ use64bit' = use64bit /\ useDouble' = useDouble /\ Steady
  BY <1>4 DEF ParseMinus, Take, Go, intVars, doubleVars, Steady
<1>6. pos' = start + g + 0
  BY ONLY <1>1, <1>3, <1>5
<1>7. 0 \in 0..l
  BY ONLY <1>1
<1>8. NumberRead(n, start, 0)'
  BY ONLY <1>2, <1>5, <1>6, <1>7 DEF NumberRead
<1>9. QED
  BY <1>5, <1>8

LEMMA FirstRead ==
  ASSUME NEW n, NEW start, InText(n, start), NEW q, NumberRead(n, start, q), phase = "first",
         FirstDigit
  PROVE  Steady /\ NumberRead(n, start, 1)'
<1> DEFINE g == Len(Signs(n))
           l == Length(n)
<1>1. /\ n \in Int /\ start \in Nat /\ l \in Nat \ {0} /\ g \in Nat /\ Size(n) \in Nat
      /\ Taken(n, 0) = 0
  BY InTextIs
<1>2. q = 0 /\ pos = start + g + q /\ use64bit = FALSE /\ ~useDouble /\ minus = (n < 0)
  BY DEF NumberRead
<1>3. 0 \in Nat /\ 0 < l /\ pos = start + g + 0 /\ 0 + 1 = 1
  BY <1>1, <1>2
<1>4. /\ IsDigit(Peek) /\ Digit \in 0..9
      /\ Taken(n, 0 + 1) = 10 * Taken(n, 0) + Digit
      /\ 0 = 0 /\ Digit = 0 => Size(n) = 0 /\ l = 1
  BY ONLY <1>3, InText(n, start), DigitThere
<1>5. Taken(n, 1) = Digit
  BY ONLY <1>1, <1>3, <1>4
<1>6. /\ phase' = (IF Digit = 0 THEN "point" ELSE "int") /\ pos' = pos + 1 /\ i' = Digit
      /\ minus' = minus /\ use64bit' = use64bit /\ useDouble' = useDouble /\ Steady
  BY <1>4 DEF FirstDigit, Take, signVars, doubleVars, Steady
<1>7. pos' = start + g + 1
  BY <1>1, <1>3, <1>6
<1>8. 1 \in 0..l
  BY <1>1
<1>9. Limit(Int32)' = Limit(Int32) /\ Digit <= Limit(Int32)
  <2>1. minus \in BOOLEAN
    BY <1>2
  <2>2. Limit(Int32) >= 9
    BY <2>1, Widths DEF Limit
  <2>3. QED
    BY <1>4, <1>6, <2>2, Limits, <2>1 DEF Limit
<1>10. CASE Digit = 0
  <2>1. l = 1 /\ Size(n) = 0 /\ phase' = "point"
    BY <1>4, <1>6, <1>10
  <2>2. Integer' = 0
    BY <1>2, <1>6, <1>10 DEF Integer
  <2>3. Size(n) <= Limit(Int32)'
    BY <1>9, <1>10, <2>1
  <2>4. /\ phase' = "point" /\ 1 = l /\ use64bit' \in BOOLEAN /\ Integer' = Size(n)
        /\ ~use64bit' => Size(n) <= Limit(Int32)'
    BY <1>2, <1>6, <2>1, <2>2, <2>3
  <2>5. ~useDouble' /\ minus' = (phase' # "minus" /\ n < 0)
        /\ pos' = start + (IF phase' = "minus" THEN 0 ELSE g) + 1
    BY <1>2, <1>6, <1>7, <2>1
  <2>6. NumberRead(n, start, 1)'
    BY ONLY <1>8, <2>4, <2>5 DEF NumberRead
  <2>7. QED
    BY <1>6, <2>6
<1>11. CASE Digit # 0
  <2>1. phase' = "int" /\ i' = Taken(n, 1) /\ i' <= Limit(Int32)'
    BY <1>5, <1>6, <1>9, <1>11
  <2>2. NumberRead(n, start, 1)'
    BY ONLY <1>2, <1>6, <1>7, <1>8, <2>1 DEF NumberRead
  <2>3. QED
    BY <1>6, <2>2
<1>12. QED
  BY <1>10, <1>11

\* All digits are read.
LEMMA LastRead ==
  ASSUME NEW n, NEW start, InText(n, start), NEW q, NumberRead(n, start, q),
         phase \in {"int", "int64"}, ~IsDigit(Peek), Steady, phase' = "point", pos' = pos,
         minus' = minus, i' = i, i64' = i64, use64bit' = use64bit, useDouble' = useDouble
  PROVE  NumberRead(n, start, q)'
<1> DEFINE g == Len(Signs(n))
           l == Length(n)
<1>1. /\ n \in Int /\ start \in Nat /\ l \in Nat \ {0} /\ g \in Nat /\ Size(n) \in Nat
      /\ Taken(n, l) = Size(n)
  BY InTextIs
<1>2. /\ q \in 0..l /\ pos = start + g + q /\ ~useDouble /\ minus = (n < 0)
      /\ \/ /\ phase = "int" /\ q # 0 /\ use64bit = FALSE
            /\ i = Taken(n, q) /\ i <= Limit(Int32)
         \/ phase = "int64" /\ q # 0 /\ use64bit = TRUE /\ i64 = Taken(n, q)
  BY DEF NumberRead
<1>3. q = l
  <2>1. SUFFICES ASSUME q # l PROVE FALSE
    OBVIOUS
  <2>2. q \in Nat /\ q < l
    BY <1>1, <1>2, <2>1
  <2>3. IsDigit(Peek)
    BY ONLY <1>2, <2>2, InText(n, start), DigitThere
  <2>4. QED
    BY <2>3
<1>4. Integer = Size(n) /\ use64bit \in BOOLEAN
  BY <1>1, <1>2, <1>3 DEF Integer
<1>5. Integer' = Size(n) /\ use64bit' \in BOOLEAN
  BY <1>4 DEF Integer
<1>6. ~use64bit' => Size(n) <= Limit(Int32)'
  <2>1. Limit(Int32)' = Limit(Int32)
    BY DEF Limit
  <2>2. QED
    BY <1>1, <1>2, <1>3, <2>1
<1>7. QED
  BY ONLY <1>2, <1>3, <1>5, <1>6, phase' = "point", pos' = pos, minus' = minus,
          useDouble' = useDouble DEF NumberRead

LEMMA IntRead ==
  ASSUME NEW n, NEW start, InText(n, start), NEW q, NumberRead(n, start, q), phase = "int",
         IntDigit
  PROVE  Steady /\ \E r : NumberRead(n, start, r)'
<1> DEFINE g == Len(Signs(n))
           l == Length(n)
           limit == Limit(Int32)
<1>1. /\ n \in Int /\ start \in Nat /\ l \in Nat \ {0} /\ g \in Nat /\ Size(n) \in Nat
  BY InTextIs
<1>2. /\ q \in 0..l /\ pos = start + g + q /\ ~useDouble /\ minus = (n < 0)
      /\ q # 0 /\ use64bit = FALSE
      /\ i = Taken(n, q) /\ i <= limit
  BY DEF NumberRead
<1>3. limit \in Nat /\ limit < 2 * Int32 /\ Int32 \in Nat
  BY <1>2, Limits, Widths
<1>4. minus' = minus /\ useDouble' = useDouble
  BY DEF IntDigit, signVars
<1>5. CASE ~IsDigit(Peek)
  <2>1. /\ phase' = "point" /\ pos' = pos /\ i' = i /\ i64' = i64 /\ use64bit' = use64bit
        /\ Steady
    BY <1>5 DEF IntDigit, Go, Steady
  <2>2. NumberRead(n, start, q)'
    BY ONLY <1>4, <1>5, <2>1, InText(n, start), NumberRead(n, start, q), phase = "int", LastRead
  <2>3. QED
    BY <2>1, <2>2
<1>6. CASE IsDigit(Peek)
  <2>1. q # l
    BY <1>2, <1>6, NoDigitThere
  <2>2. q \in Nat /\ q < l /\ q + 1 \in 0..l /\ q + 1 # 0
    BY <1>1, <1>2, <2>1
  <2>3. /\ Digit \in 0..9
        /\ Taken(n, q) \in Nat /\ Taken(n, q + 1) \in Nat /\ Taken(n, q + 1) <= Size(n)
        /\ Taken(n, q + 1) = 10 * Taken(n, q) + Digit
    BY ONLY <1>2, <2>2, InText(n, start), DigitThere
  <2>4. i \in Nat
    BY <1>2, <2>3
  <2>5. TooLarge(i, limit) <=> 10 * i + Digit > limit
    BY ONLY <1>3, <2>3, <2>4, OneMoreDigit
  <2>6. CASE TooLarge(i, limit)
    <3>1. /\ i64' = i /\ use64bit' = TRUE /\ phase' = "int64" /\ pos' = pos /\ Steady
      BY <1>6, <2>6 DEF IntDigit, Go, Steady
    <3>2. NumberRead(n, start, q)'
      BY ONLY <1>2, <1>4, <3>1 DEF NumberRead
    <3>3. QED
      BY <3>1, <3>2
  <2>7. CASE ~TooLarge(i, limit)
    <3>1. /\ i' = (10 * i + Digit) % (2 * Int32) /\ phase' = "int" /\ pos' = pos + 1
          /\ use64bit' = use64bit /\ Steady
      BY <1>6, <2>7 DEF IntDigit, Take, Steady
    <3> DEFINE m == 10 * i + Digit
    <3>2. m \in Nat /\ m <= limit /\ 2 * Int32 \in Nat /\ m < 2 * Int32
      BY ONLY <1>3, <2>3, <2>4, <2>5, <2>7
    <3>3. m = Taken(n, q + 1)
      BY <1>2, <2>3
    <3> HIDE DEF m
    <3>4. m % (2 * Int32) = m
      BY ONLY <3>2, NoWrap
    <3>5. i' = Taken(n, q + 1) /\ i' <= limit
      BY <3>1, <3>2, <3>3, <3>4 DEF m
    <3>6. limit' = limit
      BY <1>4 DEF Limit
    <3>7. i' <= limit'
      BY <3>5, <3>6
    <3>8. pos' = start + g + (q + 1)
      BY <1>1, <1>2, <2>2, <3>1
    <3>9. NumberRead(n, start, q + 1)'
      BY ONLY <1>2, <1>4, <2>2, <3>1, <3>5, <3>7, <3>8 DEF NumberRead
    <3>10. QED
      BY <3>1, <3>9
  <2>8. QED
    BY <2>6, <2>7
<1>7. QED
  BY <1>5, <1>6

LEMMA Int64Read ==
  ASSUME NEW n, NEW start, InText(n, start), NEW q, NumberRead(n, start, q), phase = "int64",
         Int64Digit
  PROVE  Steady /\ \E r : NumberRead(n, start, r)'
<1> DEFINE g == Len(Signs(n))
           l == Length(n)
           limit == Limit(Int64)
<1>1. /\ n \in Int /\ start \in Nat /\ l \in Nat \ {0} /\ g \in Nat /\ Size(n) \in Nat
      /\ Size(n) <= Int64 /\ (n >= 0 => Size(n) <= Int64 - 1)
  BY InTextIs
<1>2. /\ q \in 0..l /\ pos = start + g + q /\ ~useDouble /\ minus = (n < 0)
      /\ q # 0 /\ use64bit = TRUE /\ i64 = Taken(n, q)
  BY DEF NumberRead
<1>3. limit \in Nat /\ limit < 2 * Int64 /\ Int64 \in Nat
  BY <1>2, Limits, Widths
<1>4. Size(n) <= limit
  BY <1>1, <1>2, Widths DEF Limit
<1>5. minus' = minus /\ use64bit' = use64bit /\ i' = i
  BY DEF Int64Digit, signVars
<1>6. CASE ~IsDigit(Peek)
  <2>1. /\ phase' = "point" /\ pos' = pos /\ i64' = i64 /\ useDouble' = useDouble /\ Steady
    BY <1>6 DEF Int64Digit, Go, Steady
  <2>2. NumberRead(n, start, q)'
    BY ONLY <1>5, <1>6, <2>1, InText(n, start), NumberRead(n, start, q), phase = "int64", LastRead
  <2>3. QED
    BY <2>1, <2>2
<1>7. CASE IsDigit(Peek)
  <2>1. q # l
    BY <1>2, <1>7, NoDigitThere
  <2>2. q \in Nat /\ q < l /\ q + 1 \in 0..l /\ q + 1 # 0
    BY <1>1, <1>2, <2>1
  <2>3. /\ Digit \in 0..9
        /\ Taken(n, q) \in Nat /\ Taken(n, q + 1) \in Nat /\ Taken(n, q + 1) <= Size(n)
        /\ Taken(n, q + 1) = 10 * Taken(n, q) + Digit
    BY ONLY <1>2, <2>2, InText(n, start), DigitThere
  <2>4. i64 \in Nat
    BY <1>2, <2>3
  <2>5. TooLarge(i64, limit) <=> 10 * i64 + Digit > limit
    BY ONLY <1>3, <2>3, <2>4, OneMoreDigit
  <2> DEFINE m == 10 * i64 + Digit
  <2>6. m = Taken(n, q + 1)
    BY <1>2, <2>3
  <2>7. m \in Nat /\ m <= limit /\ 2 * Int64 \in Nat /\ m < 2 * Int64
    <3> HIDE DEF m, limit
    <3>1. QED
      BY ONLY <1>1, <1>3, <1>4, <2>3, <2>6
  <2>8. ~TooLarge(i64, limit)
    BY ONLY <1>3, <2>5, <2>7
  <2>9. /\ i64' = m % (2 * Int64) /\ phase' = "int64" /\ pos' = pos + 1
        /\ useDouble' = useDouble /\ Steady
    BY <1>7, <2>8 DEF Int64Digit, Take, Steady
  <2> HIDE DEF m
  <2>10. m % (2 * Int64) = m
    BY ONLY <2>7, NoWrap
  <2>11. i64' = Taken(n, q + 1)
    BY <2>6, <2>9, <2>10
  <2>12. pos' = start + g + (q + 1)
    BY <1>1, <1>2, <2>2, <2>9
  <2>13. NumberRead(n, start, q + 1)'
    BY ONLY <1>2, <1>5, <2>2, <2>9, <2>11, <2>12 DEF NumberRead
  <2>14. QED
    BY <2>9, <2>13
<1>8. QED
  BY <1>6, <1>7

\* There is neither a point nor an e.
LEMMA RestRead ==
  ASSUME NEW n, NEW start, InText(n, start), NEW q, NumberRead(n, start, q),
         phase \in {"point", "e"}, ParsePoint \/ ParseE
  PROVE  Steady /\ NumberRead(n, start, q)'
<1>1. /\ q \in 0..Length(n) /\ pos = start + Len(Signs(n)) + q /\ ~useDouble /\ minus = (n < 0)
      /\ q = Length(n) /\ use64bit \in BOOLEAN /\ Integer = Size(n)
      /\ ~use64bit => Size(n) <= Limit(Int32)
  BY DEF NumberRead
<1>2. Peek # POINT /\ ~IsE(Peek)
  BY <1>1, NoDigitThere
<1>3. /\ phase' \in {"e", "done"} /\ pos' = pos /\ Steady /\ minus' = minus
      /\ i' = i /\ i64' = i64 /\ use64bit' = use64bit /\ useDouble' = useDouble
  BY <1>2 DEF ParsePoint, ParseE, Go, Steady, signVars, intVars, doubleVars
<1>4. Integer' = Size(n) /\ Limit(Int32)' = Limit(Int32)
  BY <1>1, <1>3 DEF Integer, Limit
<1>5. NumberRead(n, start, q)'
  BY ONLY <1>1, <1>3, <1>4 DEF NumberRead
<1>6. QED
  BY <1>3, <1>5

LEMMA NumberGoes ==
  ASSUME NEW H, NEW n, NEW S, NEW s, NEW t, NEW v, NEW q, Follows(H, n, S, s, t),
         NumberSync(s, t, v, q), error = "NO_ERROR", ReadNumber, UNCHANGED printerVars
  PROVE  Sync(H, n, S)'
<1> DEFINE number == v.number
           start == Where(s) + 1
<1>1. /\ at = "number" /\ Matched(frames, s.levels, 1) /\ values = Stack(s)
      /\ v \in Scalars /\ IsNumber(v) /\ ValueMove(s, t, v)
      /\ NumberRead(number, start, q)
  BY DEF NumberSync
<1>2. at' = at /\ frames' = frames /\ values' = values
  BY DEF ReadNumber, parserVars
<1> HIDE DEF number, start
<1>3. InText(number, start)
  BY <1>1, NumberThere DEF number, start
<1>4. Steady /\ \E r : NumberRead(number, start, r)'
  <2>1. phase \in {"minus", "first", "int", "int64", "point", "e", "done"}
    BY <1>1 DEF NumberRead
  <2>2. \/ phase = "minus" /\ ParseMinus
        \/ phase = "first" /\ FirstDigit
        \/ phase = "int" /\ IntDigit
        \/ phase = "int64" /\ Int64Digit
        \/ phase \in {"point", "e"} /\ (ParsePoint \/ ParseE)
    BY <2>1 DEF ReadNumber, NumberNext, ParseMinus, FirstDigit, IntDigit, Int64Digit, DoubleDigit,
                ParsePoint, FractionStarts, FastDigit, FractionDigit, ParseE, ExponentSign,
                ExponentStarts, ExponentDigit, ExponentRest
  <2>3. CASE phase = "minus" /\ ParseMinus
    BY ONLY <1>1, <1>3, <2>3, MinusRead
  <2>4. CASE phase = "first" /\ FirstDigit
    BY ONLY <1>1, <1>3, <2>4, FirstRead
  <2>5. CASE phase = "int" /\ IntDigit
    BY ONLY <1>1, <1>3, <2>5, IntRead
  <2>6. CASE phase = "int64" /\ Int64Digit
    BY ONLY <1>1, <1>3, <2>6, Int64Read
  <2>7. CASE phase \in {"point", "e"} /\ (ParsePoint \/ ParseE)
    BY ONLY <1>1, <1>3, <2>7, RestRead
  <2>8. QED
    BY <2>2, <2>3, <2>4, <2>5, <2>6, <2>7
<1>5. PICK r : NumberRead(number, start, r)'
  BY <1>4
<1>6. NumberSync(s, t, v, r)'
  <2>1. NumberRead(v.number, Where(s) + 1, r)'
    BY <1>5 DEF number, start
  <2>2. QED
    BY ONLY <1>1, <1>2, <2>1 DEF NumberSync
<1>7. ReadingSync(s, t)'
  BY <1>6 DEF ReadingSync
<1>8. text' = text /\ error' = "NO_ERROR"
  BY <1>4 DEF Steady
<1>9. QED
  BY ONLY <1>7, <1>8, Follows(H, n, S, s, t), UNCHANGED printerVars, ToReading

\* The integer that is read is the one that was written.
LEMMA EndNumberSync ==
  ASSUME NEW H, NEW n, NEW S, NEW s, NEW t, NEW v, NEW q, Follows(H, n, S, s, t),
         NumberSync(s, t, v, q), error = "NO_ERROR", EndNumber, UNCHANGED printerVars
  PROVE  Sync(H, n, S)'
<1> DEFINE number == v.number
           start == Where(s) + 1
<1>1. /\ at = "number" /\ Matched(frames, s.levels, 1) /\ values = Stack(s)
      /\ v \in Scalars /\ IsNumber(v) /\ ValueMove(s, t, v)
      /\ NumberRead(number, start, q)
  BY DEF NumberSync
<1>2. /\ InText(number, start)
      /\ Len(t.out) + 1 = start + Len(Signs(number)) + Length(number)
  BY ONLY <1>1, Follows(H, n, S, s, t), NumberThere
<1> HIDE DEF number, start
<1>3. phase = "done"
  BY <1>1 DEF EndNumber, NumberRead
<1>4. /\ q = Length(number) /\ use64bit \in BOOLEAN /\ Integer = Size(number)
      /\ ~use64bit => Size(number) <= Limit(Int32)
      /\ ~useDouble /\ minus = (number < 0) /\ pos = start + Len(Signs(number)) + q
  BY <1>1, <1>3 DEF NumberRead
<1>5. /\ number \in Int /\ Size(number) \in Nat
      /\ Size(number) = (IF number < 0 THEN -number ELSE number)
      /\ Size(number) <= Int64
  BY <1>2, InTextIs
<1>6. ParsedInteger = number
  <2>1. CASE ~(number < 0)
    BY <1>4, <1>5, <2>1 DEF ParsedInteger
  <2>2. CASE number < 0
    <3> DEFINE width == IF use64bit THEN Int64 ELSE Int32
    <3>1. Limit(Int32) = Int32
      BY <1>4, <2>2 DEF Limit
    <3>2. width \in Nat \ {0} /\ Size(number) <= width
      BY <1>4, <1>5, <3>1, Widths
    <3>3. ParsedInteger = Negated(Size(number), width)
      BY <1>4, <2>2 DEF ParsedInteger
    <3> HIDE DEF width
    <3>4. Negated(Size(number), width) = -Size(number)
      BY ONLY <1>5, <3>2, NegatedExact
    <3>5. QED
      BY <1>5, <2>2, <3>3, <3>4
  <2>3. QED
    BY <2>1, <2>2
<1>7. JNumber(ParsedInteger) = v
  BY <1>1, <1>6 DEF IsNumber, number
<1>8. /\ values' = Append(values, v) /\ at' = "after" /\ pos' = pos
      /\ frames' = frames /\ text' = text /\ error' = "NO_ERROR"
  <2>1. values' = Append(values, JNumber(ParsedInteger)) /\ MoveTo(pos, "after")
        /\ frames' = frames
    BY ONLY <1>3, <1>4, EndNumber DEF EndNumber, Push
  <2>2. values' = Append(values, v)
    BY ONLY <1>7, <2>1, Zenon
  <2>3. QED
    BY <2>1, <2>2 DEF MoveTo
<1>9. pos' = Len(t.out) + 1
  BY <1>2, <1>4, <1>8
<1>10. QED
  BY ONLY <1>1, <1>8, <1>9, Follows(H, n, S, s, t), UNCHANGED printerVars, ValueRead

LEMMA NumberReads ==
  ASSUME NEW H, NEW n, NEW S, NEW s, NEW t, NEW v, NEW q, Follows(H, n, S, s, t),
         NumberSync(s, t, v, q), error = "NO_ERROR", ParserNext, UNCHANGED printerVars
  PROVE  Sync(H, n, S)'
<1>1. at = "number"
  BY DEF NumberSync
<1>2. ReadNumber \/ EndNumber
  BY <1>1 DEF ParserNext, ParseLiteral, BeginString, MissingName, OpenObject, OpenArray, Open,
              BeginNumber, StringChar, StringEscape, StringUnicode, StringFails, EndString,
              NextValue, Close, MissingComma, EndDocument
<1>3. QED
  BY <1>2, NumberGoes, EndNumberSync

LEMMA SyncGoesOn ==
  ASSUME NEW H, NEW n, NEW S, Sync(H, n, S), ParserNext, UNCHANGED printerVars
  PROVE  Sync(H, n, S)'
<1>1. error = "NO_ERROR"
  BY DEF Sync
<1>2. ASSUME NEW s, Reaches(H, n, S, s), AfterSync(s) PROVE Sync(H, n, S)'
  BY <1>1, <1>2, AfterStep
<1>3. ASSUME NEW s, NEW t, Follows(H, n, S, s, t), ReadingSync(s, t) PROVE Sync(H, n, S)'
  <2>1. CASE ValueSync(s, t)
    BY <1>1, <1>3, <2>1, ValueStep
  <2>2. CASE KeySync(s, t)
    BY <1>1, <1>3, <2>2, KeyStep
  <2>3. ASSUME NEW x, NEW m, StringSync(s, t, x, m) PROVE Sync(H, n, S)'
    BY <1>1, <1>3, <2>3, StringReads
  <2>4. ASSUME NEW v, NEW q, NumberSync(s, t, v, q) PROVE Sync(H, n, S)'
    BY <1>1, <1>3, <2>4, NumberReads
  <2>5. QED
    BY <1>3, <2>1, <2>2, <2>3, <2>4 DEF ReadingSync
<1>4. at # "done"
  BY DEF ParserNext, ParseLiteral, BeginString, MissingName, OpenObject, OpenArray, Open,
         BeginNumber, ReadNumber, EndNumber, StringChar, StringEscape, StringUnicode,
         StringFails, EndString, NextValue, Close, MissingComma, EndDocument
<1>5. QED
  BY <1>2, <1>3, <1>4 DEF Sync

LEMMA SyncStays ==
  ASSUME NEW H, NEW n, NEW S, Sync(H, n, S), UNCHANGED documentVars
  PROVE  Sync(H, n, S)'
<1>1. /\ UNCHANGED printerVars /\ UNCHANGED parserVars /\ UNCHANGED numberVars
      /\ text' = text /\ pos' = pos /\ error' = error
  BY DEF documentVars, vars
<1>2. error' = "NO_ERROR"
  BY <1>1 DEF Sync
<1>3. ASSUME NEW s, Reaches(H, n, S, s), AfterSync(s) PROVE Sync(H, n, S)'
  <2>1. AfterSync(s)'
    BY <1>1, <1>3 DEF AfterSync, parserVars
  <2>2. QED
    BY <1>1, <1>2, <1>3, <2>1, ToAfter
<1>4. ASSUME NEW s, NEW t, Follows(H, n, S, s, t), ReadingSync(s, t) PROVE Sync(H, n, S)'
  <2>1. ValueSync(s, t) => ValueSync(s, t)'
    BY <1>1 DEF ValueSync, parserVars
  <2>2. KeySync(s, t) => KeySync(s, t)'
    BY <1>1 DEF KeySync, parserVars
  <2>3. ASSUME NEW x, NEW m, StringSync(s, t, x, m) PROVE StringSync(s, t, x, m)'
    BY <1>1, <2>3 DEF StringSync, parserVars
  <2>4. ASSUME NEW v, NEW q, NumberSync(s, t, v, q) PROVE NumberSync(s, t, v, q)'
    <3>1. NumberRead(v.number, Where(s) + 1, q)
      BY <2>4 DEF NumberSync
    <3>2. /\ phase' = phase /\ useDouble' = useDouble /\ minus' = minus /\ use64bit' = use64bit
          /\ i' = i /\ i64' = i64
      BY <1>1 DEF numberVars
    <3>3. Integer' = Integer /\ Limit(Int32)' = Limit(Int32)
      BY <3>2 DEF Integer, Limit
    <3>4. NumberRead(v.number, Where(s) + 1, q)'
      BY ONLY <1>1, <3>1, <3>2, <3>3 DEF NumberRead
    <3>5. QED
      BY <1>1, <2>4, <3>4 DEF NumberSync, parserVars
  <2>5. ReadingSync(s, t)'
    BY <1>4, <2>1, <2>2, <2>3, <2>4 DEF ReadingSync
  <2>6. QED
    BY <1>1, <1>2, <1>4, <2>5, ToReading
<1>5. at = "done" /\ root = written[1][1] => at' = "done" /\ root' = written'[1][1]
  BY <1>1 DEF parserVars, printerVars
<1>6. QED
  BY <1>2, <1>3, <1>4, <1>5 DEF Sync

-----------------------------------------------------------------------------
\* What is parsed begins with the first value.
LEMMA FirstMove ==
  ASSUME NEW H, NEW n, NEW S, History(H, n, S), H[n].hasRoot
  PROVE  /\ 1 \in 1..(n - 1) /\ TakesA(Blank, H[1 + 1])
         /\ H[n].out \in Seq(Byte) /\ Len(H[n].out) \in Nat \ {0}
         /\ H[n].out[1] \in Beginnings
<1> DEFINE s == Blank
           t == H[1 + 1]
<1>1. /\ n \in Nat \ {0} /\ HasAll(S) /\ H[1] = Blank
      /\ \A k \in 1..n : Sound(H[k], S) /\ Begins(H[k].out, H[n].out)
      /\ \A k \in 1..(n - 1) : MovesIn(H[k], H[k + 1], S)
  BY DEF History
<1>2. s.out = << >> /\ s.levels = << >> /\ s.hasRoot = FALSE
  BY DEF Blank, State
<1>3. n # 1
  BY <1>1, <1>2
<1>4. 1 \in 1..(n - 1) /\ 1 + 1 \in 1..n /\ n \in 1..n
  BY <1>1, <1>3
<1>5. Sound(t, S) /\ Begins(t.out, H[n].out) /\ Moves(s, t) /\ Sound(H[n], S)
  BY <1>1, <1>4 DEF MovesIn
<1> HIDE DEF s, t
<1>6. TakesA(s, t)
  BY <1>2, <1>5 DEF Moves, TakesA, EndMove, NameMove, NameIn
<1>7. PICK x \in Seq(Byte) :
        x # << >> /\ Writes(s, t, PrefixOf(s.levels), x) /\ x[1] \in Beginnings
  BY ONLY <1>6, ValueBegins
<1>8. PrefixOf(s.levels) = << >>
  BY <1>2 DEF PrefixOf
<1> DEFINE e == << >> \o << >> \o x
<1>9. Len(e) = Len(x) /\ e[1] = x[1] /\ Len(x) \in Nat \ {0}
  BY <1>7
<1>10. t.out = e
  BY <1>2, <1>7, <1>8 DEF Writes
<1> HIDE DEF e
<1>11. Len(t.out) \in Nat \ {0} /\ t.out[1] \in Beginnings
  BY ONLY <1>7, <1>9, <1>10
<1>12. H[n].out \in Seq(Byte)
  BY <1>5 DEF Sound
<1>13. Len(H[n].out) \in Nat \ {0} /\ H[n].out[1] = t.out[1]
  <2>1. Len(H[n].out) \in Nat
    BY <1>12
  <2>2. Len(t.out) <= Len(H[n].out) /\ 1 \in 1..Len(t.out)
    BY <1>5, <1>11 DEF Begins
  <2>3. H[n].out[1] = t.out[1]
    BY <1>5, <2>2 DEF Begins
  <2>4. QED
    BY ONLY <1>11, <2>1, <2>2, <2>3
<1>14. QED
  BY <1>4, <1>6, <1>11, <1>12, <1>13 DEF s, t

\* At first the stack is empty.
LEMMA BlankStack == Stacked(<< >>, <<<< >>>>) = << >>
<1> DEFINE S == {Placeholder("array"), Placeholder("object")}
           lists == <<<< >>>>
           p == Pieces(<< >>, lists)
<1>1. IsContent(S)
  BY DEF IsContent
<1>2. lists \in Seq(Seq(S)) /\ Len(lists) = 1 /\ lists[1] = << >>
  <2>1. << >> \in Seq(S)
    OBVIOUS
  <2> HIDE DEF S
  <2> DEFINE T == Seq(S)
             e == << >>
  <2>2. e \in T
    BY <2>1
  <2> HIDE DEF T, e
  <2>3. <<e>> \in Seq(T) /\ Len(<<e>>) = 1 /\ <<e>>[1] = e
    BY <2>2
  <2>4. lists = <<e>>
    BY DEF e
  <2>5. QED
    BY <2>3, <2>4 DEF T, e
<1> HIDE DEF S, lists
<1>3. p \in Seq(Seq(S)) /\ Len(p) = 1
  <2> DEFINE q == << >>
  <2> HIDE DEF q
  <2>1. Pieces(q, lists) \in Seq(Seq(S)) /\ Len(Pieces(q, lists)) = Len(lists)
    BY ONLY <1>1, <1>2, PiecesType
  <2>2. QED
    BY <1>2, <2>1 DEF q
<1>4. p[1] = << >>
  BY <1>2 DEF Pieces, Piece
<1> HIDE DEF p
<1>5. /\ Flat(p, 0) = << >> /\ FlattenSeq(p) = Flat(p, Len(p))
      /\ \A k \in 1..Len(p) : Flat(p, k) = Flat(p, k - 1) \o p[k]
  BY ONLY <1>3, FlatGoesOn
<1>6. Flat(p, 1) = Flat(p, 0) \o p[1]
  <2>1. 1 \in 1..Len(p) /\ 1 - 1 = 0
    BY <1>3
  <2>2. QED
    BY <1>5, <2>1
<1>7. << >> \o << >> = << >>
  OBVIOUS
<1>8. FlattenSeq(p) = << >>
  BY ONLY <1>3, <1>4, <1>5, <1>6, <1>7, Zenon
<1>9. QED
  BY <1>8 DEF Stacked, p, lists

LEMMA ParseSync ==
  ASSUME NEW H, NEW n, NEW S, History(H, n, S), H[n] = Now, error = "NO_ERROR",
         frames = << >>, values = << >>, ParsePrinted
  PROVE  Sync(H, n, S)'
<1> DEFINE document == Append(out, NUL)
           t == H[1 + 1]
<1>1. Complete /\ UNCHANGED printerVars
  BY DEF ParsePrinted
<1>2. Now.out = out /\ Now.hasRoot = hasRoot
  BY DEF Now, State
<1>3. /\ 1 \in 1..(n - 1) /\ TakesA(Blank, t)
      /\ out \in Seq(Byte) /\ Len(out) \in Nat \ {0} /\ out[1] \in Beginnings
  <2>1. H[n].hasRoot
    BY <1>1, <1>2 DEF Complete
  <2>2. /\ 1 \in 1..(n - 1) /\ TakesA(Blank, t)
        /\ H[n].out \in Seq(Byte) /\ Len(H[n].out) \in Nat \ {0}
        /\ H[n].out[1] \in Beginnings
    BY ONLY <2>1, History(H, n, S), FirstMove
  <2>3. QED
    BY <1>2, <2>2
<1>4. /\ Len(document) = Len(out) + 1 /\ document[1] = out[1]
  BY <1>3
<1>5. Skip(document, 1) = 1 /\ document[1] # NUL
  <2>1. ~IsBlank(document[1]) /\ document[1] # NUL
    BY ONLY <1>3, <1>4, BeginningsAre
  <2>2. 1 \in Nat /\ 1 <= Len(document) /\ Len(document) \in Nat
    BY <1>3, <1>4
  <2> HIDE DEF document
  <2>3. QED
    BY ONLY <2>1, <2>2, SkipsNothing
<1>6. /\ text' = document /\ pos' = 1 /\ at' = "value" /\ error' = "NO_ERROR"
      /\ frames' = << >> /\ values' = << >>
  <2>1. Parse(document)
    BY DEF ParsePrinted
  <2> HIDE DEF document
  <2>2. QED
    BY ONLY <1>5, <2>1, error = "NO_ERROR", frames = << >>, values = << >> DEF Parse
<1>7. Follows(H, n, S, Blank, t)'
  <2>1. Printed(H, n, S)'
    <3>1. Now' = Now /\ Complete' /\ out' = out
      BY <1>1 DEF Now, State, Complete, printerVars
    <3>2. text' = Append(out', NUL)
      BY <1>6, <3>1
    <3>3. QED
      BY <3>1, <3>2 DEF Printed
  <2>2. Blank = H[1]
    BY DEF History
  <2>3. \E k \in 1..(n - 1) : Blank = H[k] /\ t = H[k + 1]
    BY <1>3, <2>2
  <2>4. QED
    BY ONLY <2>1, <2>3 DEF Follows
<1>8. Blank.out = << >> /\ Blank.levels = << >> /\ Blank.written = <<<< >>>>
  BY DEF Blank, State
<1>9. Where(Blank) = 0
  <2>1. PrefixOf(Blank.levels) = << >>
    BY <1>8 DEF PrefixOf
  <2>2. QED
    BY <1>8, <2>1 DEF Where
<1>10. Matched(<< >>, Blank.levels, 1)
  BY <1>8 DEF Matched
<1>11. Stack(Blank) = << >>
  BY <1>8, BlankStack DEF Stack
<1> HIDE DEF t, document
<1>12. ValueSync(Blank, t)'
  <2>1. pos' = Where(Blank) + 1
    BY <1>6, <1>9
  <2>2. Matched(frames', Blank.levels, 1)
    BY <1>6, <1>10
  <2>3. values' = Stack(Blank)
    BY <1>6, <1>11
  <2>4. QED
    BY ONLY <1>3, <1>6, <2>1, <2>2, <2>3 DEF ValueSync
<1>13. ReadingSync(Blank, t)'
  BY <1>12 DEF ReadingSync
<1>14. QED
  BY ONLY <1>6, <1>7, <1>13 DEF Sync

-----------------------------------------------------------------------------
(***************************************************************************)
(* What is read is what was written.                                       *)
(***************************************************************************)

\* The Writer has come here from nothing.
Writing == \E H, n, S : History(H, n, S) /\ H[n] = Now

RoundTripInv ==
  \/ /\ at = "new" /\ error = "NO_ERROR" /\ frames = << >> /\ values = << >>
     /\ Writing
  \/ at # "new" /\ (out = << >> \/ \E H, n, S : Sync(H, n, S))

LEMMA ReadingIsOld ==
  ASSUME NEW H, NEW n, NEW S, Sync(H, n, S)
  PROVE  at # "new"
BY DEF Sync, AfterSync, ReadingSync, ValueSync, KeySync, StringSync, NumberSync

LEMMA NeverNewAgain == ASSUME ParserNext PROVE at' # "new" /\ at # "new"
<1>1. ASSUME NEW code, Refuse(code) PROVE at' # "new"
  BY <1>1 DEF Refuse
<1>2. ASSUME NEW p, NEW next, next # "new", MoveTo(p, next) PROVE at' # "new"
  BY <1>2 DEF MoveTo
<1>3. ASSUME NEW x, NEW k, PutChars(x, k) PROVE at' # "new"
  BY <1>2, <1>3 DEF PutChars
<1>4. CASE ParseLiteral
  <2>1. CASE \E literal \in Literals : MoveTo(pos + Len(literal.word), "after")
    BY <1>2, <1>4, <2>1 DEF ParseLiteral
  <2>2. CASE Refuse("VALUE_INVALID")
    BY <1>1, <1>4, <2>2 DEF ParseLiteral
  <2>3. QED
    BY <1>4, <2>1, <2>2 DEF ParseLiteral
<1>5. CASE BeginString
  BY <1>2, <1>5 DEF BeginString
<1>6. CASE MissingName
  BY <1>1, <1>6 DEF MissingName
<1>7. ASSUME NEW kind, NEW opening, NEW closing, NEW first, first # "new",
             Open(kind, opening, closing, first)
      PROVE  at' # "new" /\ at # "new"
  BY <1>2, <1>7 DEF Open
<1>8. CASE OpenObject \/ OpenArray
  BY <1>7, <1>8 DEF OpenObject, OpenArray
<1>9. CASE BeginNumber
  BY <1>2, <1>9 DEF BeginNumber
<1>10. CASE ReadNumber
  BY <1>10 DEF ReadNumber, parserVars
<1>11. CASE EndNumber
  BY <1>1, <1>2, <1>11 DEF EndNumber
<1>12. CASE StringChar
  BY <1>3, <1>12 DEF StringChar
<1>13. CASE StringEscape
  <2>1. \/ \E x, k : PutChars(x, k)
        \/ Refuse("STRING_ESCAPE_INVALID")
    BY <1>13, Zenon DEF StringEscape
  <2>2. QED
    BY <1>1, <1>3, <1>13, <2>1 DEF StringEscape
<1>14. CASE StringUnicode
  <2>1. \/ \E x, k : PutChars(x, k)
        \/ \E code : Refuse(code)
    BY <1>14, Zenon DEF StringUnicode
  <2>2. QED
    BY <1>1, <1>3, <1>14, <2>1 DEF StringUnicode
<1>15. CASE StringFails
  BY <1>1, <1>15 DEF StringFails
<1>16. CASE EndString
  BY <1>1, <1>2, <1>16 DEF EndString
<1>17. CASE NextValue
  BY <1>2, <1>17 DEF NextValue
<1>18. CASE Close
  BY <1>2, <1>18 DEF Close
<1>19. CASE MissingComma
  BY <1>1, <1>19 DEF MissingComma
<1>20. CASE EndDocument
  BY <1>1, <1>20 DEF EndDocument
<1>21. QED
  BY <1>4, <1>5, <1>6, <1>8, <1>9, <1>10, <1>11, <1>12, <1>13, <1>14, <1>15, <1>16, <1>17,
     <1>18, <1>19, <1>20 DEF ParserNext

LEMMA RoundTripInit == DocumentInit => RoundTripInv
<1> SUFFICES ASSUME DocumentInit PROVE RoundTripInv
  OBVIOUS
<1> DEFINE S == {Placeholder("array"), Placeholder("object")} \cup Scalars
                  \cup {JString(name) : name \in Names}
<1>1. HasAll(S)
  BY DEF HasAll, IsContent
<1> HIDE DEF S
<1>2. PICK H : History(H, 1, S) /\ H[1] = Blank
  BY <1>1, BlankHistory
<1>3. Now = Blank
  BY DEF DocumentInit, PrinterInit, Now, Blank
<1>4. Writing
  BY <1>2, <1>3 DEF Writing
<1>5. at = "new" /\ error = "NO_ERROR" /\ frames = << >> /\ values = << >>
  BY DEF DocumentInit, ParserInit
<1>6. QED
  BY <1>4, <1>5 DEF RoundTripInv

LEMMA WritingGoesOn == ASSUME Writing, PrinterNext PROVE Writing'
<1>1. PICK H, n, S : History(H, n, S) /\ H[n] = Now
  BY DEF Writing
<1>2. levels # << >> => hasRoot
  <2>1. Sound(Now, S)
    <3>1. n \in 1..n
      BY <1>1 DEF History
    <3>2. Sound(H[n], S)
      BY <1>1, <3>1 DEF History
    <3>3. QED
      BY <1>1, <3>2
  <2>2. Now.levels = levels /\ Now.hasRoot = hasRoot
    BY DEF Now, State
  <2>3. QED
    BY <2>1, <2>2 DEF Sound
<1>3. Moves(Now, Now')
  BY <1>2, PrinterMoves
<1>4. PICK t : t = Now'
  OBVIOUS
<1>5. Moves(H[n], t)
  BY <1>1, <1>3, <1>4
<1>6. PICK H2, n2, S2 : History(H2, n2, S2) /\ H2[n2] = t
  BY <1>1, <1>5, HistoryGoesOn
<1>7. QED
  BY <1>4, <1>6 DEF Writing

LEMMA RoundTripStep == RoundTripInv /\ [DocumentNext]_documentVars => RoundTripInv'
<1> SUFFICES ASSUME RoundTripInv, [DocumentNext]_documentVars PROVE RoundTripInv'
  OBVIOUS
<1>1. CASE PrintOn
  <2>1. at = "new" /\ PrinterNext /\ UNCHANGED <<vars, parserVars>>
    BY <1>1 DEF PrintOn
  <2>2. Writing /\ error = "NO_ERROR" /\ frames = << >> /\ values = << >>
    BY <2>1 DEF RoundTripInv
  <2>3. Writing'
    BY <2>1, <2>2, WritingGoesOn
  <2>4. at' = "new" /\ error' = "NO_ERROR" /\ frames' = << >> /\ values' = << >>
    BY <2>1, <2>2 DEF vars, parserVars
  <2>5. QED
    BY <2>3, <2>4 DEF RoundTripInv
<1>2. CASE ParsePrinted
  <2>1. at = "new"
    BY <1>2 DEF ParsePrinted, Parse
  <2>2. Writing /\ error = "NO_ERROR" /\ frames = << >> /\ values = << >>
    BY <2>1 DEF RoundTripInv
  <2>3. PICK H, n, S : History(H, n, S) /\ H[n] = Now
    BY <2>2 DEF Writing
  <2>4. Sync(H, n, S)'
    BY <1>2, <2>2, <2>3, ParseSync
  <2>5. at' # "new"
    BY <1>2 DEF ParsePrinted, Parse
  <2>6. QED
    BY <2>4, <2>5 DEF RoundTripInv
<1>3. CASE ParseForeign
  BY <1>3 DEF ParseForeign, Parse, printerVars, RoundTripInv
<1>4. CASE ParseOn
  <2>1. ParserNext /\ UNCHANGED printerVars
    BY <1>4 DEF ParseOn
  <2>2. at' # "new" /\ at # "new"
    BY <2>1, NeverNewAgain
  <2>3. CASE out = << >>
    <3>1. out' = << >>
      BY <2>1, <2>3 DEF printerVars
    <3>2. QED
      BY <2>2, <3>1 DEF RoundTripInv
  <2>4. CASE \E H, n, S : Sync(H, n, S)
    <3>1. PICK H, n, S : Sync(H, n, S)
      BY <2>4
    <3>2. Sync(H, n, S)'
      BY <2>1, <3>1, SyncGoesOn
    <3>3. QED
      BY <2>2, <3>2 DEF RoundTripInv
  <2>5. QED
    BY <2>2, <2>3, <2>4 DEF RoundTripInv
<1>5. CASE UNCHANGED documentVars
  <2>1. /\ at' = at /\ error' = error /\ frames' = frames /\ values' = values /\ out' = out
        /\ Now' = Now
    BY <1>5 DEF documentVars, vars, parserVars, printerVars, Now, State
  <2>2. Writing => Writing'
    BY <2>1 DEF Writing
  <2>3. ASSUME NEW H, NEW n, NEW S, Sync(H, n, S) PROVE Sync(H, n, S)'
    BY <1>5, <2>3, SyncStays
  <2>4. QED
    BY <2>1, <2>2, <2>3 DEF RoundTripInv
<1>6. QED
  BY <1>1, <1>2, <1>3, <1>4, <1>5 DEF DocumentNext

\* The documents the Writer writes are accepted, and what is read from one is what
\* was written: at every depth, for every name and value, and whatever the widths
\* are.
THEOREM SpecRoundTrip == DocumentSpec => []RoundTrip
<1>1. RoundTripInv => RoundTrip
  <2> SUFFICES ASSUME RoundTripInv, at = "done", out # << >>
               PROVE  error = "NO_ERROR" /\ root = written[1][1]
    BY DEF RoundTrip
  <2>1. PICK H, n, S : Sync(H, n, S)
    BY DEF RoundTripInv
  <2>2. QED
    BY <2>1 DEF Sync, AfterSync, ReadingSync, ValueSync, KeySync, StringSync, NumberSync
<1>2. QED
  BY <1>1, RoundTripInit, RoundTripStep, PTL DEF DocumentSpec
=============================================================================
