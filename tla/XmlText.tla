------------------------------ MODULE XmlText ------------------------------
(***************************************************************************)
(* StrPair::GetStr (src/3pp/tinyxml2/tinyxml2.cpp).  A parsed text stays   *)
(* where it was in the document's buffer until it is asked for; then it is *)
(* ended with a NUL, and line breaks, references and white space are       *)
(* replaced in place by a pointer that reads and one that writes.          *)
(***************************************************************************)
EXTENDS XmlChars

CONSTANTS
  Before, After,  \* the buffer around the text
  Texts,          \* the texts parsed,
  Plain,          \* and texts that XMLPrinter wrote, before it did
  Flags,          \* what a text may need
  UnsignedRange   \* 2^32: how many values an unsigned int has

NEEDS_ENTITY_PROCESSING == "entities"
NEEDS_NEWLINE_NORMALIZATION == "newlines"
NEEDS_WHITESPACE_COLLAPSING == "collapse"
TEXT_ELEMENT == {NEEDS_ENTITY_PROCESSING, NEEDS_NEWLINE_NORMALIZATION}

ASSUME TextAssumption ==
  /\ Before \in Seq(Char)
  /\ After \in Seq(Char) \ {<< >>}
  /\ Texts \subseteq Seq(Char \ {NUL})
  /\ Plain \subseteq Seq(Char \ {NUL})
  /\ Flags \subseteq SUBSET (TEXT_ELEMENT \cup {NEEDS_WHITESPACE_COLLAPSING})
  /\ UnsignedRange \in Nat \ {0}

VARIABLES
  body,   \* the text as it was parsed
  plain,  \* {what was printed}, if it was
  flags,  \* _flags
  mem,    \* the document's buffer
  first,  \* _start
  r, w,   \* p and q, where GetStr reads and writes
  stage   \* where it is

textVars == <<body, plain, flags, mem, first, r, w, stage>>

start == Len(Before) + 1
end == start + Len(body)

TextInit ==
  /\ \/ body \in Texts /\ flags \in Flags /\ plain = {}
     \/ /\ flags = TEXT_ELEMENT
        /\ \E t \in Plain : plain = {t} /\ body = Escaped(t)
  /\ mem = Before \o body \o After
  /\ first = start
  /\ r = start
  /\ w = start
  /\ stage = "parsed"

\* NEEDS_FLUSH
Flush ==
  /\ stage = "parsed"
  /\ mem' = [mem EXCEPT ![end] = NUL]
  /\ stage' = (IF flags = {} THEN "read" ELSE "decoding")
  /\ UNCHANGED <<body, plain, flags, first, r, w>>

-----------------------------------------------------------------------------
FirstByteMark == <<0, 192, 224, 240>>
Sextet == <<1, 64, 4096, 262144>>  \* what input has been shifted by, six bits at a time
ByteMark == 128

Utf8Tail(code) == ByteMark + (code % 64)

Utf8Length(code) ==
  IF code < 128 THEN 1
  ELSE IF code < 2048 THEN 2
  ELSE IF code < 65536 THEN 3
  ELSE IF code < 2097152 THEN 4 ELSE 0

\* ConvertUTF32ToUTF8: six bits to a byte, from the last to the first.
Utf8(code) ==
  [i \in 1..Utf8Length(code) |->
     LET rest == code \div Sextet[Utf8Length(code) - i + 1]
     IN  IF i = 1 THEN FirstByteMark[Utf8Length(code)] + rest ELSE Utf8Tail(rest)]

DigitValue(ch, base) ==
  CASE IsDigit(ch) -> ch - 48
    [] base = 16 /\ ch \in 97..102 -> ch - 87
    [] base = 16 /\ ch \in 65..70  -> ch - 55
    [] OTHER -> -1

\* What each digit counts is an unsigned int that wraps; their sum is wider.
Number(digits, base) ==
  LET mult[i \in 0..Len(digits)] ==
        IF i = 0 THEN 1 ELSE (base * mult[i - 1]) % UnsignedRange
      ucs[i \in 0..Len(digits)] ==
        IF i = 0 THEN 0
        ELSE ucs[i - 1]
               + ((mult[Len(digits) - i] * DigitValue(digits[i], base)) % UnsignedRange)
  IN  ucs[Len(digits)]

NoRef == [length |-> 0, bytes |-> << >>]

\* GetCharacterRef at an & and a #: how much of the text it takes and what it
\* stands for; NoRef if it is none.  It goes on to the next semicolon and from there
\* back through the digits to the nearest x or #; what is left between that one and
\* the & it does not look at.  Without digits the code is 0.
CharacterRef(b, i) ==
  LET hex == b[i + 2] = LOWER_X
      from == IF hex THEN i + 3 ELSE i + 2
      semicolon == Find(b, from, {SEMICOLON, NUL})
      mark == FindBack(b, from - 1, semicolon, IF hex THEN LOWER_X ELSE HASH)
      digits == SubSeq(b, mark + 1, semicolon - 1)
      base == IF hex THEN 16 ELSE 10
  IN  IF b[i + 2] = NUL THEN [length |-> 1, bytes |-> << >>]
      ELSE IF \/ b[semicolon] = NUL
              \/ \E j \in DOMAIN digits : DigitValue(digits[j], base) = -1
      THEN NoRef
      ELSE [length |-> semicolon + 1 - i, bytes |-> Utf8(Number(digits, base))]

-----------------------------------------------------------------------------
\* Write some bytes, go on n characters further.
Put(bytes, n) ==
  /\ mem' = [i \in DOMAIN mem |-> IF i \in w..(w + Len(bytes) - 1)
                                  THEN bytes[i - w + 1] ELSE mem[i]]
  /\ w' = w + Len(bytes)
  /\ r' = r + n

IsNewline ==
  NEEDS_NEWLINE_NORMALIZATION \in flags /\ mem[r] \in {CR, LF}
IsReference == NEEDS_ENTITY_PROCESSING \in flags /\ mem[r] = AMP

\* Variant: the end is taken for a character.
DecodingPastEnd == stage = "decoding" /\ r <= end

Decoding == stage = "decoding" /\ r < end

\* CR LF and LF CR count as one line break.
DecodeNewline ==
  /\ Decoding
  /\ IsNewline
  /\ Put(<<LF>>, IF {mem[r], mem[r + 1]} = {CR, LF} THEN 2 ELSE 1)
  /\ UNCHANGED <<body, plain, flags, first, stage>>

DecodeCharacterRef ==
  /\ Decoding
  /\ IsReference
  /\ mem[r + 1] = HASH
  /\ LET ref == CharacterRef(mem, r)
     IN  IF ref = NoRef THEN Put(<<AMP>>, 1) ELSE Put(ref.bytes, ref.length)
  /\ UNCHANGED <<body, plain, flags, first, stage>>

DecodeEntity ==
  /\ Decoding
  /\ IsReference
  /\ \E e \in Entities :
       Matches(mem, r, Reference(e)) /\ Put(<<e.value>>, Len(Reference(e)))
  /\ UNCHANGED <<body, plain, flags, first, stage>>

\* "fixme: treat as error?": both pointers go on and nothing is copied.
SkipUnknown ==
  /\ Decoding
  /\ IsReference
  /\ mem[r + 1] # HASH
  /\ \A e \in Entities : ~Matches(mem, r, Reference(e))
  /\ r' = r + 1
  /\ w' = w + 1
  /\ UNCHANGED <<body, plain, flags, mem, first, stage>>

DecodeOther ==
  /\ Decoding
  /\ ~IsNewline
  /\ ~IsReference
  /\ Put(<<mem[r]>>, 1)
  /\ UNCHANGED <<body, plain, flags, first, stage>>

DecodeEnd ==
  /\ stage = "decoding"
  /\ r >= end
  /\ mem' = [mem EXCEPT ![w] = NUL]
  /\ stage' = (IF NEEDS_WHITESPACE_COLLAPSING \in flags THEN "trimming" ELSE "read")
  /\ UNCHANGED <<body, plain, flags, first, r, w>>

SkipBlanks(b, i) == Find(b, i, {ch \in Char : ~IsWhiteSpace(ch)})

\* StrPair::CollapseWhitespace
Trim ==
  /\ stage = "trimming"
  /\ first' = SkipBlanks(mem, start)
  /\ r' = first'
  /\ w' = first'
  /\ stage' = (IF mem[first'] = NUL THEN "read" ELSE "collapsing")
  /\ UNCHANGED <<body, plain, flags, mem>>

Collapse ==
  /\ stage = "collapsing"
  /\ LET next == SkipBlanks(mem, r) IN
     /\ mem[next] # NUL
     /\ IF next = r THEN Put(<<mem[r]>>, 1)
                    ELSE Put(<<BLANK, mem[next]>>, next + 1 - r)
  /\ UNCHANGED <<body, plain, flags, first, stage>>

CollapseEnd ==
  /\ stage = "collapsing"
  /\ mem[SkipBlanks(mem, r)] = NUL
  /\ mem' = [mem EXCEPT ![w] = NUL]
  /\ stage' = "read"
  /\ UNCHANGED <<body, plain, flags, first, r, w>>

TextNext ==
  \/ Flush \/ DecodeNewline \/ DecodeCharacterRef \/ DecodeEntity
  \/ SkipUnknown \/ DecodeOther \/ DecodeEnd \/ Trim \/ Collapse \/ CollapseEnd

TextSpec == TextInit /\ [][TextNext]_textVars

-----------------------------------------------------------------------------
(***************************************************************************)
(* Properties.                                                             *)
(***************************************************************************)

\* The types of the variables.
TypeOK ==
  /\ body \in Seq(Char \ {NUL})
  /\ flags \subseteq TEXT_ELEMENT \cup {NEEDS_WHITESPACE_COLLAPSING}
  /\ mem \in Seq(Char)
  /\ Len(mem) = Len(Before) + Len(body) + Len(After)
  /\ first \in Nat /\ r \in Nat /\ w \in Nat
  /\ stage \in {"parsed", "decoding", "trimming", "collapsing", "read"}

\* However references shrink and white space moves, the write pointer never
\* passes the read pointer, neither leaves the text, and no byte around it
\* changes, so the texts beside it in the buffer can be read in any order
\* (tinyxml2.cpp:187-283, with its assertion q + len <= adjusted).
StaysInside ==
  /\ start <= first /\ first <= w /\ w <= r /\ r <= end
  /\ \A i \in DOMAIN mem \ (start..end) :
       mem[i] = (Before \o body \o After)[i]

\* What GetStr returns.
Result == SubSeq(mem, first, Find(mem, first, {NUL}) - 1)

\* A text that was printed is read as it was, but for its line breaks: CR, CR LF
\* and LF CR are LF (tinyxml2.cpp:2082-2123, 187-283).
LineBreaks(t) ==
  LET one(i) == t[i] \in {CR, LF} /\ i < Len(t) /\ {t[i], t[i + 1]} = {CR, LF}
      second[i \in 0..Len(t)] == i > 1 /\ ~second[i - 1] /\ one(i - 1)
  IN  FlattenSeq([i \in DOMAIN t |-> IF second[i] THEN << >>
                                     ELSE IF t[i] = CR THEN <<LF>> ELSE <<t[i]>>])

PrintedTextSurvives ==
  stage = "read" => \A t \in plain : Result = LineBreaks(t)
=============================================================================
