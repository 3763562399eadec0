------------------------------ MODULE MCJson ------------------------------
(***************************************************************************)
(* Small instances of JsonDocuments: the widths of the integers are small  *)
(* enough for four and five digits to cross them.                          *)
(***************************************************************************)
EXTENDS JsonDocuments, JsonGrammar

CONSTANTS MaxPieces, MaxNumber, MaxEscapes, MaxDigits  \* bounds: pieces of a document,
                                                       \* of a number and of a string,
                                                       \* digits of an integer

\* "{", "}", "[", "]", ",", ":", '"k"', '{"k":', "7", "null", "nul", " "
Markup ==
  {<<OPEN_BRACE>>, <<CLOSE_BRACE>>, <<OPEN_BRACKET>>, <<CLOSE_BRACKET>>, <<COMMA>>,
   <<COLON>>, <<QUOTE, 107, QUOTE>>, <<OPEN_BRACE, QUOTE, 107, QUOTE, COLON>>, <<55>>,
   NullText, Front(NullText), <<32>>}

\* "0", "5", "99", "000", ".", "e", "e-", "E+13", "-"
Numerals ==
  {<<48>>, <<53>>, <<57, 57>>, <<48, 48, 48>>, <<46>>, <<101>>, <<101, 45>>,
   <<69, 43, 49, 51>>, <<45>>}

\* "\u", "\ud83a", "dE0", "00", "a", "4", "\", '"', and a byte of each other kind
Escapes ==
  {<<BACKSLASH, LOWER_U>>, <<BACKSLASH, LOWER_U, 100, 56, 51, 97>>, <<100, 69, 48>>, <<48, 48>>, <<97>>, <<52>>,
   <<BACKSLASH>>, <<QUOTE>>, <<10>>, <<200>>}

Integers ==
  {<<m>> \o s : m \in {<< >>, <<MINUS>>},
                s \in SeqOf({<<48>>, <<49>>, <<53>>, <<57>>}, MaxDigits)}
Strings == {<<<<QUOTE>>>> \o s \o <<<<QUOTE>>>> : s \in SeqOf(Escapes, MaxEscapes)}

MCTexts ==
  {Append(FlattenSeq(pieces), NUL) : pieces \in
     SeqOf(Markup, MaxPieces) \cup SeqOf(Numerals, MaxNumber) \cup Integers \cup Strings}

\* "0." and zeros, "e-" and three digits: the longest exponents that are read.
MCLongTexts ==
  {<<48, 46>> \o [k \in 1..zeros |-> 48] \o <<101, 45, 57, 56, 48 + last, NUL>> :
     zeros \in 1..14, last \in 0..9}

MCNames == {<< >>, <<107>>}
MCScalars ==
  {JNull, JBool(TRUE), JBool(FALSE)}
  \cup {JNumber(n) : n \in {-5000, -1000, 0, 12, 1999, 4999}}
  \cup {JString(t) : t \in {<< >>, <<QUOTE, BACKSLASH, COMMA>>, <<0, 10, 31, 200>>}}

-----------------------------------------------------------------------------
\* The reader accepts the texts of JSON and no others, wherever a text that is not
\* one goes wrong (reader.h:467-1000), with two exceptions.  It does not read every
\* number, as the grammars allow; and it refuses a text with an escape of the first
\* half of a surrogate pair that the second does not follow (reader.h:693-701), which
\* they do not: "fully RFC4627/ECMA-404 compliance" (features.md:22) has this gap.
AcceptsJson ==
  at = "done" /\ error # "NUMBER_TOO_BIG" =>
    (error = "NO_ERROR") =
      (IsText(Front(text)) /\ ~HasLoneHighSurrogate(Front(text)))
=============================================================================
