------------------------------ MODULE MCRelay ------------------------------
(***************************************************************************)
(* Small instances of Relay: every text of up to three characters (a       *)
(* letter, NUL, LF, CR, a blank and a date) on its own and after a letter, *)
(* all integers of both widths, and arrays and structs of some of these.   *)
(***************************************************************************)
EXTENDS Relay

LETTER == 97
DATE == 200
MCDates == {DATE}

\* Doubles near 1, one of which moves twice when it is read and read again.
MCDoubles == {<<1, k>> : k \in 0..4}
MCStrtod == [x \in MCDoubles |-> IF x[2] = 1 THEN <<1, 2>>
                                 ELSE IF x[2] = 2 THEN <<1, 4>> ELSE x]

Characters == {LETTER, NUL, LF, CR, BLANK, DATE}
MCTexts ==
  LET short == UNION {[1..i -> Characters] : i \in 0..3}
  IN  short \cup {<<LETTER>> \o t : t \in short}

Scalars ==
  {Nil, DateTime(DATE)}
  \cup {Double(x) : x \in Doubles}
  \cup {Boolean(b) : b \in BOOLEAN}
  \cup {Integer32(n) : n \in Int32Range}
  \cup {Integer64(n) : n \in Int64Range}

Leaves ==
  {Nil, Double(<<1, 1>>), Integer64(1), Integer64(Int64Max), String(<<LETTER>>),
   String(<<CR, LETTER>>), String(<<DATE>>), Binary(<<CR>>),
   Binary(<<NUL, CR>>), Binary(<< >>)}

\* Names that differ, and names that XML makes the same or takes away.
MCNames ==
  {<<LETTER>>, <<LETTER, NUL>>, <<CR, LETTER>>, <<LF, LETTER>>, <<BLANK>>,
   << >>}

Structs ==
  {Struct(f) : f \in UNION {[N -> Leaves] :
                              N \in {M \in SUBSET MCNames : Cardinality(M) < 3}}}

MCOriginals ==
  Scalars
  \cup {String(t) : t \in MCTexts} \cup {Binary(t) : t \in MCTexts}
  \cup {Array(s) : s \in UNION {[1..i -> Leaves] : i \in 0..2}}
  \cup Structs
  \cup {Array(<<s>>) : s \in Structs}
=============================================================================
