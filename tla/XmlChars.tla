------------------------------ MODULE XmlChars ------------------------------
(***************************************************************************)
(* Characters, as the bytes tinyxml2 works on                              *)
(* (src/3pp/tinyxml2/tinyxml2.cpp), the references it knows, and what      *)
(* XMLPrinter makes of a text.                                             *)
(***************************************************************************)
EXTENDS Integers, SequencesExt

NUL == 0
LF == 10
CR == 13
BLANK == 32
QUOTE == 34
HASH == 35
AMP == 38
APOS == 39
SLASH == 47
SEMICOLON == 59
LESS == 60
EQUALS == 61
GREATER == 62
LOWER_X == 120

Char == 0..255

IsWhiteSpace(ch) == ch \in 9..13 \cup {BLANK}
IsDigit(ch) == ch \in 48..57
IsNameStartChar(ch) == ch \in 65..90 \cup 97..122 \cup 128..255 \cup {58, 95}
IsNameChar(ch) == IsNameStartChar(ch) \/ IsDigit(ch) \/ ch \in {45, 46}

\* strncmp at a position of a buffer.
Matches(b, p, s) == \A i \in DOMAIN s : p + i - 1 \in DOMAIN b /\ b[p + i - 1] = s[i]

\* The first position from p on with a character in S.
Find(b, p, S) == CHOOSE i \in DOMAIN b :
  i >= p /\ b[i] \in S /\ \A j \in p..(i - 1) : b[j] \notin S

\* The last position before p, but not before m, with the character ch.
FindBack(b, m, p, ch) == CHOOSE i \in m..(p - 1) :
  b[i] = ch /\ \A j \in (i + 1)..(p - 1) : b[j] # ch

Entity(pattern, value) == [pattern |-> pattern, value |-> value]
Entities ==
  {Entity(<<113, 117, 111, 116>>, QUOTE), Entity(<<97, 109, 112>>, AMP),
   Entity(<<97, 112, 111, 115>>, APOS), Entity(<<108, 116>>, LESS),
   Entity(<<103, 116>>, GREATER)}

Reference(entity) == <<AMP>> \o entity.pattern \o <<SEMICOLON>>

Restricted == {AMP, LESS, GREATER}

\* Variant: & is left as it is.
EscapeLess(ch) ==
  IF ch \notin Restricted \ {AMP} THEN <<ch>>
  ELSE Reference(CHOOSE e \in Entities : e.value = ch)

\* XMLPrinter::PrintString, of the text of an element.
Escape(ch) ==
  IF ch \notin Restricted THEN <<ch>>
  ELSE Reference(CHOOSE e \in Entities : e.value = ch)

Escaped(t) == FlattenSeq([i \in DOMAIN t |-> Escape(t[i])])
=============================================================================
