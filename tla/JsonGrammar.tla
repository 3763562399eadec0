---------------------------- MODULE JsonGrammar ----------------------------
(***************************************************************************)
(* JSON as ECMA-404 and RFC 4627 define it: which sequences of characters  *)
(* are texts.  The grammars are the same, but for a scalar on its own,     *)
(* which is a text of ECMA-404 alone.                                      *)
(***************************************************************************)
EXTENDS JsonChars

LOCAL Digits == 48..57
LOCAL All(s, S) == \A k \in DOMAIN s : s[k] \in S
LOCAL Blanks(s) == \A k \in DOMAIN s : IsBlank(s[k])

LOCAL From(s, k) == SubSeq(s, k, Len(s))
LOCAL To(s, k) == SubSeq(s, 1, k)
LOCAL Inner(s) == SubSeq(s, 2, Len(s) - 1)

\* Some way to cut a sequence in two has both parts in the languages.
LOCAL Cut(s, P(_), Q(_)) == \E k \in 0..Len(s) : P(To(s, k)) /\ Q(From(s, k + 1))

IsDigits(s) == s # << >> /\ All(s, Digits)
IsInt(s) == IsDigits(s) /\ (Len(s) = 1 \/ s[1] # 48)
IsFrac(s) == s = << >> \/ (s[1] = 46 /\ IsDigits(From(s, 2)))
IsExp(s) ==
  \/ s = << >>
  \/ /\ s[1] \in {69, 101}
     /\ IsDigits(From(s, 2)) \/ (Len(s) > 1 /\ s[2] \in {43, 45} /\ IsDigits(From(s, 3)))
IsNumber(s) ==
  LET unsigned(t) == Cut(t, IsInt, LAMBDA u : Cut(u, IsFrac, IsExp))
  IN  s # << >> /\ (unsigned(s) \/ (s[1] = 45 /\ unsigned(From(s, 2))))

IsHex(s) == Len(s) = 6 /\ To(s, 2) = <<BACKSLASH, LOWER_U>> /\ \A k \in 3..6 : HexValue(s[k]) >= 0
CodeOf(s) == 4096 * HexValue(s[3]) + 256 * HexValue(s[4]) + 16 * HexValue(s[5]) + HexValue(s[6])

\* One character of a string.  An escape of four digits may stand for half of a
\* surrogate pair, and the other half need not follow.
IsChar(s) ==
  \/ Len(s) = 1 /\ s[1] >= 32 /\ s[1] \notin {QUOTE, BACKSLASH}
  \/ Len(s) = 2 /\ s[1] = BACKSLASH /\ s[2] \in {QUOTE, BACKSLASH, SLASH} \cup {l.letter : l \in Letters}
  \/ IsHex(s)

RECURSIVE IsChars(_)
IsChars(s) == s = << >> \/ \E k \in {1, 2, 6} :
                k <= Len(s) /\ IsChar(To(s, k)) /\ IsChars(From(s, k + 1))

IsString(s) ==
  Len(s) > 1 /\ s[1] = QUOTE /\ s[Len(s)] = QUOTE /\ IsChars(Inner(s))

LOCAL Trimmed(s) ==
  LET marks == {k \in DOMAIN s : ~IsBlank(s[k])}
  IN  IF marks = {} THEN << >>
      ELSE SubSeq(s, CHOOSE k \in marks : \A m \in marks : k <= m,
                     CHOOSE k \in marks : \A m \in marks : k >= m)

RECURSIVE IsText(_), IsElements(_), IsMembers(_)

IsMember(s) ==
  \E k \in DOMAIN s :
    s[k] = COLON /\ IsString(Trimmed(To(s, k - 1))) /\ IsText(From(s, k + 1))

IsMembers(s) ==
  IsMember(s) \/ \E k \in DOMAIN s :
    s[k] = COMMA /\ IsMember(To(s, k - 1)) /\ IsMembers(From(s, k + 1))

IsElements(s) ==
  IsText(s) \/ \E k \in DOMAIN s :
    s[k] = COMMA /\ IsText(To(s, k - 1)) /\ IsElements(From(s, k + 1))

\* A value with blanks around it (RFC 4627 wants an array or an object).
IsText(text) ==
  LET s == Trimmed(text)
  IN  /\ s # << >>
      /\ \/ s \in {NullText, TrueText, FalseText}
         \/ IsNumber(s)
         \/ IsString(s)
         \/ /\ s[1] = OPEN_BRACKET /\ s[Len(s)] = CLOSE_BRACKET /\ Len(s) > 1
            /\ Blanks(Inner(s)) \/ IsElements(Inner(s))
         \/ /\ s[1] = OPEN_BRACE /\ s[Len(s)] = CLOSE_BRACE /\ Len(s) > 1
            /\ Blanks(Inner(s)) \/ IsMembers(Inner(s))

\* The escape at k: its backslash is not itself escaped.
LOCAL IsEscape(s, k) ==
  LET before == {n \in 0..(k - 1) : \A j \in (k - n)..(k - 1) : s[j] = BACKSLASH}
  IN  s[k] = BACKSLASH /\ Cardinality(before) % 2 = 1

\* Somewhere the first half of a pair is not followed by the second.
HasLoneHighSurrogate(s) ==
  \E k \in DOMAIN s :
    LET first == SubSeq(s, k, k + 5)
        second == SubSeq(s, k + 6, k + 11)
    IN  /\ k + 5 <= Len(s) /\ IsEscape(s, k)
        /\ IsHex(first) /\ IsHighSurrogate(CodeOf(first))
        /\ ~(k + 11 <= Len(s) /\ IsHex(second) /\ IsLowSurrogate(CodeOf(second)))
=============================================================================
