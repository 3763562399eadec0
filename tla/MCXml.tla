------------------------------- MODULE MCXml -------------------------------
(***************************************************************************)
(* Small instances of XmlText and of XmlDocuments, side by side: a         *)
(* behaviour decodes one text or handles one document, and leaves the      *)
(* other's variables where they started.  Texts are pieces that mean       *)
(* something to GetStr, references cut short among them; documents are     *)
(* pieces of markup, most of them wrong.                                   *)
(***************************************************************************)
EXTENDS XmlText, XmlTrees

CONSTANTS
  MaxPieces, MaxPlain, MaxMarkup  \* bounds: pieces of a text, characters of a printed
                                  \* one, pieces of a document

VARIABLE scope  \* "text" or "document"

\* "&lt;", "&amp;", "&#65;", "&#xE9;", "&#x1000041;", "&#", "&", ";", "x", and white space
Pieces ==
  {<<AMP, 108, 116, SEMICOLON>>, <<AMP, 97, 109, 112, SEMICOLON>>,
   <<AMP, HASH, 54, 53, SEMICOLON>>, <<AMP, HASH, LOWER_X, 69, 57, SEMICOLON>>,
   <<AMP, HASH, LOWER_X, 49, 48, 48, 48, 48, 52, 49, SEMICOLON>>,
   <<AMP, HASH>>, <<AMP>>, <<SEMICOLON>>, <<LOWER_X>>, <<BLANK>>, <<CR>>, <<LF>>}

MCBefore == <<LOWER_X, NUL>>
MCAfter == <<LESS, SEMICOLON>>
MCTexts == {FlattenSeq(s) : s \in SeqOf(Pieces, MaxPieces)}
MCPlain == SeqOf({AMP, LESS, QUOTE, SEMICOLON, 108, CR, LF}, MaxPlain)
MCFlags ==
  {{}, {NEEDS_NEWLINE_NORMALIZATION}, TEXT_ELEMENT,
   TEXT_ELEMENT \cup {NEEDS_WHITESPACE_COLLAPSING}}
MCNoTexts == {}
MCUnsignedRange == 2^24

A == <<97>>
B == <<98>>
MCNames == {A, B}
MCTextsIn == {<< >>, <<BLANK>>, <<BLANK, LESS, 97>>}

\* "<a>", "</a>", "<b/>", "<b", " c='d'", "/>", ">", " b", "<!--", "-->", "<?d?>", "<!d>",
\* "<![CDATA[<]]>"
MCPieces ==
  {<<60, 97, 62>>, <<60, 47, 97, 62>>, <<60, 98, 47, 62>>, <<60, 98>>,
   <<32, 99, 61, 39, 100, 39>>, <<47, 62>>, <<62>>, <<32, 98>>, <<60, 33, 45, 45>>,
   <<45, 45, 62>>, <<60, 63, 100, 63, 62>>, <<60, 33, 100, 62>>,
   <<60, 33, 91, 67, 68, 65, 84, 65, 91, 60, 93, 93, 62>>}
MCForeign == {FlattenSeq(s) : s \in SeqOf(MCPieces, MaxMarkup)}

NoText ==
  /\ body = << >> /\ plain = {} /\ flags = {}
  /\ mem = Before \o After
  /\ first = start /\ r = start /\ w = start
  /\ stage = "parsed"

MCInit ==
  /\ Init
  /\ \/ scope = "text" /\ TextInit
     \/ scope = "document" /\ NoText

MCNext ==
  /\ UNCHANGED scope
  /\ \/ scope = "text" /\ TextNext /\ UNCHANGED vars
     \/ scope = "document" /\ Next /\ UNCHANGED textVars

MCSpec ==
  /\ MCInit
  /\ [][MCNext]_<<textVars, vars, scope>>
  /\ WF_vars(scope = "document" /\ ParseOn)
=============================================================================
