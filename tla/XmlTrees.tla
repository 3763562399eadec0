------------------------------ MODULE XmlTrees ------------------------------
(***************************************************************************)
(* The trees that documents stand for: the one that was printed and the    *)
(* one that is read.                                                       *)
(***************************************************************************)
EXTENDS XmlDocuments

\* The tree below a node, with its texts as they are in the buffer.
RECURSIVE Tree(_)
Tree(n) ==
  [i \in DOMAIN nodes[n].children |->
     LET c == nodes[n].children[i] IN
     IF nodes[c].kind = "element"
     THEN Element(Chars(nodes[c].value), Tree(c))
     ELSE [kind |-> nodes[c].kind, text |-> Chars(nodes[c].value)]]

\* What a tree that was printed is in a document: texts of white space alone are
\* lost.
RECURSIVE Kept(_)
Kept(list) ==
  LET lost(x) == x.kind = "text" /\ \A i \in DOMAIN x.text : IsWhiteSpace(x.text[i])
      kept == SelectSeq(list, LAMBDA x : ~lost(x))
  IN  [i \in DOMAIN kept |->
         CASE kept[i].kind = "element" ->
                Element(kept[i].name, Kept(kept[i].content))
           [] kept[i].kind = "text" -> Text(Escaped(kept[i].text))
           [] OTHER -> kept[i]]

\* Every document the library prints is accepted, and the tree that is read from
\* it, in any order, is the one that was printed: tags are sealed and matched
\* whatever comes next, and no text is taken for a tag (tinyxml2.cpp:2138-2245,
\* 857-936).
RoundTrip ==
  at = "parsed" /\ out # << >> =>
    /\ error = "NO_ERROR"
    /\ Tree(Document) = Kept(written[1])
=============================================================================
