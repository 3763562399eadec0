----------------------------- MODULE XmlParser -----------------------------
(***************************************************************************)
(* XMLDocument::Parse (src/3pp/tinyxml2/tinyxml2.cpp).  One pass builds    *)
(* the nodes, which keep their names and texts as places in the document's *)
(* buffer: ended with a NUL only when somebody asks for them, the parser   *)
(* itself among others.  Closing tags are parsed as elements, handed to    *)
(* the parent and thrown away; an error unwinds through every open element *)
(* and must leave no node behind in the memory pools.                      *)
(***************************************************************************)
EXTENDS XmlChars, FiniteSets

VARIABLES
  text,       \* the document
  buf,        \* _charBuffer
  p,          \* how far the parser is; 0 is the null pointer
  at,         \* what it does next
  frames,     \* the calls of XMLNode::ParseDeep, the innermost last
  nodes,      \* the nodes that are allocated, by address
  current,    \* _currentAllocs of each pool
  untracked,  \* _nUntracked
  error       \* _errorID

parserVars == <<text, buf, p, at, frames, nodes, current, untracked, error>>

Pools == {"element", "attribute", "text", "comment"}
PoolOf(kind) ==
  CASE kind = "element" -> "element"
    [] kind \in {"text", "cdata"} -> "text"
    [] OTHER -> "comment"

\* A StrPair that is set to a place in the buffer.
Span(first, end) == [first |-> first, end |-> end]
Empty == Span(0, 0)
Chars(span) == SubSeq(buf, span.first, span.end - 1)

Node(kind) ==
  [kind |-> kind, value |-> Empty, closing |-> "OPEN", attributes |-> << >>,
   children |-> << >>]
Document == 0
None == -1

\* The document's children are parsed into frame 1, an element's into the next.
Frame(self) == [self |-> self, child |-> None, endTag |-> Empty]
Top == Last(frames)
Child == nodes[Top.child]
SetTop(f) == frames' = Append(Front(frames), f)
SetChild(node) == nodes' = [nodes EXCEPT ![Top.child] = node]

ParserInit ==
  /\ text = << >>
  /\ buf = <<NUL>>
  /\ p = 0
  /\ at = "new"
  /\ frames = << >>
  /\ nodes = [n \in {Document} |-> Node("document")]
  /\ current = [pool \in Pools |-> 0]
  /\ untracked = [pool \in Pools |-> 0]
  /\ error = "NO_ERROR"

NotWhiteSpace == {ch \in Char : ~IsWhiteSpace(ch)}
SkipWhiteSpace(i) == Find(buf, i, NotWhiteSpace)

\* The end of the name that starts at i.
NotNameChar == {ch \in Char : ~IsNameChar(ch)}
NameEnd(i) == Find(buf, i, NotNameChar)

\* Variant: one character too late.
GetStrLate(spans) ==
  buf' = [i \in DOMAIN buf |-> IF \E s \in spans : i = s.end + 1 THEN NUL ELSE buf[i]]

\* GetStr ends the texts with NULs.
GetStr(spans) ==
  buf' = [i \in DOMAIN buf |-> IF \E s \in spans : i = s.end THEN NUL ELSE buf[i]]

BOM == <<239, 187, 191>>

\* Variant: one byte more than the document needs.
BufferTooLong(document) == document \o <<NUL, NUL>>

Buffer(document) == Append(document, NUL)

Parse(document) ==
  /\ at = "new"
  /\ text' = document
  /\ buf' = Buffer(document)
  /\ LET start == Find(buf', 1, NotWhiteSpace)
         first == IF Matches(buf', start, BOM) THEN start + Len(BOM) ELSE start
     IN  IF buf'[first] = NUL
         THEN /\ error' = "EMPTY_DOCUMENT"
              /\ at' = "returned"
              /\ UNCHANGED <<p, frames>>
         ELSE /\ p' = first
              /\ frames' = <<Frame(Document)>>
              /\ at' = "loop"
              /\ UNCHANGED error
  /\ UNCHANGED <<nodes, current, untracked>>

-----------------------------------------------------------------------------
(***************************************************************************)
(* XMLNode::ParseDeep, the loop over the children.                         *)
(***************************************************************************)

Return(next, endTag) ==
  /\ p' = next
  /\ IF Len(frames) = 1
     THEN frames' = << >> /\ at' = "returned"
     ELSE LET caller == frames[Len(frames) - 1]
          IN  /\ frames' = Append(Front(Front(frames)),
                                  [caller EXCEPT !.endTag = endTag])
              /\ at' = "result"

LoopEnds ==
  /\ at = "loop"
  /\ buf[SkipWhiteSpace(p)] = NUL
  /\ Return(0, Empty)
  /\ UNCHANGED <<text, buf, nodes, current, untracked, error>>

\* "<?", "<!--", "<![CDATA[", "<!", "<"
Headers ==
  <<[header |-> <<60, 63>>, kind |-> "declaration"],
    [header |-> <<60, 33, 45, 45>>, kind |-> "comment"],
    [header |-> <<60, 33, 91, 67, 68, 65, 84, 65, 91>>, kind |-> "cdata"],
    [header |-> <<60, 33>>, kind |-> "unknown"],
    [header |-> <<60>>, kind |-> "element"]>>

Alloc(pool) ==
  /\ current' = [current EXCEPT ![pool] = @ + 1]
  /\ untracked' = [untracked EXCEPT ![pool] = @ + 1]

FreeAddress == CHOOSE n \in 1..Cardinality(DOMAIN nodes) : n \notin DOMAIN nodes

\* The first header that fits; anything else is a text, with the white space
\* before it.
Identify ==
  /\ at = "loop"
  /\ LET start == SkipWhiteSpace(p)
         fits == {i \in DOMAIN Headers : Matches(buf, start, Headers[i].header)}
         h == Headers[CHOOSE i \in fits : \A j \in fits : i <= j]
         kind == IF fits = {} THEN "text" ELSE h.kind
     IN  /\ buf[start] # NUL
         /\ nodes' = [n \in DOMAIN nodes \cup {FreeAddress} |->
                        IF n = FreeAddress THEN Node(kind) ELSE nodes[n]]
         /\ Alloc(PoolOf(kind))
         /\ p' = (IF fits = {} THEN p ELSE start + Len(h.header))
         /\ at' = (IF kind = "element" THEN "name" ELSE "leaf")
  /\ SetTop([Top EXCEPT !.child = FreeAddress, !.endTag = Empty])
  /\ UNCHANGED <<text, buf, error>>

\* DeleteNode: a node, its attributes and all below it.
Inside(n) ==
  LET below[m \in DOMAIN nodes] ==
        {m} \cup UNION {below[c] : c \in ToSet(nodes[m].children)}
  IN  below[n]

Count(S, pool) ==
  IF pool = "attribute"
  THEN Cardinality(UNION {{n} \X DOMAIN nodes[n].attributes : n \in S})
  ELSE Cardinality({n \in S : PoolOf(nodes[n].kind) = pool})

\* Variant: what is below the node stays.
DeleteNodeOnly(n) ==
  /\ nodes' = [m \in DOMAIN nodes \ {n} |-> nodes[m]]
  /\ current' = [pool \in Pools |-> current[pool] - Count({n}, pool)]

DeleteNode(n) ==
  /\ nodes' = [m \in DOMAIN nodes \ Inside(n) |-> nodes[m]]
  /\ current' = [pool \in Pools |-> current[pool] - Count(Inside(n), pool)]

ChildFails ==
  /\ at = "result"
  /\ p = 0
  /\ DeleteNode(Top.child)
  /\ error' = (IF error = "NO_ERROR" THEN "PARSING" ELSE error)
  /\ Return(0, Empty)
  /\ UNCHANGED <<text, buf, untracked>>

\* The document's children, also when the declaration is inside an element.
LateDeclaration ==
  Child.kind = "declaration" /\ nodes[Document].children # << >>

DeclarationFails ==
  /\ at = "result"
  /\ p # 0
  /\ LateDeclaration
  /\ error' = "PARSING_DECLARATION"
  /\ GetStr({Child.value})
  /\ DeleteNode(Top.child)
  /\ Return(0, Empty)
  /\ UNCHANGED <<text, untracked>>

SetTracked(pool) == untracked' = [untracked EXCEPT ![pool] = @ - 1]

IsClosing == Child.kind = "element" /\ Child.closing = "CLOSING"

\* A closing tag ends this loop.  With no element open the name goes nowhere.
ClosingTag ==
  /\ at = "result"
  /\ p # 0
  /\ IsClosing
  /\ SetTracked("element")
  /\ DeleteNode(Top.child)
  /\ Return(p, Child.value)
  /\ UNCHANGED <<text, buf, error>>

Mismatch ==
  /\ Child.kind = "element"
  /\ IF Top.endTag = Empty THEN Child.closing = "OPEN"
     ELSE Child.closing # "OPEN" \/ Chars(Top.endTag) # Chars(Child.value)

MismatchFails ==
  /\ at = "result"
  /\ p # 0
  /\ ~IsClosing
  /\ Mismatch
  /\ error' = "MISMATCHED_ELEMENT"
  /\ GetStr({Child.value} \cup ({Top.endTag} \ {Empty}))
  /\ DeleteNode(Top.child)
  /\ Return(0, Empty)
  /\ UNCHANGED <<text, untracked>>

InsertEndChild ==
  /\ at = "result"
  /\ p # 0
  /\ ~LateDeclaration
  /\ ~IsClosing
  /\ ~Mismatch
  /\ GetStr(IF Top.endTag = Empty THEN {} ELSE {Top.endTag, Child.value})
  /\ nodes' = [nodes EXCEPT ![Top.self].children = Append(@, Top.child)]
  /\ SetTracked(PoolOf(Child.kind))
  /\ SetTop([Top EXCEPT !.child = None])
  /\ at' = "loop"
  /\ UNCHANGED <<text, p, current, error>>

-----------------------------------------------------------------------------
(***************************************************************************)
(* ParseDeep of the other nodes.                                           *)
(***************************************************************************)

\* "?>", "-->", "]]>", ">", "<"
EndTag(kind) ==
  CASE kind = "declaration" -> <<63, 62>>
    [] kind = "comment" -> <<45, 45, 62>>
    [] kind = "cdata" -> <<93, 93, 62>>
    [] kind = "unknown" -> <<62>>
    [] kind = "text" -> <<60>>

ErrorOf(kind) ==
  CASE kind = "declaration" -> "PARSING_DECLARATION"
    [] kind = "comment" -> "PARSING_COMMENT"
    [] kind = "cdata" -> "PARSING_CDATA"
    [] kind = "unknown" -> "PARSING_UNKNOWN"
    [] kind = "text" -> "PARSING_TEXT"

\* Where ParseText finds an end tag before the end of the buffer, if it does.
EndTagAt(tag) ==
  LET last == Find(buf, p, {NUL})
      found == {i \in p..last : Matches(buf, i, tag)}
  IN  {i \in found : \A j \in found : i <= j}

\* A text goes up to the next tag, which stays to be parsed; one that ends with
\* the document is an error that has no name yet.
ParseLeaf ==
  /\ at = "leaf"
  /\ LET tag == EndTag(Child.kind) IN
     \/ /\ EndTagAt(tag) = {}
        /\ error' = ErrorOf(Child.kind)
        /\ p' = 0
        /\ UNCHANGED nodes
     \/ \E i \in EndTagAt(tag) :
        /\ SetChild([Child EXCEPT !.value = Span(p, i)])
        /\ p' = (IF Child.kind # "text" THEN i + Len(tag)
                 ELSE IF buf[i + 1] # NUL THEN i ELSE 0)
        /\ UNCHANGED error
  /\ at' = "result"
  /\ UNCHANGED <<text, buf, frames, current, untracked>>

ParseName ==
  /\ at = "name"
  /\ LET s == SkipWhiteSpace(p)
         first == IF buf[s] = SLASH THEN s + 1 ELSE s
     IN  IF ~IsNameStartChar(buf[first])
         THEN p' = 0 /\ at' = "result" /\ UNCHANGED nodes
         ELSE /\ p' = NameEnd(first)
              /\ at' = "attributes"
              /\ SetChild([Child EXCEPT
                   !.value = Span(first, NameEnd(first)),
                   !.closing = IF buf[s] = SLASH THEN "CLOSING" ELSE @])
  /\ UNCHANGED <<text, buf, frames, current, untracked, error>>

\* The attribute at s, if XMLAttribute::ParseDeep takes it.
AttributeAt(s) ==
  LET equals == SkipWhiteSpace(NameEnd(s))
      quote == SkipWhiteSpace(equals + 1)
      close == Find(buf, quote + 1, {buf[quote], NUL})
  IN  IF \/ buf[equals] # EQUALS
         \/ buf[quote] \notin {QUOTE, APOS}
         \/ buf[close] = NUL
      THEN {}
      ELSE {[name |-> Span(s, NameEnd(s)), value |-> Span(quote + 1, close)]}

NamesOf(node) == {node.attributes[i].name : i \in DOMAIN node.attributes}

\* Attribute(attrib->Name()) asks for the name.
AddAttribute ==
  /\ at = "attributes"
  /\ LET s == SkipWhiteSpace(p) IN
     /\ IsNameStartChar(buf[s])
     /\ \E a \in AttributeAt(s) :
          /\ Chars(a.name) \notin {Chars(n) : n \in NamesOf(Child)}
          /\ GetStr({a.name})
          /\ SetChild([Child EXCEPT !.attributes = Append(@, a)])
          /\ p' = a.value.end + 1
  /\ current' = [current EXCEPT !["attribute"] = @ + 1]
  /\ UNCHANGED <<text, at, frames, untracked, error>>

AttributeError(name) ==
  /\ error' = name
  /\ p' = 0
  /\ at' = "result"
  /\ UNCHANGED <<text, frames, nodes, current, untracked>>

\* The value of the first one is what Attribute returns.
DuplicateAttribute ==
  /\ at = "attributes"
  /\ LET s == SkipWhiteSpace(p) IN
     /\ IsNameStartChar(buf[s])
     /\ \E a \in AttributeAt(s) : \E i \in DOMAIN Child.attributes :
          /\ Chars(a.name) = Chars(Child.attributes[i].name)
          /\ GetStr({a.name, Child.attributes[i].value})
  /\ AttributeError("PARSING_ATTRIBUTE")

AttributeFails ==
  /\ at = "attributes"
  /\ LET s == SkipWhiteSpace(p)
     IN  IsNameStartChar(buf[s]) /\ AttributeAt(s) = {}
  /\ AttributeError("PARSING_ATTRIBUTE")
  /\ UNCHANGED buf

\* Variant: only the end of the document is an error.
NothingFollows(s) == buf[s] = NUL

\* Neither an attribute nor the end of the tag.
BadTag(s) ==
  /\ ~IsNameStartChar(buf[s])
  /\ buf[s] # GREATER
  /\ ~Matches(buf, s, <<SLASH, GREATER>>)

OpenTagFails ==
  /\ at = "attributes"
  /\ LET s == SkipWhiteSpace(p) IN
     /\ BadTag(s)
     /\ GetStr(IF buf[s] = NUL THEN {Child.value} ELSE {})
  /\ AttributeError("PARSING_ELEMENT")

\* ">": the children follow, unless this is a closing tag or the end.
OpenTagEnds ==
  /\ at = "attributes"
  /\ LET s == SkipWhiteSpace(p) IN
     /\ buf[s] = GREATER
     /\ p' = s + 1
     /\ IF buf[s + 1] = NUL \/ Child.closing = "CLOSING"
        THEN at' = "result" /\ UNCHANGED frames
        ELSE at' = "loop" /\ frames' = Append(frames, Frame(Top.child))
  /\ UNCHANGED <<text, buf, nodes, current, untracked, error>>

\* "/>": an empty element, also when it began with a slash.
EmptyTagEnds ==
  /\ at = "attributes"
  /\ LET s == SkipWhiteSpace(p) IN
     /\ Matches(buf, s, <<SLASH, GREATER>>)
     /\ p' = s + 2
  /\ SetChild([Child EXCEPT !.closing = "CLOSED"])
  /\ at' = "result"
  /\ UNCHANGED <<text, buf, frames, current, untracked, error>>

\* After an error XMLDocument::Parse deletes what there is and clears the pools.
CleanUp ==
  /\ at = "returned"
  /\ IF error = "NO_ERROR"
     THEN UNCHANGED <<nodes, current, untracked>>
     ELSE /\ nodes' = [n \in {Document} |-> Node("document")]
          /\ current' = [pool \in Pools |-> 0]
          /\ untracked' = [pool \in Pools |-> 0]
  /\ at' = "parsed"
  /\ UNCHANGED <<text, buf, p, frames, error>>

\* What the readers ask for once there is a tree: names and values, in any order.
SpansOf(node) ==
  ({node.value} \cup NamesOf(node)
   \cup {node.attributes[i].value : i \in DOMAIN node.attributes}) \ {Empty}

Read ==
  /\ at = "parsed"
  /\ \E n \in DOMAIN nodes : \E s \in SpansOf(nodes[n]) : GetStr({s})
  /\ UNCHANGED <<text, p, at, frames, nodes, current, untracked, error>>

ParserNext ==
  \/ LoopEnds \/ Identify \/ ChildFails \/ DeclarationFails \/ ClosingTag
  \/ MismatchFails \/ InsertEndChild \/ ParseLeaf \/ ParseName \/ AddAttribute
  \/ DuplicateAttribute \/ AttributeFails \/ OpenTagFails \/ OpenTagEnds
  \/ EmptyTagEnds \/ CleanUp

-----------------------------------------------------------------------------
(***************************************************************************)
(* Properties.                                                             *)
(***************************************************************************)

Spans == UNION {SpansOf(nodes[n]) : n \in DOMAIN nodes}

\* No NUL is ever written over a character that the parser has still to read,
\* nor over one of a name or value of the tree, whichever of them are asked for
\* first (tinyxml2.cpp:187-191, 857-936, 1517-1572).
Unspoilt ==
  /\ p # 0 => \A i \in p..Len(text) : buf[i] = text[i]
  /\ \A s \in Spans : \A i \in s.first..(s.end - 1) : buf[i] = text[i]

\* The nodes that can be reached: from the document or from a call.
Reachable ==
  Inside(Document) \cup UNION {Inside(frames[i].child) :
                                 i \in {j \in DOMAIN frames : frames[j].child # None}}

\* No node is left in the pools without an owner, whichever way an error
\* unwinds, and a document that was parsed without one has no object left that
\* was allocated and never used (the assertions of Clear, tinyxml2.cpp:1738-1745).
\* So Parse no longer does what a comment says of it, that a failure "can put
\* objects in the pools that are dead and inaccessible" (tinyxml2.cpp:1931-1932).
NothingLost ==
  /\ DOMAIN nodes = Reachable
  /\ \A pool \in Pools : current[pool] = Count(DOMAIN nodes \ {Document}, pool)
  /\ at = "parsed" => \A pool \in Pools : untracked[pool] = 0

\* A declaration is the first child of the document, or the document is refused
\* ("A declaration can only be the first child of a document",
\* tinyxml2.cpp:896).
DeclarationFirst ==
  at = "parsed" => \A n \in DOMAIN nodes : nodes[n].kind = "declaration" =>
    nodes[Document].children # << >> /\ nodes[Document].children[1] = n

\* The types of the variables.
ParserTypeOK ==
  /\ text \in Seq(Char)
  /\ buf \in Seq(Char) /\ Len(buf) = Len(text) + 1
  /\ p \in 0..Len(buf)
  /\ at \in {"new", "loop", "name", "attributes", "leaf", "result", "returned",
             "parsed"}
  /\ \A i \in DOMAIN frames : frames[i].self \in DOMAIN nodes
                              /\ frames[i].child \in DOMAIN nodes \cup {None}
  /\ Document \in DOMAIN nodes
=============================================================================
