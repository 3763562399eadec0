----------------------------- MODULE XmlPrinter -----------------------------
(***************************************************************************)
(* XMLPrinter (src/3pp/tinyxml2/tinyxml2.cpp) as XmlWriter calls it: a     *)
(* declaration, then elements that hold a text or elements, without        *)
(* layout.  An open tag is sealed by whatever comes next.                  *)
(***************************************************************************)
EXTENDS XmlChars, FiniteSets

CONSTANTS
  Names,       \* the tags of elements
  TextsIn,     \* what is written in them
  MaxElements  \* bound on their number

VARIABLES
  out,          \* _buffer
  stack,        \* _stack
  justOpened,   \* _elementJustOpened
  written       \* what was asked for: a list of what is in each open element

printerVars == <<out, stack, justOpened, written>>

Element(name, content) == [kind |-> "element", name |-> name, content |-> content]
Text(t) == [kind |-> "text", text |-> t]
Declaration(t) == [kind |-> "declaration", text |-> t]

\* "xml"
XML == <<120, 109, 108>>

PrinterInit ==
  /\ out = << >>
  /\ stack = << >>
  /\ justOpened = FALSE
  /\ written = << << >> >>

\* Variant: there is always a tag to be sealed.
SealedAlways == Append(out, GREATER)

\* SealElementIfJustOpened
Sealed == IF justOpened THEN Append(out, GREATER) ELSE out

AddTo(lists, x) == Append(Front(lists), Append(Last(lists), x))

\* How many elements were opened.
Opened == Cardinality({i \in 1..(Len(out) - 1) :
                         out[i] = LESS /\ IsNameStartChar(out[i + 1])})

PushDeclaration ==
  /\ out = << >>
  /\ out' = Sealed \o <<LESS, 63>> \o XML \o <<63, GREATER>>
  /\ justOpened' = FALSE
  /\ written' = AddTo(written, Declaration(XML))
  /\ UNCHANGED stack

IsText(list) == list # << >> /\ Last(list).kind = "text"

\* One root; a text is the only child of its element.
OpenElement(name) ==
  /\ Opened < MaxElements
  /\ IF stack = << >> THEN Len(written[1]) = 1 ELSE ~IsText(Last(written))
  /\ out' = Sealed \o <<LESS>> \o name
  /\ stack' = Append(stack, name)
  /\ justOpened' = TRUE
  /\ written' = Append(written, << >>)

PushText(t) ==
  /\ stack # << >>
  /\ Last(written) = << >>
  /\ out' = Sealed \o Escaped(t)
  /\ justOpened' = FALSE
  /\ written' = AddTo(written, Text(t))
  /\ UNCHANGED stack

CloseElement ==
  /\ stack # << >>
  /\ out' = out \o (IF justOpened
                    THEN <<SLASH, GREATER>>
                    ELSE <<LESS, SLASH>> \o Last(stack) \o <<GREATER>>)
  /\ stack' = Front(stack)
  /\ justOpened' = FALSE
  /\ written' = AddTo(Front(written), Element(Last(stack), Last(written)))

PrinterNext ==
  \/ PushDeclaration
  \/ \E name \in Names : OpenElement(name)
  \/ \E t \in TextsIn : PushText(t)
  \/ CloseElement

\* A whole document: everything that was opened is closed.
Printed == stack = << >> /\ Len(written[1]) = 2
=============================================================================
