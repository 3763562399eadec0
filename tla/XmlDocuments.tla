---------------------------- MODULE XmlDocuments ----------------------------
(***************************************************************************)
(* A document on its way: printed by XMLPrinter, or written by somebody    *)
(* else, then parsed, then read.                                           *)
(***************************************************************************)
EXTENDS XmlPrinter, XmlParser

CONSTANT Foreign  \* documents that XMLPrinter did not write

\* They are sequences of characters, and so is what is printed.
ASSUME DocumentsAssumption ==
  Foreign \subseteq Seq(Char) /\ Names \subseteq Seq(Char) /\ TextsIn \subseteq Seq(Char)

vars == <<printerVars, parserVars>>

Init == PrinterInit /\ ParserInit

PrintOn == at = "new" /\ PrinterNext /\ UNCHANGED parserVars

ParsePrinted == Printed /\ Parse(out) /\ UNCHANGED printerVars

ParseForeign ==
  /\ at = "new" /\ out = << >>
  /\ \E document \in Foreign : Parse(document)
  /\ UNCHANGED printerVars

ParseOn == ParserNext /\ UNCHANGED printerVars

ReadOn == Read /\ UNCHANGED printerVars

Next == PrintOn \/ ParsePrinted \/ ParseForeign \/ ParseOn \/ ReadOn

Spec == Init /\ [][Next]_vars

\* Parse runs to its end in one call.
FairSpec == Spec /\ WF_vars(ParseOn)

-----------------------------------------------------------------------------
\* Parse comes to an end on every document.
Terminates == at = "loop" ~> at = "parsed"
=============================================================================
