--------------------------- MODULE JsonDocuments ---------------------------
(***************************************************************************)
(* A document on its way: written by the Writer, or by somebody else (the  *)
(* Texts), then parsed.                                                    *)
(***************************************************************************)
EXTENDS JsonPrinter, JsonParser

\* A name is a std::string; a value is what Value::Write gives a Writer: null, a
\* bool, an integer of a width the reader has, or a string.
ASSUME WrittenValuesAssumption ==
  /\ \A name \in Names : name \in Seq(0..255)
  /\ \A v \in Scalars :
       \/ v = JNull
       \/ v = JBool(TRUE) \/ v = JBool(FALSE)
       \/ v.json = "number" /\ v = JNumber(v.number) /\ v.number \in -Int64..(Int64 - 1)
       \/ v.json = "string" /\ v = JString(v.string) /\ v.string \in Seq(0..255)

documentVars == <<printerVars, vars, parserVars>>

DocumentInit == PrinterInit /\ ParserInit

PrintOn == at = "new" /\ PrinterNext /\ UNCHANGED <<vars, parserVars>>

ParsePrinted == Complete /\ Parse(Append(out, NUL)) /\ UNCHANGED printerVars

ParseForeign ==
  /\ at = "new" /\ out = << >>
  /\ \E document \in Texts : Parse(document)
  /\ UNCHANGED printerVars

ParseOn == ParserNext /\ UNCHANGED printerVars

DocumentNext == PrintOn \/ ParsePrinted \/ ParseForeign \/ ParseOn

DocumentSpec == DocumentInit /\ [][DocumentNext]_documentVars

\* Parse runs to its end in one call.
FairSpec == DocumentSpec /\ WF_documentVars(ParseOn)

-----------------------------------------------------------------------------
\* Every document the library writes is accepted, and what is read from it is
\* what was written: commas, colons and ends match at every depth, no byte of a
\* string ends it or is changed, and no integer turns into another.  Doubles are
\* left out: the reader promises only one near the one written
\* (writer.h:103-136, 214-322; reader.h:467-985; document.h:1942-1974).
RoundTrip == at = "done" /\ out # << >> => error = "NO_ERROR" /\ root = written[1][1]

\* Parse comes to an end on every document.
Terminates == at = "value" ~> at = "done"
=============================================================================
