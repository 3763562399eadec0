----------------------------- MODULE XmlFormat -----------------------------
(***************************************************************************)
(* XML documents as XmlWriter writes them and XmlReader reads them         *)
(* (src/xmlwriter.cpp, src/xmlreader.cpp).  A <value> element is the typed *)
(* element in it: its tag and its content.  Numbers and dates are printed  *)
(* and scanned without loss; base64 is the subject of module Base64.       *)
(***************************************************************************)
EXTENDS Values, TLC

Element(tag, content) == [tag |-> tag, content |-> content]

\* Variant: only CR LF becomes LF.
NewlinePairs(acc, ch) ==
  [text |-> IF acc.last = CR /\ ch = LF THEN Append(Front(acc.text), LF)
                                         ELSE Append(acc.text, ch),
   last |-> ch]

\* What tinyxml2 makes of a text between two tags: CR, CR LF and LF CR become
\* LF, and white space on its own is no text at all.
Newline(acc, ch) ==
  IF ch \notin {CR, LF}
  THEN [text |-> Append(acc.text, ch), last |-> NUL]
  ELSE IF acc.last \in {CR, LF} /\ acc.last # ch
  THEN [text |-> acc.text, last |-> NUL]
  ELSE [text |-> Append(acc.text, LF), last |-> ch]

IsWhiteSpace(t) == ToSet(t) \subseteq {BLANK, LF, CR}

\* Variant: white space at the start is dropped.
ParsedTrimmed(t) == IF t # << >> /\ t[1] = BLANK THEN Tail(t) ELSE t

Parsed(t) ==
  IF IsWhiteSpace(t) THEN << >>
  ELSE FoldLeft(Newline, [text |-> << >>, last |-> NUL], t).text

-----------------------------------------------------------------------------
(***************************************************************************)
(* Values.                                                                 *)
(***************************************************************************)

RECURSIVE WriteXml(_)
WriteXml(v) ==
  CASE v.type = "NIL" -> Element("nil", << >>)
    [] v.type = "BOOLEAN" -> Element("boolean", v.boolean)
    [] v.type = "INTEGER_32" -> Element("i4", v.integer)
    [] v.type = "INTEGER_64" -> Element("i8", v.integer)
    [] v.type = "DOUBLE" -> Element("double", v.double)
    [] v.type = "DATE_TIME" -> Element("dateTime.iso8601", v.dateTime)
    [] v.type = "BINARY" -> Element("base64", v.string)
    [] v.type = "STRING" -> Element("string", CString(v.string))
    [] v.type = "ARRAY" ->
         Element("array", [i \in DOMAIN v.array |-> WriteXml(v.array[i])])
    [] v.type = "STRUCT" ->
         LET e == Elements(v.struct)
         IN  Element("struct",
                     [i \in DOMAIN e |-> [name |-> CString(e[i].name),
                                          value |-> WriteXml(e[i].value)]])

\* std::map::emplace keeps the first of several members with one name.
Emplace(s) ==
  [n \in {s[i].name : i \in DOMAIN s} |->
     s[CHOOSE i \in DOMAIN s :
         /\ s[i].name = n
         /\ \A j \in DOMAIN s : s[j].name = n => i <= j].value]

\* An empty binary and an empty name are refused, and so is all around them.
RECURSIVE ReadXml(_)
ReadXml(e) ==
  CASE e.tag = "nil" -> Nil
    [] e.tag = "boolean" -> Boolean(e.content)
    [] e.tag \in {"i4", "int"} -> Integer32(e.content)
    [] e.tag = "i8" -> Integer64(e.content)
    [] e.tag = "double" -> Double(e.content)
    [] e.tag = "dateTime.iso8601" -> DateTime(e.content)
    [] e.tag = "base64" -> IF e.content = << >> THEN Invalid
                                                ELSE Binary(e.content)
    [] e.tag = "string" -> String(Parsed(e.content))
    [] e.tag = "array" ->
         LET s == [i \in DOMAIN e.content |-> ReadXml(e.content[i])]
         IN  IF Invalid \in ToSet(s) THEN Invalid ELSE Array(s)
    [] e.tag = "struct" ->
         LET s == [i \in DOMAIN e.content |->
                     [name |-> Parsed(e.content[i].name),
                      value |-> ReadXml(e.content[i].value)]]
         IN  IF \E i \in DOMAIN s : s[i].name = << >> \/ s[i].value = Invalid
             THEN Invalid
             ELSE Struct(Emplace(s))

-----------------------------------------------------------------------------
(***************************************************************************)
(* Messages.  XML-RPC has no ids: readers put false in their place.        *)
(***************************************************************************)

FAULT_CODE_NAME == <<102, 67>>
FAULT_STRING_NAME == <<102, 83>>

WriteXmlRequest(r) ==
  [root |-> "methodCall", methodName |-> CString(r.method),
   params |-> [i \in DOMAIN r.params |-> WriteXml(r.params[i])]]

WriteXmlResponse(r) ==
  IF r.isFault
  THEN [root |-> "methodResponse", body |-> "fault",
        value |-> WriteXml(Struct(FAULT_CODE_NAME :> Integer32(r.code)
                                  @@ FAULT_STRING_NAME :> String(r.string)))]
  ELSE [root |-> "methodResponse", body |-> "params",
        value |-> WriteXml(r.value)]

\* XmlReader::GetRequest
ReadXmlRequest(doc) ==
  LET params == ReadXml(Element("array", doc.params))
  IN  IF Parsed(doc.methodName) = << >> \/ params = Invalid
      THEN Invalid
      ELSE [type |-> "REQUEST", method |-> Parsed(doc.methodName),
            params |-> params.array, id |-> Boolean(FALSE)]

\* XmlReader::GetResponse
ReadXmlResponse(doc) ==
  LET result == ReadXml(doc.value)
  IN  IF result = Invalid
      THEN Invalid
      ELSE IF doc.body = "params"
      THEN [type |-> "RESPONSE", isFault |-> FALSE, code |-> 0,
            value |-> result, string |-> << >>, id |-> Boolean(FALSE)]
      ELSE IF /\ result.type = "STRUCT"
              /\ {FAULT_CODE_NAME, FAULT_STRING_NAME} \subseteq DOMAIN result.struct
              /\ result.struct[FAULT_CODE_NAME].type = "INTEGER_32"
              /\ result.struct[FAULT_STRING_NAME].type = "STRING"
      THEN [type |-> "RESPONSE", isFault |-> TRUE,
            code |-> result.struct[FAULT_CODE_NAME].integer, value |-> Nil,
            string |-> result.struct[FAULT_STRING_NAME].string,
            id |-> Boolean(FALSE)]
      ELSE Invalid
=============================================================================
