----------------------------- MODULE JsonFormat -----------------------------
(***************************************************************************)
(* JSON documents as JsonWriter writes them and JsonReader reads them      *)
(* (src/jsonwriter.cpp, src/jsonreader.cpp, with request.cpp, response.cpp *)
(* and Value::Write, which drive the writer).                              *)
(***************************************************************************)
EXTENDS Values, TLC

CONSTANTS
  Doubles,                \* the doubles that are written
  StrtodNormalPrecision,  \* the double read from the digits written for each of them,
  MaxUlps                 \* and how far off it can be

ASSUME StrtodAssumption ==
  /\ MaxUlps \in Nat
  /\ Doubles \subseteq Int \X Int
  /\ StrtodNormalPrecision \in [Doubles -> Doubles]
  /\ \A x \in Doubles :
       LET y == StrtodNormalPrecision[x]
       IN  y[1] = x[1] /\ y[2] - x[2] \in -MaxUlps..MaxUlps

VERSION_2_0 == [json |-> "string", string |-> <<50, 46, 48>>]

JNull == [json |-> "null"]
JNumber(n) == [json |-> "number", number |-> n]
JString(t) == [json |-> "string", string |-> t]
JArray(s) == [json |-> "array", elements |-> s]
JObject(f) == [json |-> "object", members |-> f]

-----------------------------------------------------------------------------
(***************************************************************************)
(* Values.                                                                 *)
(***************************************************************************)

RECURSIVE WriteJson(_)
WriteJson(v) ==
  CASE v.type = "NIL" -> JNull
    [] v.type = "BOOLEAN" -> [json |-> "bool", bool |-> v.boolean]
    [] v.type \in {"INTEGER_32", "INTEGER_64"} -> JNumber(v.integer)
    [] v.type = "DOUBLE" -> [json |-> "double", double |-> v.double]
    [] v.type \in {"STRING", "BINARY"} -> JString(v.string)
    [] v.type = "DATE_TIME" -> JString(<<v.dateTime>>)
    [] v.type = "ARRAY" ->
         JArray([i \in DOMAIN v.array |-> WriteJson(v.array[i])])
    [] v.type = "STRUCT" ->
         JObject([n \in DOMAIN v.struct |-> WriteJson(v.struct[n])])

\* Variant: integers that do not fit in 32 bits are cut to them.
ReadNumberNarrow(n) == Integer32(Wrap32(n))

\* A number without a fraction: the first type it fits.
ReadNumber(n) ==
  IF n \in Int32Range THEN Integer32(n)
  ELSE IF n \in Int64Range THEN Integer64(n)
  ELSE Double(DoubleOf(n))

\* The document is parsed with the default flags, which promise no exact doubles.
ReadDouble(x) == Double(StrtodNormalPrecision[x])

\* JSON has no dates and no binaries: a string that looks like one is one.
ReadString(t) ==
  IF IsDate(CString(t)) THEN DateTime(DateOf(CString(t)))
  ELSE IF NUL \in ToSet(t) THEN Binary(t)
  ELSE String(t)

RECURSIVE ReadJson(_)
ReadJson(j) ==
  CASE j.json = "null" -> Nil
    [] j.json = "bool" -> Boolean(j.bool)
    [] j.json = "number" -> ReadNumber(j.number)
    [] j.json = "double" -> ReadDouble(j.double)
    [] j.json = "string" -> ReadString(j.string)
    [] j.json = "array" ->
         Array([i \in DOMAIN j.elements |-> ReadJson(j.elements[i])])
    [] j.json = "object" ->
         Struct([n \in DOMAIN j.members |-> ReadJson(j.members[n])])

-----------------------------------------------------------------------------
(***************************************************************************)
(* Messages.  An id that is neither a string, an integer nor nil is not    *)
(* written (false stands for the lack of one).                             *)
(***************************************************************************)

WriteId(id) ==
  IF id.type \in {"STRING", "INTEGER_32", "INTEGER_64", "NIL"}
  THEN "id" :> WriteJson(id)
  ELSE << >>

WriteJsonRequest(r) ==
  JObject(WriteId(r.id) @@ "jsonrpc" :> VERSION_2_0
          @@ "method" :> JString(r.method)
          @@ "params" :>
               JArray([i \in DOMAIN r.params |-> WriteJson(r.params[i])]))

WriteJsonResponse(r) ==
  JObject(WriteId(r.id) @@ "jsonrpc" :> VERSION_2_0
          @@ IF r.isFault
             THEN "error" :> JObject("code" :> JNumber(r.code)
                                     @@ "message" :> JString(r.string))
             ELSE "result" :> WriteJson(r.value))

\* Ids are strings, integers or null: Invalid for anything else.
GetId(j) ==
  CASE j.json = "string" -> String(CString(j.string))
    [] j.json = "number" /\ j.number \in Int32Range -> Integer32(j.number)
    [] j.json = "number" /\ j.number \in Int64Range \ Int32Range ->
         Integer64(j.number)
    [] j.json = "null" -> Nil
    [] OTHER -> Invalid

IsVersion2(doc) ==
  /\ doc.json = "object"
  /\ "jsonrpc" \in DOMAIN doc.members
  /\ doc.members["jsonrpc"] = VERSION_2_0

\* JsonReader::GetRequest.  A request without an id is a notification.
ReadJsonRequest(doc) ==
  IF /\ IsVersion2(doc)
     /\ "method" \in DOMAIN doc.members
     /\ doc.members["method"].json = "string"
     /\ "params" \in DOMAIN doc.members => doc.members["params"].json = "array"
     /\ "id" \in DOMAIN doc.members => GetId(doc.members["id"]) # Invalid
  THEN [type |-> "REQUEST", method |-> CString(doc.members["method"].string),
        params |-> IF "params" \in DOMAIN doc.members
                   THEN ReadJson(doc.members["params"]).array ELSE << >>,
        id |-> IF "id" \in DOMAIN doc.members THEN GetId(doc.members["id"])
                                              ELSE Boolean(FALSE)]
  ELSE Invalid

\* The error object of a fault response is well formed.
IsError(j) ==
  /\ j.json = "object"
  /\ "code" \in DOMAIN j.members
  /\ j.members["code"].json = "number"
  /\ j.members["code"].number \in Int32Range
  /\ "message" \in DOMAIN j.members
  /\ j.members["message"].json = "string"

\* JsonReader::GetResponse
ReadJsonResponse(doc) ==
  IF /\ IsVersion2(doc)
     /\ "id" \in DOMAIN doc.members
     /\ GetId(doc.members["id"]) # Invalid
     /\ ("result" \in DOMAIN doc.members) # ("error" \in DOMAIN doc.members)
     /\ "error" \in DOMAIN doc.members => IsError(doc.members["error"])
  THEN IF "error" \in DOMAIN doc.members
       THEN LET e == doc.members["error"].members
            IN  [type |-> "RESPONSE", isFault |-> TRUE,
                 code |-> e["code"].number, value |-> Nil,
                 string |-> CString(e["message"].string),
                 id |-> GetId(doc.members["id"])]
       ELSE [type |-> "RESPONSE", isFault |-> FALSE, code |-> 0,
             value |-> ReadJson(doc.members["result"]), string |-> << >>,
             id |-> GetId(doc.members["id"])]
  ELSE Invalid
=============================================================================
