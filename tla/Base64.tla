------------------------------- MODULE Base64 -------------------------------
(***************************************************************************)
(* A binary value on the wire: XmlWriter::WriteBinary encodes it (a        *)
(* release build, without the assert of util.cpp:155), and XmlReader finds *)
(* the text in the document and decodes it.                                *)
(***************************************************************************)
EXTENDS Base64Encoder, Base64Decoder

VARIABLE outcome  \* of the reader: "none" yet, "reading", a "value" or a "fault"

vars == <<evars, dvars, outcome>>

Init ==
  /\ EncInit
  /\ text = << >> /\ pos = 0 /\ bits = 0 /\ bitCount = 0
  /\ decoded = << >> /\ decoding = FALSE
  /\ outcome = "none"

Encode == EncNext /\ UNCHANGED <<dvars, outcome>>

\* c_str(): what PushText sees of a string ends at the first NUL.
CString(s) ==
  SubSeq(s, 1, CHOOSE n \in 0..Len(s) :
                 /\ \A i \in 1..n : s[i] # NUL
                 /\ n < Len(s) => s[n + 1] = NUL)

\* XML turns CR LF into LF, so the reader never sees a CR.
Normalised(s) == Without(s, {CR})

\* XmlReader::GetValue: an element without text is a fault.
Read ==
  /\ ~encoding
  /\ outcome = "none"
  /\ LET s == Normalised(CString(Encoded)) IN
       /\ text' = s
       /\ decoding' = (s # << >>)
       /\ outcome' = (IF s = << >> THEN "fault" ELSE "reading")
  /\ UNCHANGED <<evars, pos, bits, bitCount, decoded>>

Decode ==
  /\ DecNext
  /\ outcome' = (IF decoding' THEN outcome ELSE "value")
  /\ UNCHANGED evars

Next == Encode \/ Read \/ Decode
Spec == Init /\ [][Next]_vars

\* The types of both halves; at most one group of bits is pending.
TypeOK == EncTypeOK /\ DecTypeOK

\* The reader gets the bytes the writer was given, also when the encoder left
\* its string short; only an empty binary value cannot be read back
\* (xmlwriter.cpp:150-157, xmlreader.cpp:137-142).
RoundTrip ==
  /\ outcome = "value" => decoded = data
  /\ outcome = "fault" => data = << >>
=============================================================================
