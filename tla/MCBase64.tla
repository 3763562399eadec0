------------------------------ MODULE MCBase64 ------------------------------
(***************************************************************************)
(* Small instances of Base64: lines of LineLength characters, all inputs   *)
(* of up to MaxSize bytes over two byte values.                            *)
(***************************************************************************)
EXTENDS Base64

CONSTANTS Bytes, MaxSize, MaxText

Symbols == {-1, 0, 42, 63}

MCData == UNION {[1..n -> Bytes] : n \in 0..MaxSize}

\* One input of each size, for lines as long as the code's.
MCLongData == {[i \in 1..n |-> i] : n \in 0..MaxSize}

MCTexts == UNION {[1..n -> Symbols] : n \in 0..MaxText}

\* The decoder alone, on texts no encoder wrote.
MCForeignInit ==
  /\ DecInit
  /\ data = << >> /\ in = 0 /\ wrap = LineLength /\ str = << >>
  /\ encoding = FALSE /\ outcome = "foreign"
MCForeign ==
  /\ outcome = "foreign"
  /\ DecNext
  /\ UNCHANGED <<evars, outcome>>

MCSpec ==
  /\ Init \/ MCForeignInit
  /\ [][MCForeign \/ (outcome # "foreign" /\ Next)]_vars
=============================================================================
