---------------------------- MODULE XmlParserProofs ----------------------------
(***************************************************************************)
(* XMLDocument::Parse, for every document: whatever happens to the nodes   *)
(* and to the buffer they share, none is lost and none of it is spoilt.    *)
(*                                                                         *)
(* Nodes get their addresses in the order they are made, and the nodes in  *)
(* the hands of the calls form a path in a tree whose edges go up: what is *)
(* below the innermost one is all that came after it, so that deleting it  *)
(* leaves the tree of the calls that are left (IsTree).  The places that   *)
(* are kept in the buffer are apart, with room for a NUL after each, and   *)
(* lie before the parser (Laid).                                           *)
(***************************************************************************)
EXTENDS XmlDocuments, SequenceTheorems, FiniteSetTheorems, WellFoundedInduction, TLAPS

\* Every set of natural numbers that is not empty has a least one.
LEMMA LeastNat ==
  ASSUME NEW T \in SUBSET Nat, T # {}
  PROVE  \E k \in T : \A j \in T : k <= j
<1> DEFINE R == OpToRel(<, Nat)
<1>1. IsWellFoundedOn(R, Nat)
  BY ONLY NatLessThanWellFounded, Zenon
<1>2. R = {ss \in Nat \X Nat : ss[1] < ss[2]}
  BY ONLY Zenon DEF OpToRel
<1> HIDE DEF R
<1>3. PICK k \in T : \A j \in T : <<j, k>> \notin R
  BY <1>1, WFMin
<1>4. \A j \in T : ~(j < k)
  BY <1>2, <1>3
<1>5. QED
  BY <1>4

\* Find returns the first position: between where it starts and any that fits.
LEMMA FindFirst ==
  ASSUME NEW b, NEW n \in Nat, DOMAIN b = 1..n, NEW i \in 1..n, NEW S,
         NEW m \in i..n, b[m] \in S
  PROVE  /\ Find(b, i, S) \in i..m
         /\ b[Find(b, i, S)] \in S
         /\ \A j \in i..(Find(b, i, S) - 1) : b[j] \notin S
<1> DEFINE T == {j \in i..n : b[j] \in S}
<1>1. T \in SUBSET Nat /\ T # {}
  OBVIOUS
<1>2. PICK x \in T : \A y \in T : x <= y
  <2> HIDE DEF T
  <2>1. QED
    BY <1>1, LeastNat
<1>3. /\ x \in DOMAIN b /\ x >= i /\ b[x] \in S
      /\ \A j \in i..(x - 1) : b[j] \notin S
  BY <1>2
<1>4. /\ Find(b, i, S) \in DOMAIN b /\ Find(b, i, S) >= i /\ b[Find(b, i, S)] \in S
      /\ \A j \in i..(Find(b, i, S) - 1) : b[j] \notin S
  BY <1>3 DEF Find
<1>5. Find(b, i, S) <= m
  BY <1>4
<1>6. QED
  BY <1>4, <1>5

\* The recursive function FlattenSeq is made of, and that there is one.
FlatStep(ss, f, i) == IF i = 1 THEN ss[i] ELSE f[i - 1] \o ss[i]
IsFlat(ss, f, k) == f = [i \in 1..k |-> FlatStep(ss, f, i)]

LEMMA FlatNext ==
  ASSUME NEW ss, NEW k \in Nat, NEW f, IsFlat(ss, f, k)
  PROVE  \E g : IsFlat(ss, g, k + 1)
<1> DEFINE x == FlatStep(ss, f, k + 1)
           g == [i \in 1..(k + 1) |-> IF i = k + 1 THEN x ELSE f[i]]
<1>1. \A i \in 1..k : f[i] = FlatStep(ss, f, i)
  BY DEF IsFlat
<1>2. \A i \in 1..(k + 1) : FlatStep(ss, g, i) = FlatStep(ss, f, i)
  <2> HIDE DEF x
  <2> SUFFICES ASSUME NEW i \in 1..(k + 1)
               PROVE  FlatStep(ss, g, i) = FlatStep(ss, f, i)
    OBVIOUS
  <2>1. i # 1 => i - 1 \in 1..(k + 1) /\ i - 1 # k + 1
    OBVIOUS
  <2>2. i # 1 => g[i - 1] = f[i - 1]
    BY <2>1
  <2> HIDE DEF g
  <2>3. QED
    BY <2>2, Zenon DEF FlatStep
<1>3. \A i \in 1..(k + 1) : g[i] = FlatStep(ss, f, i)
  <2> HIDE DEF x
  <2> SUFFICES ASSUME NEW i \in 1..(k + 1)
               PROVE  g[i] = FlatStep(ss, f, i)
    OBVIOUS
  <2>1. CASE i = k + 1
    BY <2>1 DEF x
  <2>2. CASE i # k + 1
    <3>1. i \in 1..k
      BY <2>2
    <3>2. QED
      BY <1>1, <2>2, <3>1
  <2>3. QED
    BY <2>1, <2>2
<1>4. g = [i \in 1..(k + 1) |-> g[i]]
  OBVIOUS
<1> HIDE DEF g
<1>5. g = [i \in 1..(k + 1) |-> FlatStep(ss, g, i)]
  BY <1>2, <1>3, <1>4
<1>6. QED
  BY <1>5 DEF IsFlat

LEMMA FlatExists ==
  ASSUME NEW ss, NEW k \in Nat
  PROVE  \E f : IsFlat(ss, f, k)
<1> DEFINE Bad == {j \in Nat : ~ \E f : IsFlat(ss, f, j)}
<1>1. 0 \notin Bad
  <2>1. IsFlat(ss, << >>, 0)
    BY DEF IsFlat
  <2>2. QED
    BY <2>1
<1>2. \A j \in Nat : j \notin Bad => j + 1 \notin Bad
  BY FlatNext
<1>3. Bad \in SUBSET Nat
  OBVIOUS
<1>4. Bad = {}
  <2> HIDE DEF Bad
  <2> SUFFICES ASSUME Bad # {} PROVE FALSE
    OBVIOUS
  <2>1. PICK j \in Bad : \A i \in Bad : j <= i
    BY <1>3, LeastNat
  <2>2. j \in Nat /\ j # 0
    BY <1>1, <1>3, <2>1
  <2>3. j - 1 \in Nat /\ j - 1 \notin Bad /\ (j - 1) + 1 = j
    BY <1>3, <2>1, <2>2
  <2>4. QED
    BY <1>2, <2>1, <2>3
<1>5. QED
  BY <1>4

\* Sequences of characters, one after the other, are characters.
LEMMA FlattenType ==
  ASSUME NEW S, NEW ss \in Seq(Seq(S))
  PROVE  FlattenSeq(ss) \in Seq(S)
<1> DEFINE n == Len(ss)
<1>1. n \in Nat /\ \A i \in 1..n : ss[i] \in Seq(S)
  OBVIOUS
<1>2. CASE n = 0
  <2>1. FlattenSeq(ss) = ss /\ ss = << >>
    BY <1>2, EmptySeq DEF FlattenSeq
  <2>2. QED
    BY <2>1, EmptySeq
<1>3. CASE n # 0
  <2> DEFINE f == CHOOSE g : IsFlat(ss, g, n)
             Odd == {i \in 1..n : f[i] \notin Seq(S)}
  <2>1. IsFlat(ss, f, n)
    BY <1>1, FlatExists
  <2>2. FlattenSeq(ss) = f[n]
    BY <1>3, Zenon DEF FlattenSeq, IsFlat, FlatStep
  <2> HIDE DEF f, n
  <2>3. \A i \in 1..n : f[i] = FlatStep(ss, f, i)
    BY <2>1 DEF IsFlat
  <2>4. Odd \in SUBSET Nat
    BY <1>1
  <2>5. ASSUME NEW i \in 1..n, i = 1 \/ i - 1 \notin Odd PROVE f[i] \in Seq(S)
    <3>1. CASE i = 1
      BY <1>1, <2>3, <3>1 DEF FlatStep
    <3>2. CASE i # 1
      <4>1. i - 1 \in 1..n
        BY <1>1, <3>2
      <4>2. f[i - 1] \in Seq(S) /\ ss[i] \in Seq(S)
        BY <1>1, <2>5, <3>2, <4>1
      <4>3. f[i] = f[i - 1] \o ss[i]
        BY <2>3, <3>2 DEF FlatStep
      <4>4. QED
        BY <4>2, <4>3, ConcatProperties
    <3>3. QED
      BY <3>1, <3>2
  <2>6. Odd = {}
    <3>1. ASSUME NEW i \in Odd, \A j \in Odd : i <= j PROVE FALSE
      <4>1. i \in 1..n /\ f[i] \notin Seq(S)
        OBVIOUS
      <4>2. i = 1 \/ i - 1 \notin Odd
        BY <1>1, <3>1, <4>1
      <4>3. QED
        BY <2>5, <4>1, <4>2
    <3> HIDE DEF Odd
    <3>2. QED
      BY <2>4, <3>1, LeastNat
  <2>7. n \in 1..n
    BY <1>1, <1>3 DEF n
  <2>8. QED
    BY <2>2, <2>6, <2>7
<1>4. QED
  BY <1>2, <1>3

-----------------------------------------------------------------------------
(***************************************************************************)
(* The tree.  Nodes are allocated one after the other and deleted from the *)
(* last one back, so that their addresses are 0..k; a child comes after    *)
(* its parent; the nodes that no node has for a child are those the open   *)
(* calls are parsing, each inside the one before; and what is below a node *)
(* that is being parsed came after it.                                     *)
(***************************************************************************)

ChildrenIn(N, n) == ToSet(N[n].children)

\* Nodes N at 0..k, and m calls F.
IsTree(k, N, m, F) ==
  /\ DOMAIN N = 0..k
  /\ \A n \in 0..k : ChildrenIn(N, n) \subseteq (n + 1)..k
  /\ \A i \in 1..m :
       /\ F[i].child \in (1..k) \cup {None}
       /\ i # m => F[i].child # None
       /\ F[i].self = IF i = 1 THEN Document ELSE F[i - 1].child
  /\ \A i, j \in 1..m : i < j /\ F[j].child # None => F[i].child < F[j].child
  /\ \A x \in 1..k : \/ \E i \in 1..m : F[i].child = x
                     \/ \E n \in 0..(x - 1) : x \in ChildrenIn(N, n)
  /\ \A n \in 0..k : \A x \in ChildrenIn(N, n) : \A i \in 1..m :
       F[i].child # None /\ F[i].child <= x => F[i].child <= n

\* The recursive function Inside is made of.
IsBelow(N, g) ==
  g = [m \in DOMAIN N |-> {m} \cup UNION {g[c] : c \in ChildrenIn(N, m)}]
InsideIn(N, n) == (CHOOSE g : IsBelow(N, g))[n]

LEMMA InsideIs == ASSUME NEW n PROVE Inside(n) = InsideIn(nodes, n)
BY Zenon DEF Inside, InsideIn, IsBelow, ChildrenIn

\* There is one: for each node, the nodes in every set that holds it and the
\* children of its members.
IsClosed(N, S) == \A n \in S : ChildrenIn(N, n) \subseteq S

LEMMA BelowExists ==
  ASSUME NEW N, \A n \in DOMAIN N : ChildrenIn(N, n) \subseteq DOMAIN N
  PROVE  \E g : IsBelow(N, g)
<1> DEFINE Closed == {S \in SUBSET DOMAIN N : IsClosed(N, S)}
           g == [m \in DOMAIN N |-> {x \in DOMAIN N : \A S \in Closed : m \in S => x \in S}]
<1>1. ASSUME NEW m \in DOMAIN N
      PROVE  g[m] = {m} \cup UNION {g[c] : c \in ChildrenIn(N, m)}
  <2> DEFINE R == {m} \cup UNION {g[c] : c \in ChildrenIn(N, m)}
  <2>1. ChildrenIn(N, m) \subseteq DOMAIN N
    OBVIOUS
  <2>2. R \subseteq g[m]
    <3>1. m \in g[m]
      OBVIOUS
    <3>2. ASSUME NEW c \in ChildrenIn(N, m), NEW x \in g[c] PROVE x \in g[m]
      <4>1. \A S \in Closed : m \in S => c \in S
        BY DEF IsClosed
      <4>2. c \in DOMAIN N /\ x \in DOMAIN N /\ \A S \in Closed : c \in S => x \in S
        BY <2>1, <3>2
      <4>3. QED
        BY <4>1, <4>2
    <3> HIDE DEF g
    <3>3. QED
      BY <3>1, <3>2
  <2>3. R \in Closed
    <3>1. R \subseteq DOMAIN N
      BY <2>1
    <3>2. ASSUME NEW n \in R, NEW y \in ChildrenIn(N, n) PROVE y \in R
      <4>1. CASE n = m
        <5>1. y \in DOMAIN N /\ y \in g[y]
          BY <2>1, <3>2, <4>1
        <5>2. QED
          BY <3>2, <4>1, <5>1
      <4>2. CASE n # m
        <5>1. PICK c \in ChildrenIn(N, m) : n \in g[c]
          BY <3>2, <4>2
        <5>2. c \in DOMAIN N /\ n \in DOMAIN N
          BY <2>1, <5>1
        <5>3. y \in DOMAIN N
          BY <3>2, <5>2
        <5>4. \A S \in Closed : n \in S => y \in S
          BY <3>2 DEF IsClosed
        <5>5. \A S \in Closed : c \in S => n \in S
          BY <5>1, <5>2
        <5>6. y \in g[c]
          BY <5>2, <5>3, <5>4, <5>5
        <5>7. QED
          BY <5>1, <5>6
      <4>3. QED
        BY <4>1, <4>2
    <3> HIDE DEF R
    <3>3. QED
      BY <3>1, <3>2 DEF IsClosed
  <2>4. g[m] \subseteq R
    <3>1. m \in R
      OBVIOUS
    <3> HIDE DEF R
    <3>2. QED
      BY <2>3, <3>1
  <2>5. QED
    BY <2>2, <2>4
<1>2. g = [m \in DOMAIN N |-> g[m]]
  OBVIOUS
<1> HIDE DEF g
<1>3. IsBelow(N, g)
  BY <1>1, <1>2 DEF IsBelow
<1>4. QED
  BY <1>3

LEMMA GreatestNat ==
  ASSUME NEW k \in Nat, NEW T \in SUBSET (0..k), T # {}
  PROVE  \E x \in T : \A y \in T : y <= x
<1> DEFINE U == {j \in Nat : k - j \in T}
<1>1. U \in SUBSET Nat
  OBVIOUS
<1>2. \A x \in T : k - x \in U
  OBVIOUS
<1>3. U # {}
  BY <1>2
<1>4. \A j \in U : j \in Nat /\ k - j \in T
  OBVIOUS
<1> HIDE DEF U
<1>5. PICK j \in U : \A i \in U : j <= i
  BY <1>1, <1>3, LeastNat
<1>6. k - j \in T /\ j \in Nat
  BY <1>4
<1>7. \A y \in T : y <= k - j
  <2> TAKE y \in T
  <2>1. k - y \in U
    BY <1>2
  <2>2. j <= k - y
    BY <1>5, <2>1
  <2>3. QED
    BY <1>6, <2>2
<1>8. QED
  BY <1>6, <1>7

LEMMA InsideStep ==
  ASSUME NEW k \in Nat, NEW N, NEW m, NEW F, IsTree(k, N, m, F), NEW n \in 0..k
  PROVE  InsideIn(N, n) = {n} \cup UNION {InsideIn(N, c) : c \in ChildrenIn(N, n)}
<1> DEFINE g == CHOOSE f : IsBelow(N, f)
<1>1. DOMAIN N = 0..k /\ \A x \in DOMAIN N : ChildrenIn(N, x) \subseteq DOMAIN N
  BY DEF IsTree
<1>2. IsBelow(N, g)
  BY <1>1, BelowExists
<1>3. \A x : InsideIn(N, x) = g[x]
  BY DEF InsideIn
<1> HIDE DEF g
<1>4. g[n] = {n} \cup UNION {g[c] : c \in ChildrenIn(N, n)}
  BY <1>1, <1>2 DEF IsBelow
<1>5. QED
  BY <1>3, <1>4

\* What is below a node came after it, ...
LEMMA InsideAfter ==
  ASSUME NEW k \in Nat, NEW N, NEW m, NEW F, IsTree(k, N, m, F), NEW n \in 0..k
  PROVE  n \in InsideIn(N, n) /\ InsideIn(N, n) \subseteq n..k
<1> DEFINE Bad == {x \in 0..k : ~(InsideIn(N, x) \subseteq x..k)}
<1>1. ASSUME NEW x \in Bad, \A y \in Bad : y <= x PROVE FALSE
  <2>1. x \in 0..k /\ ChildrenIn(N, x) \subseteq (x + 1)..k
    BY DEF IsTree
  <2>2. InsideIn(N, x) = {x} \cup UNION {InsideIn(N, c) : c \in ChildrenIn(N, x)}
    BY <2>1, InsideStep
  <2>3. \A c \in ChildrenIn(N, x) : InsideIn(N, c) \subseteq x..k
    <3> TAKE c \in ChildrenIn(N, x)
    <3>1. c \in 0..k /\ c > x
      BY <2>1
    <3>2. c \notin Bad
      BY <1>1, <2>1, <3>1
    <3>3. InsideIn(N, c) \subseteq c..k
      BY <3>1, <3>2
    <3>4. QED
      BY <2>1, <3>1, <3>3
  <2>4. InsideIn(N, x) \subseteq x..k
    BY <2>1, <2>2, <2>3
  <2>5. QED
    BY <2>4
<1>2. Bad \in SUBSET (0..k) /\ (n \notin Bad => InsideIn(N, n) \subseteq n..k)
  OBVIOUS
<1>3. Bad = {}
  <2> HIDE DEF Bad
  <2>1. QED
    BY <1>1, <1>2, GreatestNat
<1>4. n \in InsideIn(N, n)
  BY InsideStep
<1>5. QED
  BY <1>2, <1>3, <1>4

\* ... and its own children are below it too.
LEMMA InsideClosed ==
  ASSUME NEW k \in Nat, NEW N, NEW m, NEW F, IsTree(k, N, m, F), NEW n \in 0..k
  PROVE  IsClosed(N, InsideIn(N, n))
<1> DEFINE Bad == {x \in 0..k : ~IsClosed(N, InsideIn(N, x))}
<1>1. ASSUME NEW x \in Bad, \A y \in Bad : y <= x PROVE FALSE
  <2>1. x \in 0..k /\ ChildrenIn(N, x) \subseteq (x + 1)..k
    BY DEF IsTree
  <2>2. InsideIn(N, x) = {x} \cup UNION {InsideIn(N, c) : c \in ChildrenIn(N, x)}
    BY <2>1, InsideStep
  <2>3. ASSUME NEW c \in ChildrenIn(N, x)
        PROVE  c \in InsideIn(N, c) /\ IsClosed(N, InsideIn(N, c))
    <3>1. c \in 0..k /\ c > x
      BY <2>1
    <3>2. c \notin Bad
      BY <1>1, <2>1, <3>1
    <3>3. IsClosed(N, InsideIn(N, c))
      BY <3>1, <3>2
    <3>4. QED
      BY <3>1, <3>3, InsideAfter
  <2>4. ChildrenIn(N, x) \subseteq InsideIn(N, x)
    BY <2>2, <2>3
  <2>5. \A c \in ChildrenIn(N, x) : InsideIn(N, c) \subseteq InsideIn(N, x)
    BY <2>2
  <2>6. IsClosed(N, InsideIn(N, x))
    <3> SUFFICES ASSUME NEW y \in InsideIn(N, x)
                 PROVE  ChildrenIn(N, y) \subseteq InsideIn(N, x)
      BY DEF IsClosed
    <3>1. CASE y = x
      BY <2>4, <3>1
    <3>2. CASE y # x
      <4>1. PICK c \in ChildrenIn(N, x) : y \in InsideIn(N, c)
        BY <2>2, <3>2
      <4>2. ChildrenIn(N, y) \subseteq InsideIn(N, c)
        BY <2>3, <4>1 DEF IsClosed
      <4>3. QED
        BY <2>5, <4>2
    <3>3. QED
      BY <3>1, <3>2
  <2>7. QED
    BY <2>6
<1>2. Bad \in SUBSET (0..k) /\ (n \notin Bad => IsClosed(N, InsideIn(N, n)))
  OBVIOUS
<1>3. Bad = {}
  <2> HIDE DEF Bad
  <2>1. QED
    BY <1>1, <1>2, GreatestNat
<1>4. QED
  BY <1>2, <1>3

\* All that came after the node that is being parsed is below it: the nodes that
\* are not are some other call's or have a parent that came before it.
LEMMA InsideTop ==
  ASSUME NEW k \in Nat, NEW N, NEW m \in Nat \ {0}, NEW F, IsTree(k, N, m, F),
         F[m].child # None
  PROVE  InsideIn(N, F[m].child) = F[m].child..k
<1> DEFINE c == F[m].child
           Bad == {x \in c..k : x \notin InsideIn(N, c)}
<1>1. c \in 1..k
  BY DEF IsTree
<1>2. InsideIn(N, c) \subseteq c..k /\ c \in InsideIn(N, c)
      /\ IsClosed(N, InsideIn(N, c))
  BY <1>1, InsideAfter, InsideClosed
<1>3. ASSUME NEW x \in Bad, \A y \in Bad : x <= y PROVE FALSE
  <2>1. x \in c..k /\ x \notin InsideIn(N, c)
    OBVIOUS
  <2>2. x # c
    BY <1>2, <2>1
  <2>3. x \in 1..k /\ x > c
    BY <1>1, <2>1, <2>2
  <2>4. ASSUME NEW i \in 1..m, F[i].child = x PROVE FALSE
    <3>1. CASE i = m
      BY <2>2, <2>4, <3>1
    <3>2. CASE i # m
      <4>1. i < m /\ m \in 1..m
        BY <3>2
      <4>2. F[i].child < F[m].child
        BY <4>1 DEF IsTree
      <4>3. QED
        BY <1>1, <2>3, <2>4, <4>2
    <3>3. QED
      BY <3>1, <3>2
  <2>5. PICK n \in 0..(x - 1) : x \in ChildrenIn(N, n)
    BY <2>3, <2>4 DEF IsTree
  <2>6. n \in 0..k /\ m \in 1..m
    BY <2>3, <2>5
  <2>7. c <= n
    BY <1>1, <2>3, <2>5, <2>6 DEF IsTree
  <2>8. n \in c..k /\ n < x
    BY <1>1, <2>3, <2>5, <2>6, <2>7
  <2>9. n \in InsideIn(N, c)
    BY <1>1, <1>3, <2>3, <2>8
  <2>10. QED
    BY <1>2, <2>1, <2>5, <2>9 DEF IsClosed
<1>4. Bad \in SUBSET Nat
  BY <1>1
<1>5. Bad = {}
  <2> HIDE DEF Bad
  <2>1. QED
    BY <1>3, <1>4, LeastNat
<1>6. QED
  BY <1>2, <1>5

\* Every node can be reached.
LEMMA AllReached ==
  ASSUME NEW k \in Nat, NEW N, NEW m \in Nat, NEW F, IsTree(k, N, m, F)
  PROVE  0..k = InsideIn(N, Document) \cup
                UNION {InsideIn(N, F[i].child) : i \in {j \in 1..m : F[j].child # None}}
<1> DEFINE Roots == {Document} \cup {F[i].child : i \in {j \in 1..m : F[j].child # None}}
           R == UNION {InsideIn(N, r) : r \in Roots}
           Bad == {x \in 0..k : x \notin R}
<1>1. Roots \subseteq 0..k
  BY DEF IsTree, Document
<1>2. \A r \in Roots : r \in InsideIn(N, r) /\ InsideIn(N, r) \subseteq 0..k
                       /\ IsClosed(N, InsideIn(N, r))
  <2> HIDE DEF Roots
  <2> TAKE r \in Roots
  <2>1. r \in 0..k
    BY <1>1
  <2>2. QED
    BY <2>1, InsideAfter, InsideClosed
<1>3. ASSUME NEW x \in Bad, \A y \in Bad : x <= y PROVE FALSE
  <2>1. x \in 0..k /\ x \notin R
    OBVIOUS
  <2>2. x \notin Roots
    BY <1>2, <2>1
  <2>3. x \in 1..k
    BY <2>1, <2>2 DEF Document
  <2>4. \A i \in 1..m : F[i].child # x
    BY <2>2, <2>3 DEF None
  <2>5. PICK n \in 0..(x - 1) : x \in ChildrenIn(N, n)
    BY <2>3, <2>4 DEF IsTree
  <2>6. n \in 0..k /\ n < x /\ n \notin Bad
    BY <1>3, <2>3, <2>5
  <2>7. PICK r \in Roots : n \in InsideIn(N, r)
    BY <2>6
  <2>8. x \in InsideIn(N, r)
    BY <1>2, <2>5, <2>7 DEF IsClosed
  <2>9. QED
    BY <2>1, <2>8
<1>4. Bad \in SUBSET Nat
  OBVIOUS
<1>5. Bad = {}
  <2> HIDE DEF Bad
  <2>1. QED
    BY <1>3, <1>4, LeastNat
<1>6. 0..k = R
  BY <1>2, <1>5
<1>7. R = InsideIn(N, Document) \cup
          UNION {InsideIn(N, F[i].child) : i \in {j \in 1..m : F[j].child # None}}
  OBVIOUS
<1>8. QED
  BY <1>6, <1>7

-----------------------------------------------------------------------------
\* The steps of a tree.

\* Calls keep their nodes.
CallsKept(m, F, F2) ==
  \A i \in 1..m : F2[i].self = F[i].self /\ F2[i].child = F[i].child

\* Nodes keep their children, calls their nodes.
TreeKept(k, N, m, F, N2, F2) ==
  /\ IsTree(k, N, m, F)
  /\ DOMAIN N2 = 0..k /\ \A n \in 0..k : N2[n].children = N[n].children
  /\ CallsKept(m, F, F2)

LEMMA TreeSame ==
  ASSUME NEW k \in Nat, NEW m \in Nat, NEW N, NEW F, NEW N2, NEW F2,
         TreeKept(k, N, m, F, N2, F2)
  PROVE  IsTree(k, N2, m, F2)
<1> USE DEF TreeKept, CallsKept
<1>1. \A n \in 0..k : ChildrenIn(N2, n) = ChildrenIn(N, n)
  BY DEF ChildrenIn
<1>2. \A x \in 1..k : \A n \in 0..(x - 1) : n \in 0..k
  OBVIOUS
<1>3. \A i \in 1..m : i # 1 => i - 1 \in 1..m
  OBVIOUS
<1>4. \A i \in 1..m :
        /\ F2[i].child \in (1..k) \cup {None}
        /\ i # m => F2[i].child # None
        /\ F2[i].self = IF i = 1 THEN Document ELSE F2[i - 1].child
  BY <1>3 DEF IsTree
<1>5. \A i, j \in 1..m : i < j /\ F2[j].child # None => F2[i].child < F2[j].child
  BY DEF IsTree
<1>6. \A x \in 1..k : \/ \E i \in 1..m : F2[i].child = x
                      \/ \E n \in 0..(x - 1) : x \in ChildrenIn(N2, n)
  <2> TAKE x \in 1..k
  <2>1. \/ \E i \in 1..m : F[i].child = x
        \/ \E n \in 0..(x - 1) : x \in ChildrenIn(N, n)
    BY DEF IsTree
  <2>2. QED
    BY <1>1, <1>2, <2>1
<1>7. \A n \in 0..k : \A x \in ChildrenIn(N2, n) : \A i \in 1..m :
        F2[i].child # None /\ F2[i].child <= x => F2[i].child <= n
  BY <1>1 DEF IsTree
<1>8. \A n \in 0..k : ChildrenIn(N2, n) \subseteq (n + 1)..k
  BY <1>1 DEF IsTree
<1>9. QED
  BY <1>4, <1>5, <1>6, <1>7, <1>8 DEF IsTree

\* A document alone, and its first call.
Starts(N, m, F) ==
  /\ DOMAIN N = {Document} /\ N[Document].children = << >> /\ m \in 0..1
  /\ m = 1 => F[1].self = Document /\ F[1].child = None

LEMMA TreeStart ==
  ASSUME NEW N, NEW F, NEW m, Starts(N, m, F)
  PROVE  IsTree(0, N, m, F)
<1> USE DEF Starts
<1>1. ChildrenIn(N, 0) = {}
  BY DEF ChildrenIn, ToSet, Document
<1>2. 0..0 = {0} /\ 1..0 = {}
  OBVIOUS
<1>3. QED
  BY <1>1, <1>2 DEF IsTree, Document, None

\* A new node, for a call that has none.
Pushes(k, N, m, F, N2, F2) ==
  /\ IsTree(k, N, m, F) /\ F[m].child = None
  /\ DOMAIN N2 = 0..(k + 1) /\ \A n \in 0..k : N2[n] = N[n]
  /\ N2[k + 1].children = << >>
  /\ \A i \in 1..(m - 1) : F2[i] = F[i]
  /\ F2[m].self = F[m].self /\ F2[m].child = k + 1

LEMMA TreePush ==
  ASSUME NEW k \in Nat, NEW m \in Nat \ {0}, NEW N, NEW F, NEW N2, NEW F2,
         Pushes(k, N, m, F, N2, F2)
  PROVE  IsTree(k + 1, N2, m, F2)
<1> USE DEF Pushes
<1>1. /\ \A n \in 0..k : ChildrenIn(N2, n) = ChildrenIn(N, n)
      /\ ChildrenIn(N2, k + 1) = {}
  BY DEF ChildrenIn, ToSet
<1>2. \A n \in 0..(k + 1) : n \in 0..k \/ n = k + 1
  OBVIOUS
<1>3. \A i \in 1..m : i \in 1..(m - 1) \/ i = m
  OBVIOUS
<1>4. \A n \in 0..(k + 1) : ChildrenIn(N2, n) \subseteq (n + 1)..(k + 1)
  <2>1. \A n \in 0..k : ChildrenIn(N, n) \subseteq (n + 1)..k
    BY DEF IsTree
  <2>2. QED
    BY <1>1, <1>2, <2>1
<1>5. \A i \in 1..m :
        /\ F2[i].child \in (1..(k + 1)) \cup {None}
        /\ i # m => F2[i].child # None
        /\ F2[i].self = IF i = 1 THEN Document ELSE F2[i - 1].child
  <2> TAKE i \in 1..m
  <2>1. /\ F[i].child \in (1..k) \cup {None}
        /\ i # m => F[i].child # None
        /\ F[i].self = IF i = 1 THEN Document ELSE F[i - 1].child
    BY DEF IsTree
  <2>2. i # 1 => i - 1 \in 1..(m - 1)
    OBVIOUS
  <2>3. QED
    BY <1>3, <2>1, <2>2 DEF None
<1>6. \A i, j \in 1..m : i < j /\ F2[j].child # None => F2[i].child < F2[j].child
  <2> SUFFICES ASSUME NEW i \in 1..m, NEW j \in 1..m, i < j, F2[j].child # None
               PROVE  F2[i].child < F2[j].child
    OBVIOUS
  <2>1. i \in 1..(m - 1) /\ F[i].child \in 1..k /\ F2[i] = F[i]
    BY DEF IsTree
  <2>2. CASE j = m
    BY <2>1, <2>2
  <2>3. CASE j # m
    <3>1. j \in 1..(m - 1) /\ F2[j] = F[j] /\ F[i].child < F[j].child
      BY <2>3 DEF IsTree
    <3>2. QED
      BY <2>1, <3>1
  <2>4. QED
    BY <2>2, <2>3
<1>7. \A x \in 1..(k + 1) : \/ \E i \in 1..m : F2[i].child = x
                            \/ \E n \in 0..(x - 1) : x \in ChildrenIn(N2, n)
  <2> TAKE x \in 1..(k + 1)
  <2>1. CASE x = k + 1
    <3>1. m \in 1..m
      OBVIOUS
    <3>2. QED
      BY <2>1, <3>1
  <2>2. CASE x # k + 1
    <3>1. x \in 1..k
      BY <2>2
    <3>2. ASSUME NEW i \in 1..m, F[i].child = x PROVE F2[i].child = x
      BY <1>3, <3>1, <3>2 DEF None
    <3>3. ASSUME NEW n \in 0..(x - 1), x \in ChildrenIn(N, n)
          PROVE  x \in ChildrenIn(N2, n)
      BY <1>1, <3>1, <3>3
    <3>4. QED
      BY <3>1, <3>2, <3>3 DEF IsTree
  <2>3. QED
    BY <2>1, <2>2
<1>8. \A n \in 0..(k + 1) : \A x \in ChildrenIn(N2, n) : \A i \in 1..m :
        F2[i].child # None /\ F2[i].child <= x => F2[i].child <= n
  <2> SUFFICES ASSUME NEW n \in 0..k, NEW x \in ChildrenIn(N, n), NEW i \in 1..m,
                      F2[i].child # None, F2[i].child <= x
               PROVE  F2[i].child <= n
    BY <1>1, <1>2
  <2>1. x \in 1..k
    BY DEF IsTree
  <2>2. i # m
    BY <2>1
  <2>3. F2[i] = F[i]
    BY <1>3, <2>2
  <2>4. QED
    BY <2>3 DEF IsTree
<1>9. QED
  BY <1>4, <1>5, <1>6, <1>7, <1>8 DEF IsTree

\* A call returns, and has no node left.
Pops(k, N, m, F, F2) ==
  IsTree(k, N, m, F) /\ F[m].child = None /\ CallsKept(m - 1, F, F2)

LEMMA TreePop ==
  ASSUME NEW k \in Nat, NEW m \in Nat \ {0}, NEW N, NEW F, NEW F2, Pops(k, N, m, F, F2)
  PROVE  IsTree(k, N, m - 1, F2)
<1> USE DEF Pops
<1>1. m - 1 \in Nat /\ \A i \in 1..(m - 1) : i \in 1..m /\ (i # 1 => i - 1 \in 1..(m - 1))
  OBVIOUS
<1>2. IsTree(k, N, m - 1, F)
  <2>1. \A x \in 1..k : \A i \in 1..m : F[i].child = x => i \in 1..(m - 1)
    BY DEF None
  <2>2. \A i \in 1..(m - 1) :
          /\ F[i].child \in (1..k) \cup {None}
          /\ i # m - 1 => F[i].child # None
          /\ F[i].self = IF i = 1 THEN Document ELSE F[i - 1].child
    BY <1>1 DEF IsTree
  <2>3. \A x \in 1..k : \/ \E i \in 1..(m - 1) : F[i].child = x
                        \/ \E n \in 0..(x - 1) : x \in ChildrenIn(N, n)
    BY <2>1 DEF IsTree
  <2>4. /\ DOMAIN N = 0..k
        /\ \A n \in 0..k : ChildrenIn(N, n) \subseteq (n + 1)..k
        /\ \A i, j \in 1..(m - 1) : i < j /\ F[j].child # None => F[i].child < F[j].child
        /\ \A n \in 0..k : \A x \in ChildrenIn(N, n) : \A i \in 1..(m - 1) :
             F[i].child # None /\ F[i].child <= x => F[i].child <= n
    BY <1>1 DEF IsTree
  <2>5. QED
    BY <2>2, <2>3, <2>4 DEF IsTree
<1>3. DOMAIN N = 0..k
  BY DEF IsTree
<1>4. QED
  <2>1. TreeKept(k, N, m - 1, F, N, F2)
    BY <1>2, <1>3 DEF TreeKept
  <2>2. QED
    BY <1>1, <2>1, TreeSame

\* A call deletes its node c, with all that came after it, and returns.
Deletes(k, N, m, F, N2, F2, c) ==
  /\ IsTree(k, N, m, F) /\ F[m].child = c /\ c # None
  /\ DOMAIN N2 = 0..(c - 1) /\ \A n \in 0..(c - 1) : N2[n] = N[n]
  /\ CallsKept(m - 1, F, F2)

LEMMA TreeDelete ==
  ASSUME NEW k \in Nat, NEW m \in Nat \ {0}, NEW N, NEW F, NEW N2, NEW F2, NEW c,
         Deletes(k, N, m, F, N2, F2, c)
  PROVE  c - 1 \in Nat /\ IsTree(c - 1, N2, m - 1, F2)
<1> USE DEF Deletes, CallsKept
<1>1. c \in 1..k /\ m \in 1..m
  BY DEF IsTree
<1>2. /\ \A i \in 1..(m - 1) : i \in 1..m /\ (i # 1 => i - 1 \in 1..(m - 1))
      /\ \A n \in 0..(c - 1) : n \in 0..k
  BY <1>1
<1>3. \A n \in 0..(c - 1) : ChildrenIn(N2, n) = ChildrenIn(N, n)
  BY DEF ChildrenIn
<1>4. \A i \in 1..(m - 1) : F[i].child \in 1..(c - 1)
  <2> TAKE i \in 1..(m - 1)
  <2>1. F[i].child \in 1..k /\ F[i].child < F[m].child
    BY <1>1, <1>2 DEF IsTree
  <2>2. QED
    BY <1>1, <2>1
<1>5. \A n \in 0..(c - 1) : ChildrenIn(N2, n) \subseteq (n + 1)..(c - 1)
  <2> SUFFICES ASSUME NEW n \in 0..(c - 1), NEW x \in ChildrenIn(N, n)
               PROVE  x \in (n + 1)..(c - 1)
    BY <1>3
  <2>1. x \in (n + 1)..k
    BY <1>2 DEF IsTree
  <2>2. c <= x => c <= n
    BY <1>1, <1>2 DEF IsTree
  <2>3. QED
    BY <1>1, <2>1, <2>2
<1>6. \A i \in 1..(m - 1) :
        /\ F2[i].child \in (1..(c - 1)) \cup {None}
        /\ i # m - 1 => F2[i].child # None
        /\ F2[i].self = IF i = 1 THEN Document ELSE F2[i - 1].child
  <2> TAKE i \in 1..(m - 1)
  <2>1. F[i].self = IF i = 1 THEN Document ELSE F[i - 1].child
    BY <1>2 DEF IsTree
  <2>2. i # 1 => F2[i - 1].child = F[i - 1].child
    BY <1>2
  <2>3. F2[i].child # None
    BY <1>4 DEF None
  <2>4. QED
    BY <1>4, <2>1, <2>2, <2>3
<1>7. \A i, j \in 1..(m - 1) : i < j /\ F2[j].child # None => F2[i].child < F2[j].child
  BY <1>2 DEF IsTree
<1>8. \A x \in 1..(c - 1) : \/ \E i \in 1..(m - 1) : F2[i].child = x
                            \/ \E n \in 0..(x - 1) : x \in ChildrenIn(N2, n)
  <2> TAKE x \in 1..(c - 1)
  <2>1. x \in 1..k
    BY <1>1
  <2>2. ASSUME NEW i \in 1..m, F[i].child = x
        PROVE  i \in 1..(m - 1) /\ F2[i].child = x
    <3>1. i # m
      BY <1>1, <2>2
    <3>2. i \in 1..(m - 1)
      BY <3>1
    <3>3. QED
      BY <2>2, <3>2
  <2>3. ASSUME NEW n \in 0..(x - 1), x \in ChildrenIn(N, n)
        PROVE  x \in ChildrenIn(N2, n)
    BY <1>1, <1>3, <2>3
  <2>4. QED
    BY <2>1, <2>2, <2>3 DEF IsTree
<1>9. \A n \in 0..(c - 1) : \A x \in ChildrenIn(N2, n) : \A i \in 1..(m - 1) :
        F2[i].child # None /\ F2[i].child <= x => F2[i].child <= n
  BY <1>2, <1>3 DEF IsTree
<1>10. QED
  BY <1>1, <1>5, <1>6, <1>7, <1>8, <1>9 DEF IsTree

\* A call for the children of the node that is being parsed.
Opens(k, N, m, F, F2) ==
  /\ IsTree(k, N, m, F) /\ F[m].child # None
  /\ \A i \in 1..m : F2[i] = F[i]
  /\ F2[m + 1].self = F[m].child /\ F2[m + 1].child = None

LEMMA TreeOpen ==
  ASSUME NEW k \in Nat, NEW m \in Nat \ {0}, NEW N, NEW F, NEW F2, Opens(k, N, m, F, F2)
  PROVE  IsTree(k, N, m + 1, F2)
<1> USE DEF Opens
<1>1. \A i \in 1..(m + 1) : i \in 1..m \/ i = m + 1
  OBVIOUS
<1>2. \A i \in 1..(m + 1) :
        /\ F2[i].child \in (1..k) \cup {None}
        /\ i # m + 1 => F2[i].child # None
        /\ F2[i].self = IF i = 1 THEN Document ELSE F2[i - 1].child
  <2> TAKE i \in 1..(m + 1)
  <2>1. CASE i = m + 1
    <3>1. i # 1 /\ i - 1 = m /\ m \in 1..m
      BY <2>1
    <3>2. QED
      BY <2>1, <3>1
  <2>2. CASE i # m + 1
    <3>1. i \in 1..m /\ (i # 1 => i - 1 \in 1..m)
      BY <1>1, <2>2
    <3>2. QED
      BY <3>1 DEF IsTree
  <2>3. QED
    BY <2>1, <2>2
<1>3. \A i, j \in 1..(m + 1) : i < j /\ F2[j].child # None => F2[i].child < F2[j].child
  <2> SUFFICES ASSUME NEW i \in 1..(m + 1), NEW j \in 1..(m + 1), i < j,
                      F2[j].child # None
               PROVE  F2[i].child < F2[j].child
    OBVIOUS
  <2>1. j \in 1..m /\ i \in 1..m
    BY <1>1
  <2>2. QED
    BY <2>1 DEF IsTree
<1>4. \A x \in 1..k : \/ \E i \in 1..(m + 1) : F2[i].child = x
                      \/ \E n \in 0..(x - 1) : x \in ChildrenIn(N, n)
  <2> TAKE x \in 1..k
  <2>1. \A i \in 1..m : i \in 1..(m + 1) /\ F2[i].child = F[i].child
    OBVIOUS
  <2>2. \/ \E i \in 1..m : F[i].child = x
        \/ \E n \in 0..(x - 1) : x \in ChildrenIn(N, n)
    BY DEF IsTree
  <2>3. QED
    BY <2>1, <2>2
<1>5. \A n \in 0..k : \A x \in ChildrenIn(N, n) : \A i \in 1..(m + 1) :
        F2[i].child # None /\ F2[i].child <= x => F2[i].child <= n
  <2>1. \A i \in 1..(m + 1) : F2[i].child # None => i \in 1..m /\ F2[i] = F[i]
    BY <1>1
  <2>2. QED
    BY <2>1 DEF IsTree
<1>6. QED
  BY <1>2, <1>3, <1>4, <1>5 DEF IsTree

\* A call gives its node to the node whose children it parses.
Inserts(k, N, m, F, N2, F2) ==
  /\ IsTree(k, N, m, F) /\ F[m].child # None
  /\ DOMAIN N2 = 0..k
  /\ \A n \in 0..k : ChildrenIn(N2, n) =
       IF n = F[m].self THEN ChildrenIn(N, n) \cup {F[m].child} ELSE ChildrenIn(N, n)
  /\ \A i \in 1..(m - 1) : F2[i] = F[i]
  /\ F2[m].self = F[m].self /\ F2[m].child = None

LEMMA TreeInsert ==
  ASSUME NEW k \in Nat, NEW m \in Nat \ {0}, NEW N, NEW F, NEW N2, NEW F2,
         Inserts(k, N, m, F, N2, F2)
  PROVE  IsTree(k, N2, m, F2)
<1> USE DEF Inserts
<1> DEFINE c == F[m].child
           s == F[m].self
<1>1. c \in 1..k /\ m \in 1..m
  BY DEF IsTree
<1>2. \A i \in 1..m : i \in 1..(m - 1) \/ i = m
  OBVIOUS
<1>3. s \in 0..(c - 1) /\ \A i \in 1..(m - 1) : F[i].child <= s
  <2>1. CASE m = 1
    BY <1>1, <2>1 DEF IsTree, Document
  <2>2. CASE m # 1
    <3>1. m - 1 \in 1..m /\ m - 1 < m
      BY <2>2
    <3>2. s = F[m - 1].child /\ F[m - 1].child \in 1..k /\ F[m - 1].child < c
      BY <1>1, <2>2, <3>1 DEF IsTree
    <3>3. ASSUME NEW i \in 1..(m - 1) PROVE F[i].child <= s
      <4>1. CASE i = m - 1
        BY <3>2, <4>1
      <4>2. CASE i # m - 1
        <5>1. i < m - 1 /\ i \in 1..m /\ F[m - 1].child # None
          BY <3>2, <4>2 DEF None
        <5>2. F[i].child < F[m - 1].child /\ F[i].child \in 1..k
          BY <3>1, <5>1 DEF IsTree
        <5>3. QED
          BY <3>2, <5>2
      <4>3. QED
        BY <4>1, <4>2
    <3>4. QED
      BY <1>1, <3>2, <3>3
  <2>3. QED
    BY <2>1, <2>2
<1>4. \A n \in 0..k : ChildrenIn(N2, n) \subseteq (n + 1)..k
  <2>1. \A n \in 0..k : ChildrenIn(N, n) \subseteq (n + 1)..k
    BY DEF IsTree
  <2>2. c \in (s + 1)..k
    BY <1>1, <1>3
  <2>3. QED
    BY <2>1, <2>2
<1>5. \A i \in 1..m :
        /\ F2[i].child \in (1..k) \cup {None}
        /\ i # m => F2[i].child # None
        /\ F2[i].self = IF i = 1 THEN Document ELSE F2[i - 1].child
  <2> TAKE i \in 1..m
  <2>1. /\ F[i].child \in (1..k) \cup {None}
        /\ i # m => F[i].child # None
        /\ F[i].self = IF i = 1 THEN Document ELSE F[i - 1].child
    BY DEF IsTree
  <2>2. i # 1 => i - 1 \in 1..(m - 1)
    OBVIOUS
  <2>3. QED
    BY <1>2, <2>1, <2>2
<1>6. \A i, j \in 1..m : i < j /\ F2[j].child # None => F2[i].child < F2[j].child
  <2> SUFFICES ASSUME NEW i \in 1..m, NEW j \in 1..m, i < j, F2[j].child # None
               PROVE  F2[i].child < F2[j].child
    OBVIOUS
  <2>1. j \in 1..(m - 1) /\ i \in 1..(m - 1)
    BY <1>2
  <2>2. QED
    BY <2>1 DEF IsTree
<1>7. \A x \in 1..k : \/ \E i \in 1..m : F2[i].child = x
                      \/ \E n \in 0..(x - 1) : x \in ChildrenIn(N2, n)
  <2> TAKE x \in 1..k
  <2>1. CASE x = c
    <3>1. s \in 0..(x - 1) /\ s \in 0..k /\ x \in ChildrenIn(N2, s)
      BY <1>1, <1>3, <2>1
    <3>2. QED
      BY <3>1
  <2>2. CASE x # c
    <3>1. ASSUME NEW i \in 1..m, F[i].child = x PROVE F2[i].child = x
      BY <1>2, <2>2, <3>1
    <3>2. ASSUME NEW n \in 0..(x - 1), x \in ChildrenIn(N, n)
          PROVE  x \in ChildrenIn(N2, n)
      <4>1. n \in 0..k
        OBVIOUS
      <4>2. QED
        BY <3>2, <4>1
    <3>3. QED
      BY <3>1, <3>2 DEF IsTree
  <2>3. QED
    BY <2>1, <2>2
<1>8. \A n \in 0..k : \A x \in ChildrenIn(N2, n) : \A i \in 1..m :
        F2[i].child # None /\ F2[i].child <= x => F2[i].child <= n
  <2> SUFFICES ASSUME NEW n \in 0..k, NEW x \in ChildrenIn(N2, n), NEW i \in 1..m,
                      F2[i].child # None, F2[i].child <= x
               PROVE  F2[i].child <= n
    OBVIOUS
  <2>1. i \in 1..(m - 1) /\ F2[i] = F[i]
    BY <1>2
  <2>2. CASE x \in ChildrenIn(N, n)
    BY <2>1, <2>2 DEF IsTree
  <2>3. CASE x \notin ChildrenIn(N, n)
    <3>1. n = s
      BY <2>3
    <3>2. QED
      BY <1>3, <2>1, <3>1
  <2>4. QED
    BY <2>2, <2>3
<1>9. QED
  BY <1>4, <1>5, <1>6, <1>7, <1>8 DEF IsTree

-----------------------------------------------------------------------------
(***************************************************************************)
(* What is counted.                                                        *)
(***************************************************************************)

Kinds == {"document", "element", "declaration", "comment", "cdata", "unknown", "text"}
LeafKinds == Kinds \ {"document", "element"}
SpanSet == [first : Nat, end : Nat]
AttributeSet == [name : SpanSet, value : SpanSet]
NodeSet ==
  [kind : Kinds, value : SpanSet, closing : {"OPEN", "CLOSING", "CLOSED"},
   attributes : Seq(AttributeSet), children : Seq(Nat)]
FrameSet == [self : Nat, child : Nat \cup {None}, endTag : SpanSet]

AttributesIn(N, S) == UNION {{n} \X DOMAIN N[n].attributes : n \in S}
KindIn(N, S, pool) == {n \in S : PoolOf(N[n].kind) = pool}
CountIn(N, S, pool) ==
  Cardinality(IF pool = "attribute" THEN AttributesIn(N, S) ELSE KindIn(N, S, pool))

LEMMA CountIs == ASSUME NEW S, NEW pool PROVE Count(S, pool) = CountIn(nodes, S, pool)
BY Zenon DEF Count, CountIn, AttributesIn, KindIn

LEMMA PoolOfKind ==
  ASSUME NEW kind PROVE PoolOf(kind) \in Pools \ {"attribute"}
BY DEF PoolOf, Pools

\* What is counted is finite.
LEMMA CountFinite ==
  ASSUME NEW D, NEW N \in [D -> NodeSet], NEW S \in SUBSET D, IsFiniteSet(S), NEW pool
  PROVE  IsFiniteSet(AttributesIn(N, S)) /\ IsFiniteSet(KindIn(N, S, pool))
<1> DEFINE f == [n \in S |-> {n} \X DOMAIN N[n].attributes]
           T == {{n} \X DOMAIN N[n].attributes : n \in S}
<1>1. f \in Surjection(S, T)
  BY DEF Surjection
<1>2. IsFiniteSet(T)
  <2> HIDE DEF f, T
  <2>1. QED
    BY <1>1, FS_Surjection
<1>3. \A t \in T : IsFiniteSet(t)
  <2> SUFFICES ASSUME NEW n \in S PROVE IsFiniteSet({n} \X DOMAIN N[n].attributes)
    OBVIOUS
  <2>1. N[n] \in NodeSet
    OBVIOUS
  <2>2. N[n].attributes \in Seq(AttributeSet)
    BY <2>1 DEF NodeSet
  <2>3. Len(N[n].attributes) \in Int /\ DOMAIN N[n].attributes = 1..Len(N[n].attributes)
    BY <2>2
  <2>4. IsFiniteSet(DOMAIN N[n].attributes)
    BY <2>3, FS_Interval
  <2>5. QED
    BY <2>4, FS_Singleton, FS_Product
<1>4. IsFiniteSet(AttributesIn(N, S))
  <2> HIDE DEF T
  <2>1. IsFiniteSet(UNION T)
    BY <1>2, <1>3, FS_UNION
  <2>2. QED
    BY <2>1 DEF T, AttributesIn
<1>5. KindIn(N, S, pool) \in SUBSET S
  BY DEF KindIn
<1>6. QED
  BY <1>4, <1>5, FS_Subset

\* Nodes that stay what they are count the same.
NodesKept(S, N, N2) ==
  \A n \in S : N2[n].kind = N[n].kind /\ DOMAIN N2[n].attributes = DOMAIN N[n].attributes

LEMMA CountSame ==
  ASSUME NEW N, NEW N2, NEW S, NEW pool, NodesKept(S, N, N2)
  PROVE  CountIn(N2, S, pool) = CountIn(N, S, pool)
<1> USE DEF NodesKept
<1>1. KindIn(N2, S, pool) = KindIn(N, S, pool)
  BY DEF KindIn
<1>2. AttributesIn(N2, S) = AttributesIn(N, S)
  <2>1. \A n \in S : {n} \X DOMAIN N2[n].attributes = {n} \X DOMAIN N[n].attributes
    OBVIOUS
  <2>2. {{n} \X DOMAIN N2[n].attributes : n \in S} = {{n} \X DOMAIN N[n].attributes : n \in S}
    BY <2>1
  <2>3. QED
    BY <2>2, Zenon DEF AttributesIn
<1>3. QED
  BY <1>1, <1>2 DEF CountIn

\* A part and the rest.
LEMMA CountParts ==
  ASSUME NEW D, NEW N \in [D -> NodeSet], NEW A \in SUBSET D, NEW B \in SUBSET D,
         IsFiniteSet(A), IsFiniteSet(B), A \cap B = {}, NEW pool
  PROVE  /\ CountIn(N, A, pool) \in Nat /\ CountIn(N, B, pool) \in Nat
         /\ CountIn(N, A \cup B, pool) = CountIn(N, A, pool) + CountIn(N, B, pool)
<1>1. /\ IsFiniteSet(AttributesIn(N, A)) /\ IsFiniteSet(KindIn(N, A, pool))
      /\ IsFiniteSet(AttributesIn(N, B)) /\ IsFiniteSet(KindIn(N, B, pool))
  BY CountFinite
<1>2. /\ KindIn(N, A \cup B, pool) = KindIn(N, A, pool) \cup KindIn(N, B, pool)
      /\ KindIn(N, A, pool) \cap KindIn(N, B, pool) = {}
  BY DEF KindIn
<1>3. AttributesIn(N, A \cup B) = AttributesIn(N, A) \cup AttributesIn(N, B)
  BY DEF AttributesIn
<1>4. AttributesIn(N, A) \cap AttributesIn(N, B) = {}
  <2>1. \A x \in AttributesIn(N, A) : x[1] \in A
    BY DEF AttributesIn
  <2>2. \A x \in AttributesIn(N, B) : x[1] \in B
    BY DEF AttributesIn
  <2>3. QED
    BY <2>1, <2>2
<1> DEFINE a == IF pool = "attribute" THEN AttributesIn(N, A) ELSE KindIn(N, A, pool)
           b == IF pool = "attribute" THEN AttributesIn(N, B) ELSE KindIn(N, B, pool)
<1>5. /\ IsFiniteSet(a) /\ IsFiniteSet(b) /\ a \cap b = {}
      /\ CountIn(N, A, pool) = Cardinality(a) /\ CountIn(N, B, pool) = Cardinality(b)
      /\ CountIn(N, A \cup B, pool) = Cardinality(a \cup b)
  BY <1>1, <1>2, <1>3, <1>4 DEF CountIn
<1> HIDE DEF a, b
<1>6. Cardinality(a) \in Nat /\ Cardinality(b) \in Nat
  BY <1>5, FS_CardinalityType
<1>7. Cardinality(a \cup b) = Cardinality(a) + Cardinality(b) - Cardinality({})
  BY <1>5, FS_Union
<1>8. QED
  BY <1>5, <1>6, <1>7, FS_EmptySet

\* The nodes from one on are deleted.
LEMMA CountDelete ==
  ASSUME NEW k \in Nat, NEW c \in 1..k, NEW N \in [0..k -> NodeSet], NEW N2,
         NodesKept(1..(c - 1), N, N2), NEW pool
  PROVE  /\ CountIn(N, c..k, pool) \in Nat
         /\ CountIn(N2, 1..(c - 1), pool) = CountIn(N, 1..k, pool) - CountIn(N, c..k, pool)
<1> DEFINE A == 1..(c - 1)
           B == c..k
<1>1. A \in SUBSET (0..k) /\ B \in SUBSET (0..k) /\ A \cap B = {} /\ A \cup B = 1..k
  OBVIOUS
<1>2. IsFiniteSet(A) /\ IsFiniteSet(B)
  <2>1. 1 \in Int /\ c - 1 \in Int /\ c \in Int /\ k \in Int
    OBVIOUS
  <2>2. QED
    BY <2>1, FS_Interval
<1>3. CountIn(N2, A, pool) = CountIn(N, A, pool)
  <2>1. NodesKept(A, N, N2)
    OBVIOUS
  <2> HIDE DEF A
  <2>2. QED
    BY <2>1, CountSame
<1> HIDE DEF A, B
<1>4. /\ CountIn(N, A, pool) \in Nat /\ CountIn(N, B, pool) \in Nat
      /\ CountIn(N, A \cup B, pool) = CountIn(N, A, pool) + CountIn(N, B, pool)
  BY <1>1, <1>2, CountParts
<1>5. CountIn(N2, A, pool) = CountIn(N, 1..k, pool) - CountIn(N, B, pool)
  <2>1. CountIn(N, A \cup B, pool) = CountIn(N, 1..k, pool)
    BY <1>1
  <2>2. QED
    BY <1>3, <1>4, <2>1
<1>6. QED
  BY <1>4, <1>5 DEF A, B

\* A node alone.
LEMMA CountOne ==
  ASSUME NEW D, NEW N \in [D -> NodeSet], NEW n \in D, N[n].attributes = << >>, NEW pool
  PROVE  CountIn(N, {n}, pool) = IF PoolOf(N[n].kind) = pool THEN 1 ELSE 0
<1>1. KindIn(N, {n}, pool) = IF PoolOf(N[n].kind) = pool THEN {n} ELSE {}
  BY DEF KindIn
<1>2. AttributesIn(N, {n}) = {}
  BY DEF AttributesIn
<1>3. PoolOf(N[n].kind) # "attribute"
  BY PoolOfKind
<1>4. Cardinality({n}) = 1 /\ Cardinality({}) = 0
  BY FS_Singleton, FS_EmptySet
<1>5. QED
  BY <1>1, <1>2, <1>3, <1>4 DEF CountIn

\* One attribute more.
GetsAttribute(S, N, N2, c) ==
  /\ c \in S
  /\ \A n \in S : N2[n].kind = N[n].kind
  /\ \A n \in S : DOMAIN N2[n].attributes =
       IF n = c THEN 1..(Len(N[c].attributes) + 1) ELSE DOMAIN N[n].attributes

LEMMA CountAttribute ==
  ASSUME NEW D, NEW N \in [D -> NodeSet], NEW S \in SUBSET D, IsFiniteSet(S),
         NEW N2, NEW c, NEW pool, GetsAttribute(S, N, N2, c)
  PROVE  CountIn(N2, S, pool) = CountIn(N, S, pool) + (IF pool = "attribute" THEN 1 ELSE 0)
<1> USE DEF GetsAttribute
<1> DEFINE len == Len(N[c].attributes)
<1>1. KindIn(N2, S, pool) = KindIn(N, S, pool)
  BY DEF KindIn
<1>2. IsFiniteSet(AttributesIn(N, S)) /\ IsFiniteSet(KindIn(N, S, pool))
  BY CountFinite
<1>3. len \in Nat /\ DOMAIN N[c].attributes = 1..len
  <2>1. N[c] \in NodeSet
    OBVIOUS
  <2>2. N[c].attributes \in Seq(AttributeSet)
    BY <2>1 DEF NodeSet
  <2>3. QED
    BY <2>2
<1> HIDE DEF len
<1>4. <<c, len + 1>> \notin AttributesIn(N, S)
  <2> SUFFICES ASSUME NEW n \in S, <<c, len + 1>> \in {n} \X DOMAIN N[n].attributes
               PROVE  FALSE
    BY DEF AttributesIn
  <2>1. n = c /\ len + 1 \in 1..len
    BY <1>3
  <2>2. QED
    BY <1>3, <2>1
<1>5. AttributesIn(N2, S) = AttributesIn(N, S) \cup {<<c, len + 1>>}
  <2>1. \A n \in S : {n} \X DOMAIN N2[n].attributes =
          {n} \X DOMAIN N[n].attributes \cup (IF n = c THEN {<<c, len + 1>>} ELSE {})
    <3> TAKE n \in S
    <3>1. CASE n = c
      <4>1. DOMAIN N2[n].attributes = 1..len \cup {len + 1}
        BY <1>3, <3>1 DEF len
      <4>2. QED
        BY <1>3, <3>1, <4>1
    <3>2. CASE n # c
      BY <3>2
    <3>3. QED
      BY <3>1, <3>2
  <2>2. QED
    BY <2>1 DEF AttributesIn
<1>6. Cardinality(AttributesIn(N2, S)) = Cardinality(AttributesIn(N, S)) + 1
  BY <1>2, <1>4, <1>5, FS_AddElement
<1>7. Cardinality(KindIn(N, S, pool)) \in Nat
  BY <1>2, FS_CardinalityType
<1>8. QED
  BY <1>1, <1>6, <1>7 DEF CountIn

\* The nodes that are being parsed and of this pool: they are not yet tracked.
BeingParsed(N, m, F, pool) ==
  {i \in 1..m : F[i].child # None /\ PoolOf(N[F[i].child].kind) = pool}

LEMMA BeingParsedFinite ==
  ASSUME NEW N, NEW m \in Nat, NEW F, NEW pool
  PROVE  /\ IsFiniteSet(BeingParsed(N, m, F, pool))
         /\ Cardinality(BeingParsed(N, m, F, pool)) \in Nat
<1>1. IsFiniteSet(1..m)
  BY FS_Interval
<1>2. BeingParsed(N, m, F, pool) \in SUBSET (1..m)
  BY DEF BeingParsed
<1>3. QED
  BY <1>1, <1>2, FS_Subset, FS_CardinalityType

\* One call less, or one that has no node any more.
KindsKept(m, N, N2, F, F2) ==
  \A i \in 1..m : F2[i].child = F[i].child /\ N2[F[i].child].kind = N[F[i].child].kind
OneLess(N, N2, m, l, F, F2) ==
  /\ F[m].child # None
  /\ l = m - 1 \/ (l = m /\ F2[m].child = None)
  /\ KindsKept(m - 1, N, N2, F, F2)

LEMMA BeingParsedLess ==
  ASSUME NEW N, NEW N2, NEW m \in Nat \ {0}, NEW F, NEW F2, NEW pool, NEW l,
         OneLess(N, N2, m, l, F, F2)
  PROVE  Cardinality(BeingParsed(N2, l, F2, pool)) =
           Cardinality(BeingParsed(N, m, F, pool))
             - (IF PoolOf(N[F[m].child].kind) = pool THEN 1 ELSE 0)
<1> USE DEF OneLess, KindsKept
<1>1. \A i \in 1..m : i \in 1..(m - 1) \/ i = m
  OBVIOUS
<1>2. \A i \in 1..l : i \in 1..(m - 1) \/ (i = m /\ l = m)
  OBVIOUS
<1>3. \A i \in 1..(m - 1) : i \in 1..l /\ i \in 1..m /\ i # m
  OBVIOUS
<1>4. m \in 1..m
  OBVIOUS
<1>5. BeingParsed(N2, l, F2, pool) = BeingParsed(N, m, F, pool) \ {m}
  <2>1. ASSUME NEW i \in BeingParsed(N2, l, F2, pool)
        PROVE  i \in BeingParsed(N, m, F, pool) \ {m}
    <3>1. i \in 1..l /\ F2[i].child # None
      BY <2>1 DEF BeingParsed
    <3>2. i \in 1..(m - 1)
      BY <1>2, <3>1
    <3>3. QED
      BY <1>3, <2>1, <3>2 DEF BeingParsed
  <2>2. ASSUME NEW i \in BeingParsed(N, m, F, pool) \ {m}
        PROVE  i \in BeingParsed(N2, l, F2, pool)
    <3>1. i \in 1..m /\ i # m /\ F[i].child # None
          /\ PoolOf(N[F[i].child].kind) = pool
      BY <2>2 DEF BeingParsed
    <3>2. i \in 1..(m - 1)
      BY <1>1, <3>1
    <3>3. i \in 1..l /\ F2[i].child = F[i].child
      BY <1>3, <3>2
    <3>4. N2[F[i].child].kind = N[F[i].child].kind
      BY <3>2
    <3>5. QED
      BY <3>1, <3>3, <3>4 DEF BeingParsed
  <2>3. QED
    BY <2>1, <2>2
<1>6. m \in BeingParsed(N, m, F, pool) <=> PoolOf(N[F[m].child].kind) = pool
  BY <1>4 DEF BeingParsed
<1> DEFINE old == BeingParsed(N, m, F, pool)
<1>7. IsFiniteSet(old) /\ Cardinality(old) \in Nat
  BY BeingParsedFinite
<1> HIDE DEF old
<1>8. Cardinality(old \ {m}) = IF m \in old THEN Cardinality(old) - 1 ELSE Cardinality(old)
  BY <1>7, FS_RemoveElement
<1>9. QED
  BY <1>5, <1>6, <1>7, <1>8 DEF old

\* Nothing changes for them.
NoneLess(N, N2, m, l, F, F2) ==
  /\ \A i \in 1..m : i > l => F[i].child = None
  /\ \A i \in 1..l : i > m => F2[i].child = None
  /\ \A i \in (1..m) \cap (1..l) :
       /\ F2[i].child = F[i].child
       /\ F[i].child # None => N2[F[i].child].kind = N[F[i].child].kind

LEMMA BeingParsedSame ==
  ASSUME NEW N, NEW N2, NEW m \in Nat, NEW l \in Nat, NEW F, NEW F2, NEW pool,
         NoneLess(N, N2, m, l, F, F2)
  PROVE  Cardinality(BeingParsed(N2, l, F2, pool)) = Cardinality(BeingParsed(N, m, F, pool))
<1> USE DEF NoneLess
<1>1. \A i \in 1..m : i > l \/ i \in (1..m) \cap (1..l)
  OBVIOUS
<1>2. \A i \in 1..l : i > m \/ i \in (1..m) \cap (1..l)
  OBVIOUS
<1>3. BeingParsed(N2, l, F2, pool) = BeingParsed(N, m, F, pool)
  BY <1>1, <1>2 DEF BeingParsed
<1>4. QED
  BY <1>3

\* A call gets a node.
OneMore(N, N2, m, F, F2) ==
  F[m].child = None /\ F2[m].child # None /\ KindsKept(m - 1, N, N2, F, F2)

LEMMA BeingParsedMore ==
  ASSUME NEW N, NEW N2, NEW m \in Nat \ {0}, NEW F, NEW F2, NEW pool,
         OneMore(N, N2, m, F, F2)
  PROVE  Cardinality(BeingParsed(N2, m, F2, pool)) =
           Cardinality(BeingParsed(N, m, F, pool))
             + (IF PoolOf(N2[F2[m].child].kind) = pool THEN 1 ELSE 0)
<1> USE DEF OneMore, KindsKept
<1>1. \A i \in 1..m : i \in 1..(m - 1) \/ i = m
  OBVIOUS
<1>2. \A i \in 1..(m - 1) : i \in 1..m /\ i # m
  OBVIOUS
<1>3. m \in 1..m
  OBVIOUS
<1>4. BeingParsed(N2, m, F2, pool) = BeingParsed(N, m, F, pool) \cup
        (IF PoolOf(N2[F2[m].child].kind) = pool THEN {m} ELSE {})
  BY <1>1, <1>2, <1>3 DEF BeingParsed
<1>5. m \notin BeingParsed(N, m, F, pool)
  BY DEF BeingParsed
<1>6. CASE PoolOf(N2[F2[m].child].kind) = pool
  <2>1. BeingParsed(N2, m, F2, pool) = BeingParsed(N, m, F, pool) \cup {m}
    BY <1>4, <1>6
  <2>2. QED
    BY <1>5, <1>6, <2>1, BeingParsedFinite, FS_AddElement
<1>7. CASE PoolOf(N2[F2[m].child].kind) # pool
  <2>1. BeingParsed(N2, m, F2, pool) = BeingParsed(N, m, F, pool)
    BY <1>4, <1>7
  <2>2. QED
    BY <1>7, <2>1, BeingParsedFinite
<1>8. QED
  BY <1>6, <1>7

-----------------------------------------------------------------------------
(***************************************************************************)
(* The places in the buffer.                                               *)
(***************************************************************************)

SpansIn(N) == UNION {SpansOf(N[n]) : n \in DOMAIN N}
EndTags(m, F) == {F[i].endTag : i \in 1..m} \ {Empty}

\* Places A in the buffer b of a document t, parsed up to q: they are apart, with
\* room for a NUL after each; their characters are the document's, and so is all
\* that is still to be parsed.
Laid(A, b, t, q) ==
  /\ \A s \in A : s \in SpanSet /\ 1 <= s.first /\ s.first <= s.end /\ s.end <= Len(b)
  /\ \A s, r \in A : s = r \/ s.end < r.first \/ r.end < s.first
  /\ \A s \in A : \A i \in s.first..(s.end - 1) : b[i] = t[i]
  /\ q # 0 => \A i \in q..Len(t) : b[i] = t[i]

\* The buffer after GetStr.
Ended(b, W) == [i \in DOMAIN b |-> IF \E s \in W : i = s.end THEN NUL ELSE b[i]]

LEMMA EndedIs ==
  ASSUME NEW b \in Seq(Char), NEW W
  PROVE  /\ Ended(b, W) \in Seq(Char) /\ Len(Ended(b, W)) = Len(b)
         /\ DOMAIN Ended(b, W) = DOMAIN b
         /\ \A i \in DOMAIN b :
              Ended(b, W)[i] = IF \E s \in W : i = s.end THEN NUL ELSE b[i]
<1>1. Len(b) \in Nat /\ DOMAIN b = 1..Len(b) /\ \A i \in 1..Len(b) : b[i] \in Char
  OBVIOUS
<1>2. NUL \in Char
  BY DEF NUL, Char
<1>3. Ended(b, W) \in [1..Len(b) -> Char]
  BY <1>1, <1>2 DEF Ended
<1>4. Ended(b, W) \in Seq(Char) /\ DOMAIN Ended(b, W) = 1..Len(b)
  BY <1>1, <1>3, SeqDef
<1>5. Len(Ended(b, W)) = Len(b)
  BY <1>1, <1>4, LenProperties
<1>6. QED
  BY <1>1, <1>4, <1>5 DEF Ended

\* To end some of the places spoils no other.
LEMMA LaidEnded ==
  ASSUME NEW A, NEW b \in Seq(Char), NEW t \in Seq(Char), NEW q \in Nat,
         Laid(A, b, t, q), NEW W \in SUBSET (A \cup {Empty}),
         NEW q2 \in Nat, q2 # 0 => q # 0 /\ q <= q2 /\ \A s \in W : s.end < q2,
         Len(t) <= Len(b),
         NEW A2 \in SUBSET A
  PROVE  Laid(A2, Ended(b, W), t, q2)
<1> DEFINE e == Ended(b, W)
<1>1. /\ Len(e) = Len(b) /\ DOMAIN b = 1..Len(b) /\ Len(b) \in Nat /\ Len(t) \in Nat
      /\ \A i \in DOMAIN b : e[i] = IF \E s \in W : i = s.end THEN NUL ELSE b[i]
  BY EndedIs
<1> HIDE DEF e
<1>2. \A s \in A : s \in SpanSet /\ s.first \in Nat /\ s.end \in Nat
                   /\ 1 <= s.first /\ s.first <= s.end /\ s.end <= Len(b)
  BY DEF Laid, SpanSet
<1>3. \A s \in A2 : \A i \in s.first..(s.end - 1) : e[i] = t[i]
  <2> SUFFICES ASSUME NEW s \in A2, NEW i \in s.first..(s.end - 1) PROVE e[i] = t[i]
    OBVIOUS
  <2>1. i \in DOMAIN b /\ b[i] = t[i] /\ i \in Nat /\ i # 0
    BY <1>1, <1>2 DEF Laid
  <2>2. ASSUME NEW r \in W, i = r.end PROVE FALSE
    <3>1. CASE r = Empty
      BY <2>1, <2>2, <3>1 DEF Empty, Span
    <3>2. CASE r # Empty
      <4>1. r \in A
        BY <3>2
      <4>2. s = r \/ s.end < r.first \/ r.end < s.first
        BY <4>1 DEF Laid
      <4>3. QED
        BY <1>2, <2>2, <4>1, <4>2
    <3>3. QED
      BY <3>1, <3>2
  <2>3. QED
    BY <1>1, <2>1, <2>2
<1>4. ASSUME q2 # 0 PROVE \A i \in q2..Len(t) : e[i] = t[i]
  <2> SUFFICES ASSUME NEW i \in q2..Len(t) PROVE e[i] = t[i]
    OBVIOUS
  <2>1. i \in DOMAIN b /\ i \in q..Len(t)
    BY <1>1, <1>4
  <2>2. b[i] = t[i]
    BY <1>4, <2>1 DEF Laid
  <2>3. \A s \in W : s.end \in Nat /\ s.end < q2
    BY <1>2, <1>4 DEF Empty, Span
  <2>4. \A s \in W : i # s.end
    BY <2>3
  <2>5. QED
    BY <1>1, <2>1, <2>2, <2>4
<1>5. \A s \in A2 : s \in SpanSet /\ 1 <= s.first /\ s.first <= s.end /\ s.end <= Len(e)
  BY <1>1, <1>2
<1>6. \A s, r \in A2 : s = r \/ s.end < r.first \/ r.end < s.first
  BY DEF Laid
<1>7. Laid(A2, e, t, q2)
  BY <1>3, <1>4, <1>5, <1>6 DEF Laid
<1>8. QED
  BY <1>7 DEF e

\* Nothing is written, the parser goes on.
LEMMA LaidOn ==
  ASSUME NEW A, NEW b, NEW t \in Seq(Char), NEW q \in Nat, Laid(A, b, t, q),
         NEW q2 \in Nat, q2 # 0 => q # 0 /\ q <= q2,
         NEW A2 \in SUBSET A
  PROVE  Laid(A2, b, t, q2)
<1>1. q2 # 0 => \A i \in q2..Len(t) : i \in q..Len(t)
  OBVIOUS
<1>2. QED
  BY <1>1 DEF Laid

\* A new place, after all that there are.
LEMMA LaidMore ==
  ASSUME NEW A, NEW b, NEW t \in Seq(Char), NEW q \in Nat, q # 0, Laid(A, b, t, q),
         Len(b) = Len(t) + 1,
         NEW s \in SpanSet, q <= s.first, s.first <= s.end, s.end <= Len(b),
         \A r \in A : r.end < s.first,
         NEW A2 \in SUBSET (A \cup {s})
  PROVE  Laid(A2, b, t, q)
<1>1. s.first \in Nat /\ s.end \in Nat /\ Len(t) \in Nat
  BY DEF SpanSet
<1>2. \A r \in A : r.first \in Nat /\ r.end \in Nat
  BY DEF SpanSet, Laid
<1>3. \A i \in s.first..(s.end - 1) : i \in q..Len(t)
  BY <1>1
<1>4. \A i \in s.first..(s.end - 1) : b[i] = t[i]
  BY <1>3 DEF Laid
<1>5. \A r \in A2 : r \in A \/ r = s
  OBVIOUS
<1>6. \A r \in A2 : r \in SpanSet /\ 1 <= r.first /\ r.first <= r.end /\ r.end <= Len(b)
  BY <1>1, <1>5 DEF Laid
<1>7. \A x, r \in A2 : x = r \/ x.end < r.first \/ r.end < x.first
  BY <1>5 DEF Laid
<1>8. \A r \in A2 : \A i \in r.first..(r.end - 1) : b[i] = t[i]
  BY <1>4, <1>5 DEF Laid
<1>9. QED
  BY <1>6, <1>7, <1>8 DEF Laid

-----------------------------------------------------------------------------
(***************************************************************************)
(* The calls.                                                              *)
(***************************************************************************)

LEMMA TopIs ==
  ASSUME frames \in Seq(FrameSet), frames # << >>
  PROVE  /\ Len(frames) \in Nat \ {0} /\ DOMAIN frames = 1..Len(frames)
         /\ Top = frames[Len(frames)] /\ Len(frames) \in 1..Len(frames)
         /\ Top \in FrameSet
<1>1. Len(frames) \in Nat /\ DOMAIN frames = 1..Len(frames) /\ Len(frames) # 0
  BY EmptySeq
<1>2. Top = frames[Len(frames)]
  BY DEF Top, Last
<1>3. QED
  BY <1>1, <1>2, ElementOfSeq

\* All calls but the last.
LEMMA FrontIs ==
  ASSUME NEW S, NEW s \in Seq(S), s # << >>
  PROVE  /\ Front(s) \in Seq(S) /\ Len(Front(s)) = Len(s) - 1
         /\ \A i \in 1..(Len(s) - 1) : Front(s)[i] = s[i]
<1>1. Len(s) \in Nat /\ Len(s) # 0
  BY EmptySeq
<1> DEFINE n == Len(s) - 1
<1>2. n \in Nat /\ \A i \in 1..n : s[i] \in S
  BY <1>1
<1> HIDE DEF n
<1>3. /\ SubSeq(s, 1, n) \in Seq(S)
      /\ Len(SubSeq(s, 1, n)) = IF 1 <= n THEN n - 1 + 1 ELSE 0
      /\ \A i \in 1..(n - 1 + 1) : SubSeq(s, 1, n)[i] = s[1 + i - 1]
  BY <1>2, SubSeqProperties
<1>4. \A i \in 1..n : 1 + i - 1 = i /\ i \in 1..(n - 1 + 1)
  BY <1>2
<1>5. Len(SubSeq(s, 1, n)) = n
  BY <1>2, <1>3
<1>6. \A i \in 1..n : SubSeq(s, 1, n)[i] = s[i]
  BY <1>3, <1>4
<1>7. QED
  BY <1>3, <1>5, <1>6 DEF Front, n

LEMMA SetTopIs ==
  ASSUME frames \in Seq(FrameSet), frames # << >>, NEW f \in FrameSet, SetTop(f)
  PROVE  /\ frames' \in Seq(FrameSet) /\ Len(frames') = Len(frames) /\ frames' # << >>
         /\ \A i \in 1..(Len(frames) - 1) : frames'[i] = frames[i]
         /\ frames'[Len(frames)] = f
<1>1. Front(frames) \in Seq(FrameSet) /\ Len(Front(frames)) = Len(frames) - 1
      /\ \A i \in 1..(Len(frames) - 1) : Front(frames)[i] = frames[i]
  BY FrontIs
<1>2. frames' = Append(Front(frames), f) /\ Len(frames) \in Nat
  BY DEF SetTop
<1>3. QED
  BY <1>1, <1>2, AppendProperties

LEMMA ReturnIs ==
  ASSUME frames \in Seq(FrameSet), frames # << >>, NEW next, NEW endTag \in SpanSet,
         Return(next, endTag)
  PROVE  /\ p' = next
         /\ frames' \in Seq(FrameSet) /\ Len(frames') = Len(frames) - 1
         /\ \A i \in 1..(Len(frames) - 1) :
              frames'[i].self = frames[i].self /\ frames'[i].child = frames[i].child
         /\ \A i \in 1..(Len(frames) - 2) : frames'[i] = frames[i]
         /\ Len(frames) # 1 => frames'[Len(frames) - 1].endTag = endTag
         /\ at' = IF Len(frames) = 1 THEN "returned" ELSE "result"
<1>1. Len(frames) \in Nat /\ Len(frames) # 0
  BY EmptySeq
<1>2. CASE Len(frames) = 1
  <2>1. frames' = << >> /\ at' = "returned" /\ p' = next
    BY <1>2 DEF Return
  <2>2. QED
    BY <1>2, <2>1, EmptySeq
<1>3. CASE Len(frames) # 1
  <2>0. Len(frames) > 1 /\ Len(frames) - 1 \in 1..Len(frames)
    <3>1. PICK n \in Nat : n = Len(frames)
      BY <1>1
    <3>2. n > 1 /\ n - 1 \in 1..n
      BY <1>1, <1>3, <3>1
    <3>3. QED
      BY <3>1, <3>2
  <2> DEFINE caller == frames[Len(frames) - 1]
             f == [caller EXCEPT !.endTag = endTag]
  <2>1. frames' = Append(Front(Front(frames)), f) /\ at' = "result" /\ p' = next
    BY <1>3 DEF Return
  <2>2. caller \in FrameSet
    BY <2>0, ElementOfSeq
  <2>3. f \in FrameSet /\ f.self = caller.self /\ f.child = caller.child /\ f.endTag = endTag
    BY <2>2 DEF FrameSet
  <2> HIDE DEF f
  <2>4. /\ Front(frames) \in Seq(FrameSet) /\ Len(Front(frames)) = Len(frames) - 1
        /\ \A i \in 1..(Len(frames) - 1) : Front(frames)[i] = frames[i]
    BY FrontIs
  <2>5. Front(frames) # << >>
    BY <2>0, <2>4
  <2>6. /\ Front(Front(frames)) \in Seq(FrameSet)
        /\ Len(Front(Front(frames))) = Len(Front(frames)) - 1
        /\ \A i \in 1..(Len(Front(frames)) - 1) : Front(Front(frames))[i] = Front(frames)[i]
    BY <2>4, <2>5, FrontIs
  <2>7. /\ frames' \in Seq(FrameSet) /\ Len(frames') = Len(frames) - 1
        /\ \A i \in 1..(Len(frames) - 2) : frames'[i] = Front(Front(frames))[i]
        /\ frames'[Len(frames) - 1] = f
    BY <1>1, <2>0, <2>1, <2>3, <2>4, <2>6, AppendProperties
  <2>8. \A i \in 1..(Len(frames) - 2) : frames'[i] = frames[i]
    BY <1>1, <2>4, <2>6, <2>7
  <2>9. \A i \in 1..(Len(frames) - 1) : i \in 1..(Len(frames) - 2) \/ i = Len(frames) - 1
    BY <1>1
  <2>10. QED
    BY <1>3, <2>1, <2>3, <2>7, <2>8, <2>9
<1>4. QED
  BY <1>2, <1>3

-----------------------------------------------------------------------------
(***************************************************************************)
(* The invariant.                                                          *)
(***************************************************************************)

Inner == {"loop", "name", "attributes", "leaf"}

TypeInv ==
  /\ text \in Seq(Char)
  /\ buf \in Seq(Char) /\ Len(buf) = Len(text) + 1 /\ buf[Len(buf)] = NUL
  /\ p \in 0..Len(buf)
  /\ at \in Inner \cup {"new", "result", "returned", "parsed"}
  /\ frames \in Seq(FrameSet)
  /\ nodes \in [DOMAIN nodes -> NodeSet]
  /\ current \in [Pools -> Int] /\ untracked \in [Pools -> Int]

\* Where the parser is and what it has in hand: a call that reads children has no
\* node, any other has; a call within a call reads the children of an element;
\* and only a call that just parsed an element may have a closing tag for it.
ControlInv ==
  /\ at = "new" => p = 0 /\ nodes = [n \in {Document} |-> Node("document")]
  /\ at \in Inner => p # 0
  /\ at \in Inner \cup {"result"} <=> frames # << >>
  /\ frames # << >> => (Top.child = None <=> at = "loop")
  /\ at \in {"name", "attributes"} => Child.kind = "element"
  /\ at = "leaf" => Child.kind \in LeafKinds
  /\ \A i \in 1..(Len(frames) - 1) :
       nodes[frames[i].child].kind = "element" /\ frames[i].endTag = Empty
  /\ frames # << >> /\ Top.endTag # Empty =>
       at = "loop" \/ (at = "result" /\ Child.kind = "element")

TreeInv == \E k \in Nat : IsTree(k, nodes, Len(frames), frames)

\* The pools' counts.
CountInv ==
  /\ \A pool \in Pools : current[pool] = CountIn(nodes, DOMAIN nodes \ {Document}, pool)
  /\ error = "NO_ERROR" => \A pool \in Pools :
       untracked[pool] = Cardinality(BeingParsed(nodes, Len(frames), frames, pool))
  /\ at = "parsed" => \A pool \in Pools : untracked[pool] = 0

\* The places that are in use lie before the parser, or end where it is: at the tag
\* after a text, or after the name of an element.
InUse == SpansIn(nodes) \cup EndTags(Len(frames), frames)
Borders ==
  \/ buf[p] = LESS /\ (at = "loop" \/ (at = "result" /\ Child.kind = "text"))
  \/ ~IsNameChar(buf[p]) /\ at = "attributes"
SpanInv ==
  /\ Laid(InUse, buf, text, p)
  /\ p # 0 => \A s \in InUse : s.end < p \/ (s.end = p /\ Borders)

Inv == TypeInv /\ ControlInv /\ TreeInv /\ CountInv /\ SpanInv

-----------------------------------------------------------------------------
(***************************************************************************)
(* What the invariant says of the state.                                   *)
(***************************************************************************)

\* The call and its node.
LEMMA HereIs ==
  ASSUME TypeInv, TreeInv, frames # << >>
  PROVE  /\ Top \in FrameSet /\ Top.self \in DOMAIN nodes
         /\ Top.child # None => /\ Top.child \in DOMAIN nodes /\ Top.child # Document
                                /\ Child \in NodeSet
         /\ \A i \in 1..(Len(frames) - 1) : frames[i].child \in DOMAIN nodes
                                            /\ frames[i].child # None
<1>1. PICK k \in Nat : IsTree(k, nodes, Len(frames), frames)
  BY DEF TreeInv
<1> DEFINE m == Len(frames)
<1>2. m \in Nat \ {0} /\ Top = frames[m] /\ m \in 1..m /\ Top \in FrameSet
  BY TopIs DEF TypeInv
<1> HIDE DEF m
<1>3. /\ DOMAIN nodes = 0..k
      /\ \A i \in 1..m : /\ frames[i].child \in (1..k) \cup {None}
                         /\ i # m => frames[i].child # None
                         /\ frames[i].self = IF i = 1 THEN Document ELSE frames[i - 1].child
  BY <1>1 DEF IsTree, m
<1>4. \A i \in 1..(m - 1) : i \in 1..m /\ i # m
  BY <1>2
<1>5. Top.self \in DOMAIN nodes
  <2>1. CASE m = 1
    BY <1>2, <1>3, <2>1 DEF Document
  <2>2. CASE m # 1
    <3>1. m - 1 \in 1..m /\ m - 1 # m
      BY <1>2, <2>2
    <3>2. frames[m - 1].child \in 1..k
      BY <1>3, <3>1
    <3>3. QED
      BY <1>2, <1>3, <2>2, <3>2
  <2>3. QED
    BY <2>1, <2>2
<1>6. Top.child # None => Top.child \in 0..k /\ Top.child # Document
  BY <1>2, <1>3 DEF Document
<1>7. Top.child \in DOMAIN nodes => Child \in NodeSet
  BY DEF TypeInv, Child
<1>8. \A i \in 1..(m - 1) : frames[i].child \in 0..k /\ frames[i].child # None
  BY <1>3, <1>4
<1>9. QED
  BY <1>2, <1>3, <1>5, <1>6, <1>7, <1>8 DEF m

LEMMA NodesFinite == ASSUME TreeInv PROVE IsFiniteSet(DOMAIN nodes) /\ Document \in DOMAIN nodes
<1>1. PICK k \in Nat : DOMAIN nodes = 0..k
  BY DEF TreeInv, IsTree
<1>2. QED
  BY <1>1, FS_Interval DEF Document

\* White space and names end within the buffer.
LEMMA SkipIs ==
  ASSUME TypeInv, NEW i \in 1..Len(buf)
  PROVE  /\ SkipWhiteSpace(i) \in i..Len(buf)
         /\ \A j \in i..(SkipWhiteSpace(i) - 1) : IsWhiteSpace(buf[j])
         /\ NameEnd(i) \in i..Len(buf) /\ ~IsNameChar(buf[NameEnd(i)])
<1>1. /\ Len(buf) \in Nat /\ DOMAIN buf = 1..Len(buf) /\ Len(buf) \in i..Len(buf)
      /\ buf[Len(buf)] = NUL /\ \A j \in 1..Len(buf) : buf[j] \in Char
  BY DEF TypeInv
<1>2. NUL \in NotWhiteSpace /\ NUL \in NotNameChar
  BY DEF NotWhiteSpace, NotNameChar, NUL, Char, IsWhiteSpace, BLANK, IsNameChar,
         IsNameStartChar, IsDigit
<1>3. /\ SkipWhiteSpace(i) \in i..Len(buf)
      /\ \A j \in i..(SkipWhiteSpace(i) - 1) : buf[j] \notin NotWhiteSpace
  BY <1>1, <1>2, FindFirst DEF SkipWhiteSpace
<1>4. NameEnd(i) \in i..Len(buf) /\ buf[NameEnd(i)] \in NotNameChar
  BY <1>1, <1>2, FindFirst DEF NameEnd
<1>5. \A j \in i..(SkipWhiteSpace(i) - 1) : j \in 1..Len(buf)
  BY <1>1, <1>3
<1>6. \A j \in i..(SkipWhiteSpace(i) - 1) : IsWhiteSpace(buf[j])
  BY <1>1, <1>3, <1>5 DEF NotWhiteSpace
<1>7. QED
  BY <1>3, <1>4, <1>6 DEF NotNameChar

\* What is found before the NUL at the end leaves room for it.
LEMMA MatchEnds ==
  ASSUME NEW b, NEW n \in Nat, DOMAIN b = 1..n, b[n] = NUL, NEW i \in Nat,
         NEW s \in Seq(Char), Len(s) # 0, s[Len(s)] # NUL, Matches(b, i, s)
  PROVE  i + Len(s) <= n
<1>1. PICK l \in Nat : l = Len(s)
  OBVIOUS
<1>2. l \in DOMAIN s
  BY <1>1
<1>3. i + l - 1 \in 1..n /\ b[i + l - 1] # NUL
  BY <1>1, <1>2 DEF Matches
<1>4. QED
  BY <1>1, <1>3

LEMMA NothingSet == Empty \in SpanSet /\ SpansOf(Node("document")) = {}
<1>1. Empty \in SpanSet
  BY DEF Empty, Span, SpanSet
<1>2. /\ Node("document").value = Empty
      /\ Node("document").attributes = << >>
  BY DEF Node
<1>3. NamesOf(Node("document")) = {}
  BY <1>2 DEF NamesOf
<1>4. QED
  BY <1>1, <1>2, <1>3 DEF SpansOf

-----------------------------------------------------------------------------
(***************************************************************************)
(* A call returns.                                                         *)
(***************************************************************************)

LEMMA ReturnControl ==
  ASSUME TypeInv, ControlInv, TreeInv, frames # << >>,
         NEW next, NEW endTag \in SpanSet, Return(next, endTag),
         \A i \in 1..(Len(frames) - 1) :
           nodes'[frames[i].child].kind = nodes[frames[i].child].kind
  PROVE  /\ ControlInv'
         /\ EndTags(Len(frames'), frames') \subseteq {endTag} \ {Empty}
         /\ at' \in {"returned", "result"}
<1>1. PICK m \in Nat : m = Len(frames) /\ m # 0
  BY TopIs DEF TypeInv
<1>2. /\ frames' \in Seq(FrameSet) /\ Len(frames') = m - 1
      /\ \A i \in 1..(m - 1) : frames'[i].child = frames[i].child
      /\ \A i \in 1..(m - 2) : frames'[i] = frames[i]
      /\ m # 1 => frames'[m - 1].endTag = endTag
      /\ at' = IF m = 1 THEN "returned" ELSE "result"
  BY <1>1, ReturnIs DEF TypeInv
<1>3. \A i \in 1..(m - 1) : /\ frames'[i].child # None
                            /\ nodes'[frames'[i].child].kind = "element"
                            /\ frames[i].endTag = Empty
  BY <1>1, <1>2, HereIs DEF ControlInv
<1>4. CASE m = 1
  <2>1. frames' = << >> /\ Len(frames') = 0 /\ at' = "returned"
    BY <1>2, <1>4, EmptySeq
  <2>2. EndTags(Len(frames'), frames') = {}
    BY <2>1 DEF EndTags
  <2>3. QED
    BY <2>1, <2>2 DEF ControlInv, Inner
<1>5. CASE m # 1
  <2>1. m - 1 \in 1..(m - 1) /\ at' = "result" /\ frames' # << >>
    BY <1>1, <1>2, <1>5, EmptySeq
  <2>2. Top' = frames'[m - 1] /\ Child' = nodes'[frames'[m - 1].child]
    BY <1>2 DEF Top, Last, Child
  <2>3. Top'.child # None /\ Child'.kind = "element" /\ Top'.endTag = endTag
    BY <1>2, <1>3, <1>5, <2>1, <2>2
  <2>4. \A i \in 1..(Len(frames') - 1) : i \in 1..(m - 2) /\ i \in 1..(m - 1)
    BY <1>1, <1>2
  <2>5. \A i \in 1..(Len(frames') - 1) :
          nodes'[frames'[i].child].kind = "element" /\ frames'[i].endTag = Empty
    BY <1>2, <1>3, <2>4
  <2>6. \A i \in 1..Len(frames') : frames'[i].endTag \in {Empty, endTag}
    BY <1>2, <1>3, <1>5, <2>1
  <2>7. EndTags(Len(frames'), frames') \subseteq {endTag} \ {Empty}
    BY <2>6 DEF EndTags
  <2>8. QED
    BY <2>1, <2>3, <2>5, <2>7 DEF ControlInv, Inner
<1>6. QED
  BY <1>4, <1>5

\* No child is left.
LEMMA LoopEndsInv == ASSUME Inv, LoopEnds PROVE Inv'
<1>1. /\ TypeInv /\ ControlInv /\ TreeInv /\ CountInv /\ SpanInv
      /\ at = "loop" /\ Return(0, Empty)
      /\ UNCHANGED <<text, buf, nodes, current, untracked, error>>
  BY DEF Inv, LoopEnds
<1>2. frames # << >> /\ Top.child = None
  BY <1>1 DEF ControlInv, Inner
<1>3. ControlInv' /\ EndTags(Len(frames'), frames') = {} /\ at' \in {"returned", "result"}
  BY <1>1, <1>2, ReturnControl, NothingSet
<1>4. PICK k \in Nat : IsTree(k, nodes, Len(frames), frames)
  BY <1>1 DEF TreeInv
<1>5. PICK m \in Nat \ {0} : m = Len(frames) /\ Top = frames[m]
  BY <1>1, <1>2, TopIs DEF TypeInv
<1>6. /\ frames' \in Seq(FrameSet) /\ Len(frames') = m - 1 /\ p' = 0
      /\ \A i \in 1..(m - 1) :
           frames'[i].self = frames[i].self /\ frames'[i].child = frames[i].child
  BY <1>1, <1>2, <1>5, NothingSet, ReturnIs DEF TypeInv
<1>7. IsTree(k, nodes, m - 1, frames')
  <2>1. Pops(k, nodes, m, frames, frames')
    BY <1>2, <1>4, <1>5, <1>6 DEF Pops, CallsKept
  <2>2. QED
    BY <2>1, TreePop
<1>8. TypeInv'
  <2>1. 0 \in 0..Len(buf)
    BY <1>1 DEF TypeInv
  <2>2. QED
    BY <1>1, <1>3, <1>6, <2>1 DEF TypeInv
<1>9. CountInv'
  <2>1. \A pool \in Pools : Cardinality(BeingParsed(nodes, m - 1, frames', pool)) =
                            Cardinality(BeingParsed(nodes, m, frames, pool))
    <3> TAKE pool \in Pools
    <3>1. m - 1 \in Nat /\ \A i \in 1..m : i > m - 1 => i = m
      BY <1>5
    <3>2. \A i \in (1..m) \cap (1..(m - 1)) : frames'[i].child = frames[i].child
      BY <1>6
    <3>3. \A i \in 1..(m - 1) : ~(i > m)
      BY <1>5
    <3>4. \A i \in 1..m : i > m - 1 => frames[i].child = None
      BY <1>2, <1>5, <3>1
    <3>5. NoneLess(nodes, nodes, m, m - 1, frames, frames')
      BY <3>2, <3>3, <3>4 DEF NoneLess
    <3>6. QED
      BY <3>1, <3>5, BeingParsedSame
  <2>2. QED
    BY <1>1, <1>3, <1>5, <1>6, <2>1 DEF CountInv
<1>10. SpanInv'
  <2>1. InUse' \subseteq InUse
    BY <1>1, <1>3 DEF InUse
  <2>2. text \in Seq(Char) /\ p \in Nat /\ Laid(InUse, buf, text, p)
    BY <1>1 DEF TypeInv, SpanInv
  <2>3. Laid(InUse', buf, text, 0)
    BY <2>1, <2>2, LaidOn
  <2>4. QED
    BY <1>1, <1>6, <2>3 DEF SpanInv
<1>11. QED
  BY <1>1, <1>3, <1>6, <1>7, <1>8, <1>9, <1>10 DEF Inv, TreeInv

\* The node of the call is deleted, with all below it, and the call returns.
LEMMA DeleteReturns ==
  ASSUME Inv, at = "result", DeleteNode(Top.child),
         NEW next \in {0, p}, next # 0 => Child.kind = "element",
         NEW endTag \in {Empty, Child.value}, Return(next, endTag),
         NEW W \in SUBSET (InUse \cup {Empty}),
         buf' = Ended(buf, W), next = 0 \/ W = {}, UNCHANGED text,
         untracked' \in [Pools -> Int],
         \/ error' # "NO_ERROR"
         \/ UNCHANGED error /\ \A pool \in Pools : untracked'[pool] =
              untracked[pool] - (IF PoolOf(Child.kind) = pool THEN 1 ELSE 0)
  PROVE  Inv'
<1>1. TypeInv /\ ControlInv /\ TreeInv /\ CountInv /\ SpanInv
  BY DEF Inv
<1>2. frames # << >> /\ Top.child # None
  BY <1>1 DEF ControlInv, Inner
<1>3. PICK k \in Nat : IsTree(k, nodes, Len(frames), frames)
  BY <1>1 DEF TreeInv
<1>4. PICK m \in Nat \ {0} : m = Len(frames) /\ Top = frames[m] /\ m \in 1..m
  BY <1>1, <1>2, TopIs DEF TypeInv
<1>5. PICK c \in 1..k : c = Top.child /\ \A i \in 1..(m - 1) : frames[i].child \in 1..(c - 1)
  <2>1. Top.child \in 1..k
    BY <1>2, <1>3, <1>4 DEF IsTree
  <2>2. ASSUME NEW i \in 1..(m - 1) PROVE frames[i].child \in 1..(Top.child - 1)
    <3>1. i \in 1..m /\ i < m
      BY <1>4
    <3>2. frames[i].child < Top.child
      BY <1>2, <1>3, <1>4, <3>1 DEF IsTree
    <3>3. frames[i].child \in 1..k
      BY <1>3, <1>4, <3>1 DEF IsTree
    <3>4. QED
      BY <2>1, <3>2, <3>3
  <2>3. QED
    BY <2>1, <2>2
<1>6. Child \in NodeSet /\ Child.value \in SpanSet /\ Child = nodes[c]
      /\ nodes \in [0..k -> NodeSet] /\ DOMAIN nodes = 0..k
  <2>1. Child \in NodeSet
    BY <1>1, <1>2, HereIs
  <2>2. DOMAIN nodes = 0..k
    BY <1>3 DEF IsTree
  <2>3. QED
    BY <1>1, <1>5, <2>1, <2>2 DEF NodeSet, TypeInv, Child
<1>7. endTag \in SpanSet
  BY <1>6, NothingSet
<1>8. Inside(c) = c..k
  BY <1>2, <1>3, <1>4, <1>5, InsideIs, InsideTop
<1>9. nodes' = [n \in 0..(c - 1) |-> nodes[n]]
  <2>1. DOMAIN nodes \ Inside(c) = 0..(c - 1)
    BY <1>5, <1>6, <1>8
  <2>2. QED
    BY <1>5, <2>1 DEF DeleteNode
<1>10. DOMAIN nodes' = 0..(c - 1) /\ \A n \in 0..(c - 1) : nodes'[n] = nodes[n]
  BY <1>9
<1>11. /\ frames' \in Seq(FrameSet) /\ Len(frames') = m - 1 /\ p' = next
       /\ \A i \in 1..(m - 1) :
            frames'[i].self = frames[i].self /\ frames'[i].child = frames[i].child
  BY <1>1, <1>2, <1>4, <1>7, ReturnIs DEF TypeInv
<1>12. \A i \in 1..(m - 1) : nodes'[frames[i].child] = nodes[frames[i].child]
  <2>1. \A i \in 1..(m - 1) : frames[i].child \in 0..(c - 1)
    BY <1>5
  <2>2. QED
    BY <1>10, <2>1
<1>13. /\ ControlInv' /\ at' \in {"returned", "result"}
       /\ EndTags(Len(frames'), frames') \subseteq {endTag} \ {Empty}
  BY <1>1, <1>2, <1>4, <1>7, <1>12, ReturnControl
<1>14. c - 1 \in Nat /\ IsTree(c - 1, nodes', m - 1, frames')
  <2>1. frames[m].child = c /\ c # None /\ IsTree(k, nodes, m, frames)
    BY <1>2, <1>3, <1>4, <1>5
  <2>2. Deletes(k, nodes, m, frames, nodes', frames', c)
    BY <1>10, <1>11, <2>1 DEF Deletes, CallsKept
  <2>3. QED
    BY <2>2, TreeDelete
<1>15. TypeInv'
  <2>1. buf' \in Seq(Char) /\ Len(buf') = Len(buf) /\ buf'[Len(buf)] = NUL
    <3>1. buf \in Seq(Char) /\ Len(buf) \in DOMAIN buf /\ buf[Len(buf)] = NUL
      BY <1>1 DEF TypeInv
    <3>2. QED
      BY <3>1, EndedIs
  <2>2. nodes' \in [DOMAIN nodes' -> NodeSet]
    BY <1>5, <1>6, <1>9
  <2>3. current' \in [Pools -> Int]
    <3>1. current' = [pool \in Pools |-> current[pool] - CountIn(nodes, c..k, pool)]
      BY <1>5, <1>8, CountIs DEF DeleteNode
    <3>2. \A pool \in Pools : CountIn(nodes, c..k, pool) \in Nat
      <4>1. NodesKept(1..(c - 1), nodes, nodes')
        BY <1>10 DEF NodesKept
      <4>2. QED
        BY <1>6, <4>1, CountDelete
    <3>3. current \in [Pools -> Int]
      BY <1>1 DEF TypeInv
    <3>4. QED
      BY <3>1, <3>2, <3>3
  <2>4. p' \in 0..Len(buf)
    BY <1>1, <1>11 DEF TypeInv
  <2>5. QED
    BY <1>1, <1>11, <1>13, <2>1, <2>2, <2>3, <2>4 DEF TypeInv
<1>16. CountInv'
  <2>1. ASSUME NEW pool \in Pools
        PROVE  current'[pool] = CountIn(nodes', DOMAIN nodes' \ {Document}, pool)
    <3>1. DOMAIN nodes' \ {Document} = 1..(c - 1) /\ DOMAIN nodes \ {Document} = 1..k
      BY <1>5, <1>6, <1>10 DEF Document
    <3>2. current'[pool] = current[pool] - CountIn(nodes, c..k, pool)
      BY <1>5, <1>8, CountIs DEF DeleteNode
    <3>3. current[pool] = CountIn(nodes, 1..k, pool)
      BY <1>1, <3>1 DEF CountInv
    <3>4. CountIn(nodes', 1..(c - 1), pool) =
            CountIn(nodes, 1..k, pool) - CountIn(nodes, c..k, pool)
      <4>1. NodesKept(1..(c - 1), nodes, nodes')
        BY <1>10 DEF NodesKept
      <4>2. QED
        BY <1>6, <4>1, CountDelete
    <3>5. QED
      BY <3>1, <3>2, <3>3, <3>4
  <2>2. ASSUME error' = "NO_ERROR", NEW pool \in Pools
        PROVE  untracked'[pool] =
                 Cardinality(BeingParsed(nodes', Len(frames'), frames', pool))
    <3>1. KindsKept(m - 1, nodes, nodes', frames, frames')
      BY <1>11, <1>12 DEF KindsKept
    <3>2. OneLess(nodes, nodes', m, m - 1, frames, frames')
      BY <1>2, <1>4, <3>1 DEF OneLess
    <3>3. Cardinality(BeingParsed(nodes', m - 1, frames', pool)) =
            Cardinality(BeingParsed(nodes, m, frames, pool))
              - (IF PoolOf(nodes[frames[m].child].kind) = pool THEN 1 ELSE 0)
      BY <3>2, BeingParsedLess
    <3>4. untracked'[pool] =
            untracked[pool] - (IF PoolOf(Child.kind) = pool THEN 1 ELSE 0)
          /\ untracked[pool] = Cardinality(BeingParsed(nodes, m, frames, pool))
      BY <1>1, <1>4, <2>2 DEF CountInv
    <3>5. QED
      BY <1>4, <1>5, <1>6, <1>11, <3>3, <3>4
  <2>3. QED
    BY <1>13, <2>1, <2>2 DEF CountInv
<1>17. InUse' \subseteq InUse
  <2>1. SpansIn(nodes') \subseteq SpansIn(nodes)
    <3>1. \A n \in 0..(c - 1) : n \in DOMAIN nodes
      BY <1>5, <1>6
    <3>2. QED
      BY <1>10, <3>1 DEF SpansIn
  <2>2. Child.value # Empty => Child.value \in SpansIn(nodes)
    <3>1. c \in DOMAIN nodes
      BY <1>5, <1>6
    <3>2. QED
      BY <1>6, <3>1 DEF SpansIn, SpansOf
  <2>3. QED
    BY <1>13, <2>1, <2>2 DEF InUse
<1>18. SpanInv'
  <2>1. /\ text \in Seq(Char) /\ buf \in Seq(Char) /\ p \in Nat /\ Len(text) <= Len(buf)
        /\ Laid(InUse, buf, text, p)
    BY <1>1 DEF TypeInv, SpanInv
  <2>2. next \in Nat /\ (next # 0 => p # 0 /\ p <= next /\ W = {})
    BY <2>1
  <2>3. Laid(InUse', buf', text, next)
    BY <1>17, <2>1, <2>2, LaidEnded
  <2>4. ASSUME next # 0, NEW s \in InUse' PROVE s.end < next
    <3>1. ~Borders
      BY <2>4 DEF Borders
    <3>2. QED
      BY <1>1, <1>17, <2>4, <3>1 DEF SpanInv
  <2>5. QED
    BY <1>11, <2>3, <2>4 DEF SpanInv
<1>19. QED
  BY <1>4, <1>11, <1>13, <1>14, <1>15, <1>16, <1>18 DEF Inv, TreeInv

LEMMA EndedNone == ASSUME NEW b \in Seq(Char) PROVE Ended(b, {}) = b
BY DEF Ended

\* The texts of the node that is being parsed, and the closing tag it got, are in use.
LEMMA ChildInUse ==
  ASSUME TypeInv, TreeInv, frames # << >>, Top.child # None
  PROVE  /\ Child.value \in InUse \cup {Empty} /\ Top.endTag \in InUse \cup {Empty}
         /\ SpansOf(Child) \subseteq InUse
<1>1. Top.child \in DOMAIN nodes
  BY HereIs
<1>2. SpansOf(Child) \subseteq SpansIn(nodes)
  BY <1>1 DEF SpansIn, Child
<1>3. Child.value \in SpansOf(Child) \cup {Empty}
  BY DEF SpansOf
<1>4. Len(frames) \in 1..Len(frames) /\ Top = frames[Len(frames)]
  BY TopIs DEF TypeInv
<1>5. Top.endTag \in EndTags(Len(frames), frames) \cup {Empty}
  BY <1>4 DEF EndTags
<1>6. QED
  BY <1>2, <1>3, <1>5 DEF InUse

LEMMA ChildFailsInv == ASSUME Inv, ChildFails PROVE Inv'
<1>1. /\ at = "result" /\ p = 0 /\ DeleteNode(Top.child) /\ Return(0, Empty)
      /\ error' # "NO_ERROR" /\ UNCHANGED <<text, buf, untracked>>
  BY DEF ChildFails
<1>2. buf' = Ended(buf, {}) /\ untracked' \in [Pools -> Int]
  BY <1>1, EndedNone DEF Inv, TypeInv
<1>3. QED
  BY <1>1, <1>2, DeleteReturns

LEMMA DeclarationFailsInv == ASSUME Inv, DeclarationFails PROVE Inv'
<1>1. /\ at = "result" /\ DeleteNode(Top.child) /\ Return(0, Empty)
      /\ buf' = Ended(buf, {Child.value})
      /\ error' # "NO_ERROR" /\ UNCHANGED <<text, untracked>>
  BY DEF DeclarationFails, GetStr, Ended
<1>2. Child.value \in InUse \cup {Empty} /\ untracked' \in [Pools -> Int]
  BY <1>1, ChildInUse DEF Inv, TypeInv, ControlInv, Inner
<1>3. QED
  BY <1>1, <1>2, DeleteReturns

LEMMA MismatchFailsInv == ASSUME Inv, MismatchFails PROVE Inv'
<1> DEFINE W == {Child.value} \cup ({Top.endTag} \ {Empty})
<1>1. /\ at = "result" /\ DeleteNode(Top.child) /\ Return(0, Empty)
      /\ buf' = Ended(buf, W)
      /\ error' # "NO_ERROR" /\ UNCHANGED <<text, untracked>>
  BY DEF MismatchFails, GetStr, Ended
<1>2. W \in SUBSET (InUse \cup {Empty}) /\ untracked' \in [Pools -> Int]
  BY <1>1, ChildInUse DEF Inv, TypeInv, ControlInv, Inner
<1> HIDE DEF W
<1>3. QED
  BY <1>1, <1>2, DeleteReturns

LEMMA ClosingTagInv == ASSUME Inv, ClosingTag PROVE Inv'
<1>1. /\ at = "result" /\ DeleteNode(Top.child) /\ Return(p, Child.value)
      /\ Child.kind = "element" /\ SetTracked("element")
      /\ UNCHANGED <<text, buf, error>>
  BY DEF ClosingTag, IsClosing
<1>2. buf' = Ended(buf, {}) /\ untracked \in [Pools -> Int]
  BY <1>1, EndedNone DEF Inv, TypeInv
<1>3. PoolOf(Child.kind) = "element"
  BY <1>1 DEF PoolOf
<1>4. /\ untracked' \in [Pools -> Int]
      /\ \A pool \in Pools : untracked'[pool] =
           untracked[pool] - (IF PoolOf(Child.kind) = pool THEN 1 ELSE 0)
  BY <1>1, <1>2, <1>3 DEF SetTracked, Pools
<1>5. QED
  BY <1>1, <1>2, <1>4, DeleteReturns

\* An error in the attributes: nothing happens to the nodes.
LEMMA AttributeErrorInv ==
  ASSUME Inv, at = "attributes", NEW name, name # "NO_ERROR", AttributeError(name),
         NEW A, InUse \subseteq A, Laid(A, buf, text, p),
         NEW W \in SUBSET (A \cup {Empty}), buf' = Ended(buf, W)
  PROVE  Inv'
<1>1. /\ TypeInv /\ ControlInv /\ TreeInv /\ CountInv /\ SpanInv
      /\ error' = name /\ p' = 0 /\ at' = "result"
      /\ UNCHANGED <<text, frames, nodes, current, untracked>>
  BY DEF Inv, AttributeError
<1>2. TypeInv'
  <2>1. buf' \in Seq(Char) /\ Len(buf') = Len(buf) /\ buf'[Len(buf)] = NUL
    <3>1. buf \in Seq(Char) /\ Len(buf) \in DOMAIN buf /\ buf[Len(buf)] = NUL
      BY <1>1 DEF TypeInv
    <3>2. QED
      BY <3>1, EndedIs
  <2>2. 0 \in 0..Len(buf)
    BY <1>1 DEF TypeInv
  <2>3. QED
    BY <1>1, <2>1, <2>2 DEF TypeInv
<1>3. ControlInv'
  BY <1>1 DEF ControlInv, Inner, Top, Child
<1>4. TreeInv' /\ CountInv'
  BY <1>1 DEF TreeInv, CountInv
<1>5. SpanInv'
  <2>1. InUse' = InUse
    BY <1>1 DEF InUse
  <2>2. /\ text \in Seq(Char) /\ buf \in Seq(Char) /\ p \in Nat /\ Len(text) <= Len(buf)
    BY <1>1 DEF TypeInv
  <2>3. Laid(InUse, Ended(buf, W), text, 0)
    BY <2>2, LaidEnded
  <2>4. QED
    BY <1>1, <2>1, <2>3 DEF SpanInv
<1>6. QED
  BY <1>2, <1>3, <1>4, <1>5 DEF Inv

LEMMA AttributeFailsInv == ASSUME Inv, AttributeFails PROVE Inv'
<1>1. at = "attributes" /\ AttributeError("PARSING_ATTRIBUTE") /\ UNCHANGED buf
  BY DEF AttributeFails
<1>2. buf' = Ended(buf, {}) /\ Laid(InUse, buf, text, p)
  BY <1>1, EndedNone DEF Inv, TypeInv, SpanInv
<1>3. QED
  BY <1>1, <1>2, AttributeErrorInv

LEMMA OpenTagFailsInv == ASSUME Inv, OpenTagFails PROVE Inv'
<1> DEFINE W == IF buf[SkipWhiteSpace(p)] = NUL THEN {Child.value} ELSE {}
<1>1. W \in SUBSET {Child.value} /\ buf' = Ended(buf, W)
  BY Zenon DEF OpenTagFails, GetStr, Ended
<1> HIDE DEF W
<1>2. at = "attributes" /\ AttributeError("PARSING_ELEMENT")
  BY DEF OpenTagFails
<1>3. Laid(InUse, buf, text, p)
  BY DEF Inv, SpanInv
<1>4. Child.value \in InUse \cup {Empty}
  BY <1>2, ChildInUse DEF Inv, ControlInv, Inner
<1>5. QED
  BY <1>1, <1>2, <1>3, <1>4, AttributeErrorInv

-----------------------------------------------------------------------------
(***************************************************************************)
(* Names, attributes and texts.                                            *)
(***************************************************************************)

\* An attribute that is taken: its name, then its value, then the quote.
LEMMA AttributeIs ==
  ASSUME TypeInv, NEW s \in 1..Len(buf), NEW a \in AttributeAt(s)
  PROVE  /\ a \in AttributeSet
         /\ a.name.first = s /\ s <= a.name.end /\ a.name.end < a.value.first
         /\ a.value.first <= a.value.end /\ a.value.end + 1 <= Len(buf)
<1> DEFINE equals == SkipWhiteSpace(NameEnd(s))
           quote == SkipWhiteSpace(equals + 1)
           close == Find(buf, quote + 1, {buf[quote], NUL})
<1>1. /\ buf[equals] = EQUALS /\ buf[quote] \in {QUOTE, APOS} /\ buf[close] # NUL
      /\ a = [name |-> Span(s, NameEnd(s)), value |-> Span(quote + 1, close)]
  BY Zenon DEF AttributeAt
<1>2. PICK n \in Nat : n = Len(buf) /\ DOMAIN buf = 1..n /\ buf[n] = NUL
  BY DEF TypeInv
<1> HIDE DEF close, quote, equals
<1>3. PICK e \in Nat : e = NameEnd(s) /\ s <= e /\ e <= n
  BY <1>2, SkipIs
<1>4. PICK i \in Nat : i = equals /\ e <= i /\ i < n
  <2>1. e \in 1..Len(buf)
    BY <1>2, <1>3
  <2>2. equals \in e..n
    BY <1>2, <1>3, <2>1, SkipIs DEF equals
  <2>3. equals # n
    BY <1>1, <1>2 DEF EQUALS, NUL
  <2>4. QED
    BY <2>1, <2>2, <2>3
<1>5. PICK j \in Nat : j = quote /\ i < j /\ j < n
  <2>1. i + 1 \in 1..Len(buf)
    BY <1>2, <1>4
  <2>2. quote \in (i + 1)..n
    BY <1>2, <1>4, <2>1, SkipIs DEF quote
  <2>3. quote # n
    BY <1>1, <1>2 DEF QUOTE, APOS, NUL
  <2>4. QED
    BY <2>2, <2>3
<1>6. PICK c \in Nat : c = close /\ j < c /\ c < n
  <2>1. j + 1 \in 1..n /\ n \in (j + 1)..n
    BY <1>5
  <2>2. close \in (j + 1)..n
    BY <1>2, <1>5, <2>1, FindFirst DEF close
  <2>3. close # n
    BY <1>1, <1>2
  <2>4. QED
    BY <2>2, <2>3
<1>7. a = [name |-> Span(s, e), value |-> Span(j + 1, c)]
  BY <1>1, <1>3, <1>5, <1>6
<1>8. Span(s, e) \in SpanSet /\ Span(j + 1, c) \in SpanSet
  BY <1>3, <1>5, <1>6 DEF Span, SpanSet
<1>9. a \in AttributeSet
  BY <1>7, <1>8 DEF AttributeSet
<1>10. a.name.first = s /\ a.name.end = e /\ a.value.first = j + 1 /\ a.value.end = c
  BY <1>7 DEF Span
<1>11. e < j + 1 /\ j + 1 <= c /\ c + 1 <= n
  BY <1>4, <1>5, <1>6
<1>12. QED
  BY <1>2, <1>3, <1>9, <1>10, <1>11

\* What is asked of the parser at an attribute: it starts after all that is in use.
LEMMA AttributeStarts ==
  ASSUME TypeInv, SpanInv, ControlInv, at = "attributes",
         IsNameStartChar(buf[SkipWhiteSpace(p)])
  PROVE  /\ p \in 1..Len(buf) /\ SkipWhiteSpace(p) \in p..Len(buf)
         /\ \A r \in InUse : r.end < SkipWhiteSpace(p)
<1>1. p \in 1..Len(buf)
  BY DEF TypeInv, ControlInv, Inner
<1>2. SkipWhiteSpace(p) \in p..Len(buf)
  BY <1>1, SkipIs
<1>3. ASSUME NEW r \in InUse PROVE r.end < SkipWhiteSpace(p)
  <2>1. r.end < p \/ (r.end = p /\ Borders)
    BY <1>1 DEF SpanInv
  <2>2. r.end \in Nat
    BY DEF SpanInv, Laid, SpanSet
  <2>3. CASE r.end < p
    BY <1>1, <1>2, <2>2, <2>3
  <2>4. CASE r.end = p /\ Borders
    <3>1. ~IsNameChar(buf[p])
      BY <2>4 DEF Borders
    <3>2. SkipWhiteSpace(p) # p
      BY <3>1 DEF IsNameChar
    <3>3. QED
      BY <1>1, <1>2, <2>4, <3>2
  <2>5. QED
    BY <2>1, <2>3, <2>4
<1>4. QED
  BY <1>1, <1>2, <1>3

LEMMA DuplicateAttributeInv == ASSUME Inv, DuplicateAttribute PROVE Inv'
<1>1. /\ TypeInv /\ ControlInv /\ TreeInv /\ SpanInv
      /\ at = "attributes" /\ AttributeError("PARSING_ATTRIBUTE")
  BY DEF Inv, DuplicateAttribute
<1> DEFINE s == SkipWhiteSpace(p)
<1>2. PICK a \in AttributeAt(s) : \E i \in DOMAIN Child.attributes :
        /\ IsNameStartChar(buf[s])
        /\ buf' = Ended(buf, {a.name, Child.attributes[i].value})
  BY Zenon DEF DuplicateAttribute, GetStr, Ended
<1>3. PICK i \in DOMAIN Child.attributes :
        buf' = Ended(buf, {a.name, Child.attributes[i].value})
  BY <1>2
<1>4. /\ p \in 1..Len(buf) /\ s \in p..Len(buf) /\ \A r \in InUse : r.end < s
  BY <1>1, <1>2, AttributeStarts
<1> HIDE DEF s
<1>5. s \in 1..Len(buf) /\ Len(buf) \in Nat /\ Len(buf) = Len(text) + 1
      /\ p \in Nat /\ p # 0 /\ text \in Seq(Char)
  BY <1>1, <1>4 DEF TypeInv
<1>6. /\ a \in AttributeSet
      /\ a.name.first = s /\ s <= a.name.end /\ a.name.end < a.value.first
      /\ a.value.first <= a.value.end /\ a.value.end + 1 <= Len(buf)
  BY <1>1, <1>2, <1>5, AttributeIs
<1>7. a.name \in SpanSet /\ a.name.end <= Len(buf) /\ p <= a.name.first
  BY <1>4, <1>5, <1>6 DEF AttributeSet, SpanSet
<1>8. Laid(InUse \cup {a.name}, buf, text, p)
  <2>1. Laid(InUse, buf, text, p) /\ \A r \in InUse : r.end < a.name.first
    BY <1>1, <1>4, <1>6 DEF SpanInv
  <2>2. QED
    BY <1>5, <1>6, <1>7, <2>1, LaidMore
<1>9. Child.attributes[i].value \in InUse \cup {Empty}
  <2>1. frames # << >> /\ Top.child # None
    BY <1>1 DEF ControlInv, Inner
  <2>2. SpansOf(Child) \subseteq InUse
    BY <1>1, <2>1, ChildInUse
  <2>3. Child.attributes[i].value \in SpansOf(Child) \cup {Empty}
    BY DEF SpansOf
  <2>4. QED
    BY <2>2, <2>3
<1> DEFINE A == InUse \cup {a.name}
           W == {a.name, Child.attributes[i].value}
<1>10. InUse \subseteq A /\ Laid(A, buf, text, p) /\ W \in SUBSET (A \cup {Empty})
       /\ buf' = Ended(buf, W)
  BY <1>3, <1>8, <1>9
<1> HIDE DEF A, W
<1>11. QED
  BY <1>1, <1>10, AttributeErrorInv

\* The node in hand becomes another, with the same children.
SetsChild(node) ==
  /\ at \in {"name", "attributes", "leaf"} /\ at' \in {"attributes", "result"}
  /\ at' = "attributes" => Child.kind = "element" /\ p' # 0
  /\ SetChild(node) /\ node \in NodeSet
  /\ node.kind = Child.kind /\ node.children = Child.children
  /\ UNCHANGED <<frames, untracked>>
  /\ error' = "NO_ERROR" => error = "NO_ERROR"

LEMMA ChildSet ==
  ASSUME TypeInv, ControlInv, TreeInv, CountInv, NEW node, SetsChild(node)
  PROVE  /\ frames # << >> /\ Top.child # None /\ Top.child \in DOMAIN nodes \ {Document}
         /\ nodes' \in [DOMAIN nodes' -> NodeSet] /\ DOMAIN nodes' = DOMAIN nodes
         /\ \A n \in DOMAIN nodes : nodes'[n].kind = nodes[n].kind
         /\ \A n \in DOMAIN nodes : n # Top.child => nodes'[n] = nodes[n]
         /\ nodes'[Top.child] = node
         /\ ControlInv' /\ TreeInv'
         /\ error' = "NO_ERROR" => \A pool \in Pools :
              untracked'[pool] = Cardinality(BeingParsed(nodes', Len(frames'), frames', pool))
         /\ InUse' \subseteq InUse \cup SpansOf(node)
<1>1. /\ at \in {"name", "attributes", "leaf"} /\ at' \in {"attributes", "result"}
      /\ at' = "attributes" => Child.kind = "element" /\ p' # 0
      /\ SetChild(node) /\ node \in NodeSet
      /\ node.kind = Child.kind /\ node.children = Child.children
      /\ UNCHANGED <<frames, untracked>> /\ (error' = "NO_ERROR" => error = "NO_ERROR")
  BY DEF SetsChild
<1>2. frames # << >> /\ Top.child # None /\ Top.endTag = Empty
  BY <1>1 DEF ControlInv, Inner
<1>3. PICK c \in DOMAIN nodes \ {Document} : c = Top.child /\ Child = nodes[c]
  BY <1>2, HereIs DEF Child
<1>4. nodes' = [nodes EXCEPT ![c] = node] /\ nodes \in [DOMAIN nodes -> NodeSet]
  BY <1>1, <1>3 DEF SetChild, TypeInv
<1>5. /\ nodes' \in [DOMAIN nodes -> NodeSet] /\ DOMAIN nodes' = DOMAIN nodes
      /\ \A n \in DOMAIN nodes : nodes'[n] = IF n = c THEN node ELSE nodes[n]
  BY <1>1, <1>4
<1>6. \A n \in DOMAIN nodes :
        nodes'[n].kind = nodes[n].kind /\ nodes'[n].children = nodes[n].children
  BY <1>1, <1>3, <1>5
<1>7. Top' = Top /\ Child' = node
  BY <1>1, <1>3, <1>5 DEF Top, Child
<1>8. \A i \in 1..(Len(frames) - 1) : frames[i].child \in DOMAIN nodes
  BY <1>2, HereIs
<1>9. ControlInv'
  <2>1. \A i \in 1..(Len(frames') - 1) :
          nodes'[frames'[i].child].kind = "element" /\ frames'[i].endTag = Empty
    BY <1>1, <1>6, <1>8 DEF ControlInv
  <2>2. QED
    BY <1>1, <1>2, <1>7, <2>1 DEF ControlInv, Inner
<1>10. PICK k \in Nat : IsTree(k, nodes, Len(frames), frames)
  BY DEF TreeInv
<1>11. DOMAIN nodes = 0..k
  BY <1>10 DEF IsTree
<1>12. PICK m \in Nat : m = Len(frames)
  BY <1>2, TopIs DEF TypeInv
<1>13. TreeInv'
  <2>1. TreeKept(k, nodes, m, frames, nodes', frames')
    BY <1>1, <1>5, <1>6, <1>10, <1>11, <1>12 DEF TreeKept, CallsKept
  <2>2. IsTree(k, nodes', m, frames')
    BY <2>1, TreeSame
  <2>3. QED
    BY <1>1, <1>12, <2>2 DEF TreeInv
<1>14. ASSUME error' = "NO_ERROR", NEW pool \in Pools
       PROVE  untracked'[pool] =
                Cardinality(BeingParsed(nodes', Len(frames'), frames', pool))
  <2>1. \A i \in 1..m : frames[i].child # None => frames[i].child \in DOMAIN nodes
    BY <1>10, <1>11, <1>12 DEF IsTree
  <2>2. NoneLess(nodes, nodes', m, m, frames, frames')
    BY <1>1, <1>6, <1>12, <2>1 DEF NoneLess
  <2>3. Cardinality(BeingParsed(nodes', m, frames', pool)) =
          Cardinality(BeingParsed(nodes, m, frames, pool))
    BY <2>2, BeingParsedSame
  <2>4. QED
    BY <1>1, <1>12, <1>14, <2>3 DEF CountInv
<1>15. InUse' \subseteq InUse \cup SpansOf(node)
  <2>1. SpansIn(nodes') \subseteq SpansIn(nodes) \cup SpansOf(node)
    BY <1>5 DEF SpansIn
  <2>2. QED
    BY <1>1, <2>1 DEF InUse
<1>16. QED
  BY <1>2, <1>3, <1>5, <1>6, <1>9, <1>13, <1>14, <1>15

\* ... and with the same attributes.
LEMMA ChildSetCounts ==
  ASSUME TypeInv, ControlInv, TreeInv, CountInv, NEW node, SetsChild(node),
         DOMAIN node.attributes = DOMAIN Child.attributes, UNCHANGED current
  PROVE  CountInv'
<1>1. /\ Top.child \in DOMAIN nodes \ {Document} /\ DOMAIN nodes' = DOMAIN nodes
      /\ \A n \in DOMAIN nodes : nodes'[n].kind = nodes[n].kind
      /\ \A n \in DOMAIN nodes : n # Top.child => nodes'[n] = nodes[n]
      /\ nodes'[Top.child] = node
      /\ error' = "NO_ERROR" => \A pool \in Pools :
           untracked'[pool] = Cardinality(BeingParsed(nodes', Len(frames'), frames', pool))
  BY ChildSet
<1>2. NodesKept(DOMAIN nodes \ {Document}, nodes, nodes')
  BY <1>1 DEF NodesKept, Child
<1>3. at' # "parsed"
  BY DEF SetsChild
<1>4. \A pool \in Pools : current'[pool] = CountIn(nodes', DOMAIN nodes' \ {Document}, pool)
  <2> TAKE pool \in Pools
  <2>1. CountIn(nodes', DOMAIN nodes \ {Document}, pool) =
          CountIn(nodes, DOMAIN nodes \ {Document}, pool)
    BY <1>2, CountSame
  <2>2. current[pool] = CountIn(nodes, DOMAIN nodes \ {Document}, pool)
    BY DEF CountInv
  <2>3. QED
    BY <1>1, <2>1, <2>2
<1>5. QED
  BY <1>1, <1>3, <1>4 DEF CountInv

\* The place of the text of a node is in use before and after, or new.
LEMMA SpansOfValue ==
  ASSUME NEW node, NEW other, other.attributes = node.attributes
  PROVE  SpansOf(other) \subseteq SpansOf(node) \cup {other.value}
<1>1. NamesOf(other) = NamesOf(node)
  BY DEF NamesOf
<1>2. QED
  BY <1>1 DEF SpansOf

\* Nothing is written, and the node in hand may get its name or text: the place
\* s, after all the others.
LEMMA ValueSet ==
  ASSUME Inv, NEW node, SetsChild(node), node.attributes = Child.attributes,
         UNCHANGED <<text, buf, current>>, p' \in 0..Len(buf),
         \/ node.value = Child.value
         \/ /\ node.value \in SpanSet /\ p <= node.value.first
            /\ node.value.first <= node.value.end /\ node.value.end <= Len(buf)
            /\ \A r \in InUse : r.end < node.value.first,
         p' # 0 => /\ p <= p'
                   /\ \A r \in InUse : r.end < p'
                   /\ node.value # Child.value => 
                        node.value.end < p' \/ (node.value.end = p' /\ Borders')
  PROVE  Inv'
<1>1. TypeInv /\ ControlInv /\ TreeInv /\ CountInv /\ SpanInv
  BY DEF Inv
<1>2. /\ frames # << >> /\ Top.child # None
      /\ nodes' \in [DOMAIN nodes' -> NodeSet]
      /\ ControlInv' /\ TreeInv' /\ InUse' \subseteq InUse \cup SpansOf(node)
  BY <1>1, ChildSet
<1>3. CountInv'
  BY <1>1, ChildSetCounts
<1>4. /\ UNCHANGED <<frames, untracked>> /\ at' \in {"attributes", "result"}
      /\ at \in Inner
  BY DEF SetsChild, Inner
<1>5. TypeInv'
  BY <1>1, <1>2, <1>4 DEF TypeInv, Inner
<1>6. SpansOf(Child) \subseteq InUse
  BY <1>1, <1>2, ChildInUse
<1>7. SpansOf(node) \subseteq SpansOf(Child) \cup {node.value}
  BY SpansOfValue
<1>8. /\ text \in Seq(Char) /\ p \in Nat /\ p # 0 /\ p' \in Nat
      /\ Len(buf) = Len(text) + 1 /\ Laid(InUse, buf, text, p)
  BY <1>1, <1>4 DEF TypeInv, SpanInv, ControlInv
<1>9. CASE node.value = Child.value \/ node.value \in InUse
  <2>1. SpansOf(node) \subseteq InUse
    BY <1>6, <1>7, <1>9 DEF SpansOf
  <2>2. InUse' \in SUBSET InUse
    BY <1>2, <2>1
  <2>3. Laid(InUse', buf, text, p')
    BY <1>8, <2>2, LaidOn
  <2>4. QED
    BY <1>1, <1>2, <1>3, <1>5, <2>2, <2>3 DEF Inv, SpanInv
<1>10. CASE node.value # Child.value
  <2>1. InUse' \in SUBSET (InUse \cup {node.value})
    BY <1>2, <1>6, <1>7
  <2>2. Laid(InUse', buf, text, p)
    BY <1>8, <1>10, <2>1, LaidMore
  <2>3. Laid(InUse', buf, text, p')
    BY <1>8, <2>2, LaidOn
  <2>4. p' # 0 => \A r \in InUse' : r.end < p' \/ (r.end = p' /\ Borders')
    BY <1>10, <2>1
  <2>5. QED
    BY <1>1, <1>2, <1>3, <1>5, <2>3, <2>4 DEF Inv, SpanInv
<1>11. QED
  BY <1>9, <1>10

\* A step between the calls finds its node, and what is in use behind it.
LEMMA InHand ==
  ASSUME Inv, at \in {"name", "attributes", "leaf"}
  PROVE  /\ TypeInv /\ ControlInv /\ TreeInv /\ CountInv /\ SpanInv
         /\ frames # << >> /\ Top.child # None /\ Child \in NodeSet
         /\ p \in 1..Len(buf) /\ p \in Nat /\ p # 0
         /\ Len(buf) \in Nat /\ DOMAIN buf = 1..Len(buf) /\ buf[Len(buf)] = NUL
         /\ \A r \in InUse : r.end \in Nat /\ r.end <= p
         /\ at # "attributes" => \A r \in InUse : r.end < p
<1>1. TypeInv /\ ControlInv /\ TreeInv /\ CountInv /\ SpanInv
  BY DEF Inv
<1>2. frames # << >> /\ Top.child # None /\ p # 0
  BY <1>1 DEF ControlInv, Inner
<1>3. Child \in NodeSet
  BY <1>1, <1>2, HereIs
<1>4. /\ Len(buf) \in Nat /\ DOMAIN buf = 1..Len(buf) /\ buf[Len(buf)] = NUL
      /\ p \in 1..Len(buf) /\ p \in Nat
  BY <1>1, <1>2 DEF TypeInv
<1>5. \A r \in InUse : r.end \in Nat /\ (r.end < p \/ (r.end = p /\ Borders))
  BY <1>1, <1>2 DEF SpanInv, Laid, SpanSet
<1>6. at # "attributes" => ~Borders
  BY DEF Borders
<1>7. QED
  BY <1>1, <1>2, <1>3, <1>4, <1>5, <1>6

LEMMA EmptyTagEndsInv == ASSUME Inv, EmptyTagEnds PROVE Inv'
<1> DEFINE node == [Child EXCEPT !.closing = "CLOSED"]
<1>1. /\ at = "attributes" /\ at' = "result" /\ SetChild(node)
      /\ Matches(buf, SkipWhiteSpace(p), <<SLASH, GREATER>>)
      /\ p' = SkipWhiteSpace(p) + 2
      /\ UNCHANGED <<text, buf, frames, current, untracked, error>>
  BY Zenon DEF EmptyTagEnds
<1>2. /\ TypeInv /\ Child \in NodeSet /\ p \in 1..Len(buf) /\ p \in Nat
      /\ Len(buf) \in Nat /\ DOMAIN buf = 1..Len(buf) /\ buf[Len(buf)] = NUL
      /\ \A r \in InUse : r.end \in Nat /\ r.end <= p
  BY <1>1, InHand
<1>3. /\ node \in NodeSet /\ node.kind = Child.kind /\ node.children = Child.children
      /\ node.value = Child.value /\ node.attributes = Child.attributes
  BY <1>2 DEF NodeSet
<1> HIDE DEF node
<1>4. SetsChild(node)
  BY <1>1, <1>3 DEF SetsChild
<1>5. PICK s \in Nat : s = SkipWhiteSpace(p) /\ p <= s
  BY <1>2, SkipIs
<1>6. s + 2 <= Len(buf)
  <2> DEFINE tag == <<SLASH, GREATER>>
  <2>1. tag \in Seq(Char) /\ Len(tag) = 2 /\ tag[2] # NUL
    BY DEF SLASH, GREATER, Char, NUL
  <2>4. Len(tag) # 0 /\ tag[Len(tag)] # NUL
    BY <2>1
  <2>2. Matches(buf, s, tag)
    BY <1>1, <1>5
  <2> HIDE DEF tag
  <2>5. s + Len(tag) <= Len(buf)
    BY <1>2, <2>1, <2>2, <2>4, MatchEnds
  <2>3. QED
    BY <2>1, <2>5
<1>7. p' \in 0..Len(buf) /\ p <= p' /\ \A r \in InUse : r.end < p'
  BY <1>1, <1>2, <1>5, <1>6
<1>8. QED
  BY <1>1, <1>3, <1>4, <1>7, ValueSet

LEMMA ParseNameInv == ASSUME Inv, ParseName PROVE Inv'
<1> DEFINE s == SkipWhiteSpace(p)
           first == IF buf[s] = SLASH THEN s + 1 ELSE s
           node == [Child EXCEPT !.value = Span(first, NameEnd(first)),
                                 !.closing = IF buf[s] = SLASH THEN "CLOSING" ELSE @]
<1>1. /\ at = "name"
      /\ \/ p' = 0 /\ at' = "result" /\ UNCHANGED nodes
         \/ /\ IsNameStartChar(buf[first])
            /\ p' = NameEnd(first) /\ at' = "attributes" /\ SetChild(node)
      /\ UNCHANGED <<text, buf, frames, current, untracked, error>>
  BY Zenon DEF ParseName
<1>2. /\ TypeInv /\ ControlInv /\ Child \in NodeSet /\ p \in 1..Len(buf) /\ p \in Nat
      /\ Len(buf) \in Nat /\ DOMAIN buf = 1..Len(buf) /\ buf[Len(buf)] = NUL
      /\ \A r \in InUse : r.end \in Nat /\ r.end < p
  BY <1>1, InHand
<1>3. CASE p' = 0 /\ at' = "result" /\ UNCHANGED nodes
  <2>1. SetChild(Child)
    BY <1>2, <1>3 DEF SetChild, Child, TypeInv
  <2>2. SetsChild(Child)
    BY <1>1, <1>2, <1>3, <2>1 DEF SetsChild
  <2>3. QED
    BY <1>1, <1>2, <1>3, <2>2, ValueSet
<1>4. CASE IsNameStartChar(buf[first])
           /\ p' = NameEnd(first) /\ at' = "attributes" /\ SetChild(node)
  <2>1. PICK n \in Nat : n = Len(buf) /\ buf[n] = NUL
    BY <1>2
  <2>2. s \in p..n
    BY <1>2, <2>1, SkipIs
  <2> HIDE DEF s
  <2>3. PICK f \in Nat : f = first /\ p <= f /\ f \in 1..n
    <3>1. PICK t \in Nat : t = s /\ p <= t /\ t <= n
      BY <1>2, <2>1, <2>2
    <3>2. buf[t] = SLASH => t # n
      BY <2>1 DEF SLASH, NUL
    <3>3. first = IF buf[t] = SLASH THEN t + 1 ELSE t
      BY <3>1
    <3> HIDE DEF first
    <3>4. first \in Nat /\ p <= first /\ first \in 1..n
      <4>1. p \in Nat /\ 1 <= p
        BY <1>2
      <4>2. CASE buf[t] = SLASH
        <5>1. first = t + 1 /\ t < n
          BY <3>1, <3>2, <3>3, <4>2
        <5>2. QED
          BY <3>1, <4>1, <5>1
      <4>3. CASE buf[t] # SLASH
        BY <3>1, <3>3, <4>1, <4>3
      <4>4. QED
        BY <4>2, <4>3
    <3>5. QED
      BY <3>4
  <2>4. PICK e \in Nat : e = NameEnd(f) /\ f <= e /\ e <= n /\ ~IsNameChar(buf[e])
    <3>1. f \in 1..Len(buf)
      BY <2>1, <2>3
    <3>2. NameEnd(f) \in f..Len(buf) /\ ~IsNameChar(buf[NameEnd(f)])
      BY <1>2, <3>1, SkipIs
    <3>3. NameEnd(f) \in Nat
      BY <2>1, <2>3, <3>2
    <3>4. QED
      BY <2>1, <2>3, <3>2, <3>3
  <2>5. IsNameStartChar(buf[f])
    BY <1>4, <2>3
  <2>6. f # e
    BY <2>4, <2>5 DEF IsNameChar
  <2>7. /\ node.kind = Child.kind /\ node.children = Child.children
        /\ node.attributes = Child.attributes /\ node.value = Span(f, e)
        /\ node \in NodeSet
    <3>1. Span(f, e) \in SpanSet /\ Span(first, NameEnd(first)) = Span(f, e)
      BY <2>3, <2>4 DEF Span, SpanSet
    <3>2. QED
      BY <1>2, <3>1 DEF NodeSet
  <2> HIDE DEF node, first
  <2>8. Child.kind = "element"
    BY <1>1, <1>2 DEF ControlInv
  <2>9. p' = e /\ p' \in 0..n /\ p' # 0 /\ p <= p'
    BY <1>2, <1>4, <2>3, <2>4
  <2>10. SetsChild(node)
    BY <1>1, <1>4, <2>7, <2>8, <2>9 DEF SetsChild
  <2>11. /\ Span(f, e) \in SpanSet /\ Span(f, e).first = f /\ Span(f, e).end = e
    BY <2>3, <2>4 DEF Span, SpanSet
  <2>12. Borders'
    BY <1>1, <1>4, <2>4, <2>9 DEF Borders
  <2>13. \A r \in InUse : r.end < f /\ r.end < p'
    BY <1>2, <2>3, <2>9
  <2>14. QED
    BY <1>1, <2>1, <2>3, <2>4, <2>7, <2>9, <2>10, <2>11, <2>12, <2>13, ValueSet
<1>5. QED
  BY <1>1, <1>3, <1>4

\* The tags that end a node, and the errors if there is none.
LeafEnds == {<<63, 62>>, <<45, 45, 62>>, <<93, 93, 62>>, <<62>>, <<60>>}

LEMMA EndTagIs ==
  ASSUME NEW kind \in LeafKinds
  PROVE  /\ EndTag(kind) \in Seq(Char) /\ Len(EndTag(kind)) # 0 /\ Len(EndTag(kind)) \in Nat
         /\ EndTag(kind)[Len(EndTag(kind))] # NUL
         /\ kind = "text" => EndTag(kind) = <<LESS>>
         /\ ErrorOf(kind) # "NO_ERROR"
<1>1. ErrorOf(kind) # "NO_ERROR"
  BY DEF ErrorOf, LeafKinds, Kinds
<1>2. kind = "text" => EndTag(kind) = <<LESS>>
  BY DEF EndTag, LESS
<1>3. EndTag(kind) \in LeafEnds
  BY DEF LeafEnds, EndTag, LeafKinds, Kinds
<1>4. ASSUME NEW t \in LeafEnds
      PROVE  t \in Seq(Char) /\ Len(t) # 0 /\ Len(t) \in Nat /\ t[Len(t)] # NUL
  <2>1. CASE t = <<63, 62>>
    BY <2>1 DEF Char, NUL
  <2>2. CASE t = <<45, 45, 62>>
    BY <2>2 DEF Char, NUL
  <2>3. CASE t = <<93, 93, 62>>
    BY <2>3 DEF Char, NUL
  <2>4. CASE t = <<62>>
    BY <2>4 DEF Char, NUL
  <2>5. CASE t = <<60>>
    BY <2>5 DEF Char, NUL
  <2>6. QED
    BY <1>4, <2>1, <2>2, <2>3, <2>4, <2>5 DEF LeafEnds
<1>5. QED
  BY <1>1, <1>2, <1>3, <1>4

\* Where the end tag is.
LEMMA EndTagAtIs ==
  ASSUME TypeInv, p \in 1..Len(buf), NEW kind \in LeafKinds, NEW i \in EndTagAt(EndTag(kind))
  PROVE  /\ i \in Nat /\ p <= i /\ i + Len(EndTag(kind)) <= Len(buf)
         /\ kind = "text" => buf[i] = LESS
<1>1. PICK n \in Nat : n = Len(buf) /\ DOMAIN buf = 1..n /\ buf[n] = NUL
  BY DEF TypeInv
<1>2. PICK q \in Nat : q = p /\ 1 <= q /\ q <= n
  BY <1>1
<1>3. Find(buf, p, {NUL}) \in p..n
  <2>1. n \in p..n /\ p \in 1..n
    BY <1>1, <1>2
  <2>2. QED
    BY <1>1, <2>1, FindFirst
<1>4. i \in p..Find(buf, p, {NUL}) /\ Matches(buf, i, EndTag(kind))
  BY DEF EndTagAt
<1>5. i \in Nat /\ p <= i
  BY <1>2, <1>3, <1>4
<1>6. i + Len(EndTag(kind)) <= n
  BY <1>1, <1>4, <1>5, EndTagIs, MatchEnds
<1>7. ASSUME kind = "text" PROVE buf[i] = LESS
  <2>1. Matches(buf, i, <<LESS>>)
    BY <1>4, <1>7, EndTagIs
  <2>2. 1 \in DOMAIN <<LESS>> /\ i + 1 - 1 = i
    BY <1>5
  <2>3. buf[i + 1 - 1] = <<LESS>>[1]
    BY <2>1, <2>2 DEF Matches
  <2>4. QED
    BY <2>2, <2>3
<1>8. QED
  BY <1>1, <1>5, <1>6, <1>7

LEMMA ParseLeafInv == ASSUME Inv, ParseLeaf PROVE Inv'
<1> DEFINE tag == EndTag(Child.kind)
           node(i) == [Child EXCEPT !.value = Span(p, i)]
<1>1. /\ at = "leaf" /\ at' = "result"
      /\ \/ error' = ErrorOf(Child.kind) /\ p' = 0 /\ UNCHANGED nodes
         \/ \E i \in EndTagAt(tag) :
              /\ SetChild(node(i))
              /\ p' = (IF Child.kind # "text" THEN i + Len(tag)
                       ELSE IF buf[i + 1] # NUL THEN i ELSE 0)
              /\ UNCHANGED error
      /\ UNCHANGED <<text, buf, frames, current, untracked>>
  BY Zenon DEF ParseLeaf
<1>2. /\ TypeInv /\ ControlInv /\ Child \in NodeSet /\ p \in 1..Len(buf) /\ p \in Nat
      /\ p # 0 /\ Len(buf) \in Nat
      /\ \A r \in InUse : r.end \in Nat /\ r.end < p
  BY <1>1, InHand
<1>3. Child.kind \in LeafKinds
  BY <1>1, <1>2 DEF ControlInv
<1>4. CASE error' = ErrorOf(Child.kind) /\ p' = 0 /\ UNCHANGED nodes
  <2>1. SetChild(Child)
    BY <1>2, <1>4 DEF SetChild, Child, TypeInv
  <2>2. SetsChild(Child)
    BY <1>1, <1>2, <1>3, <1>4, <2>1, EndTagIs DEF SetsChild
  <2>3. QED
    BY <1>1, <1>2, <1>4, <2>2, ValueSet
<1>5. CASE \E i \in EndTagAt(tag) :
              /\ SetChild(node(i))
              /\ p' = (IF Child.kind # "text" THEN i + Len(tag)
                       ELSE IF buf[i + 1] # NUL THEN i ELSE 0)
              /\ UNCHANGED error
  <2>1. PICK i \in EndTagAt(tag) :
              /\ SetChild(node(i))
              /\ p' = (IF Child.kind # "text" THEN i + Len(tag)
                       ELSE IF buf[i + 1] # NUL THEN i ELSE 0)
              /\ UNCHANGED error
    BY <1>5
  <2>2. i \in Nat /\ p <= i /\ i + Len(tag) <= Len(buf) /\ (Child.kind = "text" => buf[i] = LESS)
    BY <1>2, <1>3, EndTagAtIs
  <2>3. PICK l \in Nat : l = Len(tag) /\ l # 0
    BY <1>3, EndTagIs
  <2> HIDE DEF tag
  <2> DEFINE new == node(i)
  <2>4. Span(p, i) \in SpanSet /\ Span(p, i).first = p /\ Span(p, i).end = i
    BY <1>2, <2>2 DEF Span, SpanSet
  <2>5. /\ new \in NodeSet /\ new.kind = Child.kind /\ new.children = Child.children
        /\ new.attributes = Child.attributes /\ new.value = Span(p, i)
    BY <1>2, <2>4 DEF NodeSet
  <2>6. SetChild(new)
    BY <2>1
  <2> HIDE DEF new, node
  <2>7. SetsChild(new)
    BY <1>1, <2>1, <2>5, <2>6 DEF SetsChild
  <2>8. CASE Child.kind # "text"
    <3>1. p' = i + l /\ p' \in 0..Len(buf) /\ p <= p' /\ i < p'
      BY <1>2, <2>1, <2>2, <2>3, <2>8
    <3>2. \A r \in InUse : r.end < p'
      BY <1>2, <3>1
    <3>3. QED
      BY <1>1, <1>2, <2>2, <2>3, <2>4, <2>5, <2>7, <3>1, <3>2, ValueSet
  <2>9. CASE Child.kind = "text" /\ p' = 0
    <3>1. 0 \in 0..Len(buf) /\ i <= Len(buf)
      BY <1>2, <2>2, <2>3
    <3>2. QED
      BY <1>1, <1>2, <2>2, <2>4, <2>5, <2>7, <2>9, <3>1, ValueSet
  <2>10. CASE Child.kind = "text" /\ p' = i
    <3>1. i \in 0..Len(buf) /\ i <= Len(buf)
      BY <1>2, <2>2, <2>3
    <3>2. Top' = Top /\ Child' = new
      <4>1. Top.child # None
        BY <1>1, InHand
      <4>2. Top' = Top /\ nodes'[Top.child] = new
        BY <1>1, <1>2, <2>7, InHand, ChildSet DEF Top
      <4>3. QED
        BY <4>2 DEF Child
    <3>3. Borders'
      BY <1>1, <2>2, <2>5, <2>10, <3>2 DEF Borders
    <3>4. \A r \in InUse : r.end < p'
      BY <1>2, <2>2, <2>10
    <3>5. QED
      BY <1>1, <1>2, <2>2, <2>4, <2>5, <2>7, <2>10, <3>1, <3>3, <3>4, ValueSet
  <2>11. QED
    BY <2>1, <2>8, <2>9, <2>10
<1>6. QED
  BY <1>1, <1>4, <1>5

LEMMA AddAttributeInv == ASSUME Inv, AddAttribute PROVE Inv'
<1> DEFINE s == SkipWhiteSpace(p)
           node(a) == [Child EXCEPT !.attributes = Append(@, a)]
<1>1. PICK a \in AttributeAt(s) :
        /\ at = "attributes" /\ IsNameStartChar(buf[s])
        /\ buf' = Ended(buf, {a.name}) /\ SetChild(node(a)) /\ p' = a.value.end + 1
        /\ current' = [current EXCEPT !["attribute"] = @ + 1]
        /\ UNCHANGED <<text, at, frames, untracked, error>>
  BY Zenon DEF AddAttribute, GetStr, Ended
<1>2. /\ TypeInv /\ ControlInv /\ TreeInv /\ CountInv /\ SpanInv
      /\ frames # << >> /\ Top.child # None /\ Child \in NodeSet
      /\ p \in 1..Len(buf) /\ p \in Nat /\ p # 0 /\ Len(buf) \in Nat
      /\ \A r \in InUse : r.end \in Nat
  BY <1>1, InHand
<1>3. s \in p..Len(buf) /\ \A r \in InUse : r.end < s
  BY <1>1, <1>2, AttributeStarts
<1> HIDE DEF s
<1>4. s \in 1..Len(buf) /\ Len(buf) = Len(text) + 1 /\ text \in Seq(Char) /\ buf \in Seq(Char)
      /\ buf[Len(buf)] = NUL /\ Len(text) \in Nat
  BY <1>2, <1>3 DEF TypeInv
<1>5. /\ a \in AttributeSet
      /\ a.name.first = s /\ s <= a.name.end /\ a.name.end < a.value.first
      /\ a.value.first <= a.value.end /\ a.value.end + 1 <= Len(buf)
  BY <1>1, <1>2, <1>4, AttributeIs
<1>6. /\ a.name \in SpanSet /\ a.value \in SpanSet
      /\ a.name.first \in Nat /\ a.name.end \in Nat
      /\ a.value.first \in Nat /\ a.value.end \in Nat
  BY <1>5 DEF AttributeSet, SpanSet
<1>7. /\ p <= a.name.first /\ a.name.end <= Len(buf) /\ p <= a.value.first
      /\ a.value.end <= Len(buf) /\ p' \in 0..Len(buf) /\ p <= p' /\ p' \in Nat
      /\ \A r \in InUse : r.end < p'
      /\ a.name.end < p' /\ a.value.end < p' /\ p' # 0
  BY <1>1, <1>2, <1>3, <1>5, <1>6
<1> DEFINE A == InUse \cup {a.name}
           B == A \cup {a.value}
           new == node(a)
<1>8. Laid(A, buf, text, p)
  <2>1. Laid(InUse, buf, text, p) /\ \A r \in InUse : r.end < a.name.first
    BY <1>2, <1>3, <1>5 DEF SpanInv
  <2>2. QED
    BY <1>2, <1>4, <1>5, <1>6, <1>7, <2>1, LaidMore
<1>9. Laid(B, buf, text, p)
  <2>1. \A r \in A : r.end < a.value.first
    BY <1>2, <1>3, <1>5, <1>6
  <2>2. QED
    BY <1>2, <1>4, <1>5, <1>6, <1>7, <1>8, <2>1, LaidMore
<1>10. /\ new \in NodeSet /\ new.kind = Child.kind /\ new.children = Child.children
       /\ new.value = Child.value /\ new.attributes = Append(Child.attributes, a)
       /\ Child.attributes \in Seq(AttributeSet)
  <2>1. Child.attributes \in Seq(AttributeSet)
    BY <1>2 DEF NodeSet
  <2>2. Append(Child.attributes, a) \in Seq(AttributeSet)
    BY <1>5, <2>1, AppendProperties
  <2>3. QED
    BY <1>2, <2>1, <2>2 DEF NodeSet
<1>11. SetChild(new)
  BY <1>1
<1> HIDE DEF new, node
<1>12. Child.kind = "element"
  BY <1>1, <1>2 DEF ControlInv
<1>13. SetsChild(new)
  BY <1>1, <1>7, <1>10, <1>11, <1>12 DEF SetsChild
<1>14. /\ Top.child \in DOMAIN nodes \ {Document} /\ DOMAIN nodes' = DOMAIN nodes
       /\ nodes' \in [DOMAIN nodes' -> NodeSet]
       /\ \A n \in DOMAIN nodes : nodes'[n].kind = nodes[n].kind
       /\ \A n \in DOMAIN nodes : n # Top.child => nodes'[n] = nodes[n]
       /\ nodes'[Top.child] = new
       /\ ControlInv' /\ TreeInv'
       /\ error' = "NO_ERROR" => \A pool \in Pools :
            untracked'[pool] = Cardinality(BeingParsed(nodes', Len(frames'), frames', pool))
       /\ InUse' \subseteq InUse \cup SpansOf(new)
  BY <1>2, <1>13, ChildSet
<1>15. InUse' \in SUBSET B
  <2>1. SpansOf(Child) \subseteq InUse
    BY <1>2, ChildInUse
  <2>2. PICK l \in Nat : l = Len(Child.attributes) /\ DOMAIN Child.attributes = 1..l
    BY <1>10
  <2>3. /\ DOMAIN new.attributes = 1..(l + 1)
        /\ \A i \in 1..(l + 1) : new.attributes[i] = IF i = l + 1 THEN a ELSE Child.attributes[i]
    BY <1>5, <1>10, <2>2, AppendProperties
  <2>4. \A i \in 1..(l + 1) : i \in 1..l \/ i = l + 1
    BY <2>2
  <2>5. \A i \in DOMAIN new.attributes :
          \/ i \in DOMAIN Child.attributes /\ new.attributes[i] = Child.attributes[i]
          \/ new.attributes[i] = a
    BY <2>2, <2>3, <2>4
  <2>6. SpansOf(new) \subseteq SpansOf(Child) \cup {a.name, a.value}
    BY <1>10, <2>5 DEF SpansOf, NamesOf
  <2>7. QED
    BY <1>14, <2>1, <2>6
<1> HIDE DEF A, B
<1>16. SpanInv'
  <2>1. {a.name} \in SUBSET (B \cup {Empty})
    BY DEF A, B
  <2>2. Laid(InUse', Ended(buf, {a.name}), text, p')
    BY <1>2, <1>4, <1>7, <1>9, <1>15, <2>1, LaidEnded
  <2>3. \A r \in B : r.end < p'
    BY <1>7 DEF A, B
  <2>4. QED
    BY <1>1, <1>15, <2>2, <2>3 DEF SpanInv
<1>17. TypeInv'
  <2>1. buf' \in Seq(Char) /\ Len(buf') = Len(buf) /\ buf'[Len(buf)] = NUL
    <3>1. Len(buf) \in DOMAIN buf
      BY <1>2, <1>4
    <3>2. QED
      BY <1>1, <1>4, <3>1, EndedIs
  <2>2. current' \in [Pools -> Int] /\ untracked' \in [Pools -> Int]
    BY <1>1, <1>2 DEF TypeInv, Pools
  <2>3. QED
    BY <1>1, <1>2, <1>7, <1>14, <2>1, <2>2 DEF TypeInv
<1>18. CountInv'
  <2> DEFINE S == DOMAIN nodes \ {Document}
  <2>1. IsFiniteSet(S) /\ S \in SUBSET DOMAIN nodes /\ nodes \in [DOMAIN nodes -> NodeSet]
    BY <1>2, NodesFinite, FS_Subset DEF TypeInv
  <2>2. GetsAttribute(S, nodes, nodes', Top.child)
    <3>1. DOMAIN new.attributes = 1..(Len(Child.attributes) + 1)
      BY <1>5, <1>10, AppendProperties
    <3>2. QED
      BY <1>14, <3>1 DEF GetsAttribute, Child
  <2> HIDE DEF S
  <2>3. ASSUME NEW pool \in Pools
        PROVE  current'[pool] = CountIn(nodes', DOMAIN nodes' \ {Document}, pool)
    <3>1. CountIn(nodes', S, pool) =
            CountIn(nodes, S, pool) + (IF pool = "attribute" THEN 1 ELSE 0)
      BY <2>1, <2>2, CountAttribute
    <3>2. current[pool] = CountIn(nodes, S, pool)
      BY <1>2 DEF CountInv, S
    <3>3. current'[pool] = current[pool] + (IF pool = "attribute" THEN 1 ELSE 0)
      BY <1>1, <1>2 DEF TypeInv
    <3>4. QED
      BY <1>14, <3>1, <3>2, <3>3 DEF S
  <2>4. QED
    BY <1>1, <1>14, <2>3 DEF CountInv
<1>19. QED
  BY <1>14, <1>16, <1>17, <1>18 DEF Inv

LEMMA OpenTagEndsInv == ASSUME Inv, OpenTagEnds PROVE Inv'
<1>1. /\ at = "attributes" /\ buf[SkipWhiteSpace(p)] = GREATER
      /\ p' = SkipWhiteSpace(p) + 1
      /\ \/ at' = "result" /\ UNCHANGED frames
         \/ at' = "loop" /\ frames' = Append(frames, Frame(Top.child))
      /\ UNCHANGED <<text, buf, nodes, current, untracked, error>>
  BY Zenon DEF OpenTagEnds
<1>2. /\ TypeInv /\ ControlInv /\ TreeInv /\ CountInv /\ SpanInv
      /\ frames # << >> /\ Top.child # None /\ Child \in NodeSet
      /\ p \in 1..Len(buf) /\ p \in Nat /\ p # 0
      /\ Len(buf) \in Nat /\ DOMAIN buf = 1..Len(buf) /\ buf[Len(buf)] = NUL
      /\ \A r \in InUse : r.end \in Nat /\ r.end <= p
  BY <1>1, InHand
<1>3. PICK s \in Nat : s = SkipWhiteSpace(p) /\ p <= s /\ s < Len(buf)
  <2>1. PICK n \in Nat : n = Len(buf) /\ buf[n] = NUL
    BY <1>2
  <2>2. SkipWhiteSpace(p) \in p..n
    BY <1>2, <2>1, SkipIs
  <2>3. SkipWhiteSpace(p) # n
    BY <1>1, <2>1 DEF GREATER, NUL
  <2>4. QED
    BY <1>2, <2>1, <2>2, <2>3
<1>4. p' \in 0..Len(buf) /\ p' # 0 /\ p' \in Nat /\ p <= p' /\ \A r \in InUse : r.end < p'
  BY <1>1, <1>2, <1>3
<1>5. CASE at' = "result" /\ UNCHANGED frames
  <2>1. SetChild(Child)
    BY <1>1, <1>2 DEF SetChild, Child, TypeInv
  <2>2. SetsChild(Child)
    BY <1>1, <1>2, <1>5, <2>1 DEF SetsChild
  <2>3. QED
    BY <1>1, <1>4, <2>2, ValueSet
<1>6. CASE at' = "loop" /\ frames' = Append(frames, Frame(Top.child))
  <2>1. PICK m \in Nat \ {0} : m = Len(frames) /\ Top = frames[m] /\ m \in 1..m
    BY <1>2, TopIs DEF TypeInv
  <2>2. Frame(Top.child) \in FrameSet
    BY <1>2, HereIs, NothingSet DEF Frame, FrameSet
  <2>3. /\ frames' \in Seq(FrameSet) /\ Len(frames') = m + 1
        /\ \A i \in 1..m : frames'[i] = frames[i]
        /\ frames'[m + 1] = Frame(Top.child)
    BY <1>2, <1>6, <2>1, <2>2, AppendProperties DEF TypeInv
  <2>4. PICK k \in Nat : IsTree(k, nodes, m, frames)
    BY <1>2, <2>1 DEF TreeInv
  <2>5. IsTree(k, nodes, m + 1, frames')
    <3>1. Opens(k, nodes, m, frames, frames')
      BY <1>2, <2>1, <2>3, <2>4 DEF Opens, Frame
    <3>2. QED
      BY <3>1, TreeOpen
  <2>6. frames' # << >> /\ Top' = Frame(Top.child)
    <3>1. frames' # << >>
      BY <2>1, <2>3, EmptySeq
    <3>2. QED
      BY <2>1, <2>3, <3>1 DEF Top, Last
  <2>7. Child.kind = "element" /\ Top.endTag = Empty
    BY <1>1, <1>2 DEF ControlInv
  <2>8. ControlInv'
    <3>1. \A i \in 1..m : i \in 1..(m - 1) \/ i = m
      BY <2>1
    <3>2. \A i \in 1..m : nodes[frames[i].child].kind = "element" /\ frames[i].endTag = Empty
      BY <1>2, <2>1, <2>7, <3>1 DEF ControlInv, Child
    <3>3. \A i \in 1..(Len(frames') - 1) :
            nodes'[frames'[i].child].kind = "element" /\ frames'[i].endTag = Empty
      BY <1>1, <2>1, <2>3, <3>2
    <3>4. Top'.child = None /\ Top'.endTag = Empty
      BY <2>6 DEF Frame
    <3>5. QED
      BY <1>4, <1>6, <2>6, <3>3, <3>4 DEF ControlInv, Inner
  <2>9. TypeInv'
    BY <1>1, <1>2, <1>4, <1>6, <2>3 DEF TypeInv, Inner
  <2>10. CountInv'
    <3>1. \A i \in 1..m : ~(i > m + 1)
      BY <2>1
    <3>2. \A i \in 1..(m + 1) : i > m => frames'[i].child = None
      BY <2>1, <2>3 DEF Frame
    <3>3. NoneLess(nodes, nodes, m, m + 1, frames, frames')
      BY <2>3, <3>1, <3>2 DEF NoneLess
    <3>4. \A pool \in Pools : Cardinality(BeingParsed(nodes, m + 1, frames', pool)) =
                              Cardinality(BeingParsed(nodes, m, frames, pool))
      BY <2>1, <3>3, BeingParsedSame
    <3>5. QED
      BY <1>1, <1>2, <1>6, <2>1, <2>3, <3>4 DEF CountInv
  <2>11. SpanInv'
    <3>1. \A i \in 1..(m + 1) : i \in 1..m \/ frames'[i].endTag = Empty
      BY <2>1, <2>3 DEF Frame
    <3>2. EndTags(m + 1, frames') \subseteq EndTags(m, frames)
      BY <2>3, <3>1 DEF EndTags
    <3>3. InUse' \in SUBSET InUse
      BY <1>1, <2>1, <2>3, <3>2 DEF InUse
    <3>4. text \in Seq(Char) /\ Laid(InUse, buf, text, p)
      BY <1>2 DEF TypeInv, SpanInv
    <3>5. Laid(InUse', buf, text, p')
      BY <1>2, <1>4, <3>3, <3>4, LaidOn
    <3>6. QED
      BY <1>1, <1>4, <3>3, <3>5 DEF SpanInv
  <2>12. QED
    BY <1>1, <2>3, <2>5, <2>8, <2>9, <2>10, <2>11 DEF Inv, TreeInv
<1>7. QED
  BY <1>1, <1>5, <1>6

-----------------------------------------------------------------------------
(***************************************************************************)
(* A new node.                                                             *)
(***************************************************************************)

LEMMA FreeAddressIs ==
  ASSUME NEW k \in Nat, DOMAIN nodes = 0..k
  PROVE  FreeAddress = k + 1
<1>1. Cardinality(0..k) = k + 1
  BY FS_Interval
<1>2. FreeAddress = CHOOSE n \in 1..(k + 1) : n \notin 0..k
  BY <1>1 DEF FreeAddress
<1>3. k + 1 \in 1..(k + 1) /\ k + 1 \notin 0..k
  OBVIOUS
<1>4. \A n \in 1..(k + 1) : n \notin 0..k => n = k + 1
  OBVIOUS
<1>5. QED
  BY <1>2, <1>3, <1>4

\* What a node starts with.
LEMMA HeaderIs ==
  ASSUME NEW i \in DOMAIN Headers
  PROVE  /\ Headers[i].header \in Seq(Char) /\ Len(Headers[i].header) # 0
         /\ Headers[i].header[Len(Headers[i].header)] # NUL
         /\ Headers[i].kind \in LeafKinds \cup {"element"}
<1> DEFINE t == Headers[i].header
<1>1. i \in 1..5
  BY DEF Headers
<1>2. /\ Headers[i].kind \in LeafKinds \cup {"element"}
      /\ t \in {<<60, 63>>, <<60, 33, 45, 45>>, <<60, 33, 91, 67, 68, 65, 84, 65, 91>>,
                <<60, 33>>, <<60>>}
  BY <1>1 DEF Headers, LeafKinds, Kinds
<1> HIDE DEF t
<1>3. t \in Seq(Char) /\ Len(t) # 0 /\ t[Len(t)] # NUL
  <2>1. CASE t = <<60, 63>>
    BY <2>1 DEF Char, NUL
  <2>2. CASE t = <<60, 33, 45, 45>>
    BY <2>2 DEF Char, NUL
  <2>3. CASE t = <<60, 33, 91, 67, 68, 65, 84, 65, 91>>
    BY <2>3 DEF Char, NUL
  <2>4. CASE t = <<60, 33>>
    BY <2>4 DEF Char, NUL
  <2>5. CASE t = <<60>>
    BY <2>5 DEF Char, NUL
  <2>6. QED
    BY <1>2, <2>1, <2>2, <2>3, <2>4, <2>5
<1>4. QED
  BY <1>2, <1>3 DEF t

\* Identify, of a node of this kind that starts at place q.
Identifies(kind, q) ==
  /\ at = "loop"
  /\ nodes' = [n \in DOMAIN nodes \cup {FreeAddress} |->
                 IF n = FreeAddress THEN Node(kind) ELSE nodes[n]]
  /\ Alloc(PoolOf(kind))
  /\ p' = q
  /\ at' = (IF kind = "element" THEN "name" ELSE "leaf")
  /\ SetTop([Top EXCEPT !.child = FreeAddress, !.endTag = Empty])
  /\ UNCHANGED <<text, buf, error>>
  /\ kind \in LeafKinds \cup {"element"} /\ q \in 1..Len(buf) /\ p <= q
  /\ \A r \in InUse : r.end < q

LEMMA IdentifyIs ==
  ASSUME Inv, Identify
  PROVE  \E kind, q : Identifies(kind, q)
<1> DEFINE start == SkipWhiteSpace(p)
           fits == {i \in DOMAIN Headers : Matches(buf, start, Headers[i].header)}
           least == CHOOSE i \in fits : \A j \in fits : i <= j
           h == Headers[least]
           kind == IF fits = {} THEN "text" ELSE h.kind
           q == IF fits = {} THEN p ELSE start + Len(h.header)
<1>1. /\ at = "loop" /\ buf[start] # NUL
      /\ nodes' = [n \in DOMAIN nodes \cup {FreeAddress} |->
                     IF n = FreeAddress THEN Node(kind) ELSE nodes[n]]
      /\ Alloc(PoolOf(kind)) /\ p' = q
      /\ at' = (IF kind = "element" THEN "name" ELSE "leaf")
      /\ SetTop([Top EXCEPT !.child = FreeAddress, !.endTag = Empty])
      /\ UNCHANGED <<text, buf, error>>
  BY Zenon DEF Identify
<1>2. TypeInv /\ ControlInv /\ SpanInv
  BY DEF Inv
<1>3. PICK n \in Nat : n = Len(buf) /\ DOMAIN buf = 1..n /\ buf[n] = NUL
  BY <1>2 DEF TypeInv
<1>4. p \in Nat /\ p \in 1..n /\ p # 0
  BY <1>1, <1>2, <1>3 DEF TypeInv, ControlInv, Inner
<1>5. PICK s \in Nat : s = start /\ p <= s /\ s <= n
  BY <1>2, <1>3, <1>4, SkipIs
<1>6. \A j \in p..(s - 1) : IsWhiteSpace(buf[j])
  BY <1>2, <1>3, <1>4, <1>5, SkipIs
<1>7. \A r \in InUse : r.end \in Nat /\ (r.end < p \/ (r.end = p /\ buf[p] = LESS))
  BY <1>1, <1>2, <1>4 DEF SpanInv, Laid, SpanSet, Borders
<1>8. buf[p] = LESS => fits # {}
  <2> SUFFICES ASSUME buf[p] = LESS PROVE 5 \in fits
    OBVIOUS
  <2>1. ~IsWhiteSpace(buf[p])
    BY DEF IsWhiteSpace, LESS, BLANK
  <2>2. s = p
    BY <1>4, <1>5, <1>6, <2>1
  <2>3. 5 \in DOMAIN Headers /\ Headers[5].header = <<60>>
    BY DEF Headers
  <2>4. Matches(buf, s, <<60>>)
    BY <1>3, <1>4, <2>2 DEF Matches, LESS
  <2>5. QED
    BY <1>5, <2>3, <2>4
<1>9. fits # {} => least \in fits
  <2> SUFFICES ASSUME fits # {} PROVE least \in fits
    OBVIOUS
  <2>1. fits \in SUBSET Nat
    BY DEF Headers
  <2> HIDE DEF fits
  <2>2. \E i \in fits : \A j \in fits : i <= j
    BY <2>1, LeastNat
  <2>3. QED
    BY <2>2
<1> HIDE DEF least
<1>10. CASE fits = {}
  <2>1. kind = "text" /\ q = p
    BY <1>10
  <2>2. \A r \in InUse : r.end < q
    BY <1>7, <1>8, <1>10, <2>1
  <2>3. kind \in LeafKinds \cup {"element"} /\ q \in 1..Len(buf) /\ p <= q
    BY <1>3, <1>4, <2>1 DEF LeafKinds, Kinds
  <2> HIDE DEF kind, q
  <2>4. Identifies(kind, q)
    BY <1>1, <2>2, <2>3 DEF Identifies
  <2>5. QED
    BY <2>4
<1>11. CASE fits # {}
  <2>1. least \in DOMAIN Headers /\ Matches(buf, s, h.header)
    BY <1>5, <1>9, <1>11
  <2>2. kind = h.kind /\ q = start + Len(h.header)
    BY <1>11
  <2> HIDE DEF fits
  <2>3. PICK l \in Nat : l = Len(h.header) /\ l # 0
    BY <2>1, HeaderIs
  <2>4. s + l <= n
    BY <1>3, <1>5, <2>1, <2>3, HeaderIs, MatchEnds
  <2>5. kind \in LeafKinds \cup {"element"}
    BY <2>1, <2>2, HeaderIs
  <2>6. q = s + l
    BY <1>5, <2>2, <2>3
  <2> HIDE DEF kind, q
  <2>7. q \in 1..Len(buf) /\ p <= q /\ p < q
    BY <1>3, <1>4, <1>5, <2>3, <2>4, <2>6
  <2>8. \A r \in InUse : r.end < q
    BY <1>4, <1>7, <2>7
  <2>9. Identifies(kind, q)
    BY <1>1, <2>5, <2>7, <2>8 DEF Identifies
  <2>10. QED
    BY <2>9
<1>12. QED
  BY <1>10, <1>11

\* A node as it is made.
LEMMA NodeIs ==
  ASSUME NEW kind \in Kinds
  PROVE  /\ Node(kind) \in NodeSet /\ Node(kind).kind = kind
         /\ Node(kind).attributes = << >> /\ Node(kind).children = << >>
         /\ SpansOf(Node(kind)) = {}
<1>1. << >> \in Seq(AttributeSet) /\ << >> \in Seq(Nat)
  BY EmptySeq
<1>2. /\ Node(kind).kind = kind /\ Node(kind).value = Empty
      /\ Node(kind).attributes = << >> /\ Node(kind).children = << >>
  BY DEF Node
<1>3. Node(kind) \in NodeSet
  BY <1>1, NothingSet DEF Node, NodeSet
<1>4. DOMAIN Node(kind).attributes = {}
  BY <1>2
<1>5. NamesOf(Node(kind)) = {}
  BY <1>4 DEF NamesOf
<1>6. SpansOf(Node(kind)) = {}
  BY <1>2, <1>4, <1>5 DEF SpansOf
<1>7. QED
  BY <1>2, <1>3, <1>6

LEMMA IdentifyInv == ASSUME Inv, Identify PROVE Inv'
<1>1. TypeInv /\ ControlInv /\ TreeInv /\ CountInv /\ SpanInv
  BY DEF Inv
<1>2. PICK kind, q : Identifies(kind, q)
  BY IdentifyIs
<1>3. /\ at = "loop" /\ Alloc(PoolOf(kind)) /\ p' = q
      /\ at' = (IF kind = "element" THEN "name" ELSE "leaf")
      /\ UNCHANGED <<text, buf, error>>
      /\ kind \in LeafKinds \cup {"element"} /\ kind \in Kinds
      /\ q \in 1..Len(buf) /\ p <= q
      /\ \A r \in InUse : r.end < q
  BY <1>2 DEF Identifies, LeafKinds, Kinds
<1>4. frames # << >> /\ Top.child = None /\ p # 0
  BY <1>1, <1>3 DEF ControlInv, Inner
<1>5. PICK k \in Nat : IsTree(k, nodes, Len(frames), frames)
  BY <1>1 DEF TreeInv
<1>6. PICK m \in Nat \ {0} : m = Len(frames) /\ Top = frames[m] /\ m \in 1..m
  BY <1>1, <1>4, TopIs DEF TypeInv
<1>7. DOMAIN nodes = 0..k /\ nodes \in [0..k -> NodeSet]
  BY <1>1, <1>5 DEF IsTree, TypeInv
<1>8. FreeAddress = k + 1
  BY <1>7, FreeAddressIs
<1>9. nodes' = [n \in 0..(k + 1) |-> IF n = k + 1 THEN Node(kind) ELSE nodes[n]]
  <2>1. 0..k \cup {k + 1} = 0..(k + 1)
    OBVIOUS
  <2>2. nodes' = [n \in 0..k \cup {k + 1} |-> IF n = k + 1 THEN Node(kind) ELSE nodes[n]]
    BY <1>2, <1>7, <1>8 DEF Identifies
  <2>3. QED
    BY <2>1, <2>2
<1>10. /\ nodes' \in [0..(k + 1) -> NodeSet] /\ DOMAIN nodes' = 0..(k + 1)
       /\ \A n \in 0..k : nodes'[n] = nodes[n]
       /\ nodes'[k + 1] = Node(kind)
  BY <1>3, <1>7, <1>9, NodeIs
<1>11. Top \in FrameSet
  BY <1>1, <1>4, HereIs
<1> DEFINE f == [Top EXCEPT !.child = k + 1, !.endTag = Empty]
<1>12. f \in FrameSet /\ f.child = k + 1 /\ f.endTag = Empty /\ f.self = Top.self
  <2>1. k + 1 \in Nat \cup {None}
    OBVIOUS
  <2>2. PICK c \in Nat \cup {None} : c = k + 1
    BY <2>1
  <2>3. [Top EXCEPT !.child = c, !.endTag = Empty] \in FrameSet
    BY <1>11, NothingSet DEF FrameSet
  <2>4. f = [Top EXCEPT !.child = c, !.endTag = Empty]
    BY <2>2
  <2>5. Top = [self |-> Top.self, child |-> Top.child, endTag |-> Top.endTag]
    BY <1>11 DEF FrameSet
  <2>6. f.child = c /\ f.endTag = Empty /\ f.self = Top.self
    BY <2>4, <2>5
  <2>7. QED
    BY <2>2, <2>3, <2>4, <2>6
<1>13. SetTop(f)
  BY <1>2, <1>8 DEF Identifies
<1> HIDE DEF f
<1>14. /\ frames' \in Seq(FrameSet) /\ Len(frames') = m /\ frames' # << >>
       /\ \A i \in 1..(m - 1) : frames'[i] = frames[i]
       /\ frames'[m] = f /\ Top' = f
  <2>1. /\ frames' \in Seq(FrameSet) /\ Len(frames') = m /\ frames' # << >>
        /\ \A i \in 1..(m - 1) : frames'[i] = frames[i]
        /\ frames'[m] = f
    BY <1>1, <1>4, <1>6, <1>12, <1>13, SetTopIs DEF TypeInv
  <2>2. QED
    BY <2>1 DEF Top, Last
<1>15. \A i \in 1..(m - 1) :
         frames[i].child \in 0..k /\ nodes'[frames[i].child] = nodes[frames[i].child]
  BY <1>1, <1>4, <1>6, <1>7, <1>10, HereIs
<1>16. IsTree(k + 1, nodes', m, frames')
  <2>1. Pushes(k, nodes, m, frames, nodes', frames')
    BY <1>3, <1>4, <1>5, <1>6, <1>10, <1>12, <1>14, NodeIs DEF Pushes
  <2>2. QED
    BY <2>1, TreePush
<1>17. ControlInv'
  <2>1. Child' = Node(kind) /\ Child'.kind = kind
    BY <1>3, <1>10, <1>12, <1>14, NodeIs DEF Child
  <2>2. Top'.child # None /\ Top'.endTag = Empty
    BY <1>12, <1>14 DEF None
  <2>3. \A i \in 1..(Len(frames') - 1) :
          nodes'[frames'[i].child].kind = "element" /\ frames'[i].endTag = Empty
    BY <1>1, <1>6, <1>14, <1>15 DEF ControlInv
  <2>4. p' # 0 /\ at' \in {"name", "leaf"}
    BY <1>3
  <2>5. QED
    BY <1>3, <1>14, <2>1, <2>2, <2>3, <2>4 DEF ControlInv, Inner
<1>18. TypeInv'
  <2>1. current' \in [Pools -> Int] /\ untracked' \in [Pools -> Int]
    <3>1. current \in [Pools -> Int] /\ untracked \in [Pools -> Int]
      BY <1>1 DEF TypeInv
    <3>2. ASSUME NEW v \in [Pools -> Int], NEW c \in Pools
          PROVE  [v EXCEPT ![c] = @ + 1] \in [Pools -> Int]
      <4>1. v[c] + 1 \in Int
        OBVIOUS
      <4>2. QED
        BY <4>1
    <3>4. PoolOf(kind) \in Pools
      BY PoolOfKind
    <3>3. QED
      BY <1>3, <3>1, <3>2, <3>4 DEF Alloc
  <2>2. p' \in 0..Len(buf) /\ at' \in Inner
    BY <1>3 DEF Inner
  <2>3. QED
    BY <1>1, <1>3, <1>10, <1>14, <2>1, <2>2 DEF TypeInv
<1>19. CountInv'
  <2>1. PoolOf(kind) \in Pools
    BY PoolOfKind
  <2>2. ASSUME NEW pool \in Pools
        PROVE  current'[pool] = CountIn(nodes', DOMAIN nodes' \ {Document}, pool)
    <3>1. /\ DOMAIN nodes' \ {Document} = 1..k \cup {k + 1}
          /\ DOMAIN nodes \ {Document} = 1..k
      BY <1>7, <1>10 DEF Document
    <3>2. CountIn(nodes', 1..k, pool) = CountIn(nodes, 1..k, pool)
      <4>1. NodesKept(1..k, nodes, nodes')
        BY <1>10 DEF NodesKept
      <4>2. QED
        BY <4>1, CountSame
    <3>3. CountIn(nodes', {k + 1}, pool) = IF PoolOf(kind) = pool THEN 1 ELSE 0
      <4>1. k + 1 \in 0..(k + 1) /\ nodes'[k + 1].attributes = << >>
            /\ nodes'[k + 1].kind = kind
        BY <1>3, <1>10, NodeIs
      <4>2. QED
        BY <1>10, <4>1, CountOne
    <3>4. /\ CountIn(nodes', 1..k, pool) \in Nat
          /\ CountIn(nodes', 1..k \cup {k + 1}, pool) =
               CountIn(nodes', 1..k, pool) + CountIn(nodes', {k + 1}, pool)
      <4> DEFINE D == 0..(k + 1)
                 A == 1..k
                 B == {k + 1}
      <4>1. A \in SUBSET D /\ B \in SUBSET D /\ A \cap B = {}
        OBVIOUS
      <4>2. IsFiniteSet(A)
        BY FS_Interval
      <4>3. IsFiniteSet(B)
        BY FS_Singleton
      <4>4. nodes' \in [D -> NodeSet]
        BY <1>10
      <4> HIDE DEF D, A, B
      <4>5. /\ CountIn(nodes', A, pool) \in Nat
            /\ CountIn(nodes', A \cup B, pool) =
                 CountIn(nodes', A, pool) + CountIn(nodes', B, pool)
        BY <4>1, <4>2, <4>3, <4>4, CountParts
      <4>6. QED
        BY <4>5 DEF A, B
    <3>5. current'[pool] = current[pool] + (IF PoolOf(kind) = pool THEN 1 ELSE 0)
      BY <1>1, <1>3 DEF TypeInv, Alloc
    <3>6. current[pool] = CountIn(nodes, 1..k, pool)
      BY <1>1, <3>1 DEF CountInv
    <3>7. QED
      BY <3>1, <3>2, <3>3, <3>4, <3>5, <3>6
  <2>3. ASSUME error' = "NO_ERROR", NEW pool \in Pools
        PROVE  untracked'[pool] =
                 Cardinality(BeingParsed(nodes', Len(frames'), frames', pool))
    <3>1. OneMore(nodes, nodes', m, frames, frames')
      <4>1. KindsKept(m - 1, nodes, nodes', frames, frames')
        BY <1>14, <1>15 DEF KindsKept
      <4>2. frames[m].child = None /\ frames'[m].child # None
        BY <1>4, <1>6, <1>12, <1>14 DEF None
      <4>3. QED
        BY <4>1, <4>2 DEF OneMore
    <3>2. nodes'[frames'[m].child].kind = kind
      BY <1>3, <1>10, <1>12, <1>14, NodeIs
    <3>3. Cardinality(BeingParsed(nodes', m, frames', pool)) =
            Cardinality(BeingParsed(nodes, m, frames, pool))
              + (IF PoolOf(kind) = pool THEN 1 ELSE 0)
      BY <3>1, <3>2, BeingParsedMore
    <3>4. untracked'[pool] = untracked[pool] + (IF PoolOf(kind) = pool THEN 1 ELSE 0)
      BY <1>1, <1>3 DEF TypeInv, Alloc
    <3>5. untracked[pool] = Cardinality(BeingParsed(nodes, m, frames, pool))
      BY <1>1, <1>3, <1>6, <2>3 DEF CountInv
    <3>6. QED
      BY <1>14, <3>3, <3>4, <3>5
  <2>4. at' # "parsed"
    BY <1>3
  <2>5. QED
    BY <2>2, <2>3, <2>4 DEF CountInv
<1>20. SpanInv'
  <2>1. SpansIn(nodes') \subseteq SpansIn(nodes)
    <3>1. \A n \in 0..(k + 1) : n \in 0..k \/ n = k + 1
      OBVIOUS
    <3>2. \A n \in 0..(k + 1) : SpansOf(nodes'[n]) \subseteq SpansIn(nodes)
      BY <1>3, <1>7, <1>10, <3>1, NodeIs DEF SpansIn
    <3>3. QED
      BY <1>10, <3>2 DEF SpansIn
  <2>2. EndTags(m, frames') \subseteq EndTags(m, frames)
    <3>1. \A i \in 1..m : i \in 1..(m - 1) \/ i = m
      BY <1>6
    <3>2. \A i \in 1..m : frames'[i].endTag \in {frames[i].endTag, Empty}
      BY <1>12, <1>14, <3>1
    <3>3. QED
      BY <3>2 DEF EndTags
  <2>3. InUse' \in SUBSET InUse
    BY <1>6, <1>14, <2>1, <2>2 DEF InUse
  <2>4. text \in Seq(Char) /\ p \in Nat /\ Laid(InUse, buf, text, p) /\ q \in Nat
    BY <1>1, <1>3 DEF TypeInv, SpanInv
  <2>5. Laid(InUse', buf, text, q)
    BY <1>3, <1>4, <2>3, <2>4, LaidOn
  <2>6. QED
    BY <1>3, <2>3, <2>5 DEF SpanInv
<1>21. QED
  <2>1. TreeInv'
    BY <1>14, <1>16 DEF TreeInv
  <2>2. QED
    BY <1>17, <1>18, <1>19, <1>20, <2>1 DEF Inv

LEMMA ToSetAppend ==
  ASSUME NEW S, NEW s \in Seq(S), NEW x \in S
  PROVE  ToSet(Append(s, x)) = ToSet(s) \cup {x}
<1>1. PICK l \in Nat : l = Len(s) /\ DOMAIN s = 1..l
  OBVIOUS
<1> DEFINE t == Append(s, x)
<1>2. DOMAIN t = 1..(l + 1) /\ \A i \in 1..(l + 1) : t[i] = IF i = l + 1 THEN x ELSE s[i]
  BY <1>1, AppendProperties
<1> HIDE DEF t
<1>3. \A i \in 1..(l + 1) : i \in 1..l \/ i = l + 1
  BY <1>1
<1>4. l + 1 \in 1..(l + 1) /\ \A i \in 1..l : i \in 1..(l + 1) /\ i # l + 1
  BY <1>1
<1>5. ToSet(t) \subseteq ToSet(s) \cup {x}
  BY <1>1, <1>2, <1>3 DEF ToSet
<1>6. ToSet(s) \cup {x} \subseteq ToSet(t)
  BY <1>1, <1>2, <1>4 DEF ToSet
<1>7. QED
  BY <1>5, <1>6 DEF t

LEMMA InsertEndChildInv == ASSUME Inv, InsertEndChild PROVE Inv'
<1> DEFINE W == IF Top.endTag = Empty THEN {} ELSE {Top.endTag, Child.value}
           f == [Top EXCEPT !.child = None]
<1>1. /\ at = "result" /\ p # 0 /\ at' = "loop"
      /\ buf' = Ended(buf, W)
      /\ nodes' = [nodes EXCEPT ![Top.self].children = Append(@, Top.child)]
      /\ SetTracked(PoolOf(Child.kind))
      /\ SetTop(f)
      /\ UNCHANGED <<text, p, current, error>>
  BY Zenon DEF InsertEndChild, GetStr, Ended
<1>2. TypeInv /\ ControlInv /\ TreeInv /\ CountInv /\ SpanInv
  BY DEF Inv
<1>3. frames # << >> /\ Top.child # None
  BY <1>1, <1>2 DEF ControlInv, Inner
<1>4. PICK k \in Nat : IsTree(k, nodes, Len(frames), frames)
  BY <1>2 DEF TreeInv
<1>5. PICK m \in Nat \ {0} : m = Len(frames) /\ Top = frames[m] /\ m \in 1..m
  BY <1>2, <1>3, TopIs DEF TypeInv
<1>6. DOMAIN nodes = 0..k /\ nodes \in [0..k -> NodeSet]
  BY <1>2, <1>4 DEF IsTree, TypeInv
<1>7. /\ Top \in FrameSet /\ Top.self \in 0..k /\ Top.child \in 0..k /\ Top.child \in Nat
      /\ Child \in NodeSet /\ Child = nodes[Top.child]
  BY <1>2, <1>3, <1>6, HereIs DEF Child
<1>8. PICK c \in 0..k : c = Top.self /\ nodes[c] \in NodeSet /\ nodes[c].children \in Seq(Nat)
  BY <1>6, <1>7 DEF NodeSet
<1> DEFINE new == [nodes[c] EXCEPT !.children = Append(nodes[c].children, Top.child)]
<1>9. /\ new \in NodeSet /\ new.kind = nodes[c].kind /\ new.value = nodes[c].value
      /\ new.attributes = nodes[c].attributes
      /\ new.children = Append(nodes[c].children, Top.child)
  <2>1. Append(nodes[c].children, Top.child) \in Seq(Nat)
    BY <1>7, <1>8, AppendProperties
  <2>2. QED
    BY <1>8, <2>1 DEF NodeSet
<1>10. nodes' = [nodes EXCEPT ![c] = new]
  BY <1>1, <1>8
<1> HIDE DEF new
<1>11. /\ nodes' \in [0..k -> NodeSet] /\ DOMAIN nodes' = 0..k
       /\ \A n \in 0..k : nodes'[n] = IF n = c THEN new ELSE nodes[n]
  BY <1>6, <1>8, <1>9, <1>10
<1>12. \A n \in 0..k : nodes'[n].kind = nodes[n].kind
                       /\ nodes'[n].attributes = nodes[n].attributes
                       /\ SpansOf(nodes'[n]) = SpansOf(nodes[n])
  <2>1. SpansOf(new) = SpansOf(nodes[c])
    BY <1>9 DEF SpansOf, NamesOf
  <2>2. QED
    BY <1>9, <1>11, <2>1
<1>13. f \in FrameSet /\ f.child = None /\ f.endTag = Top.endTag /\ f.self = Top.self
  BY <1>7 DEF FrameSet
<1> HIDE DEF f, W
<1>14. /\ frames' \in Seq(FrameSet) /\ Len(frames') = m /\ frames' # << >>
       /\ \A i \in 1..(m - 1) : frames'[i] = frames[i]
       /\ frames'[m] = f /\ Top' = f
  <2>1. /\ frames' \in Seq(FrameSet) /\ Len(frames') = m /\ frames' # << >>
        /\ \A i \in 1..(m - 1) : frames'[i] = frames[i]
        /\ frames'[m] = f
    BY <1>1, <1>2, <1>3, <1>5, <1>13, SetTopIs DEF TypeInv
  <2>2. QED
    BY <2>1 DEF Top, Last
<1>15. \A i \in 1..(m - 1) : frames[i].child \in 0..k
  BY <1>2, <1>3, <1>5, <1>6, HereIs
<1>16. IsTree(k, nodes', m, frames')
  <2>1. ToSet(new.children) = ToSet(nodes[c].children) \cup {Top.child}
    BY <1>7, <1>8, <1>9, ToSetAppend
  <2>2. \A n \in 0..k : ChildrenIn(nodes', n) =
          IF n = frames[m].self THEN ChildrenIn(nodes, n) \cup {frames[m].child}
          ELSE ChildrenIn(nodes, n)
    BY <1>5, <1>8, <1>11, <2>1 DEF ChildrenIn
  <2>3. Inserts(k, nodes, m, frames, nodes', frames')
    BY <1>3, <1>4, <1>5, <1>11, <1>13, <1>14, <2>2 DEF Inserts
  <2>4. QED
    BY <2>3, TreeInsert
<1>17. ControlInv'
  <2>1. \A i \in 1..(Len(frames') - 1) :
          nodes'[frames'[i].child].kind = "element" /\ frames'[i].endTag = Empty
    <3>1. \A i \in 1..(m - 1) :
            nodes[frames[i].child].kind = "element" /\ frames[i].endTag = Empty
      BY <1>2, <1>5 DEF ControlInv
    <3>2. \A i \in 1..(m - 1) : nodes'[frames[i].child].kind = "element"
      BY <1>12, <1>15, <3>1
    <3>3. QED
      BY <1>14, <3>1, <3>2
  <2>2. QED
    BY <1>1, <1>13, <1>14, <2>1 DEF ControlInv, Inner
<1>18. TypeInv'
  <2>1. untracked' \in [Pools -> Int]
    <3>1. untracked \in [Pools -> Int]
      BY <1>2 DEF TypeInv
    <3>2. ASSUME NEW v \in [Pools -> Int], NEW x \in Pools
          PROVE  [v EXCEPT ![x] = @ - 1] \in [Pools -> Int]
      <4>1. v[x] - 1 \in Int
        OBVIOUS
      <4>2. QED
        BY <4>1
    <3>3. PoolOf(Child.kind) \in Pools
      BY PoolOfKind
    <3>4. QED
      BY <1>1, <3>1, <3>2, <3>3 DEF SetTracked
  <2>2. buf' \in Seq(Char) /\ Len(buf') = Len(buf) /\ buf'[Len(buf)] = NUL
    <3>1. buf \in Seq(Char) /\ Len(buf) \in DOMAIN buf /\ buf[Len(buf)] = NUL
      BY <1>2 DEF TypeInv
    <3>2. QED
      BY <1>1, <3>1, EndedIs
  <2>3. QED
    BY <1>1, <1>2, <1>11, <1>14, <2>1, <2>2 DEF TypeInv, Inner
<1>19. CountInv'
  <2>1. ASSUME NEW pool \in Pools
        PROVE  current'[pool] = CountIn(nodes', DOMAIN nodes' \ {Document}, pool)
    <3>1. NodesKept(0..k \ {Document}, nodes, nodes')
      BY <1>12 DEF NodesKept
    <3>2. CountIn(nodes', 0..k \ {Document}, pool) = CountIn(nodes, 0..k \ {Document}, pool)
      BY <3>1, CountSame
    <3>3. current[pool] = CountIn(nodes, 0..k \ {Document}, pool)
      BY <1>2, <1>6 DEF CountInv
    <3>4. QED
      BY <1>1, <1>11, <3>2, <3>3
  <2>2. ASSUME error' = "NO_ERROR", NEW pool \in Pools
        PROVE  untracked'[pool] =
                 Cardinality(BeingParsed(nodes', Len(frames'), frames', pool))
    <3>1. KindsKept(m - 1, nodes, nodes', frames, frames')
      BY <1>12, <1>14, <1>15 DEF KindsKept
    <3>2. OneLess(nodes, nodes', m, m, frames, frames')
      BY <1>3, <1>5, <1>13, <1>14, <3>1 DEF OneLess
    <3>3. Cardinality(BeingParsed(nodes', m, frames', pool)) =
            Cardinality(BeingParsed(nodes, m, frames, pool))
              - (IF PoolOf(nodes[frames[m].child].kind) = pool THEN 1 ELSE 0)
      BY <3>2, BeingParsedLess
    <3>4. untracked'[pool] = untracked[pool] - (IF PoolOf(Child.kind) = pool THEN 1 ELSE 0)
      BY <1>1, <1>2 DEF TypeInv, SetTracked
    <3>5. untracked[pool] = Cardinality(BeingParsed(nodes, m, frames, pool))
      BY <1>1, <1>2, <1>5, <2>2 DEF CountInv
    <3>6. QED
      BY <1>5, <1>7, <1>14, <3>3, <3>4, <3>5
  <2>3. QED
    BY <1>1, <2>1, <2>2 DEF CountInv
<1>20. SpanInv'
  <2>1. SpansIn(nodes') \subseteq SpansIn(nodes)
    BY <1>6, <1>11, <1>12 DEF SpansIn
  <2>2. EndTags(m, frames') \subseteq EndTags(m, frames)
    <3>1. \A i \in 1..m : i \in 1..(m - 1) \/ i = m
      BY <1>5
    <3>2. \A i \in 1..m : frames'[i].endTag = frames[i].endTag
      BY <1>5, <1>13, <1>14, <3>1
    <3>3. QED
      BY <3>2 DEF EndTags
  <2>3. InUse' \in SUBSET InUse
    BY <1>5, <1>14, <2>1, <2>2 DEF InUse
  <2>4. /\ text \in Seq(Char) /\ buf \in Seq(Char) /\ p \in Nat /\ Len(text) <= Len(buf)
        /\ Laid(InUse, buf, text, p)
    BY <1>2 DEF TypeInv, SpanInv
  <2>5. W \in SUBSET (InUse \cup {Empty})
    BY <1>2, <1>3, ChildInUse DEF W
  <2>6. W # {} => Child.kind = "element"
    BY <1>1, <1>2, <1>3 DEF W, ControlInv
  <2>7. \A r \in InUse : r.end < p \/ (r.end = p /\ buf[p] = LESS /\ Child.kind = "text")
    BY <1>1, <1>2 DEF SpanInv, Borders
  <2>8. \A s \in W : s.end < p
    <3>1. Empty.end < p
      BY <1>1, <2>4 DEF Empty, Span
    <3>2. W # {} => \A r \in InUse : r.end < p
      BY <2>6, <2>7
    <3>3. QED
      BY <2>5, <3>1, <3>2
  <2>9. Laid(InUse', buf', text, p)
    BY <1>1, <2>3, <2>4, <2>5, <2>8, LaidEnded
  <2>10. ASSUME NEW r \in InUse', r.end = p PROVE Borders'
    <3>1. r \in InUse /\ buf[p] = LESS /\ Child.kind = "text"
      BY <2>3, <2>4, <2>7, <2>10
    <3>2. W = {}
      BY <2>6, <3>1
    <3>3. buf' = buf
      BY <1>1, <2>4, <3>2, EndedNone
    <3>4. QED
      BY <1>1, <3>1, <3>3 DEF Borders
  <2>11. \A r \in InUse' : r.end < p \/ r.end = p
    BY <2>3, <2>7
  <2>12. QED
    BY <1>1, <2>9, <2>10, <2>11 DEF SpanInv
<1>21. QED
  <2>1. TreeInv'
    BY <1>14, <1>16 DEF TreeInv
  <2>2. QED
    BY <1>17, <1>18, <1>19, <1>20, <2>1 DEF Inv

-----------------------------------------------------------------------------
(***************************************************************************)
(* The beginning and the end.                                              *)
(***************************************************************************)

LEMMA NothingCounted ==
  ASSUME NEW N, NEW F, NEW pool
  PROVE  CountIn(N, {}, pool) = 0 /\ Cardinality(BeingParsed(N, 0, F, pool)) = 0
<1>1. AttributesIn(N, {}) = {} /\ KindIn(N, {}, pool) = {}
  BY DEF AttributesIn, KindIn
<1>2. CountIn(N, {}, pool) = Cardinality({})
  BY <1>1 DEF CountIn
<1>3. BeingParsed(N, 0, F, pool) = {}
  BY DEF BeingParsed
<1>4. QED
  BY <1>2, <1>3, FS_EmptySet

\* Before the parser starts, and after it threw everything away.
Blank == nodes = [n \in {Document} |-> Node("document")] /\ frames = << >>

BlankFacts ==
  /\ TreeInv /\ SpansIn(nodes) = {} /\ InUse = {}
  /\ nodes \in [DOMAIN nodes -> NodeSet] /\ DOMAIN nodes \ {Document} = {}
  /\ nodes[Document].children = << >> /\ DOMAIN nodes = {Document}
  /\ frames \in Seq(FrameSet) /\ Len(frames) = 0

LEMMA BlankIs == Blank => BlankFacts
<1> SUFFICES ASSUME Blank PROVE BlankFacts
  OBVIOUS
<1>1. "document" \in Kinds
  BY DEF Kinds
<1>2. /\ nodes \in [DOMAIN nodes -> NodeSet] /\ DOMAIN nodes = {Document}
      /\ nodes[Document] = Node("document")
  BY <1>1, NodeIs DEF Blank
<1>3. nodes[Document].children = << >> /\ SpansOf(nodes[Document]) = {}
  BY <1>1, <1>2, NodeIs
<1>4. frames \in Seq(FrameSet) /\ Len(frames) = 0
  BY EmptySeq DEF Blank
<1>5. IsTree(0, nodes, 0, frames)
  <2>1. Starts(nodes, 0, frames)
    BY <1>2, <1>3 DEF Starts
  <2>2. QED
    BY <2>1, TreeStart
<1>6. TreeInv
  BY <1>4, <1>5 DEF TreeInv
<1>7. SpansIn(nodes) = {}
  BY <1>2, <1>3 DEF SpansIn
<1>8. EndTags(Len(frames), frames) = {}
  BY <1>4 DEF EndTags
<1>9. QED
  BY <1>2, <1>3, <1>4, <1>6, <1>7, <1>8 DEF BlankFacts, InUse

LEMMA ParserInitInv == ASSUME ParserInit PROVE Inv
<1>1. /\ text = << >> /\ buf = <<NUL>> /\ p = 0 /\ at = "new" /\ Blank
      /\ current = [pool \in Pools |-> 0] /\ untracked = [pool \in Pools |-> 0]
  BY DEF ParserInit, Blank
<1>2. TypeInv
  <2>1. text \in Seq(Char) /\ Len(text) = 0
    BY <1>1, EmptySeq
  <2>2. buf \in Seq(Char) /\ Len(buf) = 1 /\ buf[1] = NUL
    BY <1>1 DEF NUL, Char
  <2>3. p \in 0..Len(buf)
    BY <1>1, <2>2
  <2>4. QED
    BY <1>1, <2>1, <2>2, <2>3, BlankIs DEF TypeInv, BlankFacts
<1>3. ControlInv
  BY <1>1, BlankIs DEF ControlInv, Blank, BlankFacts, Inner
<1>4. CountInv
  BY <1>1, BlankIs, NothingCounted DEF CountInv, BlankFacts
<1>5. SpanInv
  BY <1>1, BlankIs DEF SpanInv, Laid, BlankFacts
<1>6. QED
  BY <1>1, <1>2, <1>3, <1>4, <1>5, BlankIs DEF Inv, BlankFacts

LEMMA ParseInv == ASSUME Inv, NEW document \in Seq(Char), Parse(document) PROVE Inv'
<1> DEFINE start == Find(buf', 1, NotWhiteSpace)
           first == IF Matches(buf', start, BOM) THEN start + Len(BOM) ELSE start
<1>1. /\ at = "new" /\ text' = document /\ buf' = Append(document, NUL)
      /\ \/ /\ error' = "EMPTY_DOCUMENT" /\ at' = "returned" /\ UNCHANGED <<p, frames>>
         \/ /\ p' = first /\ frames' = <<Frame(Document)>> /\ at' = "loop" /\ UNCHANGED error
      /\ UNCHANGED <<nodes, current, untracked>>
  BY Zenon DEF Parse, Buffer
<1>2. TypeInv /\ ControlInv /\ TreeInv /\ CountInv /\ SpanInv
  BY DEF Inv
<1>3. p = 0 /\ frames = << >> /\ Blank
  BY <1>1, <1>2 DEF ControlInv, Blank, Inner
<1>4. PICK l \in Nat : l = Len(document)
  OBVIOUS
<1>5. /\ buf' \in Seq(Char) /\ Len(buf') = l + 1 /\ DOMAIN buf' = 1..(l + 1)
      /\ buf'[l + 1] = NUL /\ \A i \in 1..l : buf'[i] = document[i]
  <2>1. NUL \in Char
    BY DEF NUL, Char
  <2>2. QED
    BY <1>1, <1>4, <2>1, AppendProperties
<1>6. SpansIn(nodes') = {} /\ nodes' \in [DOMAIN nodes' -> NodeSet]
  BY <1>1, <1>3, BlankIs DEF BlankFacts
<1>7. ASSUME NEW q \in Nat, q # 0
      PROVE  Laid({}, buf', text', q)
  <2>1. \A i \in q..l : i \in 1..l
    BY <1>7
  <2>2. \A i \in q..Len(text') : buf'[i] = text'[i]
    BY <1>1, <1>4, <1>5, <2>1
  <2>3. QED
    BY <2>2 DEF Laid
<1>8. CASE at' = "returned" /\ UNCHANGED <<p, frames>>
  <2>1. Blank'
    BY <1>1, <1>3, <1>8 DEF Blank
  <2>2. /\ TreeInv' /\ InUse' = {} /\ DOMAIN nodes' \ {Document} = {}
        /\ frames' \in Seq(FrameSet) /\ Len(frames') = 0
    <3>1. BlankFacts'
      BY <2>1, BlankIs, PTL
    <3>2. QED
      BY <3>1 DEF BlankFacts
  <2>3. TypeInv'
    BY <1>1, <1>2, <1>3, <1>4, <1>5, <1>6, <1>8, <2>2 DEF TypeInv
  <2>4. ControlInv'
    BY <1>3, <1>8, <2>2, <2>1 DEF ControlInv, Blank, Inner
  <2>5. CountInv'
    <3>1. \A pool \in Pools : untracked[pool] = Cardinality(BeingParsed(nodes, 0, frames, pool))
                              \/ error # "NO_ERROR"
      BY <1>2, <1>3, BlankIs DEF CountInv, BlankFacts
    <3>2. QED
      BY <1>1, <1>2, <1>8, <2>2 DEF CountInv
  <2>6. SpanInv'
    BY <1>3, <1>8, <2>2 DEF SpanInv, Laid
  <2>7. QED
    BY <2>2, <2>3, <2>4, <2>5, <2>6 DEF Inv
<1>9. CASE p' = first /\ frames' = <<Frame(Document)>> /\ at' = "loop" /\ UNCHANGED error
  <2>1. PICK s \in Nat : s = start /\ 1 <= s /\ s <= l + 1
    <3>1. NUL \in NotWhiteSpace
      BY DEF NotWhiteSpace, NUL, Char, IsWhiteSpace, BLANK
    <3>2. 1 \in 1..(l + 1) /\ l + 1 \in 1..(l + 1) /\ l + 1 \in Nat
      OBVIOUS
    <3>3. start \in 1..(l + 1)
      BY <1>5, <3>1, <3>2, FindFirst
    <3>4. QED
      BY <3>3
  <2>2. first \in Nat /\ 1 <= first /\ first <= l + 1
    <3>1. BOM \in Seq(Char) /\ Len(BOM) = 3 /\ BOM[3] # NUL
      BY DEF BOM, Char, NUL
    <3>2. Len(BOM) # 0 /\ BOM[Len(BOM)] # NUL /\ l + 1 \in Nat
      BY <3>1
    <3>3. Matches(buf', s, BOM) => s + 3 <= l + 1
      <4>1. Matches(buf', s, BOM) => s + Len(BOM) <= l + 1
        BY <1>5, <2>1, <3>1, <3>2, MatchEnds
      <4>2. QED
        BY <3>1, <4>1
    <3>4. first = s \/ (Matches(buf', s, BOM) /\ first = s + 3)
      BY <2>1, <3>1
    <3> HIDE DEF first
    <3>5. QED
      BY <2>1, <3>3, <3>4
  <2> HIDE DEF first
  <2>3. Frame(Document) \in FrameSet /\ Frame(Document).child = None
        /\ Frame(Document).endTag = Empty /\ Frame(Document).self = Document
    BY NothingSet DEF Frame, FrameSet, Document
  <2>4. /\ frames' \in Seq(FrameSet) /\ Len(frames') = 1 /\ frames'[1] = Frame(Document)
        /\ frames' # << >>
    BY <1>9, <2>3
  <2>5. Top' = Frame(Document)
    BY <2>4 DEF Top, Last
  <2>6. TypeInv'
    <3>1. p' \in 0..Len(buf')
      BY <1>5, <1>9, <2>2
    <3>2. QED
      BY <1>1, <1>2, <1>4, <1>5, <1>6, <1>9, <2>4, <3>1 DEF TypeInv, Inner
  <2>7. ControlInv'
    <3>1. p' # 0
      BY <1>9, <2>2
    <3>2. 1..(Len(frames') - 1) = {}
      BY <2>4
    <3>3. QED
      BY <1>9, <2>3, <2>4, <2>5, <3>1, <3>2 DEF ControlInv, Inner
  <2>8. TreeInv'
    <3>1. Starts(nodes', 1, frames')
      BY <1>1, <1>3, <2>3, <2>4, BlankIs DEF Starts, BlankFacts
    <3>3. IsTree(0, nodes', 1, frames')
      BY <3>1, TreeStart
    <3>2. QED
      BY <2>4, <3>3 DEF TreeInv
  <2>9. CountInv'
    <3>1. NoneLess(nodes, nodes', 0, 1, frames, frames')
      <4>1. (1..0) \cap (1..1) = {} /\ 1..0 = {} /\ \A i \in 1..1 : i = 1
        OBVIOUS
      <4>2. QED
        BY <2>3, <2>4, <4>1 DEF NoneLess
    <3>2. \A pool \in Pools : Cardinality(BeingParsed(nodes', 1, frames', pool)) =
                              Cardinality(BeingParsed(nodes, 0, frames, pool))
      BY <3>1, BeingParsedSame
    <3>3. Len(frames) = 0
      BY <1>3, EmptySeq
    <3>4. QED
      BY <1>1, <1>2, <1>9, <2>4, <3>2, <3>3 DEF CountInv
  <2>10. SpanInv'
    <3>1. \A i \in 1..1 : i = 1
      OBVIOUS
    <3>2. EndTags(Len(frames'), frames') = {}
      BY <2>3, <2>4, <3>1 DEF EndTags
    <3>3. InUse' = {}
      BY <1>6, <3>2 DEF InUse
    <3>4. first # 0 /\ Laid({}, buf', text', first)
      BY <1>7, <2>2
    <3>5. QED
      BY <1>9, <3>3, <3>4 DEF SpanInv
  <2>11. QED
    BY <2>6, <2>7, <2>8, <2>9, <2>10 DEF Inv
<1>10. QED
  BY <1>1, <1>8, <1>9

LEMMA CleanUpInv == ASSUME Inv, CleanUp PROVE Inv'
<1>1. /\ at = "returned" /\ at' = "parsed"
      /\ \/ error = "NO_ERROR" /\ UNCHANGED <<nodes, current, untracked>>
         \/ /\ error # "NO_ERROR"
            /\ nodes' = [n \in {Document} |-> Node("document")]
            /\ current' = [pool \in Pools |-> 0]
            /\ untracked' = [pool \in Pools |-> 0]
      /\ UNCHANGED <<text, buf, p, frames, error>>
  BY DEF CleanUp
<1>2. TypeInv /\ ControlInv /\ TreeInv /\ CountInv /\ SpanInv
  BY DEF Inv
<1>3. frames = << >> /\ frames' = << >> /\ Len(frames) = 0
  BY <1>1, <1>2, EmptySeq DEF ControlInv, Inner
<1>4. /\ text \in Seq(Char) /\ p \in Nat /\ Laid(InUse, buf, text, p)
      /\ (p # 0 => \A r \in InUse : r.end < p)
  BY <1>1, <1>2 DEF TypeInv, SpanInv, Borders
<1>5. ControlInv'
  BY <1>1, <1>3 DEF ControlInv, Inner
<1>6. CASE error = "NO_ERROR" /\ UNCHANGED <<nodes, current, untracked>>
  <2>1. TypeInv' /\ TreeInv'
    BY <1>1, <1>2, <1>6 DEF TypeInv, TreeInv
  <2>2. \A pool \in Pools : untracked[pool] = 0
    BY <1>2, <1>3, <1>6, NothingCounted DEF CountInv
  <2>3. CountInv'
    BY <1>1, <1>2, <1>6, <2>2 DEF CountInv
  <2>4. InUse' = InUse
    BY <1>1, <1>6 DEF InUse
  <2>5. SpanInv'
    BY <1>1, <1>4, <2>4 DEF SpanInv
  <2>6. QED
    BY <1>5, <2>1, <2>3, <2>5 DEF Inv
<1>7. CASE /\ nodes' = [n \in {Document} |-> Node("document")]
           /\ current' = [pool \in Pools |-> 0]
           /\ untracked' = [pool \in Pools |-> 0]
  <2>1. Blank'
    BY <1>3, <1>7 DEF Blank
  <2>2. /\ TreeInv' /\ InUse' = {} /\ DOMAIN nodes' \ {Document} = {}
        /\ nodes' \in [DOMAIN nodes' -> NodeSet]
        /\ frames' \in Seq(FrameSet) /\ Len(frames') = 0
    <3>1. BlankFacts'
      BY <2>1, BlankIs, PTL
    <3>2. QED
      BY <3>1 DEF BlankFacts
  <2>3. TypeInv'
    BY <1>1, <1>2, <1>7, <2>2 DEF TypeInv
  <2>4. CountInv'
    BY <1>7, <2>2, NothingCounted DEF CountInv
  <2>5. Laid({}, buf, text, p)
    BY <1>4, LaidOn
  <2>6. SpanInv'
    BY <1>1, <2>2, <2>5 DEF SpanInv
  <2>7. QED
    BY <1>5, <2>2, <2>3, <2>4, <2>6 DEF Inv
<1>8. QED
  BY <1>1, <1>6, <1>7

LEMMA ReadInv == ASSUME Inv, Read PROVE Inv'
<1>1. PICK n \in DOMAIN nodes : \E s \in SpansOf(nodes[n]) : buf' = Ended(buf, {s})
  BY DEF Read, GetStr, Ended
<1>2. PICK s \in SpansOf(nodes[n]) : buf' = Ended(buf, {s})
  BY <1>1
<1>3. at = "parsed" /\ UNCHANGED <<text, p, at, frames, nodes, current, untracked, error>>
  BY DEF Read
<1>4. TypeInv /\ ControlInv /\ TreeInv /\ CountInv /\ SpanInv
  BY DEF Inv
<1>5. {s} \in SUBSET (InUse \cup {Empty}) /\ s \in InUse
  BY <1>2 DEF InUse, SpansIn
<1>6. /\ text \in Seq(Char) /\ buf \in Seq(Char) /\ p \in Nat /\ Len(text) <= Len(buf)
      /\ Laid(InUse, buf, text, p) /\ (p # 0 => \A r \in InUse : r.end < p)
  BY <1>3, <1>4 DEF TypeInv, SpanInv, Borders
<1>7. TypeInv'
  <2>1. buf' \in Seq(Char) /\ Len(buf') = Len(buf) /\ buf'[Len(buf)] = NUL
    <3>1. Len(buf) \in DOMAIN buf /\ buf[Len(buf)] = NUL
      BY <1>4, <1>6 DEF TypeInv
    <3>2. QED
      BY <1>2, <1>6, <3>1, EndedIs
  <2>2. QED
    BY <1>3, <1>4, <2>1 DEF TypeInv
<1>8. ControlInv' /\ TreeInv' /\ CountInv'
  BY <1>3, <1>4 DEF ControlInv, TreeInv, CountInv, Top, Child
<1>9. InUse' = InUse
  BY <1>3 DEF InUse
<1>10. SpanInv'
  <2>1. Laid(InUse, Ended(buf, {s}), text, p)
    BY <1>5, <1>6, LaidEnded
  <2>2. QED
    BY <1>2, <1>3, <1>6, <1>9, <2>1 DEF SpanInv
<1>11. QED
  BY <1>7, <1>8, <1>10 DEF Inv

-----------------------------------------------------------------------------
(***************************************************************************)
(* The printer writes characters.                                          *)
(***************************************************************************)

PrinterTyped == out \in Seq(Char) /\ stack \in Seq(Names)

LEMMA EscapeTyped == ASSUME NEW ch \in Char PROVE Escape(ch) \in Seq(Char)
<1>1. CASE ch \notin Restricted
  BY <1>1 DEF Escape
<1>2. CASE ch \in Restricted
  <2> DEFINE e == CHOOSE x \in Entities : x.value = ch
  <2>1. \E x \in Entities : x.value = ch
    <3>1. /\ Entity(<<97, 109, 112>>, AMP) \in Entities
          /\ Entity(<<108, 116>>, LESS) \in Entities
          /\ Entity(<<103, 116>>, GREATER) \in Entities
      BY DEF Entities
    <3>2. \A pattern, value : Entity(pattern, value).value = value
      BY DEF Entity
    <3>3. QED
      BY <1>2, <3>1, <3>2 DEF Restricted
  <2>2. e \in Entities
    BY <2>1
  <2> HIDE DEF e
  <2>3. e.pattern \in {<<113, 117, 111, 116>>, <<97, 109, 112>>, <<97, 112, 111, 115>>,
                       <<108, 116>>, <<103, 116>>}
    BY <2>2 DEF Entities, Entity
  <2>4. e.pattern \in Seq(Char)
    <3>1. CASE e.pattern = <<113, 117, 111, 116>>
      BY <3>1 DEF Char
    <3>2. CASE e.pattern = <<97, 109, 112>>
      BY <3>2 DEF Char
    <3>3. CASE e.pattern = <<97, 112, 111, 115>>
      BY <3>3 DEF Char
    <3>4. CASE e.pattern = <<108, 116>>
      BY <3>4 DEF Char
    <3>5. CASE e.pattern = <<103, 116>>
      BY <3>5 DEF Char
    <3>6. QED
      BY <2>3, <3>1, <3>2, <3>3, <3>4, <3>5
  <2>5. <<AMP>> \in Seq(Char) /\ <<SEMICOLON>> \in Seq(Char)
    BY DEF AMP, SEMICOLON, Char
  <2>6. Reference(e) \in Seq(Char)
    BY <2>4, <2>5, ConcatProperties DEF Reference
  <2>7. Escape(ch) = Reference(e)
    BY <1>2 DEF Escape, e
  <2>8. QED
    BY <2>6, <2>7
<1>3. QED
  BY <1>1, <1>2

LEMMA EscapedTyped == ASSUME NEW t \in Seq(Char) PROVE Escaped(t) \in Seq(Char)
<1> DEFINE ss == [i \in DOMAIN t |-> Escape(t[i])]
<1>1. \A i \in 1..Len(t) : Escape(t[i]) \in Seq(Char)
  BY EscapeTyped
<1>2. ss \in Seq(Seq(Char))
  <2>1. DOMAIN t = 1..Len(t) /\ Len(t) \in Nat
    OBVIOUS
  <2>2. ss \in [1..Len(t) -> Seq(Char)]
    BY <1>1, <2>1
  <2>3. QED
    BY <2>1, <2>2, SeqDef
<1> HIDE DEF ss
<1>3. FlattenSeq(ss) \in Seq(Char)
  BY <1>2, FlattenType
<1>4. QED
  BY <1>3 DEF Escaped, ss

LEMMA PrinterStep ==
  ASSUME PrinterTyped, PrinterNext
  PROVE  PrinterTyped'
<1>1. Names \subseteq Seq(Char) /\ TextsIn \subseteq Seq(Char)
  BY DocumentsAssumption
<1>2. out \in Seq(Char) /\ stack \in Seq(Names)
  BY DEF PrinterTyped
<1>3. Sealed \in Seq(Char)
  BY <1>2, AppendProperties DEF Sealed, GREATER, Char
<1>4. ASSUME NEW x \in Seq(Char), NEW y \in Seq(Char) PROVE x \o y \in Seq(Char)
  BY ConcatProperties
<1>5. CASE PushDeclaration
  <2>1. <<LESS, 63>> \in Seq(Char) /\ XML \in Seq(Char) /\ <<63, GREATER>> \in Seq(Char)
    BY DEF LESS, XML, GREATER, Char
  <2>2. Sealed \o <<LESS, 63>> \o XML \o <<63, GREATER>> \in Seq(Char)
    BY <1>3, <1>4, <2>1
  <2>3. QED
    BY <1>2, <1>5, <2>2 DEF PushDeclaration, PrinterTyped
<1>6. ASSUME NEW name \in Names, OpenElement(name) PROVE PrinterTyped'
  <2>1. <<LESS>> \in Seq(Char) /\ name \in Seq(Char)
    BY <1>1 DEF LESS, Char
  <2>2. Sealed \o <<LESS>> \o name \in Seq(Char)
    BY <1>3, <1>4, <2>1
  <2>3. Append(stack, name) \in Seq(Names)
    BY <1>2, AppendProperties
  <2>4. QED
    BY <1>6, <2>2, <2>3 DEF OpenElement, PrinterTyped
<1>7. ASSUME NEW t \in TextsIn, PushText(t) PROVE PrinterTyped'
  <2>1. Escaped(t) \in Seq(Char)
    BY <1>1, EscapedTyped
  <2>2. Sealed \o Escaped(t) \in Seq(Char)
    BY <1>3, <1>4, <2>1
  <2>3. QED
    BY <1>2, <1>7, <2>2 DEF PushText, PrinterTyped
<1>8. CASE CloseElement
  <2>1. stack # << >>
    BY <1>8 DEF CloseElement
  <2>2. Front(stack) \in Seq(Names)
    BY <1>2, <2>1, FrontIs
  <2>3. Last(stack) \in Seq(Char)
    <3>1. Len(stack) \in 1..Len(stack)
      BY <1>2, <2>1, EmptySeq
    <3>2. QED
      BY <1>1, <1>2, <3>1, ElementOfSeq DEF Last
  <2>4. /\ <<SLASH, GREATER>> \in Seq(Char) /\ <<LESS, SLASH>> \in Seq(Char)
        /\ <<GREATER>> \in Seq(Char)
    BY DEF SLASH, GREATER, LESS, Char
  <2>5. <<LESS, SLASH>> \o Last(stack) \o <<GREATER>> \in Seq(Char)
    BY <1>4, <2>3, <2>4
  <2>6. out' \in Seq(Char)
    BY <1>2, <1>4, <1>8, <2>4, <2>5 DEF CloseElement
  <2>7. QED
    BY <1>8, <2>2, <2>6 DEF CloseElement, PrinterTyped
<1>9. QED
  BY <1>5, <1>6, <1>7, <1>8 DEF PrinterNext

-----------------------------------------------------------------------------
(***************************************************************************)
(* Every step.                                                             *)
(***************************************************************************)

LEMMA ParserStep == ASSUME Inv, ParserNext PROVE Inv'
BY LoopEndsInv, IdentifyInv, ChildFailsInv, DeclarationFailsInv, ClosingTagInv,
   MismatchFailsInv, InsertEndChildInv, ParseLeafInv, ParseNameInv, AddAttributeInv,
   DuplicateAttributeInv, AttributeFailsInv, OpenTagFailsInv, OpenTagEndsInv,
   EmptyTagEndsInv, CleanUpInv
   DEF ParserNext

LEMMA ParserStutters == ASSUME Inv, UNCHANGED parserVars PROVE Inv'
<1>1. UNCHANGED <<text, buf, p, at, frames, nodes, current, untracked, error>>
  BY DEF parserVars
<1>2. UNCHANGED <<Top, Child, InUse>>
  BY <1>1 DEF Top, Child, InUse
<1>3. TypeInv' = TypeInv /\ TreeInv' = TreeInv /\ CountInv' = CountInv
  BY <1>1 DEF TypeInv, TreeInv, CountInv
<1>4. ControlInv'
  BY <1>1, <1>2 DEF Inv, ControlInv
<1>5. SpanInv'
  BY <1>1, <1>2 DEF Inv, SpanInv, Borders
<1>6. QED
  BY <1>3, <1>4, <1>5 DEF Inv

LEMMA DocumentsStep ==
  ASSUME PrinterTyped /\ Inv, [Next]_vars
  PROVE  (PrinterTyped /\ Inv)'
<1>1. Foreign \subseteq Seq(Char)
  BY DocumentsAssumption
<1>2. UNCHANGED printerVars => PrinterTyped'
  BY DEF printerVars, PrinterTyped
<1>3. CASE PrintOn
  BY <1>3, PrinterStep, ParserStutters DEF PrintOn
<1>4. CASE ParsePrinted
  <2>1. Parse(out) /\ out \in Seq(Char) /\ UNCHANGED printerVars
    BY <1>4 DEF ParsePrinted, PrinterTyped
  <2>2. QED
    BY <1>2, <2>1, ParseInv
<1>5. CASE ParseForeign
  BY <1>1, <1>2, <1>5, ParseInv DEF ParseForeign
<1>6. CASE ParseOn
  BY <1>2, <1>6, ParserStep DEF ParseOn
<1>7. CASE ReadOn
  BY <1>2, <1>7, ReadInv DEF ReadOn
<1>8. CASE UNCHANGED vars
  BY <1>2, <1>8, ParserStutters DEF vars
<1>9. QED
  BY <1>3, <1>4, <1>5, <1>6, <1>7, <1>8 DEF Next

LEMMA DocumentsInit == Init => PrinterTyped /\ Inv
<1>1. PrinterInit => PrinterTyped
  BY EmptySeq DEF PrinterInit, PrinterTyped
<1>2. QED
  BY <1>1, ParserInitInv DEF Init

LEMMA DocumentsInvariant == Spec => [](PrinterTyped /\ Inv)
<1>1. PrinterTyped /\ Inv /\ [Next]_vars => (PrinterTyped /\ Inv)'
  BY DocumentsStep
<1>2. QED
  BY DocumentsInit, <1>1, PTL DEF Spec

\* The variables have their types.
THEOREM ParserTyped == Spec => []ParserTypeOK
<1>1. ASSUME Inv PROVE ParserTypeOK
  <2>1. TypeInv /\ TreeInv
    BY <1>1 DEF Inv
  <2>2. PICK k \in Nat : IsTree(k, nodes, Len(frames), frames)
    BY <2>1 DEF TreeInv
  <2>3. PICK m \in Nat : m = Len(frames) /\ DOMAIN frames = 1..m
    BY <2>1 DEF TypeInv
  <2>4. DOMAIN nodes = 0..k /\ Document \in DOMAIN nodes
    BY <2>2 DEF IsTree, Document
  <2>5. \A i \in 1..m : frames[i].child \in DOMAIN nodes \cup {None}
    BY <2>2, <2>3, <2>4 DEF IsTree
  <2>6. ASSUME NEW i \in 1..m PROVE frames[i].self \in DOMAIN nodes
    <3>1. CASE i = 1
      BY <2>2, <2>3, <2>4, <3>1 DEF IsTree
    <3>2. CASE i # 1
      <4>1. i - 1 \in 1..m /\ i - 1 # m
        BY <3>2
      <4>2. frames[i - 1].child \in 1..k
        BY <2>2, <2>3, <4>1 DEF IsTree
      <4>3. QED
        BY <2>2, <2>3, <2>4, <3>2, <4>2 DEF IsTree
    <3>3. QED
      BY <3>1, <3>2
  <2>7. QED
    BY <2>1, <2>3, <2>4, <2>5, <2>6 DEF ParserTypeOK, TypeInv, Inner
<1>2. QED
  BY <1>1, DocumentsInvariant, PTL

\* Whatever is asked for while a document is parsed and after it, in any order, no
\* character that is still to be read or that belongs to a name or value is
\* overwritten: the places in use are apart, and behind the parser.
THEOREM NothingSpoilt == Spec => []Unspoilt
<1>1. ASSUME Inv PROVE Unspoilt
  <2>1. Laid(InUse, buf, text, p)
    BY <1>1 DEF Inv, SpanInv
  <2>2. Spans \subseteq InUse
    BY DEF Spans, InUse, SpansIn
  <2>3. QED
    BY <2>1, <2>2 DEF Unspoilt, Laid
<1>2. QED
  BY <1>1, DocumentsInvariant, PTL

\* Every node in the pools is in the tree or in the hands of a call, the pools count
\* what there is, and a document that was parsed leaves nothing untracked.
THEOREM NoNodeLost == Spec => []NothingLost
<1>1. ASSUME Inv PROVE NothingLost
  <2>1. TypeInv /\ TreeInv /\ CountInv
    BY <1>1 DEF Inv
  <2>2. PICK k \in Nat : IsTree(k, nodes, Len(frames), frames)
    BY <2>1 DEF TreeInv
  <2>3. PICK m \in Nat : m = Len(frames) /\ DOMAIN frames = 1..m
    BY <2>1 DEF TypeInv
  <2>4. DOMAIN nodes = 0..k
    BY <2>2 DEF IsTree
  <2>5. 0..k = InsideIn(nodes, Document) \cup
                 UNION {InsideIn(nodes, frames[i].child) :
                          i \in {j \in 1..m : frames[j].child # None}}
    <3>1. IsTree(k, nodes, m, frames)
      BY <2>2, <2>3
    <3>2. QED
      BY <3>1, AllReached
  <2>6. Reachable = InsideIn(nodes, Document) \cup
                      UNION {InsideIn(nodes, frames[i].child) :
                               i \in {j \in 1..m : frames[j].child # None}}
    BY <2>3, InsideIs DEF Reachable
  <2>7. \A pool \in Pools : current[pool] = Count(DOMAIN nodes \ {Document}, pool)
    BY <2>1, CountIs DEF CountInv
  <2>8. QED
    BY <2>1, <2>4, <2>5, <2>6, <2>7 DEF NothingLost, CountInv
<1>2. QED
  BY <1>1, DocumentsInvariant, PTL
=============================================================================
