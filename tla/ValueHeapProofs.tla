-------------------------- MODULE ValueHeapProofs --------------------------
(***************************************************************************)
(* Every cell is owned once, for any number of variables and cells and     *)
(* arrays of any length, and the heap implements ValueSemantics.           *)
(* OwnedOnce is about slots of four kinds; the invariant says the same     *)
(* with a predicate for each kind, so that a step is described by what     *)
(* each kind holds after it, and adds what keeps a step from dropping a    *)
(* cell: a variable that is to be filled holds nothing, and a copy never   *)
(* outgrows what it copies.                                                *)
(***************************************************************************)
EXTENDS ValueHeap, SequenceTheorems, NaturalsInduction, WellFoundedInduction, TLAPS

\* The owners of cell c.
Holds(x, c) == x.type \in LargeTypes /\ x.as = c
VarHolds(v, c) == v \in Vars /\ Holds(var[v], c)
ElementHolds(d, i, c) == d \in live /\ i \in DOMAIN cell[d] /\ Holds(cell[d][i], c)
FrameHolds(i, c) == i \in DOMAIN frames /\ frames[i].to = c
DoomedHolds(c) == c \in doomed

\* What is owned is allocated, ...
HeldOnlyLive ==
  \A c : /\ \A v : VarHolds(v, c) => c \in live
         /\ \A d, i : ElementHolds(d, i, c) => c \in live
         /\ \A i : FrameHolds(i, c) => c \in live
         /\ DoomedHolds(c) => c \in live

\* ... nothing twice, ...
HeldOnce ==
  \A c :
    /\ \A v, w : VarHolds(v, c) /\ VarHolds(w, c) => v = w
    /\ \A d, i, e, j : ElementHolds(d, i, c) /\ ElementHolds(e, j, c) => d = e /\ i = j
    /\ \A i, j : FrameHolds(i, c) /\ FrameHolds(j, c) => i = j
    /\ \A v, d, i : ~(VarHolds(v, c) /\ ElementHolds(d, i, c))
    /\ \A v, i : ~(VarHolds(v, c) /\ FrameHolds(i, c))
    /\ \A d, i, j : ~(ElementHolds(d, i, c) /\ FrameHolds(j, c))
    /\ DoomedHolds(c) => /\ \A v : ~VarHolds(v, c)
                         /\ \A d, i : ~ElementHolds(d, i, c)
                         /\ \A i : ~FrameHolds(i, c)

\* ... and what is allocated is owned.
AllHeld ==
  \A c \in live : \/ \E v : VarHolds(v, c)
                  \/ \E d, i : ElementHolds(d, i, c)
                  \/ \E i : FrameHolds(i, c)
                  \/ DoomedHolds(c)

Owners == HeldOnlyLive /\ HeldOnce /\ AllHeld

\* The variable a copy or a move assignment is for holds nothing.
TargetEmpty ==
  frames # << >> \/ source # None =>
    target \in Vars /\ var[target].type \notin LargeTypes /\ source # target

\* An array is not too long, and a copy not longer than what it copies, which is
\* no copy under construction itself.
Lengths ==
  /\ \A c \in live : Len(cell[c]) <= MaxElements
  /\ \A i \in DOMAIN frames :
       /\ frames[i].from \in live
       /\ Len(cell[frames[i].to]) <= Len(cell[frames[i].from])
       /\ i # Len(frames) => Len(cell[frames[i].to]) < Len(cell[frames[i].from])
       /\ \A j \in DOMAIN frames : frames[i].from # frames[j].to

Inv == TypeOK /\ Owners /\ TargetEmpty /\ Lengths

-----------------------------------------------------------------------------
(***************************************************************************)
(* Values, and the slots of OwnedOnce.                                     *)
(***************************************************************************)

\* What a Value that owns a cell is.
LEMMA ValueTypes ==
  /\ Nil \in Values /\ Integer \in Values
  /\ \A c \in Cells : Boxed("STRING", c) \in Values /\ Boxed("ARRAY", c) \in Values
  /\ \A x \in Values : x # Dead
  /\ \A c : ~Holds(Nil, c) /\ ~Holds(Integer, c) /\ ~Holds(Dead, c)
  /\ \A t \in LargeTypes : \A c, d : Holds(Boxed(t, d), c) <=> c = d
  /\ \A x \in Values \cup {Dead} : \A c : Holds(x, c) => c \in Cells /\ x \in Values
  <1>1. /\ Nil \in Values /\ Integer \in Values
        /\ \A c \in Cells : Boxed("STRING", c) \in Values /\ Boxed("ARRAY", c) \in Values
    BY DEF Values, LargeTypes
  <1>2. ASSUME NEW x \in Values PROVE x.type # "DEAD" /\ x # Dead
    BY DEF Values, LargeTypes, Nil, Integer, Boxed, Dead
  <1>3. \A c : ~Holds(Nil, c) /\ ~Holds(Integer, c) /\ ~Holds(Dead, c)
    BY DEF Nil, Integer, Dead, LargeTypes, Holds
  <1>4. \A t \in LargeTypes : \A c, d : Holds(Boxed(t, d), c) <=> c = d
    BY DEF Boxed, Holds
  <1>5. ASSUME NEW x \in Values \cup {Dead}, NEW c, Holds(x, c)
        PROVE  c \in Cells /\ x \in Values
    <2>1. x # Nil /\ x # Integer /\ x # Dead
      BY <1>3, <1>5
    <2>2. PICK t \in LargeTypes, d \in Cells : x = Boxed(t, d)
      BY <2>1 DEF Values
    <2>3. c = d
      BY <1>4, <1>5, <2>2
    <2> QED
      BY <2>1, <2>2, <2>3
  <1> QED
    BY <1>1, <1>2, <1>3, <1>4, <1>5

\* What the values in a set own.
LEMMA OwnedBy == ASSUME NEW S, NEW c PROVE c \in Owned(S) <=> \E x \in S : Holds(x, c)
  BY DEF Owned, Holds

\* What a slot holds.
LEMMA SlotHolds ==
  ASSUME NEW s \in Slots, NEW c, c \in HeldBy(s)
  PROVE  \/ \E v : s = <<"var", v>> /\ VarHolds(v, c)
         \/ \E d, i : s = <<"cell", d, i>> /\ ElementHolds(d, i, c)
         \/ \E i : s = <<"frame", i>> /\ FrameHolds(i, c)
         \/ s = <<"doomed", c>> /\ DoomedHolds(c)
  <1>1. ASSUME NEW v \in Vars, s = <<"var", v>> PROVE VarHolds(v, c)
    <2>1. HeldBy(s) = Owned({var[v]})
      BY <1>1 DEF HeldBy
    <2> QED
      BY <2>1, OwnedBy DEF VarHolds
  <1>2. ASSUME NEW d \in live, NEW i \in 1..MaxElements, s = <<"cell", d, i>>
        PROVE  ElementHolds(d, i, c)
    <2>1. HeldBy(s) = IF i \in DOMAIN cell[d] THEN Owned({cell[d][i]}) ELSE {}
      BY <1>2 DEF HeldBy
    <2> QED
      BY <2>1, OwnedBy DEF ElementHolds
  <1>3. ASSUME NEW i \in DOMAIN frames, s = <<"frame", i>> PROVE FrameHolds(i, c)
    <2>1. HeldBy(s) = {frames[i].to}
      BY <1>3 DEF HeldBy
    <2> QED
      BY <2>1 DEF FrameHolds
  <1>4. ASSUME NEW d \in doomed, s = <<"doomed", d>> PROVE d = c /\ DoomedHolds(c)
    <2>1. HeldBy(s) = {d}
      BY <1>4 DEF HeldBy
    <2> QED
      BY <2>1 DEF DoomedHolds
  <1> QED
    BY <1>1, <1>2, <1>3, <1>4 DEF Slots

\* The invariant implies the property.
LEMMA InvOwnedOnce == Inv => OwnedOnce
  <1> SUFFICES ASSUME Inv PROVE OwnedOnce
    OBVIOUS
  <1>1. \A s \in Slots : HeldBy(s) \subseteq live
    BY SlotHolds DEF Inv, Owners, HeldOnlyLive
  <1>2. ASSUME NEW s \in Slots, NEW t \in Slots, NEW c, c \in HeldBy(s), c \in HeldBy(t)
        PROVE  s = t
    <2>1. \/ \E v : s = <<"var", v>> /\ VarHolds(v, c)
          \/ \E d, i : s = <<"cell", d, i>> /\ ElementHolds(d, i, c)
          \/ \E i : s = <<"frame", i>> /\ FrameHolds(i, c)
          \/ s = <<"doomed", c>> /\ DoomedHolds(c)
      BY <1>2, SlotHolds
    <2>2. \/ \E v : t = <<"var", v>> /\ VarHolds(v, c)
          \/ \E d, i : t = <<"cell", d, i>> /\ ElementHolds(d, i, c)
          \/ \E i : t = <<"frame", i>> /\ FrameHolds(i, c)
          \/ t = <<"doomed", c>> /\ DoomedHolds(c)
      BY <1>2, SlotHolds
    <2> QED
      BY <2>1, <2>2 DEF Inv, Owners, HeldOnce
  <1>3. ASSUME NEW c \in live PROVE \E s \in Slots : c \in HeldBy(s)
    <2>1. CASE \E v : VarHolds(v, c)
      <3>1. PICK v \in Vars : Holds(var[v], c)
        BY <2>1 DEF VarHolds
      <3>2. <<"var", v>> \in Slots /\ HeldBy(<<"var", v>>) = Owned({var[v]})
        BY DEF Slots, HeldBy
      <3> QED
        BY <3>1, <3>2, OwnedBy
    <2>2. CASE \E d, i : ElementHolds(d, i, c)
      <3>1. PICK d, i : d \in live /\ i \in DOMAIN cell[d] /\ Holds(cell[d][i], c)
        BY <2>2 DEF ElementHolds
      <3>2. i \in 1..MaxElements
        <4>1. /\ d \in Cells /\ cell[d] \in Seq(Values) /\ Len(cell[d]) <= MaxElements
              /\ MaxElements \in Nat
          BY <3>1, ElementsAssumption DEF Inv, TypeOK, Lengths
        <4>2. i \in 1..Len(cell[d]) /\ Len(cell[d]) \in Nat
          BY <3>1, <4>1
        <4> QED
          BY <4>1, <4>2
      <3>3. <<"cell", d, i>> \in Slots
        BY <3>1, <3>2 DEF Slots
      <3>4. HeldBy(<<"cell", d, i>>) = Owned({cell[d][i]})
        BY <3>1 DEF HeldBy
      <3> QED
        BY <3>1, <3>3, <3>4, OwnedBy
    <2>3. CASE \E i : FrameHolds(i, c)
      <3>1. PICK i \in DOMAIN frames : frames[i].to = c
        BY <2>3 DEF FrameHolds
      <3>2. <<"frame", i>> \in Slots /\ HeldBy(<<"frame", i>>) = {frames[i].to}
        BY DEF Slots, HeldBy
      <3> QED
        BY <3>1, <3>2
    <2>4. CASE DoomedHolds(c)
      <3>1. <<"doomed", c>> \in Slots /\ HeldBy(<<"doomed", c>>) = {c}
        BY <2>4 DEF Slots, HeldBy, DoomedHolds
      <3> QED
        BY <3>1
    <2> QED
      BY <2>1, <2>2, <2>3, <2>4 DEF Inv, Owners, AllHeld
  <1>4. \A s, t \in Slots : s # t => HeldBy(s) \cap HeldBy(t) = {}
    BY <1>2
  <1> QED
    BY <1>1, <1>3, <1>4 DEF Inv, OwnedOnce

\* The invariant holds initially.
LEMMA InitInv == Init => Inv
  <1> SUFFICES ASSUME Init PROVE Inv
    OBVIOUS
  <1>1. TypeOK
    BY DEF Init, TypeOK
  <1>2. Owners
    BY ValueTypes DEF Init, Owners, HeldOnlyLive, HeldOnce, AllHeld, VarHolds,
       ElementHolds, FrameHolds, DoomedHolds
  <1>3. TargetEmpty /\ Lengths
    BY DEF Init, TargetEmpty, Lengths
  <1> QED
    BY <1>1, <1>2, <1>3 DEF Inv

-----------------------------------------------------------------------------
(***************************************************************************)
(* The steps.                                                              *)
(***************************************************************************)

\* What a step leaves alone it leaves with what it holds.
LEMMA Same ==
  /\ var' = var => \A v, c : VarHolds(v, c)' <=> VarHolds(v, c)
  /\ UNCHANGED <<live, cell>> =>
       \A d, i, c : ElementHolds(d, i, c)' <=> ElementHolds(d, i, c)
  /\ frames' = frames => \A i, c : FrameHolds(i, c)' <=> FrameHolds(i, c)
  /\ doomed' = doomed => \A c : DoomedHolds(c)' <=> DoomedHolds(c)
  BY DEF VarHolds, ElementHolds, FrameHolds, DoomedHolds

\* A step that changes no owner.
LEMMA SameOwners ==
  ASSUME Inv, live' = live,
         \A v, c : VarHolds(v, c)' <=> VarHolds(v, c),
         \A d, i, c : ElementHolds(d, i, c)' <=> ElementHolds(d, i, c),
         \A i, c : FrameHolds(i, c)' <=> FrameHolds(i, c),
         \A c : DoomedHolds(c)' <=> DoomedHolds(c)
  PROVE  Owners'
  <1>1. HeldOnlyLive'
    BY DEF Inv, Owners, HeldOnlyLive
  <1>2. HeldOnce'
    BY DEF Inv, Owners, HeldOnce
  <1>3. AllHeld'
    BY DEF Inv, Owners, AllHeld
  <1> QED
    BY <1>1, <1>2, <1>3 DEF Owners

\* Between two statements only variables and elements hold cells.
LEMMA IdleHolds ==
  ASSUME Idle
  PROVE  /\ frames = << >> /\ doomed = {} /\ source = None
         /\ \A c : ~DoomedHolds(c) /\ \A i : ~FrameHolds(i, c)
  BY DEF Idle, DoomedHolds, FrameHolds

\* A step without a copy, ...
LEMMA NoCopyInv ==
  ASSUME Inv, frames = << >>, frames' = frames, Owners',
         var' \in [Vars -> Values \cup {Dead}], live' \subseteq Cells,
         cell' \in [Cells -> Seq(Values)], doomed' \subseteq Cells,
         target' \in Vars \cup {None}, source' \in Vars \cup {None},
         source' # None => target' \in Vars /\ var'[target'].type \notin LargeTypes
                           /\ source' # target',
         \A c \in live' : Len(cell'[c]) <= MaxElements
  PROVE  Inv'
  <1>1. None \notin Vars
    BY DistinctAssumption
  <1>2. TypeOK'
    BY <1>1 DEF Inv, TypeOK
  <1>3. TargetEmpty' /\ Lengths'
    BY DEF TargetEmpty, Lengths
  <1> QED
    BY <1>2, <1>3 DEF Inv

\* A nil or an integer owns no cell.
LEMMA ConstructSmallInv ==
  ASSUME Inv, NEW v \in Vars, ConstructSmall(v)
  PROVE  Inv'
  <1>1. PICK small \in {Nil, Integer} : var' = [var EXCEPT ![v] = small]
    BY DEF ConstructSmall
  <1>2. /\ Idle /\ var[v] = Dead /\ UNCHANGED <<live, cell, frames, target, doomed, source>>
        /\ var \in [Vars -> Values \cup {Dead}]
    BY DEF ConstructSmall, Inv, TypeOK
  <1>3. \A w, c : VarHolds(w, c)' <=> VarHolds(w, c)
    BY <1>1, <1>2, ValueTypes DEF VarHolds
  <1>4. Owners'
    BY <1>2, <1>3, Same DEF Inv, Owners, HeldOnlyLive, HeldOnce, AllHeld
  <1>5. var' \in [Vars -> Values \cup {Dead}]
    BY <1>1, <1>2, ValueTypes
  <1> QED
    BY <1>2, <1>4, <1>5, IdleHolds, NoCopyInv DEF Inv, TypeOK, Lengths

\* A new cell: what is in the others stays.
LEMMA NewCell ==
  ASSUME Inv, NEW c0 \in Cells, NEW elements \in Seq(Values), New(c0, elements)
  PROVE  /\ c0 \notin live /\ live' = live \cup {c0} /\ live' \subseteq Cells
         /\ cell' \in [Cells -> Seq(Values)] /\ cell'[c0] = elements
         /\ \A d \in Cells \ {c0} : cell'[d] = cell[d]
         /\ \A d, i, c : ElementHolds(d, i, c)' <=>
              \/ ElementHolds(d, i, c)
              \/ d = c0 /\ i \in DOMAIN elements /\ Holds(elements[i], c)
         /\ ~DoomedHolds(c0) /\ \A v : ~VarHolds(v, c0)
         /\ \A d, i : ~ElementHolds(d, i, c0)
         /\ \A i : ~FrameHolds(i, c0)
  <1>1. /\ c0 \notin live /\ live' = live \cup {c0} /\ live \subseteq Cells
        /\ cell \in [Cells -> Seq(Values)] /\ cell' = [cell EXCEPT ![c0] = elements]
    BY DEF New, Inv, TypeOK
  <1>2. \A d, i, c : ElementHolds(d, i, c)' <=>
          \/ ElementHolds(d, i, c)
          \/ d = c0 /\ i \in DOMAIN elements /\ Holds(elements[i], c)
    BY <1>1 DEF ElementHolds
  <1>3. /\ ~DoomedHolds(c0) /\ \A v : ~VarHolds(v, c0)
        /\ \A d, i : ~ElementHolds(d, i, c0)
        /\ \A i : ~FrameHolds(i, c0)
    BY <1>1 DEF Inv, Owners, HeldOnlyLive
  <1> QED
    BY <1>1, <1>2, <1>3

\* A String owns a new cell.
LEMMA ConstructStringInv ==
  ASSUME Inv, NEW v \in Vars, ConstructString(v)
  PROVE  Inv'
  <1>1. PICK c0 \in Cells : New(c0, << >>) /\ var' = [var EXCEPT ![v] = Boxed("STRING", c0)]
    BY DEF ConstructString
  <1>2. /\ Idle /\ var[v] = Dead /\ UNCHANGED <<frames, target, doomed, source>>
        /\ var \in [Vars -> Values \cup {Dead}]
    BY DEF ConstructString, Inv, TypeOK
  <1>3. << >> \in Seq(Values) /\ Len(<< >>) = 0 /\ DOMAIN << >> = {}
    OBVIOUS
  <1>4. "STRING" \in LargeTypes
    BY DEF LargeTypes
  <1>5. \A w, c : VarHolds(w, c)' <=> VarHolds(w, c) \/ (w = v /\ c = c0)
    BY <1>1, <1>2, <1>4, ValueTypes DEF VarHolds
  <1>6. \A d, i, c : ElementHolds(d, i, c)' <=> ElementHolds(d, i, c)
    BY <1>1, <1>3, NewCell
  <1>7. /\ live' = live \cup {c0} /\ ~DoomedHolds(c0) /\ \A w : ~VarHolds(w, c0)
        /\ \A d, i : ~ElementHolds(d, i, c0)
        /\ \A i : ~FrameHolds(i, c0)
        /\ ~VarHolds(v, c0)
    BY <1>1, <1>3, NewCell
  <1>8. \A c : ~VarHolds(v, c)
    BY <1>2, ValueTypes DEF VarHolds
  <1>9. Owners'
    BY <1>2, <1>5, <1>6, <1>7, <1>8, Same DEF Inv, Owners, HeldOnlyLive, HeldOnce, AllHeld
  <1>10. var' \in [Vars -> Values \cup {Dead}]
    BY <1>1, <1>2, ValueTypes
  <1>11. /\ live' \subseteq Cells /\ cell' \in [Cells -> Seq(Values)]
         /\ \A c \in live' : Len(cell'[c]) <= MaxElements
    <2>1. /\ live' \subseteq Cells /\ cell' \in [Cells -> Seq(Values)]
          /\ live' = live \cup {c0} /\ cell'[c0] = << >> /\ c0 \notin live
          /\ \A d \in Cells \ {c0} : cell'[d] = cell[d]
      BY <1>1, <1>3, NewCell
    <2>2. Len(cell'[c0]) <= MaxElements
      BY <1>3, <2>1, ElementsAssumption
    <2>3. \A c \in live : c \in Cells \ {c0} /\ Len(cell[c]) <= MaxElements
      BY <2>1 DEF Inv, TypeOK, Lengths
    <2> QED
      BY <2>1, <2>2, <2>3
  <1> QED
    BY <1>2, <1>9, <1>10, <1>11, IdleHolds, NoCopyInv DEF Inv, TypeOK

\* An Array takes the cells of the variables it is made of.
LEMMA ConstructArrayInv ==
  ASSUME Inv, NEW v \in Vars, NEW list \in Lists, ConstructArray(v, list)
  PROVE  Inv'
  <1> DEFINE moved == [w \in Vars |-> IF w \in ToSet(list) THEN Nil ELSE var[w]]
             elements == [i \in DOMAIN list |-> var[list[i]]]
  <1>1. /\ Idle /\ var[v] = Dead /\ UNCHANGED <<frames, target, source>>
        /\ \A i \in DOMAIN list : list[i] # v /\ var[list[i]] # Dead
        /\ var \in [Vars -> Values \cup {Dead}]
    BY DEF ConstructArray, Inv, TypeOK
  <1>2. PICK n \in 0..MaxElements : list \in [1..n -> Vars]
    BY DEF Lists, SeqOf
  <1>3. \A i, j \in DOMAIN list : list[i] = list[j] => i = j
    BY DEF Lists, IsInjective
  <1>4. n \in Nat /\ n <= MaxElements /\ MaxElements \in Nat
    BY ElementsAssumption
  <1>5. /\ elements \in Seq(Values) /\ Len(elements) = n
        /\ \A i \in DOMAIN list : elements[i] = var[list[i]]
        /\ DOMAIN elements = DOMAIN list
    BY <1>1, <1>2, <1>4
  <1>6. \A w \in Vars : moved[w] = IF \E i \in DOMAIN list : w = list[i] THEN Nil ELSE var[w]
    BY DEF ToSet
  <1>7. moved \in [Vars -> Values \cup {Dead}] /\ moved[v] = Dead
    BY <1>1, <1>6, ValueTypes
  <1>8. \A w \in Vars : \A c : Holds(moved[w], c) <=>
          VarHolds(w, c) /\ \A i \in DOMAIN list : w # list[i]
    BY <1>6, ValueTypes DEF VarHolds
  <1>9. \A i \in DOMAIN list : \A c : Holds(elements[i], c) <=> VarHolds(list[i], c)
    BY <1>2, <1>5 DEF VarHolds
  <1>10. \A c : ~VarHolds(v, c)
    BY <1>1, ValueTypes DEF VarHolds
  <1>11. ConstructArray(v, list) =>
          \/ \E c \in Cells :
               /\ New(c, elements)
               /\ var' = [moved EXCEPT ![v] = Boxed("ARRAY", c)]
               /\ UNCHANGED doomed
          \/ /\ var' = moved
             /\ doomed' = Owned(ToSet(elements))
             /\ UNCHANGED <<live, cell>>
    BY DEF ConstructArray
  <1> HIDE DEF moved, elements
  <1>12. ASSUME NEW c0 \in Cells, New(c0, elements),
                var' = [moved EXCEPT ![v] = Boxed("ARRAY", c0)], UNCHANGED doomed
         PROVE  Inv'
    <2>1. "ARRAY" \in LargeTypes
      BY DEF LargeTypes
    <2>2. \A w, c : VarHolds(w, c)' <=>
            \/ VarHolds(w, c) /\ \A i \in DOMAIN list : w # list[i]
            \/ w = v /\ c = c0
      <3>1. var'[v] = Boxed("ARRAY", c0) /\ \A w \in Vars \ {v} : var'[w] = moved[w]
        BY <1>7, <1>12
      <3>2. \A c : VarHolds(v, c)' <=> c = c0
        BY <2>1, <3>1, ValueTypes DEF VarHolds
      <3>3. \A w \in Vars \ {v} : \A c : VarHolds(w, c)' <=> Holds(moved[w], c)
        BY <3>1 DEF VarHolds
      <3>4. \A w, c : w \notin Vars => ~VarHolds(w, c) /\ ~VarHolds(w, c)'
        BY DEF VarHolds
      <3> QED
        BY <1>8, <1>10, <3>2, <3>3, <3>4
    <2>3. \A d, i, c : ElementHolds(d, i, c)' <=>
            \/ ElementHolds(d, i, c)
            \/ d = c0 /\ i \in DOMAIN list /\ VarHolds(list[i], c)
      BY <1>5, <1>9, <1>12, NewCell
    <2>4. /\ live' = live \cup {c0} /\ ~DoomedHolds(c0) /\ c0 \notin live
          /\ \A w : ~VarHolds(w, c0)
          /\ \A d, i : ~ElementHolds(d, i, c0)
      BY <1>5, <1>12, NewCell
    <2>5. \A i, c : ~ElementHolds(c0, i, c)
      BY <2>4 DEF ElementHolds
    <2>6. \A c : /\ ~DoomedHolds(c)' /\ ~DoomedHolds(c)
                 /\ \A i : ~FrameHolds(i, c)' /\ ~FrameHolds(i, c)
      BY <1>1, <1>12, IdleHolds, Same
    <2>7. HeldOnlyLive'
      BY <2>2, <2>3, <2>4, <2>6 DEF Inv, Owners, HeldOnlyLive
    <2>8. HeldOnce'
      BY <1>3, <1>10, <2>2, <2>3, <2>4, <2>5, <2>6 DEF Inv, Owners, HeldOnce
    <2>9. AllHeld'
      <3> SUFFICES ASSUME NEW c \in live'
                   PROVE  (\E w : VarHolds(w, c)') \/ (\E d, i : ElementHolds(d, i, c)')
        BY DEF AllHeld
      <3>1. CASE c = c0
        BY <2>2, <3>1
      <3>2. CASE c \in live /\ \E w : VarHolds(w, c)
        <4>1. PICK w : VarHolds(w, c)
          BY <3>2
        <4>2. CASE \E i \in DOMAIN list : w = list[i]
          BY <2>3, <4>1, <4>2
        <4>3. CASE \A i \in DOMAIN list : w # list[i]
          BY <2>2, <4>1, <4>3
        <4> QED
          BY <4>2, <4>3
      <3>3. CASE c \in live /\ \E d, i : ElementHolds(d, i, c)
        BY <2>3, <3>3
      <3> QED
        BY <2>4, <2>6, <3>1, <3>2, <3>3 DEF Inv, Owners, AllHeld
    <2>10. /\ live' \subseteq Cells /\ cell' \in [Cells -> Seq(Values)]
           /\ \A c \in live' : Len(cell'[c]) <= MaxElements
      <3>1. /\ live' \subseteq Cells /\ cell' \in [Cells -> Seq(Values)]
            /\ live' = live \cup {c0} /\ cell'[c0] = elements /\ c0 \notin live
            /\ \A d \in Cells \ {c0} : cell'[d] = cell[d]
        BY <1>5, <1>12, NewCell
      <3>2. Len(cell'[c0]) <= MaxElements
        BY <1>4, <1>5, <3>1
      <3>3. \A c \in live : c \in Cells \ {c0} /\ Len(cell[c]) <= MaxElements
        BY <3>1 DEF Inv, TypeOK, Lengths
      <3> QED
        BY <3>1, <3>2, <3>3
    <2>11. var' \in [Vars -> Values \cup {Dead}]
      <3>1. Boxed("ARRAY", c0) \in Values
        BY ValueTypes
      <3> QED
        BY <1>7, <1>12, <3>1
    <2> QED
      BY <1>1, <1>12, <2>7, <2>8, <2>9, <2>10, <2>11, IdleHolds, NoCopyInv
      DEF Inv, TypeOK, Owners
  <1>13. ASSUME var' = moved, doomed' = Owned(ToSet(elements)), UNCHANGED <<live, cell>>
         PROVE  Inv'
    <2>1. \A w, c : VarHolds(w, c)' <=>
            VarHolds(w, c) /\ \A i \in DOMAIN list : w # list[i]
      BY <1>8, <1>13 DEF VarHolds
    <2>2. \A c : DoomedHolds(c)' <=> \E i \in DOMAIN list : VarHolds(list[i], c)
      <3>1. \A c : DoomedHolds(c)' <=> \E x \in ToSet(elements) : Holds(x, c)
        BY <1>13, OwnedBy DEF DoomedHolds
      <3>2. ToSet(elements) = {elements[i] : i \in DOMAIN list}
        BY <1>5 DEF ToSet
      <3> QED
        BY <1>9, <3>1, <3>2
    <2>3. \A c : ~DoomedHolds(c) /\ \A i : ~FrameHolds(i, c)' /\ ~FrameHolds(i, c)
      BY <1>1, IdleHolds, Same
    <2>4. \A d, i, c : ElementHolds(d, i, c)' <=> ElementHolds(d, i, c)
      BY <1>13, Same
    <2>5. Owners'
      BY <1>13, <2>1, <2>2, <2>3, <2>4 DEF Inv, Owners, HeldOnlyLive, HeldOnce, AllHeld
    <2>6. doomed' \subseteq Cells
      <3>1. \A c : DoomedHolds(c)' => c \in live'
        BY <2>5 DEF Owners, HeldOnlyLive
      <3> QED
        BY <1>13, <3>1 DEF DoomedHolds, Inv, TypeOK
    <2> QED
      BY <1>1, <1>7, <1>13, <2>5, <2>6, IdleHolds, NoCopyInv DEF Inv, TypeOK, Lengths
  <1> QED
    BY <1>11, <1>12, <1>13

\* A move: the cell of w goes to v, which had none.
LEMMA TakeOverInv ==
  ASSUME Inv, frames = << >>, NEW v \in Vars, NEW w \in Vars, v # w,
         var[v].type \notin LargeTypes, TakeOver(v, w),
         UNCHANGED <<live, cell, frames, doomed>>,
         target' \in Vars \cup {None}, source' = None
  PROVE  Inv'
  <1>1. /\ var \in [Vars -> Values \cup {Dead}]
        /\ var'[v] = var[w] /\ var'[w] = Nil
        /\ \A u \in Vars \ {v, w} : var'[u] = var[u]
        /\ var' \in [Vars -> Values \cup {Dead}]
    BY ValueTypes DEF TakeOver, Inv, TypeOK
  <1>2. \A u, c : VarHolds(u, c)' <=>
          \/ u \notin {v, w} /\ VarHolds(u, c)
          \/ u = v /\ VarHolds(w, c)
    BY <1>1, ValueTypes DEF VarHolds
  <1>3. \A c : ~VarHolds(v, c)
    BY DEF VarHolds, Holds
  <1>4. /\ \A d, i, c : ElementHolds(d, i, c)' <=> ElementHolds(d, i, c)
        /\ \A i, c : FrameHolds(i, c)' <=> FrameHolds(i, c)
        /\ \A c : DoomedHolds(c)' <=> DoomedHolds(c)
        /\ live' = live
    BY Same
  <1>5. HeldOnlyLive'
    BY <1>2, <1>4 DEF Inv, Owners, HeldOnlyLive
  <1>6. HeldOnce'
    BY <1>2, <1>4 DEF Inv, Owners, HeldOnce
  <1>7. AllHeld'
    <2>1. ASSUME NEW c, NEW u, VarHolds(u, c) PROVE \E x : VarHolds(x, c)'
      <3>1. CASE u = w
        BY <1>2, <2>1, <3>1
      <3>2. CASE u # w
        BY <1>2, <1>3, <2>1, <3>2
      <3> QED
        BY <3>1, <3>2
    <2> QED
      BY <1>4, <2>1 DEF Inv, Owners, AllHeld
  <1>8. Owners'
    BY <1>5, <1>6, <1>7 DEF Owners
  <1> QED
    BY <1>1, <1>8, NoCopyInv DEF Inv, TypeOK, Lengths

\* A move constructor: the target had no value.
LEMMA MoveConstructInv ==
  ASSUME Inv, NEW v \in Vars, NEW w \in Vars, MoveConstruct(v, w)
  PROVE  Inv'
  <1>1. /\ Idle /\ var[v] = Dead /\ var[w] # Dead /\ TakeOver(v, w)
        /\ UNCHANGED <<live, cell, frames, target, doomed, source>>
    BY DEF MoveConstruct
  <1>2. var[v].type \notin LargeTypes
    BY <1>1 DEF Dead, LargeTypes
  <1> QED
    BY <1>1, <1>2, IdleHolds, TakeOverInv DEF Inv, TypeOK

\* A move assignment ends: the target has been reset.
LEMMA MoveAssignDoneInv == ASSUME Inv, MoveAssignDone PROVE Inv'
  <1>1. /\ source # None /\ TakeOver(target, source) /\ target' = None /\ source' = None
        /\ UNCHANGED <<live, cell, frames, doomed>>
    BY DEF MoveAssignDone
  <1>2. frames = << >> /\ source \in Vars
    BY <1>1 DEF Inv, TypeOK
  <1>3. target \in Vars /\ var[target].type \notin LargeTypes /\ source # target
    BY <1>1 DEF Inv, TargetEmpty
  <1> QED
    BY <1>1, <1>2, <1>3, TakeOverInv

\* What a variable owned is doomed.
LEMMA ResetInv ==
  ASSUME Inv, Idle, NEW v \in Vars, NEW after \in {Nil, Dead}, Reset(v, after),
         UNCHANGED <<live, cell, frames>>,
         target' \in Vars \cup {None}, source' \in Vars \cup {None},
         source' # None => target' = v /\ source' # v
  PROVE  Inv'
  <1>1. /\ var \in [Vars -> Values \cup {Dead}]
        /\ var' = [var EXCEPT ![v] = after] /\ doomed' = Owned({var[v]})
    BY DEF Reset, Inv, TypeOK
  <1>2. var' \in [Vars -> Values \cup {Dead}]
    BY <1>1, ValueTypes
  <1>3. \A u, c : VarHolds(u, c)' <=> u # v /\ VarHolds(u, c)
    BY <1>1, ValueTypes DEF VarHolds
  <1>4. \A c : DoomedHolds(c)' <=> VarHolds(v, c)
    BY <1>1, OwnedBy DEF DoomedHolds, VarHolds
  <1>5. \A c : ~DoomedHolds(c)
    BY IdleHolds
  <1>6. Owners'
    BY <1>3, <1>4, <1>5, Same DEF Inv, Owners, HeldOnlyLive, HeldOnce, AllHeld
  <1>7. doomed' \subseteq Cells
    BY <1>1, <1>4, ValueTypes DEF DoomedHolds, VarHolds
  <1>8. var'[v].type \notin LargeTypes
    BY <1>1 DEF Nil, Dead, LargeTypes
  <1> QED
    BY <1>2, <1>6, <1>7, <1>8, IdleHolds, NoCopyInv DEF Inv, TypeOK, Lengths

\* A move assignment and a destructor reset their target.
LEMMA MoveAssignInv ==
  ASSUME Inv, NEW v \in Vars, NEW w \in Vars, MoveAssign(v, w) \/ Destroy(v)
  PROVE  Inv'
  <1>1. CASE MoveAssign(v, w)
    BY <1>1, ResetInv DEF MoveAssign
  <1>2. CASE Destroy(v)
    BY <1>2, IdleHolds, ResetInv DEF Destroy, Inv, TypeOK
  <1> QED
    BY <1>1, <1>2

\* The elements of a cell that is freed are doomed in its place.
LEMMA DeleteInv ==
  ASSUME Inv, NEW c0 \in Cells, Delete(c0)
  PROVE  Inv'
  <1>1. /\ c0 \in doomed /\ live' = live \ {c0} /\ cell' = [cell EXCEPT ![c0] = << >>]
        /\ doomed' = (doomed \ {c0}) \cup Owned(ToSet(cell[c0]))
        /\ UNCHANGED <<var, frames, target, source>>
        /\ cell \in [Cells -> Seq(Values)]
    BY DEF Delete, Inv, TypeOK
  <1>2. c0 \in live /\ frames = << >>
    BY <1>1 DEF Inv, TypeOK, Owners, HeldOnlyLive, DoomedHolds
  <1>3. \A d, i, c : ElementHolds(d, i, c)' <=> d # c0 /\ ElementHolds(d, i, c)
    BY <1>1 DEF ElementHolds, Inv, TypeOK
  <1>4. \A c : DoomedHolds(c)' <=>
          \/ DoomedHolds(c) /\ c # c0
          \/ \E i : ElementHolds(c0, i, c)
    <2>1. \A c : c \in Owned(ToSet(cell[c0])) <=> \E i : ElementHolds(c0, i, c)
      <3>1. ToSet(cell[c0]) = {cell[c0][i] : i \in DOMAIN cell[c0]}
        BY DEF ToSet
      <3> QED
        BY <1>2, <3>1, OwnedBy DEF ElementHolds
    <2> QED
      BY <1>1, <2>1 DEF DoomedHolds
  <1>5. DoomedHolds(c0)
    BY <1>1 DEF DoomedHolds
  <1>6. /\ \A v, c : VarHolds(v, c)' <=> VarHolds(v, c)
        /\ \A c : ~\E i : FrameHolds(i, c)'
        /\ \A c : ~\E i : FrameHolds(i, c)
    BY <1>1, <1>2, Same DEF FrameHolds
  <1>7. HeldOnlyLive'
    BY <1>1, <1>3, <1>4, <1>5, <1>6 DEF Inv, Owners, HeldOnlyLive, HeldOnce
  <1>8. HeldOnce'
    <2> SUFFICES ASSUME NEW c
                 PROVE  /\ \A v, w : VarHolds(v, c)' /\ VarHolds(w, c)' => v = w
                        /\ \A d, i, e, j : ElementHolds(d, i, c)' /\ ElementHolds(e, j, c)' =>
                             d = e /\ i = j
                        /\ \A v, d, i : ~(VarHolds(v, c)' /\ ElementHolds(d, i, c)')
                        /\ DoomedHolds(c)' => /\ \A v : ~VarHolds(v, c)'
                                              /\ \A d, i : ~ElementHolds(d, i, c)'
      BY <1>6 DEF HeldOnce
    <2>1. CASE \E i : ElementHolds(c0, i, c)
      BY <1>3, <1>4, <1>6, <2>1 DEF Inv, Owners, HeldOnce
    <2>2. CASE ~\E i : ElementHolds(c0, i, c)
      BY <1>3, <1>4, <1>6, <2>2 DEF Inv, Owners, HeldOnce
    <2> QED
      BY <2>1, <2>2
  <1>11. AllHeld'
    BY <1>1, <1>3, <1>4, <1>6 DEF Inv, Owners, AllHeld
  <1>9. doomed' \subseteq Cells
    BY <1>1, <1>7 DEF HeldOnlyLive, DoomedHolds, Inv, TypeOK
  <1>10. /\ cell' \in [Cells -> Seq(Values)]
         /\ \A c \in live' : c \in Cells /\ Len(cell'[c]) <= MaxElements
    <2>1. \A c \in live' : c \in Cells \ {c0} /\ cell'[c] = cell[c]
      BY <1>1 DEF Inv, TypeOK
    <2> QED
      BY <1>1, <2>1 DEF Inv, Lengths
  <1> QED
    BY <1>1, <1>2, <1>7, <1>8, <1>9, <1>10, <1>11, NoCopyInv
    DEF Inv, TypeOK, Owners, TargetEmpty

\* The values a program can reach own cells that are allocated.
LEMMA ReachableOwns ==
  ASSUME Inv, NEW x \in Reachable
  PROVE  x \in Values /\ (x.type \in LargeTypes => x.as \in live)
  <1>1. CASE \E v \in Vars : x = var[v] /\ x # Dead
    <2>1. PICK v \in Vars : x = var[v] /\ x # Dead
      BY <1>1
    <2>2. x \in Values
      BY <2>1 DEF Inv, TypeOK
    <2>3. x.type \in LargeTypes => VarHolds(v, x.as)
      BY <2>1 DEF VarHolds, Holds
    <2> QED
      BY <2>2, <2>3 DEF Inv, Owners, HeldOnlyLive
  <1>2. CASE \E c \in live : x \in ToSet(cell[c])
    <2>1. PICK c \in live : x \in ToSet(cell[c])
      BY <1>2
    <2>2. PICK i \in DOMAIN cell[c] : x = cell[c][i]
      BY <2>1 DEF ToSet
    <2>3. x \in Values
      <3>1. cell[c] \in Seq(Values)
        BY DEF Inv, TypeOK
      <3> QED
        BY <2>2, <3>1
    <2>4. x.type \in LargeTypes => ElementHolds(c, i, x.as)
      BY <2>2 DEF ElementHolds, Holds
    <2> QED
      BY <2>3, <2>4 DEF Inv, Owners, HeldOnlyLive
  <1> QED
    BY <1>1, <1>2 DEF Reachable

\* A copy starts: the cell that is filled belongs to its frame.
LEMMA CopyInv ==
  ASSUME Inv, NEW v \in Vars, NEW x \in Reachable, Copy(v, x)
  PROVE  Inv'
  <1>1. /\ Idle /\ var[v] = Dead /\ UNCHANGED <<doomed, source>>
        /\ var \in [Vars -> Values \cup {Dead}]
    BY DEF Copy, Inv, TypeOK
  <1>2. x \in Values /\ (x.type \in LargeTypes => x.as \in live)
    BY ReachableOwns
  <1>3. CASE /\ x.type \notin LargeTypes
             /\ var' = [var EXCEPT ![v] = x]
             /\ UNCHANGED <<live, cell, frames, target>>
    <2>1. \A w, c : VarHolds(w, c)' <=> VarHolds(w, c)
      <3>1. \A c : ~Holds(x, c) /\ ~Holds(Dead, c)
        BY <1>3, ValueTypes DEF Holds
      <3> QED
        BY <1>1, <1>3, <3>1 DEF VarHolds
    <2>2. Owners'
      BY <1>1, <1>3, <2>1, Same DEF Inv, Owners, HeldOnlyLive, HeldOnce, AllHeld
    <2>3. var' \in [Vars -> Values \cup {Dead}]
      BY <1>1, <1>2, <1>3
    <2> QED
      BY <1>1, <1>3, <2>2, <2>3, IdleHolds, NoCopyInv DEF Inv, TypeOK, Lengths
  <1>4. ASSUME x.type \in LargeTypes, NEW c0 \in Cells, New(c0, << >>),
               frames' = <<Frame(x, c0)>>, target' = v, UNCHANGED var
        PROVE  Inv'
    <2>1. << >> \in Seq(Values) /\ Len(<< >>) = 0 /\ DOMAIN << >> = {}
      OBVIOUS
    <2>2. /\ c0 \notin live /\ live' = live \cup {c0} /\ live' \subseteq Cells
          /\ cell' \in [Cells -> Seq(Values)] /\ cell'[c0] = << >>
          /\ \A d \in Cells \ {c0} : cell'[d] = cell[d]
          /\ \A d, i, c : ElementHolds(d, i, c)' <=> ElementHolds(d, i, c)
          /\ ~DoomedHolds(c0) /\ \A w : ~VarHolds(w, c0)
          /\ \A d, i : ~ElementHolds(d, i, c0)
      BY <1>4, <2>1, NewCell
    <2>3. /\ DOMAIN frames' = {1} /\ Len(frames') = 1
          /\ frames'[1] = [type |-> x.type, from |-> x.as, to |-> c0]
          /\ frames' \in Seq([type : LargeTypes, from : Cells, to : Cells])
      BY <1>2, <1>4, <2>2 DEF Frame
    <2>4. \A i, c : FrameHolds(i, c)' <=> i = 1 /\ c = c0
      BY <2>3 DEF FrameHolds
    <2>5. /\ \A w, c : VarHolds(w, c)' <=> VarHolds(w, c)
          /\ \A c : DoomedHolds(c)' <=> DoomedHolds(c)
          /\ \A i, c : ~FrameHolds(i, c)
      BY <1>1, <1>4, IdleHolds, Same
    <2>6. Owners'
      <3>1. HeldOnlyLive'
        BY <2>2, <2>4, <2>5 DEF Inv, Owners, HeldOnlyLive
      <3>2. HeldOnce'
        <4> SUFFICES ASSUME NEW c
                     PROVE  /\ \A u, w : VarHolds(u, c)' /\ VarHolds(w, c)' => u = w
                            /\ \A d, i, e, j : ElementHolds(d, i, c)' /\ ElementHolds(e, j, c)' =>
                                 d = e /\ i = j
                            /\ \A i, j : FrameHolds(i, c)' /\ FrameHolds(j, c)' => i = j
                            /\ \A u, d, i : ~(VarHolds(u, c)' /\ ElementHolds(d, i, c)')
                            /\ \A u, i : ~(VarHolds(u, c)' /\ FrameHolds(i, c)')
                            /\ \A d, i, j : ~(ElementHolds(d, i, c)' /\ FrameHolds(j, c)')
                            /\ DoomedHolds(c)' => /\ \A u : ~VarHolds(u, c)'
                                                  /\ \A d, i : ~ElementHolds(d, i, c)'
                                                  /\ \A i : ~FrameHolds(i, c)'
          BY DEF HeldOnce
        <4>1. CASE c = c0
          BY <2>2, <2>4, <2>5, <4>1
        <4>2. CASE c # c0
          BY <2>2, <2>4, <2>5, <4>2 DEF Inv, Owners, HeldOnce
        <4> QED
          BY <4>1, <4>2
      <3>3. AllHeld'
        BY <2>2, <2>4, <2>5 DEF Inv, Owners, AllHeld
      <3> QED
        BY <3>1, <3>2, <3>3 DEF Owners
    <2>7. Lengths'
      <3>1. \A c \in live' : Len(cell'[c]) <= MaxElements
        <4>1. \A c \in live : c \in Cells \ {c0} /\ Len(cell[c]) <= MaxElements
          BY <2>2 DEF Inv, TypeOK, Lengths
        <4> QED
          BY <2>1, <2>2, <4>1, ElementsAssumption
      <3>2. Len(cell'[c0]) <= Len(cell'[x.as]) /\ x.as \in live' /\ x.as # c0
        <4>1. cell'[x.as] \in Seq(Values)
          BY <1>2, <1>4, <2>2
        <4> QED
          BY <1>2, <1>4, <2>1, <2>2, <4>1
      <3> QED
        BY <2>3, <3>1, <3>2 DEF Lengths
    <2>8. TargetEmpty'
      <3>1. var'[v].type \notin LargeTypes
        BY <1>1, <1>4 DEF Dead, LargeTypes
      <3>2. source' = None /\ None \notin Vars
        BY <1>1, IdleHolds, DistinctAssumption
      <3> QED
        BY <1>4, <3>1, <3>2 DEF TargetEmpty
    <2>9. TypeOK'
      <3>1. frames' # << >>
        BY <2>1, <2>3
      <3>2. doomed' = {} /\ source' = None /\ v # None
        BY <1>1, IdleHolds, DistinctAssumption
      <3> QED
        BY <1>1, <1>4, <2>2, <2>3, <3>2 DEF TypeOK
    <2> QED
      BY <2>6, <2>7, <2>8, <2>9 DEF Inv
  <1> QED
    BY <1>3, <1>4 DEF Copy

\* What the copy at the top is doing.
LEMMA TopFacts ==
  ASSUME Inv, frames # << >>
  PROVE  /\ Len(frames) \in Nat /\ Len(frames) >= 1 /\ DOMAIN frames = 1..Len(frames)
         /\ Top = frames[Len(frames)]
         /\ \A i \in DOMAIN frames :
              /\ frames[i] \in [type : LargeTypes, from : Cells, to : Cells]
              /\ frames[i].to \in live /\ frames[i].from \in live
         /\ target \in Vars /\ doomed = {} /\ source = None
         /\ var[target].type \notin LargeTypes
  <1> DEFINE T == [type : LargeTypes, from : Cells, to : Cells]
  <1>1. /\ Len(frames) \in Nat /\ Len(frames) >= 1 /\ DOMAIN frames = 1..Len(frames)
        /\ \A i \in DOMAIN frames : frames[i] \in T
    <2>1. frames \in Seq(T)
      BY DEF Inv, TypeOK
    <2> HIDE DEF T
    <2> QED
      BY <2>1
  <1>2. \A i \in DOMAIN frames : frames[i].to \in live /\ frames[i].from \in live
    <2>1. \A i \in DOMAIN frames : FrameHolds(i, frames[i].to)
      BY DEF FrameHolds
    <2> QED
      BY <2>1 DEF Inv, Owners, HeldOnlyLive, Lengths
  <1>3. Top = frames[Len(frames)]
    BY DEF Top, Last
  <1>4. /\ target \in Vars /\ doomed = {} /\ source = None
        /\ var[target].type \notin LargeTypes
    BY DEF Inv, TypeOK, TargetEmpty
  <1> QED
    BY <1>1, <1>2, <1>3, <1>4

\* The element that is copied next.
LEMMA NextFacts ==
  ASSUME Inv, frames # << >>, ~TopDone
  PROVE  /\ Len(cell[Top.to]) < Len(cell[Top.from])
         /\ NextElement \in Values
         /\ NextElement.type \in LargeTypes => NextElement.as \in live
  <1>1. /\ Top.to \in live /\ Top.from \in live /\ live \subseteq Cells
        /\ cell \in [Cells -> Seq(Values)]
    BY TopFacts DEF Inv, TypeOK
  <1>2. Len(cell[Top.to]) \in Nat /\ Len(cell[Top.from]) \in Nat
    BY <1>1
  <1>3. Len(cell[Top.to]) <= Len(cell[Top.from])
    BY TopFacts DEF Inv, Lengths
  <1>4. Len(cell[Top.to]) < Len(cell[Top.from])
    BY <1>2, <1>3 DEF TopDone
  <1>5. Len(cell[Top.to]) + 1 \in DOMAIN cell[Top.from]
    BY <1>1, <1>2, <1>4
  <1>6. NextElement \in ToSet(cell[Top.from])
    BY <1>5 DEF NextElement, ToSet
  <1>7. NextElement \in Reachable
    BY <1>1, <1>6 DEF Reachable
  <1> QED
    BY <1>4, <1>7, ReachableOwns

\* An element that owns a cell starts a copy of its own, any other is appended.
LEMMA CopyElementInv == ASSUME Inv, CopyElement PROVE Inv'
  <1> DEFINE n == Len(frames)
             T == [type : LargeTypes, from : Cells, to : Cells]
  <1>1. /\ frames # << >> /\ ~TopDone /\ UNCHANGED <<var, target, doomed, source>>
        /\ frames \in Seq(T) /\ live \subseteq Cells /\ cell \in [Cells -> Seq(Values)]
    BY DEF CopyElement, Inv, TypeOK
  <1>2. /\ n \in Nat /\ n >= 1 /\ DOMAIN frames = 1..n /\ Top = frames[n]
        /\ \A i \in DOMAIN frames : /\ frames[i] \in T
                                    /\ frames[i].to \in live /\ frames[i].from \in live
        /\ target \in Vars /\ doomed = {} /\ source = None
    BY <1>1, TopFacts
  <1>3. /\ Len(cell[Top.to]) < Len(cell[Top.from])
        /\ NextElement \in Values
        /\ NextElement.type \in LargeTypes => NextElement.as \in live
    BY <1>1, NextFacts
  <1>4. TargetEmpty' /\ target # None
    BY <1>1, <1>2, DistinctAssumption DEF Inv, TargetEmpty
  <1>5. CASE /\ NextElement.type \notin LargeTypes
             /\ cell' = [cell EXCEPT ![Top.to] = Append(@, NextElement)]
             /\ UNCHANGED <<live, frames>>
    <2> DEFINE t == Top.to
    <2>1. /\ t \in live /\ cell'[t] = Append(cell[t], NextElement)
          /\ \A d \in Cells \ {t} : cell'[d] = cell[d]
          /\ cell' \in [Cells -> Seq(Values)]
          /\ Len(cell'[t]) = Len(cell[t]) + 1
      <3>1. t \in live /\ t \in Cells
        BY <1>1, <1>2
      <3>2. cell[t] \in Seq(Values)
        BY <1>1, <3>1
      <3>3. /\ Append(cell[t], NextElement) \in Seq(Values)
            /\ Len(Append(cell[t], NextElement)) = Len(cell[t]) + 1
        BY <1>3, <3>2
      <3> HIDE DEF t
      <3>4. cell' = [cell EXCEPT ![t] = Append(cell[t], NextElement)]
        BY <1>5 DEF t
      <3> QED
        BY <1>1, <3>1, <3>3, <3>4
    <2>2. \A d, i, c : ElementHolds(d, i, c)' <=> ElementHolds(d, i, c)
      <3>1. \A c : ~Holds(NextElement, c)
        BY <1>5 DEF Holds
      <3>2. ASSUME NEW d \in live, NEW i, NEW c
            PROVE  ElementHolds(d, i, c)' <=> ElementHolds(d, i, c)
        <4>1. CASE d = t
          <5>1. cell[t] \in Seq(Values) /\ DOMAIN cell[t] = 1..Len(cell[t])
                /\ DOMAIN cell'[t] = 1..(Len(cell[t]) + 1) /\ Len(cell[t]) \in Nat
            BY <1>1, <2>1
          <5>2. /\ \A j \in DOMAIN cell[t] : cell'[t][j] = cell[t][j]
                /\ cell'[t][Len(cell[t]) + 1] = NextElement
            BY <1>3, <2>1, <5>1
          <5>3. \A j : j \in DOMAIN cell'[t] <=> j \in DOMAIN cell[t] \/ j = Len(cell[t]) + 1
            BY <5>1
          <5> QED
            BY <1>5, <3>1, <4>1, <5>2, <5>3 DEF ElementHolds
        <4>2. CASE d # t
          <5>1. cell'[d] = cell[d]
            BY <1>1, <2>1, <4>2
          <5> QED
            BY <1>5, <5>1 DEF ElementHolds
        <4> QED
          BY <4>1, <4>2
      <3> QED
        BY <1>5, <3>2 DEF ElementHolds
    <2>3. Owners'
      BY <1>1, <1>5, <2>2, Same, SameOwners
    <2>4. Lengths'
      <3>1. \A i \in DOMAIN frames : frames[i].to = t => i = n
        <4>1. \A i \in DOMAIN frames : FrameHolds(i, frames[i].to)
          BY DEF FrameHolds
        <4>2. n \in DOMAIN frames
          BY <1>2
        <4> QED
          BY <1>2, <4>1, <4>2 DEF Inv, Owners, HeldOnce
      <3>2. \A i \in DOMAIN frames : frames[i].from # t
        BY <1>2 DEF Inv, Lengths
      <3>3. /\ \A c \in live : c \in Cells /\ Len(cell[c]) \in Nat /\ Len(cell[c]) <= MaxElements
            /\ MaxElements \in Nat /\ Top.from \in live /\ Top.to \in live
        <4>1. \A c \in live : c \in Cells /\ Len(cell[c]) \in Nat
          BY <1>1
        <4>2. Top.from \in live /\ Top.to \in live
          BY <1>2
        <4> QED
          BY <4>1, <4>2, ElementsAssumption DEF Inv, Lengths
      <3>4. \A c \in live : Len(cell'[c]) <= MaxElements
        <4>1. Len(cell[t]) + 1 <= MaxElements
          BY <1>3, <3>3
        <4>2. ASSUME NEW c \in live, c # t PROVE cell'[c] = cell[c]
          BY <2>1, <3>3, <4>2
        <4> QED
          BY <2>1, <3>3, <4>1, <4>2
      <3>5. ASSUME NEW i \in DOMAIN frames
            PROVE  /\ Len(cell'[frames[i].to]) <= Len(cell'[frames[i].from])
                   /\ i # n => Len(cell'[frames[i].to]) < Len(cell'[frames[i].from])
        <4>1. cell'[frames[i].from] = cell[frames[i].from]
          BY <1>1, <1>2, <2>1, <3>2
        <4>2. CASE i = n
          BY <1>2, <1>3, <2>1, <3>3, <4>1, <4>2
        <4>3. CASE i # n
          <5>1. cell'[frames[i].to] = cell[frames[i].to]
            BY <1>1, <1>2, <2>1, <3>1, <4>3
          <5> QED
            BY <4>1, <4>3, <5>1 DEF Inv, Lengths
        <4> QED
          BY <4>2, <4>3
      <3> QED
        BY <1>5, <3>4, <3>5 DEF Inv, Lengths
    <2>5. TypeOK'
      BY <1>1, <1>5, <2>1 DEF Inv, TypeOK
    <2> QED
      BY <1>4, <2>3, <2>4, <2>5 DEF Inv
  <1>6. ASSUME NextElement.type \in LargeTypes, NEW c0 \in Cells, New(c0, << >>),
               frames' = Append(frames, Frame(NextElement, c0))
        PROVE  Inv'
    <2> DEFINE f == Frame(NextElement, c0)
    <2>1. << >> \in Seq(Values) /\ Len(<< >>) = 0 /\ DOMAIN << >> = {}
      OBVIOUS
    <2>2. /\ c0 \notin live /\ live' = live \cup {c0} /\ live' \subseteq Cells
          /\ cell' \in [Cells -> Seq(Values)] /\ cell'[c0] = << >>
          /\ \A d \in Cells \ {c0} : cell'[d] = cell[d]
          /\ \A d, i, c : ElementHolds(d, i, c)' <=> ElementHolds(d, i, c)
          /\ ~DoomedHolds(c0) /\ \A w : ~VarHolds(w, c0)
          /\ \A d, i : ~ElementHolds(d, i, c0)
          /\ \A i : ~FrameHolds(i, c0)
      BY <1>6, <2>1, NewCell
    <2>3. f \in T /\ f.from = NextElement.as /\ f.to = c0
      BY <1>1, <1>3, <1>6 DEF Frame
    <2> HIDE DEF f, T
    <2>4. /\ frames' \in Seq(T) /\ Len(frames') = n + 1 /\ DOMAIN frames' = 1..(n + 1)
          /\ \A i \in 1..n : frames'[i] = frames[i]
          /\ frames'[n + 1] = f
      BY <1>1, <1>2, <1>6, <2>3 DEF f
    <2>5. \A i, c : FrameHolds(i, c)' <=> FrameHolds(i, c) \/ (i = n + 1 /\ c = c0)
      BY <1>2, <2>3, <2>4 DEF FrameHolds
    <2>6. /\ \A w, c : VarHolds(w, c)' <=> VarHolds(w, c)
          /\ \A c : DoomedHolds(c)' <=> DoomedHolds(c)
          /\ \A c : ~FrameHolds(n + 1, c)
      BY <1>1, <1>2, Same DEF FrameHolds
    <2>7. Owners'
      <3>1. HeldOnlyLive'
        BY <2>2, <2>5, <2>6 DEF Inv, Owners, HeldOnlyLive
      <3>2. HeldOnce'
        BY <2>2, <2>5, <2>6 DEF Inv, Owners, HeldOnce
      <3>3. AllHeld'
        BY <2>2, <2>5, <2>6 DEF Inv, Owners, AllHeld
      <3> QED
        BY <3>1, <3>2, <3>3 DEF Owners
    <2>8. Lengths'
      <3>1. \A c \in live : c \in Cells \ {c0} /\ cell'[c] = cell[c] /\ Len(cell[c]) \in Nat
        BY <1>1, <2>2
      <3>2. \A c \in live' : Len(cell'[c]) <= MaxElements
        BY <2>1, <2>2, <3>1, ElementsAssumption DEF Inv, Lengths
      <3>3. ASSUME NEW i \in 1..n
            PROVE  /\ frames'[i].from \in live'
                   /\ Len(cell'[frames'[i].to]) < Len(cell'[frames'[i].from])
                   /\ \A j \in DOMAIN frames' : frames'[i].from # frames'[j].to
        <4>1. /\ frames'[i] = frames[i] /\ frames[i].from \in live /\ frames[i].to \in live
              /\ i \in DOMAIN frames
          BY <1>2, <2>4
        <4>2. Len(cell[frames[i].to]) < Len(cell[frames[i].from])
          BY <1>2, <1>3, <4>1 DEF Inv, Lengths
        <4>3. \A j \in DOMAIN frames : frames[i].from # frames[j].to
          BY <4>1 DEF Inv, Lengths
        <4>4. frames[i].from # c0
          BY <2>2, <4>1
        <4>5. \A j \in DOMAIN frames' : j = n + 1 \/ j \in 1..n
          BY <1>2, <2>4
        <4>6. \A j \in DOMAIN frames' : frames'[i].from # frames'[j].to
          BY <1>2, <2>3, <2>4, <4>1, <4>3, <4>4, <4>5
        <4> QED
          BY <2>2, <3>1, <4>1, <4>2, <4>6
      <3>4. /\ frames'[n + 1].from \in live'
            /\ Len(cell'[frames'[n + 1].to]) <= Len(cell'[frames'[n + 1].from])
            /\ \A j \in DOMAIN frames' : frames'[n + 1].from # frames'[j].to
        <4>1. frames'[n + 1].from = NextElement.as /\ frames'[n + 1].to = c0
          BY <2>3, <2>4
        <4>2. NextElement.as \in live /\ NextElement.as # c0
          BY <1>3, <1>6, <2>2
        <4>3. Len(cell'[c0]) <= Len(cell'[NextElement.as])
          BY <2>1, <2>2, <3>1, <4>2
        <4>4. \A j \in DOMAIN frames : NextElement.as # frames[j].to
          <5>1. \A j \in DOMAIN frames : FrameHolds(j, frames[j].to)
            BY DEF FrameHolds
          <5>2. \E d, i : ElementHolds(d, i, NextElement.as)
            <6>1. Top.from \in live /\ Top.to \in live
              BY <1>2
            <6>2. Len(cell[Top.to]) + 1 \in DOMAIN cell[Top.from]
              BY <1>1, <1>3, <6>1
            <6> QED
              BY <1>6, <6>1, <6>2 DEF NextElement, ElementHolds, Holds
          <5> QED
            BY <5>1, <5>2 DEF Inv, Owners, HeldOnce
        <4>5. \A j \in DOMAIN frames' : j = n + 1 \/ (j \in 1..n /\ frames'[j] = frames[j])
          BY <1>2, <2>4
        <4> QED
          BY <1>2, <2>2, <4>1, <4>2, <4>3, <4>4, <4>5
      <3>5. \A i \in DOMAIN frames' : i = n + 1 \/ i \in 1..n
        BY <1>2, <2>4
      <3>6. \A i \in 1..n : /\ Len(cell'[frames'[i].to]) \in Nat
                            /\ Len(cell'[frames'[i].from]) \in Nat
        BY <1>2, <2>4, <3>1
      <3> QED
        BY <2>4, <3>2, <3>3, <3>4, <3>5, <3>6 DEF Lengths
    <2>9. TypeOK'
      BY <1>1, <1>2, <1>4, <2>2, <2>4 DEF Inv, TypeOK, T
    <2> QED
      BY <1>4, <2>7, <2>8, <2>9, <1>1, <1>2 DEF Inv, TargetEmpty
  <1> QED
    BY <1>5, <1>6 DEF CopyElement

\* A finished copy gives its cell to the variable or the element it is for.
LEMMA CopyDoneInv == ASSUME Inv, CopyDone PROVE Inv'
  <1> DEFINE n == Len(frames)
             T == [type : LargeTypes, from : Cells, to : Cells]
             x == Boxed(Top.type, Top.to)
  <1>1. /\ frames # << >> /\ TopDone /\ frames' = Front(frames)
        /\ UNCHANGED <<live, doomed, source>>
        /\ frames \in Seq(T) /\ live \subseteq Cells /\ cell \in [Cells -> Seq(Values)]
        /\ var \in [Vars -> Values \cup {Dead}]
    BY DEF CopyDone, Inv, TypeOK
  <1>2. /\ n \in Nat /\ n >= 1 /\ DOMAIN frames = 1..n /\ Top = frames[n]
        /\ \A i \in DOMAIN frames : /\ frames[i] \in T
                                    /\ frames[i].to \in live /\ frames[i].from \in live
        /\ target \in Vars /\ doomed = {} /\ source = None /\ target # None
        /\ var[target].type \notin LargeTypes
    <2>1. frames # << >>
      BY <1>1
    <2>2. target \in Vars /\ target # None
      BY <2>1, TopFacts, DistinctAssumption
    <2> QED
      BY <2>1, <2>2, TopFacts
  <1> HIDE DEF n
  <1>3. /\ Top.type \in LargeTypes /\ Top.to \in Cells /\ Top.to \in live
    <2>1. n \in DOMAIN frames
      BY <1>2
    <2> QED
      BY <1>2, <2>1
  <1>4. x \in Values /\ \A c : Holds(x, c) <=> c = Top.to
    <2>1. x \in Values
      BY <1>3 DEF Values
    <2> QED
      BY <1>3, <2>1, ValueTypes
  <1>5. \A c : FrameHolds(n, c) <=> c = Top.to
    BY <1>2 DEF FrameHolds
  <1> HIDE DEF x, T
  <1>6. /\ frames' \in Seq(T) /\ Len(frames') = n - 1 /\ DOMAIN frames' = 1..(n - 1)
        /\ \A i \in 1..(n - 1) : frames'[i] = frames[i]
    BY <1>1, <1>2 DEF Front
  <1>7. \A i, c : FrameHolds(i, c)' <=> FrameHolds(i, c) /\ i # n
    <2>1. \A i : i \in DOMAIN frames' <=> i \in DOMAIN frames /\ i # n
      BY <1>2, <1>6
    <2> QED
      BY <1>6, <2>1 DEF FrameHolds
  <1>8. /\ \A c : DoomedHolds(c)' <=> DoomedHolds(c)
        /\ \A c : ~DoomedHolds(c)
    BY <1>1, <1>2 DEF DoomedHolds
  <1>9. CASE n = 1 /\ var' = [var EXCEPT ![target] = x] /\ target' = None /\ UNCHANGED cell
    <2>1. frames' = << >> /\ \A i, c : ~FrameHolds(i, c)'
      BY <1>6, <1>9 DEF FrameHolds
    <2>2. /\ var' \in [Vars -> Values \cup {Dead}]
          /\ var'[target] = x /\ \A w \in Vars \ {target} : var'[w] = var[w]
      BY <1>1, <1>2, <1>4, <1>9
    <2>3. \A w, c : VarHolds(w, c)' <=> VarHolds(w, c) \/ (w = target /\ FrameHolds(1, c))
      <3>1. \A c : ~VarHolds(target, c)
        BY <1>2 DEF VarHolds, Holds
      <3> QED
        BY <1>2, <1>4, <1>5, <1>9, <2>2, <3>1 DEF VarHolds
    <2>4. /\ \A c : ~VarHolds(target, c)
          /\ \A i, c : FrameHolds(i, c) => i = 1
      BY <1>2, <1>9 DEF VarHolds, Holds, FrameHolds
    <2>5. \A d, i, c : ElementHolds(d, i, c)' <=> ElementHolds(d, i, c)
      BY <1>1, <1>9, Same
    <2>6. Owners'
      <3>1. HeldOnlyLive'
        BY <1>1, <1>8, <2>1, <2>3, <2>5 DEF Inv, Owners, HeldOnlyLive
      <3>2. HeldOnce'
        <4> SUFFICES ASSUME NEW c
                     PROVE  /\ \A u, w : VarHolds(u, c)' /\ VarHolds(w, c)' => u = w
                            /\ \A d, i, e, j : ElementHolds(d, i, c)' /\ ElementHolds(e, j, c)' =>
                                 d = e /\ i = j
                            /\ \A u, d, i : ~(VarHolds(u, c)' /\ ElementHolds(d, i, c)')
          BY <1>8, <2>1 DEF HeldOnce
        <4>1. CASE FrameHolds(1, c)
          BY <2>3, <2>4, <2>5, <4>1 DEF Inv, Owners, HeldOnce
        <4>2. CASE ~FrameHolds(1, c)
          BY <2>3, <2>5, <4>2 DEF Inv, Owners, HeldOnce
        <4> QED
          BY <4>1, <4>2
      <3>3. AllHeld'
        BY <1>1, <1>8, <2>3, <2>4, <2>5 DEF Inv, Owners, AllHeld
      <3> QED
        BY <3>1, <3>2, <3>3 DEF Owners
    <2>7. TypeOK'
      BY <1>1, <1>2, <1>9, <2>1, <2>2 DEF Inv, TypeOK
    <2>8. Lengths'
      BY <1>1, <1>9, <2>1 DEF Inv, Lengths
    <2>9. TargetEmpty'
      BY <1>1, <1>2, <2>1 DEF TargetEmpty
    <2> QED
      BY <2>6, <2>7, <2>8, <2>9 DEF Inv
  <1>10. CASE /\ n # 1
              /\ cell' = [cell EXCEPT ![Last(Front(frames)).to] = Append(@, x)]
              /\ UNCHANGED <<var, target>>
    <2> DEFINE t == frames[n - 1].to
               k == Len(cell[t]) + 1
    <2>1. n - 1 \in DOMAIN frames /\ n \in DOMAIN frames /\ n - 1 \in 1..(n - 1)
      BY <1>2, <1>10
    <2>2. Last(Front(frames)) = frames[n - 1]
      BY <1>1, <1>6, <2>1 DEF Last
    <2>3. /\ t \in live /\ t \in Cells /\ cell[t] \in Seq(Values)
          /\ Len(cell[t]) \in Nat /\ DOMAIN cell[t] = 1..Len(cell[t])
      <3>1. t \in live
        BY <1>2, <2>1
      <3>2. t \in Cells /\ cell[t] \in Seq(Values)
        BY <1>1, <3>1
      <3> QED
        BY <3>1, <3>2
    <2> HIDE DEF t
    <2>4. cell' = [cell EXCEPT ![t] = Append(cell[t], x)]
      BY <1>10, <2>2 DEF t
    <2>5. /\ cell' \in [Cells -> Seq(Values)]
          /\ cell'[t] = Append(cell[t], x)
          /\ \A d \in Cells \ {t} : cell'[d] = cell[d]
      BY <1>1, <1>4, <2>3, <2>4
    <2>6. /\ Len(cell'[t]) = k /\ DOMAIN cell'[t] = 1..k
          /\ \A j \in DOMAIN cell[t] : cell'[t][j] = cell[t][j]
          /\ cell'[t][k] = x
      BY <1>4, <2>3, <2>5
    <2>7. /\ \A j : j \in DOMAIN cell'[t] <=> j \in DOMAIN cell[t] \/ j = k
          /\ k \notin DOMAIN cell[t]
      BY <2>3, <2>6
    <2> HIDE DEF k
    <2>8. \A d, i, c : ElementHolds(d, i, c)' <=>
            ElementHolds(d, i, c) \/ (d = t /\ i = k /\ FrameHolds(n, c))
      <3>1. ASSUME NEW d \in live, NEW i, NEW c
            PROVE  ElementHolds(d, i, c)' <=>
                     ElementHolds(d, i, c) \/ (d = t /\ i = k /\ FrameHolds(n, c))
        <4>1. CASE d = t
          BY <1>1, <1>4, <1>5, <2>3, <2>6, <2>7, <4>1 DEF ElementHolds
        <4>2. CASE d # t
          <5>1. cell'[d] = cell[d]
            BY <1>1, <2>5, <4>2
          <5> QED
            BY <1>1, <4>2, <5>1 DEF ElementHolds
        <4> QED
          BY <4>1, <4>2
      <3> QED
        BY <1>1, <2>3, <3>1 DEF ElementHolds
    <2>9. \A c : ~ElementHolds(t, k, c)
      BY <2>7 DEF ElementHolds
    <2>10. \A v, c : VarHolds(v, c)' <=> VarHolds(v, c)
      BY <1>10, Same
    <2>11. Owners'
      <3>1. HeldOnlyLive'
        BY <1>1, <1>7, <1>8, <2>8, <2>10 DEF Inv, Owners, HeldOnlyLive
      <3>2. HeldOnce'
        <4> SUFFICES ASSUME NEW c
                     PROVE  /\ \A u, w : VarHolds(u, c)' /\ VarHolds(w, c)' => u = w
                            /\ \A d, i, e, j : ElementHolds(d, i, c)' /\ ElementHolds(e, j, c)' =>
                                 d = e /\ i = j
                            /\ \A i, j : FrameHolds(i, c)' /\ FrameHolds(j, c)' => i = j
                            /\ \A u, d, i : ~(VarHolds(u, c)' /\ ElementHolds(d, i, c)')
                            /\ \A u, i : ~(VarHolds(u, c)' /\ FrameHolds(i, c)')
                            /\ \A d, i, j : ~(ElementHolds(d, i, c)' /\ FrameHolds(j, c)')
          BY <1>8 DEF HeldOnce
        <4>1. CASE FrameHolds(n, c)
          BY <1>7, <2>8, <2>10, <4>1 DEF Inv, Owners, HeldOnce
        <4>2. CASE ~FrameHolds(n, c)
          BY <1>7, <2>8, <2>10, <4>2 DEF Inv, Owners, HeldOnce
        <4> QED
          BY <4>1, <4>2
      <3>3. AllHeld'
        <4> SUFFICES ASSUME NEW c \in live
                     PROVE  \/ \E v : VarHolds(v, c)'
                            \/ \E d, i : ElementHolds(d, i, c)'
                            \/ \E i : FrameHolds(i, c)'
          BY <1>1 DEF AllHeld
        <4>1. CASE FrameHolds(n, c)
          BY <2>8, <4>1
        <4>2. CASE ~FrameHolds(n, c)
          <5>1. \A i : FrameHolds(i, c) => FrameHolds(i, c)'
            BY <1>7, <4>2
          <5> QED
            BY <1>8, <2>8, <2>10, <5>1 DEF Inv, Owners, AllHeld
        <4> QED
          BY <4>1, <4>2
      <3> QED
        BY <3>1, <3>2, <3>3 DEF Owners
    <2>12. Lengths'
      <3>1. \A i \in DOMAIN frames : frames[i].to = t => i = n - 1
        <4>1. \A i \in DOMAIN frames : FrameHolds(i, frames[i].to)
          BY DEF FrameHolds
        <4> QED
          BY <2>1, <4>1 DEF t, Inv, Owners, HeldOnce
      <3>2. \A i \in DOMAIN frames : frames[i].from # t
        BY <2>1 DEF t, Inv, Lengths
      <3>3. /\ \A c \in live : c \in Cells /\ Len(cell[c]) \in Nat /\ Len(cell[c]) <= MaxElements
            /\ MaxElements \in Nat
        <4>1. \A c \in live : c \in Cells /\ Len(cell[c]) \in Nat
          BY <1>1
        <4> QED
          BY <4>1, ElementsAssumption DEF Inv, Lengths
      <3>4. Len(cell[t]) < Len(cell[frames[n - 1].from]) /\ n - 1 # n
        <4>1. n - 1 # n
          <5>1. n \in Nat
            BY <1>2
          <5> QED
            BY <5>1
        <4>2. ASSUME NEW i \in DOMAIN frames, i # n
              PROVE  Len(cell[frames[i].to]) < Len(cell[frames[i].from])
          BY <4>2 DEF n, Inv, Lengths
        <4>3. Len(cell[frames[n - 1].to]) < Len(cell[frames[n - 1].from])
          BY <2>1, <4>1, <4>2
        <4> QED
          BY <4>1, <4>3 DEF t
      <3>5. \A c \in live : Len(cell'[c]) <= MaxElements
        <4>1. k <= MaxElements
          <5>1. frames[n - 1].from \in live
            BY <1>2, <2>1 DEF Inv, Lengths
          <5>2. /\ Len(cell[t]) \in Nat /\ Len(cell[frames[n - 1].from]) \in Nat
                /\ Len(cell[frames[n - 1].from]) <= MaxElements
            BY <2>3, <3>3, <5>1
          <5> QED
            BY <3>3, <3>4, <5>2 DEF k
        <4>2. ASSUME NEW c \in live, c # t PROVE cell'[c] = cell[c]
          BY <2>5, <3>3, <4>2
        <4> QED
          BY <2>6, <3>3, <4>1, <4>2
      <3>6. ASSUME NEW i \in 1..(n - 1)
            PROVE  /\ frames'[i] = frames[i] /\ i \in DOMAIN frames
                   /\ Len(cell'[frames[i].to]) <= Len(cell'[frames[i].from])
                   /\ i # n - 1 => Len(cell'[frames[i].to]) < Len(cell'[frames[i].from])
        <4>1. i \in DOMAIN frames /\ i # n /\ frames'[i] = frames[i]
          <5>1. n \in Nat /\ DOMAIN frames = 1..n
            BY <1>2
          <5>2. frames'[i] = frames[i]
            BY <1>6
          <5> QED
            BY <5>1, <5>2
        <4>2. cell'[frames[i].from] = cell[frames[i].from]
          BY <1>1, <1>2, <2>5, <3>2, <4>1
        <4>3. CASE i = n - 1
          <5>1. Len(cell'[frames[i].to]) = Len(cell[t]) + 1
            BY <2>6, <4>3 DEF t, k
          <5>2. Len(cell[frames[i].from]) \in Nat
            BY <1>2, <3>3, <4>1
          <5> QED
            BY <2>3, <3>4, <4>1, <4>2, <4>3, <5>1, <5>2
        <4>4. CASE i # n - 1
          <5>1. cell'[frames[i].to] = cell[frames[i].to]
            BY <1>1, <1>2, <2>5, <3>1, <4>1, <4>4
          <5>2. Len(cell[frames[i].to]) < Len(cell[frames[i].from])
            BY <4>1 DEF n, Inv, Lengths
          <5>3. Len(cell[frames[i].to]) \in Nat /\ Len(cell[frames[i].from]) \in Nat
            BY <1>2, <3>3, <4>1
          <5> QED
            BY <4>1, <4>2, <4>4, <5>1, <5>2, <5>3
        <4> QED
          BY <4>3, <4>4
      <3>7. \A i \in 1..(n - 1) : /\ frames'[i].from \in live'
                                  /\ \A j \in 1..(n - 1) : frames'[i].from # frames'[j].to
        BY <1>1, <1>2, <3>6 DEF Inv, Lengths
      <3> QED
        BY <1>1, <1>6, <3>5, <3>6, <3>7 DEF Lengths
    <2>13. TypeOK'
      BY <1>1, <1>2, <1>6, <1>10, <2>5 DEF Inv, TypeOK, T
    <2>14. TargetEmpty'
      BY <1>1, <1>2, <1>10, DistinctAssumption DEF TargetEmpty
    <2> QED
      BY <2>11, <2>12, <2>13, <2>14 DEF Inv
  <1> QED
    BY <1>9, <1>10 DEF CopyDone, n, x

\* A copy that fails dooms every cell under construction.
LEMMA CopyFailsInv == ASSUME Inv, CopyFails PROVE Inv'
  <1>1. /\ frames # << >> /\ frames' = << >> /\ target' = None
        /\ doomed' = {frames[i].to : i \in DOMAIN frames}
        /\ UNCHANGED <<var, live, cell, source>>
    BY DEF CopyFails
  <1>2. source = None /\ doomed = {}
    BY <1>1, TopFacts
  <1>3. /\ \A c : DoomedHolds(c)' <=> \E i : FrameHolds(i, c)
        /\ \A i, c : ~FrameHolds(i, c)'
        /\ \A c : ~DoomedHolds(c)
    BY <1>1, <1>2 DEF DoomedHolds, FrameHolds
  <1>4. /\ \A v, c : VarHolds(v, c)' <=> VarHolds(v, c)
        /\ \A d, i, c : ElementHolds(d, i, c)' <=> ElementHolds(d, i, c)
    BY <1>1, Same
  <1>5. HeldOnlyLive'
    BY <1>1, <1>3, <1>4 DEF Inv, Owners, HeldOnlyLive
  <1>6. HeldOnce'
    BY <1>3, <1>4 DEF Inv, Owners, HeldOnce
  <1>7. AllHeld'
    BY <1>1, <1>3, <1>4 DEF Inv, Owners, AllHeld
  <1>8. doomed' \subseteq Cells
    BY <1>1, <1>5 DEF HeldOnlyLive, DoomedHolds, Inv, TypeOK
  <1>9. TypeOK'
    BY <1>1, <1>2, <1>8 DEF Inv, TypeOK
  <1>10. TargetEmpty' /\ Lengths'
    BY <1>1, <1>2 DEF Inv, TargetEmpty, Lengths
  <1> QED
    BY <1>5, <1>6, <1>7, <1>9, <1>10 DEF Inv, Owners

\* Every statement and every step of one preserves the invariant.
LEMMA NextInv == Inv /\ [Next]_vars => Inv'
  <1> SUFFICES ASSUME Inv, [Next]_vars PROVE Inv'
    OBVIOUS
  <1>1. ASSUME NEW v \in Vars, ConstructSmall(v) \/ ConstructString(v) PROVE Inv'
    BY <1>1, ConstructSmallInv, ConstructStringInv
  <1>2. ASSUME NEW v \in Vars, NEW list \in Lists, ConstructArray(v, list) PROVE Inv'
    BY <1>2, ConstructArrayInv
  <1>3. ASSUME NEW v \in Vars, NEW w \in Vars, MoveConstruct(v, w) PROVE Inv'
    BY <1>3, MoveConstructInv
  <1>4. ASSUME NEW v \in Vars, NEW w \in Vars, MoveAssign(v, w) \/ Destroy(v) PROVE Inv'
    BY <1>4, MoveAssignInv
  <1>5. ASSUME NEW v \in Vars, NEW x \in Reachable, Copy(v, x) PROVE Inv'
    BY <1>5, CopyInv
  <1>6. ASSUME NEW c \in Cells, Delete(c) PROVE Inv'
    BY <1>6, DeleteInv
  <1>7. CASE CopyElement \/ CopyDone \/ CopyFails \/ MoveAssignDone
    BY <1>7, CopyElementInv, CopyDoneInv, CopyFailsInv, MoveAssignDoneInv
  <1>8. CASE UNCHANGED vars
    BY <1>8 DEF vars, Inv, TypeOK, Owners, HeldOnlyLive, HeldOnce, AllHeld, VarHolds,
       ElementHolds, FrameHolds, DoomedHolds, TargetEmpty, Lengths
  <1> QED
    BY <1>1, <1>2, <1>3, <1>4, <1>5, <1>6, <1>7, <1>8 DEF Next

\* Every allocated cell has exactly one owner and everything owned is allocated
\* (value.cpp:76-128, 243-270).
THEOREM SpecOwnedOnce == Spec => []OwnedOnce
  BY InitInv, NextInv, InvOwnedOnce, PTL DEF Spec

-----------------------------------------------------------------------------
(***************************************************************************)
(* Trees: the nodes of a tree, the trees inside it and those below an      *)
(* array.                                                                  *)
(***************************************************************************)

Types == {"NIL", "INTEGER_32", "STRING", "ARRAY", "DEAD"}
Path == Seq(Nat)
Nodes == Path \X Types

\* A node is a path and a type.
LEMMA NodeIs ==
  ASSUME NEW node \in Nodes
  PROVE  node[1] \in Path /\ node[2] \in Types /\ node = <<node[1], node[2]>>
  BY DEF Nodes

LEMMA SameNodes ==
  ASSUME NEW x \in SUBSET Nodes, NEW y \in SUBSET Nodes,
         \A q \in Path, t \in Types : <<q, t>> \in x <=> <<q, t>> \in y
  PROVE  x = y
  BY NodeIs

\* What follows a prefix.
LEMMA AfterPrefix ==
  ASSUME NEW p \in Path, NEW s \in Path, IsPrefix(p, s)
  PROVE  /\ SubSeq(s, Len(p) + 1, Len(s)) \in Path
         /\ s = p \o SubSeq(s, Len(p) + 1, Len(s))
  <1>1. Len(p) \in Nat /\ Len(s) \in Nat /\ Len(p) <= Len(s)
    BY DEF IsPrefix, Path
  <1>2. SubSeq(s, 1, Len(p)) = p
    <2>1. SubSeq(p, 1, Len(p)) = p
      BY SubSeqFull DEF Path
    <2>2. QED
      BY <2>1 DEF IsPrefix
  <1>3. SubSeq(s, 1, Len(p)) \o SubSeq(s, Len(p) + 1, Len(s)) = SubSeq(s, 1, Len(s))
    <2>1. 1 \in 1..(Len(s) + 1) /\ Len(p) \in (1 - 1)..Len(s) /\ Len(s) \in Len(p)..Len(s)
      BY <1>1
    <2>2. QED
      BY ONLY s \in Path, <2>1, ConcatAdjacentSubSeq, Zenon DEF Path
  <1>4. SubSeq(s, 1, Len(s)) = s
    BY SubSeqFull DEF Path
  <1>5. SubSeq(s, Len(p) + 1, Len(s)) \in Path
    <2>1. \A i \in (Len(p) + 1)..Len(s) : s[i] \in Nat
      BY <1>1 DEF Path
    <2>2. Len(p) + 1 \in Int /\ Len(s) \in Int
      BY <1>1
    <2>3. QED
      BY ONLY <2>1, <2>2, SubSeqProperties, Zenon DEF Path
  <1>6. QED
    BY <1>2, <1>3, <1>4, <1>5

LEMMA PrefixOfConcat ==
  ASSUME NEW p \in Path, NEW q \in Path
  PROVE  /\ p \o q \in Path
         /\ IsPrefix(p, p \o q)
         /\ SubSeq(p \o q, Len(p) + 1, Len(p \o q)) = q
  <1> DEFINE s == p \o q
  <1>1. /\ s \in Path /\ Len(s) = Len(p) + Len(q)
        /\ Len(p) \in Nat /\ Len(q) \in Nat
        /\ \A i \in 1..(Len(p) + Len(q)) : s[i] = IF i <= Len(p) THEN p[i] ELSE q[i - Len(p)]
    BY ConcatProperties DEF Path
  <1> HIDE DEF s
  <1>2. SubSeq(s, 1, Len(p)) = SubSeq(p, 1, Len(p))
    <2>1. \A i \in 1..Len(p) : s[i] \in Nat /\ p[i] \in Nat
      BY <1>1 DEF Path
    <2>2. /\ SubSeq(s, 1, Len(p)) \in Seq(Nat)
          /\ Len(SubSeq(s, 1, Len(p))) = IF 1 <= Len(p) THEN Len(p) - 1 + 1 ELSE 0
          /\ \A i \in 1..(Len(p) - 1 + 1) : SubSeq(s, 1, Len(p))[i] = s[1 + i - 1]
      BY <1>1, <2>1, SubSeqProperties
    <2>3. SubSeq(p, 1, Len(p)) = p
      BY SubSeqFull DEF Path
    <2>4. /\ Len(SubSeq(s, 1, Len(p))) = Len(p)
          /\ \A i \in 1..Len(p) : SubSeq(s, 1, Len(p))[i] = p[i]
      BY <1>1, <2>2
    <2>5. QED
      BY <2>2, <2>3, <2>4, SeqEqual DEF Path
  <1>3. SubSeq(s, Len(p) + 1, Len(s)) = q
    <2>1. \A i \in (Len(p) + 1)..Len(s) : s[i] \in Nat
      BY <1>1 DEF Path
    <2>2. /\ SubSeq(s, Len(p) + 1, Len(s)) \in Seq(Nat)
          /\ Len(SubSeq(s, Len(p) + 1, Len(s))) =
               IF Len(p) + 1 <= Len(s) THEN Len(s) - (Len(p) + 1) + 1 ELSE 0
          /\ \A i \in 1..(Len(s) - (Len(p) + 1) + 1) :
               SubSeq(s, Len(p) + 1, Len(s))[i] = s[Len(p) + 1 + i - 1]
      BY <1>1, <2>1, SubSeqProperties
    <2>3. Len(SubSeq(s, Len(p) + 1, Len(s))) = Len(q)
      BY <1>1, <2>2
    <2>4. ASSUME NEW i \in 1..Len(q) PROVE SubSeq(s, Len(p) + 1, Len(s))[i] = q[i]
      <3>1. i \in 1..(Len(s) - (Len(p) + 1) + 1) /\ Len(p) + 1 + i - 1 = Len(p) + i
        BY <1>1
      <3>2. SubSeq(s, Len(p) + 1, Len(s))[i] = s[Len(p) + i]
        BY <2>2, <3>1
      <3>3. /\ Len(p) + i \in 1..(Len(p) + Len(q)) /\ ~(Len(p) + i <= Len(p))
            /\ Len(p) + i - Len(p) = i
        BY <1>1
      <3>4. s[Len(p) + i] = q[i]
        BY <1>1, <3>3
      <3>5. QED
        BY <3>2, <3>4
    <2>5. QED
      BY <2>2, <2>3, <2>4, SeqEqual DEF Path
  <1>4. QED
    BY <1>1, <1>2, <1>3 DEF IsPrefix, s

\* The nodes of what a path leads to.
LEMMA AtIs ==
  ASSUME NEW x \in SUBSET Nodes, NEW p \in Path
  PROVE  /\ At(x, p) \in SUBSET Nodes
         /\ \A q \in Path, t \in Types : <<q, t>> \in At(x, p) <=> <<p \o q, t>> \in x
  <1>1. ASSUME NEW n \in x, IsPrefix(p, n[1])
        PROVE  /\ <<SubSeq(n[1], Len(p) + 1, Len(n[1])), n[2]>> \in Nodes
               /\ n[1] = p \o SubSeq(n[1], Len(p) + 1, Len(n[1]))
    <2>1. n[1] \in Path /\ n[2] \in Types
      BY NodeIs
    <2>2. QED
      BY <1>1, <2>1, AfterPrefix DEF Nodes
  <1>2. At(x, p) \in SUBSET Nodes
    BY <1>1 DEF At
  <1>3. ASSUME NEW q \in Path, NEW t \in Types, <<q, t>> \in At(x, p)
        PROVE  <<p \o q, t>> \in x
    <2>1. PICK n \in x : /\ IsPrefix(p, n[1])
                         /\ <<q, t>> = <<SubSeq(n[1], Len(p) + 1, Len(n[1])), n[2]>>
      BY <1>3 DEF At
    <2>2. n[1] = p \o q /\ n[2] = t
      BY <1>1, <2>1
    <2>3. QED
      BY <2>2, NodeIs
  <1>4. ASSUME NEW q \in Path, NEW t \in Types, <<p \o q, t>> \in x
        PROVE  <<q, t>> \in At(x, p)
    <2> DEFINE n == <<p \o q, t>>
    <2>1. n \in x /\ n[1] = p \o q /\ n[2] = t
      BY <1>4
    <2>2. IsPrefix(p, n[1]) /\ SubSeq(n[1], Len(p) + 1, Len(n[1])) = q
      BY <2>1, PrefixOfConcat
    <2> HIDE DEF n
    <2>3. <<SubSeq(n[1], Len(p) + 1, Len(n[1])), n[2]>> = <<q, t>>
      BY <2>1, <2>2
    <2>4. QED
      BY <2>1, <2>2, <2>3 DEF At
  <1>5. QED
    BY <1>2, <1>3, <1>4

\* A value is inside itself.
LEMMA InsideItself ==
  ASSUME NEW x \in SUBSET Nodes, NEW t, << << >>, t>> \in x
  PROVE  x \in Inside(x)
  <1>1. << >> \in Path /\ \A q \in Path : << >> \o q = q
    BY ConcatEmptySeq DEF Path
  <1>2. At(x, << >>) \in SUBSET Nodes
    BY <1>1, AtIs
  <1>3. ASSUME NEW q \in Path, NEW u \in Types
        PROVE  <<q, u>> \in At(x, << >>) <=> <<q, u>> \in x
    <2>1. <<q, u>> \in At(x, << >>) <=> << << >> \o q, u>> \in x
      BY <1>1, AtIs
    <2>2. QED
      BY <1>1, <2>1
  <1>4. At(x, << >>) = x
    BY <1>2, <1>3, SameNodes
  <1> DEFINE n == << << >>, t>>
  <1>5. n \in x /\ n[1] = << >>
    OBVIOUS
  <1>6. At(x, n[1]) \in Inside(x)
    BY <1>5 DEF Inside
  <1>7. QED
    BY <1>4, <1>5, <1>6

\* The nodes below an array.
LEMMA BelowType ==
  ASSUME NEW m, DOMAIN m \subseteq Nat, \A i \in DOMAIN m : m[i] \in SUBSET Nodes
  PROVE  /\ Below(m) \in SUBSET Nodes
         /\ \A i \in DOMAIN m : \A q \in Path : \A t :
              <<q, t>> \in m[i] => << <<i>> \o q, t>> \in Below(m)
         /\ \A node \in Below(m) : \E i \in DOMAIN m : \E n \in m[i] :
              node = << <<i>> \o n[1], n[2]>>
  <1>1. \A i \in DOMAIN m : <<i>> \in Path
    BY DEF Path
  <1>2. ASSUME NEW i \in DOMAIN m, NEW n \in m[i]
        PROVE  << <<i>> \o n[1], n[2]>> \in Nodes
    <2>1. n \in Nodes
      OBVIOUS
    <2>2. n[1] \in Path /\ n[2] \in Types
      BY <2>1, NodeIs
    <2>3. <<i>> \o n[1] \in Path
      BY <1>1, <2>2, PrefixOfConcat
    <2>4. QED
      BY <2>2, <2>3 DEF Nodes
  <1>3. \A node \in Below(m) : \E i \in DOMAIN m : \E n \in m[i] :
          node = << <<i>> \o n[1], n[2]>>
    BY DEF Below
  <1>4. Below(m) \in SUBSET Nodes
    <2> SUFFICES ASSUME NEW node \in Below(m) PROVE node \in Nodes
      OBVIOUS
    <2>1. PICK i \in DOMAIN m : \E n \in m[i] : node = << <<i>> \o n[1], n[2]>>
      BY <1>3
    <2>2. QED
      BY <1>2, <2>1
  <1>5. ASSUME NEW i \in DOMAIN m, NEW q \in Path, NEW t, <<q, t>> \in m[i]
        PROVE  << <<i>> \o q, t>> \in Below(m)
    <2> DEFINE n == <<q, t>>
    <2>1. n \in m[i] /\ n[1] = q /\ n[2] = t
      BY <1>5
    <2> HIDE DEF n
    <2>2. << <<i>> \o n[1], n[2]>> \in {<< <<i>> \o node[1], node[2]>> : node \in m[i]}
      BY <2>1
    <2>3. QED
      BY <2>1, <2>2 DEF Below
  <1>6. QED
    BY <1>3, <1>4, <1>5

\* The first position and the rest of a path.
LEMMA PathsApart ==
  ASSUME NEW i \in Nat, NEW j \in Nat, NEW p \in Path, NEW q \in Path
  PROVE  /\ <<i>> \o p # << >>
         /\ <<i>> \o p = <<j>> \o q => i = j /\ p = q
  <1>1. <<i>> \in Path /\ <<j>> \in Path /\ Len(<<i>>) = 1 /\ Len(<<j>>) = 1
    BY DEF Path
  <1>2. /\ Len(<<i>> \o p) = 1 + Len(p) /\ (<<i>> \o p)[1] = i
        /\ Len(p) \in Nat
    BY <1>1, ConcatProperties DEF Path
  <1>3. (<<j>> \o q)[1] = j
    BY <1>1, ConcatProperties DEF Path
  <1>4. /\ SubSeq(<<i>> \o p, Len(<<i>>) + 1, Len(<<i>> \o p)) = p
        /\ SubSeq(<<j>> \o q, Len(<<j>>) + 1, Len(<<j>> \o q)) = q
    BY <1>1, PrefixOfConcat
  <1>5. <<i>> \o p # << >>
    BY <1>2
  <1>6. ASSUME <<i>> \o p = <<j>> \o q PROVE i = j /\ p = q
    <2>1. i = j
      BY <1>2, <1>3, <1>6
    <2>2. Len(<<i>>) = Len(<<j>>)
      BY <1>1
    <2>3. QED
      BY ONLY <1>4, <1>6, <2>1, <2>2
  <1>7. QED
    BY <1>5, <1>6

\* An element of an array that is inside a value is inside it too.
LEMMA ElementInside ==
  ASSUME NEW x \in SUBSET Nodes, NEW type \in Types,
         NEW m, DOMAIN m \subseteq Nat, \A i \in DOMAIN m : m[i] \in SUBSET Nodes,
         Leaf(type) \cup Below(m) \in Inside(x),
         NEW k \in DOMAIN m, NEW u \in Types, << << >>, u>> \in m[k]
  PROVE  m[k] \in Inside(x)
  <1> DEFINE y == Leaf(type) \cup Below(m)
  <1>1. PICK n0 \in x : y = At(x, n0[1])
    BY DEF Inside
  <1> DEFINE p == n0[1]
             e == p \o <<k>>
  <1>2. p \in Path /\ << >> \in Path /\ <<k>> \in Path /\ e \in Path
    <2>1. n0 \in Nodes
      OBVIOUS
    <2>2. p \in Path /\ << >> \in Path /\ <<k>> \in Path
      BY <2>1, NodeIs DEF Path
    <2>3. QED
      BY <2>2, PrefixOfConcat
  <1>3. << <<k>>, u>> \in y
    <2>1. << <<k>> \o << >>, u>> \in Below(m)
      BY <1>2, BelowType
    <2>2. <<k>> \o << >> = <<k>>
      BY <1>2, ConcatEmptySeq DEF Path
    <2>3. QED
      BY <2>1, <2>2
  <1> HIDE DEF p, e
  <1>4. At(x, p) = y
    BY <1>1 DEF p
  <1>5. <<e, u>> \in x
    BY <1>2, <1>3, <1>4, AtIs DEF e
  <1>6. k \in DOMAIN m /\ DOMAIN m \subseteq Nat /\ \A i \in DOMAIN m : m[i] \in SUBSET Nodes
    OBVIOUS
  <1>7. ASSUME NEW q \in Path, NEW t \in Types
        PROVE  <<q, t>> \in At(x, e) <=> <<q, t>> \in m[k]
    <2>1. <<q, t>> \in At(x, e) <=> <<e \o q, t>> \in x
      BY <1>2, AtIs
    <2>2. e \o q = p \o (<<k>> \o q) /\ <<k>> \o q \in Path
      <3>1. (p \o <<k>>) \o q = p \o (<<k>> \o q)
        BY ONLY <1>2, q \in Path, ConcatAssociative DEF Path
      <3>2. <<k>> \o q \in Path
        BY <1>2, PrefixOfConcat
      <3>3. QED
        BY <3>1, <3>2 DEF e
    <2>3. <<p \o (<<k>> \o q), t>> \in x <=> << <<k>> \o q, t>> \in At(x, p)
      BY <1>2, <2>2, AtIs
    <2>4. << <<k>> \o q, t>> \in y <=> << <<k>> \o q, t>> \in Below(m)
      <3>1. k \in Nat
        OBVIOUS
      <3>2. <<k>> \o q # << >>
        BY <3>1, PathsApart
      <3>3. QED
        BY <3>2 DEF Leaf
    <2>5. ASSUME << <<k>> \o q, t>> \in Below(m) PROVE <<q, t>> \in m[k]
      <3>1. PICK i \in DOMAIN m : \E n \in m[i] : << <<k>> \o q, t>> = << <<i>> \o n[1], n[2]>>
        BY <2>5, BelowType
      <3>2. PICK n \in m[i] : << <<k>> \o q, t>> = << <<i>> \o n[1], n[2]>>
        BY <3>1
      <3>3. n \in Nodes /\ i \in Nat /\ k \in Nat
        OBVIOUS
      <3>4. n[1] \in Path /\ n = <<n[1], n[2]>>
        BY <3>3, NodeIs
      <3>5. <<k>> \o q = <<i>> \o n[1] /\ t = n[2]
        BY <3>2
      <3>6. k = i /\ q = n[1]
        <4>1. i \in Nat /\ k \in Nat /\ q \in Path /\ n[1] \in Path
          BY <3>3, <3>4
        <4>2. <<k>> \o q = <<i>> \o n[1] => k = i /\ q = n[1]
          BY ONLY <4>1, PathsApart
        <4>3. QED
          BY ONLY <3>5, <4>2
      <3>7. QED
        BY <3>4, <3>5, <3>6
    <2>6. <<q, t>> \in m[k] => << <<k>> \o q, t>> \in Below(m)
      <3>1. \A i \in DOMAIN m : \A r \in Path : \A w :
              <<r, w>> \in m[i] => << <<i>> \o r, w>> \in Below(m)
        BY ONLY <1>6, BelowType
      <3>2. QED
        BY ONLY <1>6, <3>1, q \in Path
    <2>7. QED
      BY <1>4, <2>1, <2>2, <2>3, <2>4, <2>5, <2>6
  <1>8. At(x, e) = m[k]
    <2>1. At(x, e) \in SUBSET Nodes
      BY <1>2, AtIs
    <2>2. m[k] \in SUBSET Nodes
      OBVIOUS
    <2>3. QED
      BY ONLY <1>7, <2>1, <2>2, SameNodes
  <1> DEFINE n1 == <<e, u>>
  <1>9. n1 \in x /\ n1[1] = e
    BY <1>5
  <1>10. At(x, n1[1]) \in Inside(x)
    BY <1>9 DEF Inside
  <1>11. QED
    BY <1>8, <1>9, <1>10

-----------------------------------------------------------------------------
(***************************************************************************)
(* What the cells hold.  Contents is defined by recursion through cells,   *)
(* so it is a function only while no cell is, however deep, in itself:     *)
(* cells have ranks, and the elements of a cell are in cells of a lower    *)
(* one.  A step changes only a cell that no element is in, and then all    *)
(* others hold what they did.                                              *)
(***************************************************************************)

\* Every set of natural numbers that is not empty has a least one.
LEMMA LeastNat ==
  ASSUME NEW T \in SUBSET Nat, T # {}
  PROVE  \E k \in T : \A j \in T : k <= j
  <1> DEFINE R == OpToRel(<, Nat)
  <1>1. IsWellFoundedOn(R, Nat)
    BY ONLY NatLessThanWellFounded, Zenon
  <1>2. R = {ss \in Nat \X Nat : ss[1] < ss[2]}
    BY ONLY Zenon DEF OpToRel
  <1> HIDE DEF R
  <1>3. PICK k \in T : \A j \in T : <<j, k>> \notin R
    BY <1>1, WFMin
  <1>4. \A j \in T : ~(j < k)
    BY <1>2, <1>3
  <1>5. QED
    BY <1>4

\* What cells hold, as a function of what is in them, and that elements are in
\* cells of a lower rank than the cell they are in.
IsContents(h, f) ==
  f = [c \in Cells |-> Below([i \in DOMAIN h[c] |-> Holding(h[c][i], f)])]
ContentsOf(h) == CHOOSE f : IsContents(h, f)
IsRank(h, rank, n) ==
  /\ rank \in [Cells -> 0..n]
  /\ \A c, d \in Cells : \A i \in DOMAIN h[c] : Holds(h[c][i], d) => rank[d] < rank[c]

LEMMA ContentsAre == Contents = ContentsOf(cell)
  BY DEF Contents, ContentsOf, IsContents

\* Values and their cells.
LEMMA LargeOrNot ==
  ASSUME NEW x \in Values \cup {Dead}
  PROVE  /\ x.type \in Types
         /\ x.type \in LargeTypes => x.as \in Cells /\ Holds(x, x.as)
         /\ \A f : x.type \notin LargeTypes => Holding(x, f) = Leaf(x.type)
         /\ \A f : x.type \in LargeTypes => Holding(x, f) = Leaf(x.type) \cup f[x.as]
  <1>1. CASE x \in {Nil, Integer, Dead}
    <2>1. x.type \notin LargeTypes /\ x.type \in Types
      BY <1>1 DEF Nil, Integer, Dead, LargeTypes, Types
    <2>2. QED
      BY <2>1 DEF Holding
  <1>2. CASE \E t \in LargeTypes, c \in Cells : x = Boxed(t, c)
    <2>1. PICK t \in LargeTypes, c \in Cells : x = Boxed(t, c)
      BY <1>2
    <2>2. x.type = t /\ x.as = c
      BY <2>1 DEF Boxed
    <2>3. t \in Types
      BY DEF LargeTypes, Types
    <2>4. QED
      BY <2>2, <2>3 DEF Holding, Holds
  <1>3. QED
    BY <1>1, <1>2 DEF Values

\* Only what a Value owns counts for what it holds.
LEMMA HoldingSame ==
  ASSUME NEW x \in Values \cup {Dead}, NEW f, NEW g,
         \A c \in Cells : Holds(x, c) => f[c] = g[c]
  PROVE  Holding(x, f) = Holding(x, g)
  <1>1. CASE x.type \in LargeTypes
    BY <1>1, LargeOrNot
  <1>2. CASE x.type \notin LargeTypes
    BY <1>2, LargeOrNot
  <1>3. QED
    BY <1>1, <1>2

LEMMA HoldingType ==
  ASSUME NEW x \in Values \cup {Dead}, NEW f \in [Cells -> SUBSET Nodes]
  PROVE  Holding(x, f) \in SUBSET Nodes /\ << << >>, x.type>> \in Holding(x, f)
  <1>1. Leaf(x.type) \in SUBSET Nodes /\ << << >>, x.type>> \in Leaf(x.type)
    <2>1. << >> \in Path /\ x.type \in Types
      BY LargeOrNot DEF Path
    <2>2. QED
      BY <2>1 DEF Leaf, Nodes
  <1>2. CASE x.type \in LargeTypes
    BY <1>1, <1>2, LargeOrNot
  <1>3. CASE x.type \notin LargeTypes
    BY <1>1, <1>3, LargeOrNot
  <1>4. QED
    BY <1>2, <1>3

\* Were there two functions, they would differ for a cell of the least rank.
LEMMA OneContents ==
  ASSUME NEW h \in [Cells -> Seq(Values)], NEW n \in Nat, NEW rank, IsRank(h, rank, n),
         NEW f, NEW g, IsContents(h, f), IsContents(h, g)
  PROVE  f = g
  <1> DEFINE Differ == {c \in Cells : f[c] # g[c]}
             Ranks == {rank[c] : c \in Differ}
  <1>1. rank \in [Cells -> 0..n]
    BY DEF IsRank
  <1>2. ASSUME NEW c \in Differ, \A d \in Differ : rank[c] <= rank[d] PROVE FALSE
    <2>1. ASSUME NEW i \in DOMAIN h[c] PROVE Holding(h[c][i], f) = Holding(h[c][i], g)
      <3>1. h[c][i] \in Values \cup {Dead}
        OBVIOUS
      <3>2. ASSUME NEW d \in Cells, Holds(h[c][i], d) PROVE f[d] = g[d]
        <4>1. rank[d] < rank[c]
          BY <3>2 DEF IsRank
        <4>2. rank[d] \in Nat /\ rank[c] \in Nat
          BY <1>1
        <4>3. d \notin Differ
          BY <1>2, <4>1, <4>2
        <4>4. QED
          BY <4>3
      <3>3. QED
        BY <3>1, <3>2, HoldingSame
    <2>2. [i \in DOMAIN h[c] |-> Holding(h[c][i], f)] = [i \in DOMAIN h[c] |-> Holding(h[c][i], g)]
      BY <2>1
    <2>3. /\ f[c] = Below([i \in DOMAIN h[c] |-> Holding(h[c][i], f)])
          /\ g[c] = Below([i \in DOMAIN h[c] |-> Holding(h[c][i], g)])
      BY DEF IsContents
    <2>4. QED
      BY <2>2, <2>3
  <1>3. Differ = {}
    <2> SUFFICES ASSUME Differ # {} PROVE FALSE
      OBVIOUS
    <2>1. Ranks \in SUBSET Nat /\ Ranks # {}
      BY <1>1
    <2>2. PICK k \in Ranks : \A j \in Ranks : k <= j
      BY <2>1, LeastNat
    <2>3. PICK c \in Differ : k = rank[c]
      OBVIOUS
    <2>4. \A d \in Differ : rank[c] <= rank[d]
      BY <2>2, <2>3
    <2>5. QED
      BY <1>2, <2>4
  <1>4. \A c \in Cells : f[c] = g[c]
    BY <1>3
  <1>5. /\ f = [c \in Cells |-> f[c]]
        /\ g = [c \in Cells |-> g[c]]
    BY DEF IsContents
  <1>6. QED
    BY <1>4, <1>5

\* A cell that nothing refers to is changed: the others hold what they did.
Given(f, c0, e) == [f EXCEPT ![c0] = Below([i \in DOMAIN e |-> Holding(e[i], f)])]

LEMMA ContentsChange ==
  ASSUME NEW h \in [Cells -> Seq(Values)], NEW c0 \in Cells, NEW e \in Seq(Values),
         \A d \in Cells : \A i \in DOMAIN h[d] : ~Holds(h[d][i], c0),
         \A i \in DOMAIN e : ~Holds(e[i], c0),
         NEW f \in [Cells -> SUBSET Nodes], IsContents(h, f)
  PROVE  /\ Given(f, c0, e) \in [Cells -> SUBSET Nodes]
         /\ IsContents([h EXCEPT ![c0] = e], Given(f, c0, e))
  <1> DEFINE f2 == Given(f, c0, e)
             h2 == [h EXCEPT ![c0] = e]
             m == [i \in DOMAIN e |-> Holding(e[i], f)]
  <1>1. /\ h2 \in [Cells -> Seq(Values)] /\ h2[c0] = e
        /\ \A c \in Cells \ {c0} : h2[c] = h[c]
    OBVIOUS
  <1>2. /\ f2[c0] = Below(m)
        /\ \A c \in Cells \ {c0} : f2[c] = f[c]
        /\ f2 = [c \in Cells |-> f2[c]]
    BY DEF Given
  <1>3. Below(m) \in SUBSET Nodes
    <2>1. DOMAIN m \subseteq Nat
      OBVIOUS
    <2>2. \A i \in DOMAIN m : e[i] \in Values \cup {Dead} /\ m[i] = Holding(e[i], f)
      OBVIOUS
    <2>3. \A i \in DOMAIN m : m[i] \in SUBSET Nodes
      BY <2>2, HoldingType
    <2> HIDE DEF m
    <2>4. QED
      BY <2>1, <2>3, BelowType
  <1>4. f2 \in [Cells -> SUBSET Nodes]
    BY <1>3 DEF Given
  <1> HIDE DEF f2, h2, m
  <1>5. ASSUME NEW x \in Values \cup {Dead}, ~Holds(x, c0) PROVE Holding(x, f2) = Holding(x, f)
    <2>1. \A c \in Cells : Holds(x, c) => f2[c] = f[c]
      BY <1>2, <1>5
    <2>2. QED
      BY <2>1, HoldingSame
  <1>6. ASSUME NEW c \in Cells
        PROVE  f2[c] = Below([i \in DOMAIN h2[c] |-> Holding(h2[c][i], f2)])
    <2>1. CASE c = c0
      <3>1. \A i \in DOMAIN e : Holding(e[i], f2) = Holding(e[i], f)
        <4> SUFFICES ASSUME NEW i \in DOMAIN e PROVE Holding(e[i], f2) = Holding(e[i], f)
          OBVIOUS
        <4>1. e[i] \in Values \cup {Dead} /\ ~Holds(e[i], c0)
          OBVIOUS
        <4>2. QED
          BY <1>5, <4>1
      <3>2. [i \in DOMAIN e |-> Holding(e[i], f2)] = m
        BY <3>1 DEF m
      <3>3. QED
        BY <1>1, <1>2, <2>1, <3>2
    <2>2. CASE c # c0
      <3>1. \A i \in DOMAIN h[c] : Holding(h[c][i], f2) = Holding(h[c][i], f)
        <4> SUFFICES ASSUME NEW i \in DOMAIN h[c]
                     PROVE  Holding(h[c][i], f2) = Holding(h[c][i], f)
          OBVIOUS
        <4>1. h[c][i] \in Values \cup {Dead} /\ ~Holds(h[c][i], c0)
          OBVIOUS
        <4>2. QED
          BY <1>5, <4>1
      <3>2. [i \in DOMAIN h[c] |-> Holding(h[c][i], f2)] =
              [i \in DOMAIN h[c] |-> Holding(h[c][i], f)]
        BY <3>1
      <3>3. f[c] = Below([i \in DOMAIN h[c] |-> Holding(h[c][i], f)])
        BY DEF IsContents
      <3>4. QED
        BY <1>1, <1>2, <2>2, <3>2, <3>3
    <2>3. QED
      BY <2>1, <2>2
  <1>7. f2 = [c \in Cells |-> Below([i \in DOMAIN h2[c] |-> Holding(h2[c][i], f2)])]
    BY <1>2, <1>6
  <1>8. QED
    BY <1>4, <1>7 DEF IsContents, f2, h2

\* A cell is given other elements, and itself another rank.
LEMMA RankChange ==
  ASSUME NEW h \in [Cells -> Seq(Values)], NEW c0 \in Cells, NEW e \in Seq(Values),
         \A d \in Cells : \A i \in DOMAIN h[d] : ~Holds(h[d][i], c0),
         \A i \in DOMAIN e : ~Holds(e[i], c0),
         NEW n \in Nat, NEW rank, IsRank(h, rank, n), NEW m \in Nat, n <= m, NEW r \in 0..m,
         \A i \in DOMAIN e : \A d \in Cells : Holds(e[i], d) => rank[d] < r
  PROVE  IsRank([h EXCEPT ![c0] = e], [rank EXCEPT ![c0] = r], m)
  <1> DEFINE h2 == [h EXCEPT ![c0] = e]
             rank2 == [rank EXCEPT ![c0] = r]
  <1>1. rank \in [Cells -> 0..n]
    BY DEF IsRank
  <1>2. rank2 \in [Cells -> 0..m]
    <2>1. \A c \in Cells : rank2[c] \in 0..m
      BY <1>1
    <2>2. QED
      BY <1>1, <2>1
  <1>3. /\ rank2[c0] = r /\ h2[c0] = e
        /\ \A c \in Cells \ {c0} : rank2[c] = rank[c] /\ h2[c] = h[c]
    BY <1>1
  <1> HIDE DEF h2, rank2
  <1>4. ASSUME NEW c \in Cells, NEW d \in Cells, NEW i \in DOMAIN h2[c], Holds(h2[c][i], d)
        PROVE  rank2[d] < rank2[c]
    <2>1. CASE c = c0
      <3>1. i \in DOMAIN e /\ Holds(e[i], d) /\ d # c0
        BY <1>3, <1>4, <2>1
      <3>2. rank[d] < r
        BY <3>1
      <3>3. QED
        BY <1>3, <2>1, <3>1, <3>2
    <2>2. CASE c # c0
      <3>1. i \in DOMAIN h[c] /\ Holds(h[c][i], d) /\ d # c0
        BY <1>3, <1>4, <2>2
      <3>2. rank[d] < rank[c]
        BY <3>1 DEF IsRank
      <3>3. QED
        BY <1>3, <2>2, <3>1, <3>2
    <2>3. QED
      BY <2>1, <2>2
  <1>5. QED
    BY <1>2, <1>4 DEF IsRank, h2, rank2

-----------------------------------------------------------------------------
(***************************************************************************)
(* The invariant of the refinement.  It adds to that of the owners that    *)
(* cells have ranks, a cell under construction that of the cell it is a    *)
(* copy of; that what a copy has so far is equal to what it is a copy of,  *)
(* the innermost of the copies being the next element of the one around    *)
(* it; and that what is copied is inside a variable.                       *)
(***************************************************************************)

CellsEmpty == \A c \in Cells \ live : cell[c] = << >>
Ranked ==
  \E n \in Nat : \E rank :
    /\ IsRank(cell, rank, n)
    /\ \A i \in DOMAIN frames : rank[frames[i].to] = rank[frames[i].from]
ContentsInv == Contents \in [Cells -> SUBSET Nodes] /\ IsContents(cell, Contents)
Shape == CellsEmpty /\ Ranked /\ ContentsInv

Seen(x) == \E w \in Vars : var[w] # Dead /\ Meaning(x) \in Inside(Meaning(var[w]))

Copying ==
  /\ frames # << >> => var[target] = Dead /\ Seen(Boxed(frames[1].type, frames[1].from))
  /\ \A i \in DOMAIN frames : \A j \in DOMAIN cell[frames[i].to] :
       Meaning(cell[frames[i].to][j]) = Meaning(cell[frames[i].from][j])
  /\ \A i \in DOMAIN frames : i # Len(frames) =>
       cell[frames[i].from][Len(cell[frames[i].to]) + 1] =
         Boxed(frames[i + 1].type, frames[i + 1].from)
  /\ source # None => var[target] = Nil /\ var[source] # Dead

SInv == Inv /\ Shape /\ Copying

LEMMA ContentsNext == Contents' = ContentsOf(cell')
  BY DEF Contents, ContentsOf, IsContents

\* What a variable holds is told by its root.
LEMMA Roots ==
  ASSUME NEW x \in Values \cup {Dead}, NEW f \in [Cells -> SUBSET Nodes]
  PROVE  /\ Holding(x, f) = Leaf("DEAD") <=> x = Dead
         /\ Holding(Nil, f) = Leaf("NIL") /\ Holding(Dead, f) = Leaf("DEAD")
         /\ Holding(Integer, f) = Leaf("INTEGER_32")
  <1>1. /\ Holding(Nil, f) = Leaf("NIL") /\ Holding(Dead, f) = Leaf("DEAD")
        /\ Holding(Integer, f) = Leaf("INTEGER_32")
    BY DEF Holding, Nil, Dead, Integer, LargeTypes
  <1>2. ASSUME x # Dead PROVE Holding(x, f) # Leaf("DEAD")
    <2>1. x.type # "DEAD"
      BY <1>2 DEF Values, Nil, Integer, Boxed, LargeTypes
    <2>2. << << >>, x.type>> \in Holding(x, f)
      BY HoldingType
    <2>3. << << >>, x.type>> \notin Leaf("DEAD")
      BY <2>1 DEF Leaf
    <2>4. QED
      BY <2>2, <2>3
  <1>3. QED
    BY <1>1, <1>2

\* A step that changes no cell.
LEMMA SameCells ==
  ASSUME Shape, UNCHANGED <<live, cell>>,
         \A i \in DOMAIN frames' : i \in DOMAIN frames /\ frames'[i] = frames[i]
  PROVE  Shape' /\ Contents' = Contents
  <1>1. Contents' = Contents
    BY ContentsAre, ContentsNext
  <1>2. CellsEmpty'
    BY DEF Shape, CellsEmpty
  <1>3. Ranked'
    BY DEF Shape, Ranked
  <1>4. ContentsInv'
    BY <1>1 DEF Shape, ContentsInv
  <1>5. QED
    BY <1>1, <1>2, <1>3, <1>4 DEF Shape

\* A step that gives one cell other elements, when no element is in that cell.
LEMMA OneCellChanges ==
  ASSUME TypeOK, Shape, NEW c0 \in Cells, NEW e \in Seq(Values), cell' = [cell EXCEPT ![c0] = e],
         \A d \in Cells : \A i \in DOMAIN cell[d] : ~Holds(cell[d][i], c0),
         \A i \in DOMAIN e : ~Holds(e[i], c0),
         live \subseteq live' \cup {c0}, c0 \notin live' => e = << >>,
         Ranked'
  PROVE  /\ Shape'
         /\ Contents'[c0] = Below([i \in DOMAIN e |-> Meaning(e[i])])
         /\ \A d \in Cells \ {c0} : Contents'[d] = Contents[d]
         /\ \A x \in Values \cup {Dead} : ~Holds(x, c0) => Holding(x, Contents') = Meaning(x)
  <1> DEFINE f2 == Given(Contents, c0, e)
  <1>1. /\ cell \in [Cells -> Seq(Values)] /\ cell' \in [Cells -> Seq(Values)]
        /\ Contents \in [Cells -> SUBSET Nodes] /\ IsContents(cell, Contents)
    BY DEF TypeOK, Shape, ContentsInv
  <1>2. f2 \in [Cells -> SUBSET Nodes] /\ IsContents(cell', f2)
    <2>1. IsContents([cell EXCEPT ![c0] = e], f2) /\ f2 \in [Cells -> SUBSET Nodes]
      BY <1>1, ContentsChange
    <2>2. QED
      BY <2>1
  <1>3. /\ f2[c0] = Below([i \in DOMAIN e |-> Meaning(e[i])])
        /\ \A d \in Cells \ {c0} : f2[d] = Contents[d]
    BY <1>1 DEF Meaning, Given
  <1> HIDE DEF f2
  <1>4. Contents' = f2
    <2>1. IsContents(cell', ContentsOf(cell'))
      BY <1>2 DEF ContentsOf
    <2>2. PICK n \in Nat : \E rank : IsRank(cell', rank, n)
      BY DEF Ranked
    <2>3. PICK rank : IsRank(cell', rank, n)
      BY <2>2
    <2>4. ContentsOf(cell') = f2
      BY ONLY <1>1, <1>2, <2>1, <2>3, n \in Nat, OneContents
    <2>5. QED
      BY <2>4, ContentsNext
  <1>5. ContentsInv'
    BY <1>2, <1>4 DEF ContentsInv
  <1>6. CellsEmpty'
    <2> SUFFICES ASSUME NEW c \in Cells \ live' PROVE cell'[c] = << >>
      BY DEF CellsEmpty
    <2>1. CASE c = c0
      BY <1>1, <2>1
    <2>2. CASE c # c0
      BY <1>1, <2>2 DEF Shape, CellsEmpty
    <2>3. QED
      BY <2>1, <2>2
  <1>7. ASSUME NEW x \in Values \cup {Dead}, ~Holds(x, c0) PROVE Holding(x, Contents') = Meaning(x)
    <2>1. \A c \in Cells : Holds(x, c) => f2[c] = Contents[c]
      BY <1>3, <1>7
    <2>2. QED
      BY <1>4, <2>1, HoldingSame DEF Meaning
  <1>8. QED
    BY <1>3, <1>4, <1>5, <1>6, <1>7 DEF Shape

\* A cell that no element of a live cell is in.
LEMMA Unheld ==
  ASSUME TypeOK, Shape, NEW c0, \A d, i : ~ElementHolds(d, i, c0)
  PROVE  \A d \in Cells : \A i \in DOMAIN cell[d] : ~Holds(cell[d][i], c0)
  <1> SUFFICES ASSUME NEW d \in Cells, NEW i \in DOMAIN cell[d] PROVE ~Holds(cell[d][i], c0)
    OBVIOUS
  <1>1. d \in live
    <2> SUFFICES ASSUME d \notin live PROVE FALSE
      OBVIOUS
    <2>1. cell[d] = << >>
      BY DEF Shape, CellsEmpty
    <2>2. QED
      BY <2>1
  <1>2. QED
    BY <1>1 DEF ElementHolds

\* What the elements of a cell hold is inside what holds the cell.
LEMMA SeenElements ==
  ASSUME TypeOK, ContentsInv, NEW x \in Values \cup {Dead}, Seen(x), NEW c \in Cells, Holds(x, c),
         NEW i \in DOMAIN cell[c]
  PROVE  Seen(cell[c][i])
  <1> DEFINE m == [j \in DOMAIN cell[c] |-> Meaning(cell[c][j])]
  <1>1. PICK w \in Vars : var[w] # Dead /\ Meaning(x) \in Inside(Meaning(var[w]))
    BY DEF Seen
  <1>2. /\ cell[c] \in Seq(Values) /\ var[w] \in Values \cup {Dead}
        /\ Contents \in [Cells -> SUBSET Nodes]
    BY DEF TypeOK, ContentsInv
  <1>3. /\ \A j \in DOMAIN m : m[j] \in SUBSET Nodes /\ << << >>, cell[c][j].type>> \in m[j]
        /\ DOMAIN m \subseteq Nat
    <2>1. \A j \in DOMAIN m : cell[c][j] \in Values \cup {Dead} /\ m[j] = Meaning(cell[c][j])
      BY <1>2
    <2>2. QED
      BY <1>2, <2>1, HoldingType DEF Meaning
  <1>4. Meaning(var[w]) \in SUBSET Nodes
    BY <1>2, HoldingType DEF Meaning
  <1>5. Meaning(x) = Leaf(x.type) \cup Below(m)
    <2>1. Contents[c] = Below([j \in DOMAIN cell[c] |-> Holding(cell[c][j], Contents)])
      BY DEF ContentsInv, IsContents
    <2>2. x.type \in LargeTypes /\ x.as = c
      BY DEF Holds
    <2>3. QED
      BY <2>1, <2>2 DEF Meaning, Holding
  <1>6. x.type \in Types /\ cell[c][i].type \in Types
    <2>1. cell[c][i] \in Values \cup {Dead}
      BY <1>2
    <2>2. QED
      BY <2>1, LargeOrNot
  <1>7. i \in DOMAIN m /\ m[i] = Meaning(cell[c][i])
    OBVIOUS
  <1> HIDE DEF m
  <1>8. m[i] \in Inside(Meaning(var[w]))
    <2>1. Leaf(x.type) \cup Below(m) \in Inside(Meaning(var[w]))
      BY <1>1, <1>5
    <2>2. << << >>, cell[c][i].type>> \in m[i]
      BY <1>3, <1>7
    <2>3. QED
      BY ONLY <1>3, <1>4, <1>6, <1>7, <2>1, <2>2, ElementInside
  <1>9. QED
    BY <1>1, <1>7, <1>8 DEF Seen

\* What a variable holds is inside itself.
LEMMA SeenVariable ==
  ASSUME TypeOK, ContentsInv, NEW w \in Vars, var[w] # Dead
  PROVE  Seen(var[w])
  <1>1. var[w] \in Values \cup {Dead} /\ Contents \in [Cells -> SUBSET Nodes]
    BY DEF TypeOK, ContentsInv
  <1>2. Meaning(var[w]) \in SUBSET Nodes /\ << << >>, var[w].type>> \in Meaning(var[w])
    BY <1>1, HoldingType DEF Meaning
  <1>3. QED
    BY <1>2, InsideItself DEF Seen

\* Between two statements all that can be reached is inside a variable: were it not
\* so of the elements of some cell, then of one with the greatest rank; but the
\* owner of that cell is a variable or an element of another with a greater one.
LEMMA ReachableSeen ==
  ASSUME Inv, Shape, Idle, NEW x \in Reachable
  PROVE  Seen(x)
  <1>1. TypeOK /\ ContentsInv /\ live \subseteq Cells
    BY DEF Inv, Shape, TypeOK
  <1>2. PICK n \in Nat : \E rank : IsRank(cell, rank, n)
    BY DEF Shape, Ranked
  <1>3. PICK rank : IsRank(cell, rank, n)
    BY <1>2
  <1> DEFINE Bad == {c \in live : \E i \in DOMAIN cell[c] : ~Seen(cell[c][i])}
             Ranks == {n - rank[c] : c \in Bad}
  <1>4. \A c \in Cells : rank[c] \in 0..n
    BY <1>3 DEF IsRank
  <1>5. ASSUME NEW c \in Bad, \A d \in Bad : n - rank[c] <= n - rank[d] PROVE FALSE
    <2>1. c \in live /\ c \in Cells
      BY <1>1
    <2>2. PICK i \in DOMAIN cell[c] : ~Seen(cell[c][i])
      OBVIOUS
    <2>3. ASSUME NEW y \in Values \cup {Dead}, Holds(y, c), Seen(y) PROVE FALSE
      BY <1>1, <2>1, <2>2, <2>3, SeenElements
    <2>4. ASSUME NEW w, VarHolds(w, c) PROVE FALSE
      <3>1. w \in Vars /\ Holds(var[w], c) /\ var[w] \in Values \cup {Dead}
        BY <1>1, <2>4 DEF VarHolds, TypeOK
      <3>2. var[w] # Dead
        BY <3>1, ValueTypes
      <3>3. Seen(var[w])
        BY <1>1, <3>1, <3>2, SeenVariable
      <3>4. QED
        BY <2>3, <3>1, <3>3
    <2>5. ASSUME NEW d, NEW j, ElementHolds(d, j, c) PROVE FALSE
      <3>1. d \in live /\ d \in Cells /\ j \in DOMAIN cell[d] /\ Holds(cell[d][j], c)
        BY <1>1, <2>5 DEF ElementHolds
      <3>2. cell[d][j] \in Values \cup {Dead}
        BY <1>1, <3>1 DEF TypeOK
      <3>3. rank[c] < rank[d]
        BY <1>3, <2>1, <3>1 DEF IsRank
      <3>4. d \notin Bad
        <4>1. rank[c] \in 0..n /\ rank[d] \in 0..n
          BY <1>4, <2>1, <3>1
        <4>2. ~(n - rank[c] <= n - rank[d])
          BY <3>3, <4>1
        <4>3. QED
          BY <1>5, <4>2
      <3>5. Seen(cell[d][j])
        BY <3>1, <3>4
      <3>6. QED
        BY <2>3, <3>1, <3>2, <3>5
    <2>6. (\E w : VarHolds(w, c)) \/ (\E d, j : ElementHolds(d, j, c))
      BY <2>1, IdleHolds DEF Inv, Owners, AllHeld
    <2>7. QED
      BY <2>4, <2>5, <2>6
  <1>6. Bad = {}
    <2> SUFFICES ASSUME Bad # {} PROVE FALSE
      OBVIOUS
    <2>1. Ranks \in SUBSET Nat /\ Ranks # {}
      <3> SUFFICES ASSUME NEW c \in Bad PROVE n - rank[c] \in Nat
        OBVIOUS
      <3>1. rank[c] \in 0..n
        BY <1>1, <1>4
      <3>2. QED
        BY <3>1
    <2>2. PICK k \in Ranks : \A j \in Ranks : k <= j
      BY <2>1, LeastNat
    <2>3. PICK c \in Bad : k = n - rank[c]
      OBVIOUS
    <2>4. \A d \in Bad : n - rank[c] <= n - rank[d]
      BY <2>2, <2>3
    <2>5. QED
      BY <1>5, <2>4
  <1>7. CASE \E v \in Vars : x = var[v] /\ x # Dead
    BY <1>1, <1>7, SeenVariable
  <1>8. CASE \E c \in live : x \in ToSet(cell[c])
    <2>1. PICK c \in live : x \in ToSet(cell[c])
      BY <1>8
    <2>2. PICK i \in DOMAIN cell[c] : x = cell[c][i]
      BY <2>1 DEF ToSet
    <2>3. QED
      BY <1>6, <2>2
  <1>9. QED
    BY <1>7, <1>8 DEF Reachable

-----------------------------------------------------------------------------
(***************************************************************************)
(* The steps of ValueSemantics.                                            *)
(***************************************************************************)

\* The operators of the instance are the same as those of this module.
LEMMA SameTrees ==
  /\ \A type : Semantics!Leaf(type) = Leaf(type)
  /\ \A x : Semantics!Inside(x) = Inside(x)
  /\ \A m : Semantics!ArrayOf(m) = ArrayOf(m)
  /\ \A s : Semantics!ToSet(s) = ToSet(s)
  <1>1. \A type : Semantics!Leaf(type) = Leaf(type)
    BY DEF Semantics!Leaf, Leaf
  <1>2. \A s, t : Semantics!IsPrefix(s, t) <=> IsPrefix(s, t)
    BY DEF Semantics!IsPrefix, IsPrefix
  <1>3. \A x, p : Semantics!At(x, p) = At(x, p)
    BY <1>2 DEF Semantics!At, At
  <1>4. \A x : Semantics!Inside(x) = Inside(x)
    BY <1>3 DEF Semantics!Inside, Inside
  <1>5. \A m : Semantics!Below(m) = Below(m)
    BY DEF Semantics!Below, Below
  <1>6. \A m : Semantics!ArrayOf(m) = ArrayOf(m)
    BY <1>1, <1>5 DEF Semantics!ArrayOf, ArrayOf
  <1>7. \A s : Semantics!ToSet(s) = ToSet(s)
    BY DEF Semantics!ToSet, ToSet
  <1>8. QED
    BY <1>1, <1>4, <1>6, <1>7

LEMMA SameLists ==
  Lists = {s \in Semantics!SeqOf(Vars, MaxElements) : Semantics!IsInjective(s)}
  BY DEF Lists, Semantics!SeqOf, SeqOf, Semantics!IsInjective, IsInjective

\* The steps of ValueSemantics.
Gone == Leaf("DEAD")
NilValue == Leaf("NIL")

LEMMA StepConstruct ==
  ASSUME NEW v \in Vars, NEW type \in {"NIL", "INTEGER_32", "STRING"},
         Held[v] = Gone, Held' = [Held EXCEPT ![v] = Leaf(type)]
  PROVE  Semantics!SNext
  <1>1. Semantics!SConstruct(v)
    BY SameTrees DEF Semantics!SConstruct, Semantics!Put, Semantics!Gone, Gone
  <1>2. QED
    BY <1>1 DEF Semantics!SNext

LEMMA StepCopy ==
  ASSUME NEW v \in Vars, NEW w \in Vars, NEW x \in Inside(Held[w]),
         Held[v] = Gone, Held[w] # Gone, Held' = [Held EXCEPT ![v] = x]
  PROVE  Semantics!SNext
  <1>1. x \in Semantics!Inside(Held[w])
    BY SameTrees
  <1>2. Held[v] = Semantics!Gone /\ Held[w] # Semantics!Gone
    BY SameTrees DEF Semantics!Gone, Gone
  <1>3. Semantics!SCopy(v)
    BY <1>1, <1>2 DEF Semantics!SCopy, Semantics!Put
  <1>4. QED
    BY <1>3 DEF Semantics!SNext

LEMMA StepMove ==
  ASSUME NEW v \in Vars, NEW w \in Vars, Held[v] \in {Gone, NilValue}, Held[w] # Gone,
         Held' = [Held EXCEPT ![v] = Held[w], ![w] = NilValue]
  PROVE  Semantics!SNext
  <1>1. Semantics!Gone = Gone /\ Semantics!NilValue = NilValue
    BY SameTrees DEF Semantics!Gone, Gone, Semantics!NilValue, NilValue
  <1>2. Semantics!SMove(v, w)
    BY <1>1 DEF Semantics!SMove
  <1>3. QED
    BY <1>2 DEF Semantics!SNext

LEMMA StepReset ==
  ASSUME NEW v \in Vars, NEW x \in {Gone, NilValue}, Held[v] # Gone,
         Held' = [Held EXCEPT ![v] = x]
  PROVE  Semantics!SNext
  <1>1. Semantics!Gone = Gone /\ Semantics!NilValue = NilValue
    BY SameTrees DEF Semantics!Gone, Gone, Semantics!NilValue, NilValue
  <1>2. Semantics!SReset(v)
    BY <1>1 DEF Semantics!SReset, Semantics!Put
  <1>3. QED
    BY <1>2 DEF Semantics!SNext

\* What is left when the variables of a list have been moved.
MovedFrom(list) == [w \in Vars |-> IF w \in ToSet(list) THEN NilValue ELSE Held[w]]

LEMMA StepArray ==
  ASSUME NEW v \in Vars, NEW list \in Lists, Held[v] = Gone,
         \A i \in DOMAIN list : list[i] # v /\ Held[list[i]] # Gone,
         \/ Held' = MovedFrom(list)
         \/ Held' = [MovedFrom(list) EXCEPT ![v] = ArrayOf([i \in DOMAIN list |-> Held[list[i]]])]
  PROVE  Semantics!SNext
  <1>1. Semantics!Gone = Gone /\ Semantics!NilValue = NilValue
    BY SameTrees DEF Semantics!Gone, Gone, Semantics!NilValue, NilValue
  <1>2. MovedFrom(list) =
          [w \in Vars |-> IF w \in Semantics!ToSet(list) THEN Semantics!NilValue ELSE Held[w]]
    BY <1>1, SameTrees DEF MovedFrom
  <1>3. Semantics!SArray(v, list)
    BY <1>1, <1>2, SameTrees DEF Semantics!SArray
  <1>4. list \in {s \in Semantics!SeqOf(Vars, MaxElements) : Semantics!IsInjective(s)}
    BY SameLists
  <1>5. QED
    BY <1>3, <1>4 DEF Semantics!SNext

-----------------------------------------------------------------------------
(***************************************************************************)
(* Every step is one of ValueSemantics or none: those that change no cell, *)
(* ...                                                                     *)
(***************************************************************************)

Simulated == Semantics!SNext \/ Held' = Held

\* What the variables hold, and the types that the steps need.
LEMMA HeldFacts ==
  ASSUME Inv, Shape
  PROVE  /\ var \in [Vars -> Values \cup {Dead}] /\ cell \in [Cells -> Seq(Values)]
         /\ TypeOK /\ ContentsInv /\ Contents \in [Cells -> SUBSET Nodes]
         /\ Held \in [Vars -> SUBSET Nodes]
         /\ \A v \in Vars : /\ Held[v] = Meaning(var[v]) /\ (Held[v] = Gone <=> var[v] = Dead)
         /\ Meaning(Nil) = NilValue /\ Meaning(Dead) = Gone
         /\ Meaning(Integer) = Leaf("INTEGER_32")
  <1>1. /\ var \in [Vars -> Values \cup {Dead}] /\ cell \in [Cells -> Seq(Values)]
        /\ TypeOK /\ ContentsInv /\ Contents \in [Cells -> SUBSET Nodes]
    BY DEF Inv, TypeOK, Shape, ContentsInv
  <1>2. \A v \in Vars : Held[v] = Meaning(var[v])
    BY DEF Held
  <1>3. ASSUME NEW v \in Vars
        PROVE  Held[v] \in SUBSET Nodes /\ (Held[v] = Gone <=> var[v] = Dead)
    <2>1. var[v] \in Values \cup {Dead} /\ Held[v] = Holding(var[v], Contents)
      BY <1>1, <1>2 DEF Meaning
    <2>2. QED
      BY <1>1, <2>1, HoldingType, Roots DEF Gone
  <1>4. Held = [v \in Vars |-> Held[v]]
    BY DEF Held
  <1>5. /\ Meaning(Nil) = NilValue /\ Meaning(Dead) = Gone
        /\ Meaning(Integer) = Leaf("INTEGER_32")
    BY <1>1, Roots DEF Meaning, NilValue, Gone
  <1>6. Held \in [Vars -> SUBSET Nodes]
    BY <1>3, <1>4
  <1>7. QED
    BY <1>1, <1>2, <1>3, <1>5, <1>6

\* One variable gets another value, ...
LEMMA HeldPut ==
  ASSUME Inv, Shape, NEW v \in Vars, NEW x, NEW y, var' = [var EXCEPT ![v] = x],
         y = Holding(x, Contents'),
         \A w \in Vars \ {v} : Holding(var[w], Contents') = Meaning(var[w])
  PROVE  Held' = [Held EXCEPT ![v] = y]
  <1>1. var \in [Vars -> Values \cup {Dead}]
    BY HeldFacts
  <1>2. Held' = [w \in Vars |-> Holding(var'[w], Contents')]
    BY DEF Held, Meaning
  <1>3. ASSUME NEW w \in Vars
        PROVE  Holding(var'[w], Contents') = IF w = v THEN y ELSE Held[w]
    <2>1. CASE w = v
      BY <1>1, <2>1
    <2>2. CASE w # v
      BY <1>1, <2>2 DEF Held
    <2>3. QED
      BY <2>1, <2>2
  <1>4. Held = [w \in Vars |-> Held[w]]
    BY DEF Held
  <1>5. QED
    BY <1>2, <1>3, <1>4

\* ... or none does.
LEMMA HeldStays ==
  ASSUME Inv, Shape, var' = var, \A w \in Vars : Holding(var[w], Contents') = Meaning(var[w])
  PROVE  Held' = Held
  BY DEF Held, Meaning

LEMMA NotCopying ==
  ASSUME frames' = << >>, source' # None => var'[target'] = Nil /\ var'[source'] # Dead
  PROVE  Copying'
  BY DEF Copying

\* Steps that change no cell.
LEMMA ConstructSmallSim ==
  ASSUME SInv, NEW v \in Vars, ConstructSmall(v)
  PROVE  Shape' /\ Copying' /\ Simulated
  <1>1. /\ Inv /\ Shape /\ frames = << >> /\ source = None /\ var[v] = Dead
        /\ UNCHANGED <<live, cell, frames, target, doomed, source>>
    BY DEF SInv, ConstructSmall, Idle
  <1>2. PICK small \in {Nil, Integer} : var' = [var EXCEPT ![v] = small]
    BY DEF ConstructSmall
  <1>3. Shape' /\ Contents' = Contents
    BY <1>1, SameCells
  <1>4. Copying'
    BY <1>1, NotCopying
  <1>5. PICK type \in {"NIL", "INTEGER_32", "STRING"} : Meaning(small) = Leaf(type)
    BY <1>1, HeldFacts DEF NilValue
  <1>6. Leaf(type) = Holding(small, Contents')
    BY <1>3, <1>5 DEF Meaning
  <1>7. \A w \in Vars \ {v} : Holding(var[w], Contents') = Meaning(var[w])
    BY <1>3 DEF Meaning
  <1>8. Held' = [Held EXCEPT ![v] = Leaf(type)]
    BY <1>1, <1>2, <1>6, <1>7, HeldPut
  <1>9. Held[v] = Gone
    BY <1>1, HeldFacts
  <1>10. QED
    BY <1>3, <1>4, <1>8, <1>9, StepConstruct DEF Simulated

LEMMA TakeOverSim ==
  ASSUME Inv, Shape, NEW v \in Vars, NEW w \in Vars, v # w, var[v] \in {Dead, Nil}, var[w] # Dead,
         TakeOver(v, w), Contents' = Contents
  PROVE  Semantics!SNext
  <1>1. /\ var \in [Vars -> Values \cup {Dead}]
        /\ var' = [var EXCEPT ![v] = var[w], ![w] = Nil]
    BY HeldFacts DEF TakeOver
  <1>2. Held' = [u \in Vars |-> Meaning(var'[u])]
    BY DEF Held, Meaning
  <1>3. /\ var'[v] = var[w] /\ var'[w] = Nil
        /\ \A u \in Vars \ {v, w} : var'[u] = var[u]
    BY <1>1
  <1>4. /\ Held[v] \in {Gone, NilValue} /\ Held[w] # Gone
        /\ Meaning(Nil) = NilValue
        /\ \A u \in Vars : Held[u] = Meaning(var[u])
    BY HeldFacts
  <1>5. \A u \in Vars : Meaning(var'[u]) = IF u = w THEN NilValue ELSE IF u = v THEN Held[w] ELSE Held[u]
    BY <1>3, <1>4
  <1>6. Held = [u \in Vars |-> Held[u]]
    BY DEF Held
  <1>7. Held' = [Held EXCEPT ![v] = Held[w], ![w] = NilValue]
    BY <1>2, <1>5, <1>6
  <1>8. QED
    BY <1>4, <1>7, StepMove

LEMMA MoveConstructSim ==
  ASSUME SInv, NEW v \in Vars, NEW w \in Vars, MoveConstruct(v, w)
  PROVE  Shape' /\ Copying' /\ Simulated
  <1>1. /\ Inv /\ Shape /\ frames = << >> /\ source = None /\ var[v] = Dead /\ var[w] # Dead
        /\ UNCHANGED <<live, cell, frames, target, doomed, source>> /\ TakeOver(v, w)
    BY DEF SInv, MoveConstruct, Idle
  <1>2. Shape' /\ Contents' = Contents
    BY <1>1, SameCells
  <1>3. Copying'
    BY <1>1, NotCopying
  <1>4. QED
    BY <1>1, <1>2, <1>3, TakeOverSim DEF Simulated

LEMMA MoveAssignDoneSim ==
  ASSUME SInv, MoveAssignDone
  PROVE  Shape' /\ Copying' /\ Simulated
  <1>1. /\ Inv /\ Shape /\ source # None /\ source' = None
        /\ UNCHANGED <<live, cell, frames, doomed>> /\ TakeOver(target, source)
        /\ var[target] = Nil /\ var[source] # Dead
    BY DEF SInv, MoveAssignDone, Copying
  <1>2. /\ frames = << >> /\ target \in Vars /\ source \in Vars /\ source # target
    BY <1>1 DEF Inv, TypeOK, TargetEmpty
  <1>3. Shape' /\ Contents' = Contents
    BY <1>1, SameCells
  <1>4. Copying'
    BY <1>1, <1>2, NotCopying
  <1>5. QED
    BY <1>1, <1>2, <1>3, <1>4, TakeOverSim DEF Simulated

LEMMA ResetSim ==
  ASSUME SInv, Idle, NEW v \in Vars, NEW after \in {Nil, Dead}, var[v] # Dead, Reset(v, after),
         UNCHANGED <<live, cell, frames>>,
         source' # None => target' = v /\ source' \in Vars /\ source' # v /\ after = Nil
                           /\ var[source'] # Dead
  PROVE  Shape' /\ Copying' /\ Simulated
  <1>1. /\ Inv /\ Shape /\ frames = << >> /\ var' = [var EXCEPT ![v] = after]
    BY DEF SInv, Idle, Reset
  <1>2. Shape' /\ Contents' = Contents
    BY <1>1, SameCells
  <1>3. var \in [Vars -> Values \cup {Dead}]
    BY <1>1, HeldFacts
  <1>4. Copying'
    BY <1>1, <1>3, NotCopying
  <1>5. /\ Meaning(after) \in {Gone, NilValue} /\ Held[v] # Gone
        /\ Meaning(after) = Holding(after, Contents')
        /\ \A w \in Vars \ {v} : Holding(var[w], Contents') = Meaning(var[w])
    BY <1>1, <1>2, HeldFacts DEF Meaning
  <1>6. Held' = [Held EXCEPT ![v] = Meaning(after)]
    BY <1>1, <1>5, HeldPut
  <1>7. QED
    BY <1>2, <1>4, <1>5, <1>6, StepReset DEF Simulated

LEMMA MoveAssignSim ==
  ASSUME SInv, NEW v \in Vars, NEW w \in Vars, MoveAssign(v, w) \/ Destroy(v)
  PROVE  Shape' /\ Copying' /\ Simulated
  <1>1. CASE MoveAssign(v, w)
    <2>1. /\ Idle /\ v # w /\ var[v] # Dead /\ var[w] # Dead /\ Reset(v, Nil)
          /\ target' = v /\ source' = w /\ UNCHANGED <<live, cell, frames>>
      BY <1>1 DEF MoveAssign
    <2>2. QED
      BY <2>1, ResetSim
  <1>2. CASE Destroy(v)
    <2>1. /\ Idle /\ var[v] # Dead /\ Reset(v, Dead) /\ source' = None
          /\ UNCHANGED <<live, cell, frames>>
      BY <1>2 DEF Destroy, Idle
    <2>2. QED
      BY <2>1, ResetSim
  <1>3. QED
    BY <1>1, <1>2

LEMMA CopyFailsSim ==
  ASSUME SInv, CopyFails
  PROVE  Shape' /\ Copying' /\ Simulated
  <1>1. /\ Inv /\ Shape /\ frames # << >> /\ frames' = << >>
        /\ UNCHANGED <<var, live, cell, source>>
    BY DEF SInv, CopyFails
  <1>2. source = None
    BY <1>1 DEF Inv, TypeOK
  <1>3. Shape' /\ Contents' = Contents
    BY <1>1, SameCells
  <1>4. Copying'
    BY <1>1, <1>2, NotCopying
  <1>5. Held' = Held
    BY <1>1, <1>3, HeldStays DEF Meaning
  <1>6. QED
    BY <1>3, <1>4, <1>5 DEF Simulated

LEMMA StutterSim ==
  ASSUME SInv, UNCHANGED vars
  PROVE  Shape' /\ Copying' /\ Simulated
  <1>1. /\ Inv /\ Shape /\ Copying /\ UNCHANGED <<var, live, cell, frames, target, source>>
    BY DEF SInv, vars
  <1>2. Shape' /\ Contents' = Contents
    BY <1>1, SameCells
  <1>3. Held' = Held
    BY <1>1, <1>2, HeldStays DEF Meaning
  <1>4. Copying'
    BY <1>1, <1>2 DEF Copying, Seen, Meaning
  <1>5. QED
    BY <1>2, <1>3, <1>4 DEF Simulated

-----------------------------------------------------------------------------
(***************************************************************************)
(* ... constructors, ...                                                   *)
(***************************************************************************)

\* A new cell changes nothing that anything holds, ...
LEMMA NewKeeps ==
  ASSUME Inv, Shape, NEW c0 \in Cells, NEW e \in Seq(Values), New(c0, e),
         \A i \in DOMAIN e : ~Holds(e[i], c0), Ranked'
  PROVE  /\ Shape'
         /\ Contents'[c0] = Below([i \in DOMAIN e |-> Meaning(e[i])])
         /\ \A d \in Cells \ {c0} : Contents'[d] = Contents[d]
         /\ \A x \in Values \cup {Dead} : ~Holds(x, c0) => Holding(x, Contents') = Meaning(x)
         /\ \A w \in Vars : Holding(var[w], Contents') = Meaning(var[w])
  <1>1. TypeOK /\ var \in [Vars -> Values \cup {Dead}]
    BY DEF Inv, TypeOK
  <1>2. /\ cell' = [cell EXCEPT ![c0] = e] /\ live' = live \cup {c0}
    BY DEF New
  <1>3. /\ \A w : ~VarHolds(w, c0)
        /\ \A d, i : ~ElementHolds(d, i, c0)
    BY NewCell
  <1>4. \A d \in Cells : \A i \in DOMAIN cell[d] : ~Holds(cell[d][i], c0)
    BY <1>1, <1>3, Unheld
  <1>5. /\ Shape'
        /\ Contents'[c0] = Below([i \in DOMAIN e |-> Meaning(e[i])])
        /\ \A d \in Cells \ {c0} : Contents'[d] = Contents[d]
        /\ \A x \in Values \cup {Dead} : ~Holds(x, c0) => Holding(x, Contents') = Meaning(x)
    <2>1. live \subseteq live' \cup {c0} /\ c0 \in live'
      BY <1>2
    <2>2. QED
      BY <1>1, <1>2, <1>4, <2>1, OneCellChanges
  <1>6. ASSUME NEW w \in Vars PROVE Holding(var[w], Contents') = Meaning(var[w])
    <2>1. var[w] \in Values \cup {Dead} /\ ~Holds(var[w], c0)
      BY <1>1, <1>3 DEF VarHolds
    <2>2. QED
      BY <1>5, <2>1
  <1>7. QED
    BY <1>5, <1>6

\* ... and a rank above all others is one for it.
LEMMA NewRanked ==
  ASSUME Inv, Shape, NEW c0 \in Cells, NEW e \in Seq(Values), New(c0, e),
         \A i \in DOMAIN e : ~Holds(e[i], c0), frames' = << >>
  PROVE  Ranked'
  <1>1. TypeOK /\ cell \in [Cells -> Seq(Values)] /\ cell' = [cell EXCEPT ![c0] = e]
    BY DEF Inv, TypeOK, New
  <1>2. \A d \in Cells : \A i \in DOMAIN cell[d] : ~Holds(cell[d][i], c0)
    <2>1. \A d, i : ~ElementHolds(d, i, c0)
      BY NewCell
    <2>2. QED
      BY <1>1, <2>1, Unheld
  <1>3. PICK n \in Nat : \E rank : IsRank(cell, rank, n)
    BY DEF Shape, Ranked
  <1>4. PICK rank : IsRank(cell, rank, n)
    BY <1>3
  <1> DEFINE m == n + 1
             rank2 == [rank EXCEPT ![c0] = m]
  <1>5. m \in Nat /\ n <= m /\ m \in 0..m
    OBVIOUS
  <1>6. \A i \in DOMAIN e : \A d \in Cells : Holds(e[i], d) => rank[d] < m
    <2>1. ASSUME NEW d \in Cells PROVE rank[d] < m
      <3>1. rank[d] \in 0..n
        BY <1>4 DEF IsRank
      <3>2. QED
        BY <3>1
    <2>2. QED
      BY <2>1
  <1> HIDE DEF m
  <1>7. IsRank([cell EXCEPT ![c0] = e], rank2, m)
    BY <1>1, <1>2, <1>4, <1>5, <1>6, RankChange
  <1>8. IsRank(cell', rank2, m)
    BY <1>1, <1>7
  <1>9. \A i \in DOMAIN frames' : FALSE
    OBVIOUS
  <1> HIDE DEF rank2
  <1>10. QED
    BY <1>5, <1>8, <1>9 DEF Ranked

\* Constructors.
LEMMA ConstructStringSim ==
  ASSUME SInv, NEW v \in Vars, ConstructString(v)
  PROVE  Shape' /\ Copying' /\ Simulated
  <1>1. /\ Inv /\ Shape /\ frames = << >> /\ source = None /\ var[v] = Dead
        /\ UNCHANGED <<frames, target, doomed, source>>
    BY DEF SInv, ConstructString, Idle
  <1>2. PICK c0 \in Cells : New(c0, << >>) /\ var' = [var EXCEPT ![v] = Boxed("STRING", c0)]
    BY DEF ConstructString
  <1>3. << >> \in Seq(Values) /\ DOMAIN << >> = {}
    OBVIOUS
  <1>4. \A i \in DOMAIN << >> : ~Holds(<< >>[i], c0)
    BY <1>3
  <1>5. Ranked'
    BY <1>1, <1>2, <1>3, <1>4, NewRanked
  <1>6. /\ Shape'
        /\ Contents'[c0] = Below([i \in DOMAIN << >> |-> Meaning(<< >>[i])])
        /\ \A w \in Vars : Holding(var[w], Contents') = Meaning(var[w])
    BY <1>1, <1>2, <1>3, <1>4, <1>5, NewKeeps
  <1>7. Contents'[c0] = {}
    BY <1>6 DEF Below
  <1>8. Leaf("STRING") = Holding(Boxed("STRING", c0), Contents')
    BY <1>7 DEF Holding, Boxed, LargeTypes
  <1>9. Held' = [Held EXCEPT ![v] = Leaf("STRING")]
    BY <1>1, <1>2, <1>6, <1>8, HeldPut
  <1>10. Held[v] = Gone
    BY <1>1, HeldFacts
  <1>11. Copying'
    BY <1>1, NotCopying
  <1>12. QED
    BY <1>6, <1>9, <1>10, <1>11, StepConstruct DEF Simulated

LEMMA ConstructArraySim ==
  ASSUME SInv, NEW v \in Vars, NEW list \in Lists, ConstructArray(v, list)
  PROVE  Shape' /\ Copying' /\ Simulated
  <1> DEFINE moved == [w \in Vars |-> IF w \in ToSet(list) THEN Nil ELSE var[w]]
             elements == [i \in DOMAIN list |-> var[list[i]]]
             array == ArrayOf([i \in DOMAIN list |-> Held[list[i]]])
  <1>1. /\ Inv /\ Shape /\ frames = << >> /\ source = None /\ var[v] = Dead
        /\ UNCHANGED <<frames, target, source>>
        /\ \A i \in DOMAIN list : list[i] # v /\ var[list[i]] # Dead
        /\ var \in [Vars -> Values \cup {Dead}]
    BY DEF SInv, ConstructArray, Idle, Inv, TypeOK
  <1>2. PICK n \in 0..MaxElements : list \in [1..n -> Vars]
    BY DEF Lists, SeqOf
  <1>3. /\ elements \in Seq(Values) /\ DOMAIN elements = DOMAIN list
        /\ \A i \in DOMAIN list : elements[i] = var[list[i]] /\ list[i] \in Vars
    <2>1. n \in Nat
      BY ElementsAssumption
    <2>2. QED
      BY <1>1, <1>2, <2>1
  <1>4. /\ \A w \in Vars : moved[w] = IF w \in ToSet(list) THEN Nil ELSE var[w]
        /\ moved = [w \in Vars |-> moved[w]]
        /\ v \notin ToSet(list) /\ moved[v] = Dead
    BY <1>1 DEF ToSet
  <1>5. /\ \A w \in Vars : Held[w] = Meaning(var[w])
        /\ Held[v] = Gone /\ \A i \in DOMAIN list : list[i] # v /\ Held[list[i]] # Gone
        /\ Contents \in [Cells -> SUBSET Nodes]
    BY <1>1, <1>3, HeldFacts
  <1>6. ConstructArray(v, list) =>
          \/ \E c \in Cells :
               /\ New(c, elements)
               /\ var' = [moved EXCEPT ![v] = Boxed("ARRAY", c)]
          \/ var' = moved /\ UNCHANGED <<live, cell>>
    BY DEF ConstructArray
  <1>7. Copying'
    BY <1>1, NotCopying
  <1>8. [i \in DOMAIN elements |-> Meaning(elements[i])] = [i \in DOMAIN list |-> Held[list[i]]]
    BY <1>3, <1>5
  <1>9. ASSUME NEW f, Holding(Nil, f) = NilValue,
               \A w \in Vars : Holding(var[w], f) = Meaning(var[w])
        PROVE  MovedFrom(list) = [w \in Vars |-> Holding(moved[w], f)]
    BY <1>4, <1>5, <1>9 DEF MovedFrom
  <1> HIDE DEF moved, elements
  <1>10. ASSUME NEW c0 \in Cells, New(c0, elements), var' = [moved EXCEPT ![v] = Boxed("ARRAY", c0)]
         PROVE  Shape' /\ Simulated
    <2>1. \A i \in DOMAIN elements : ~Holds(elements[i], c0)
      <3>1. \A w : ~VarHolds(w, c0)
        BY <1>1, <1>3, <1>10, NewCell
      <3>2. QED
        BY <1>3, <3>1 DEF VarHolds
    <2>2. Ranked'
      BY <1>1, <1>3, <1>10, <2>1, NewRanked
    <2>3. /\ Shape'
          /\ Contents'[c0] = Below([i \in DOMAIN elements |-> Meaning(elements[i])])
          /\ \A w \in Vars : Holding(var[w], Contents') = Meaning(var[w])
      BY <1>1, <1>3, <1>10, <2>1, <2>2, NewKeeps
    <2>4. array = Holding(Boxed("ARRAY", c0), Contents')
      <3>1. Contents'[c0] = Below([i \in DOMAIN list |-> Held[list[i]]])
        BY <1>8, <2>3
      <3>2. QED
        BY <3>1 DEF Holding, Boxed, LargeTypes, ArrayOf
    <2>5. Holding(Nil, Contents') = NilValue
      <3>1. Contents' \in [Cells -> SUBSET Nodes]
        BY <2>3 DEF Shape, ContentsInv
      <3>2. QED
        BY <3>1, Roots DEF NilValue
    <2>6. MovedFrom(list) = [w \in Vars |-> Holding(moved[w], Contents')]
      BY <1>9, <2>3, <2>5
    <2> HIDE DEF array
    <2>7. Held' = [MovedFrom(list) EXCEPT ![v] = array]
      <3>1. Held' = [w \in Vars |-> Holding(var'[w], Contents')]
        BY DEF Held, Meaning
      <3>2. var'[v] = Boxed("ARRAY", c0) /\ \A w \in Vars \ {v} : var'[w] = moved[w]
        BY <1>4, <1>10
      <3>3. \A w \in Vars : Holding(var'[w], Contents') =
              IF w = v THEN array ELSE Holding(moved[w], Contents')
        BY <2>4, <3>2
      <3>4. QED
        BY <2>6, <3>1, <3>3
    <2>8. Semantics!SNext
      BY <1>5, <2>7, StepArray DEF array
    <2>9. QED
      BY <2>3, <2>8 DEF Simulated
  <1>11. ASSUME var' = moved, UNCHANGED <<live, cell>>
         PROVE  Shape' /\ Simulated
    <2>1. Shape' /\ Contents' = Contents
      BY <1>1, <1>11, SameCells
    <2>2. Holding(Nil, Contents) = NilValue
      BY <1>5, Roots DEF NilValue
    <2>3. MovedFrom(list) = [w \in Vars |-> Holding(moved[w], Contents)]
      BY <1>9, <2>2 DEF Meaning
    <2>4. Held' = [w \in Vars |-> Holding(moved[w], Contents)]
      BY <1>11, <2>1 DEF Held, Meaning
    <2>5. Semantics!SNext
      BY <1>5, <2>3, <2>4, StepArray
    <2>6. QED
      BY <2>1, <2>5 DEF Simulated
  <1>12. QED
    BY <1>6, <1>7, <1>10, <1>11

-----------------------------------------------------------------------------
(***************************************************************************)
(* ... copies and deletions.                                               *)
(***************************************************************************)

\* Copies.
LEMMA LargeBoxed ==
  ASSUME NEW x \in Values, x.type \in LargeTypes
  PROVE  x = Boxed(x.type, x.as)
  BY DEF Values, Nil, Integer, Boxed, LargeTypes

\* What is seen stays so when what it holds and what the variables hold does.
LEMMA SeenKept ==
  ASSUME NEW x, Seen(x), Holding(x, Contents') = Meaning(x), var' = var,
         \A w \in Vars : Holding(var[w], Contents') = Meaning(var[w])
  PROVE  \E w \in Vars : var'[w] # Dead /\ Holding(x, Contents') \in Inside(Holding(var'[w], Contents'))
  BY DEF Seen

\* A frame copies cells that are allocated; nothing is in the cell it fills.
LEMMA FrameCells ==
  ASSUME Inv, Shape, NEW i \in DOMAIN frames
  PROVE  /\ frames[i].to \in live /\ frames[i].to \in Cells
         /\ frames[i].from \in live /\ frames[i].from \in Cells
         /\ frames[i].type \in LargeTypes
         /\ \A j \in DOMAIN frames : /\ frames[j].from # frames[i].to
                                     /\ frames[j].to = frames[i].to => j = i
         /\ \A w : ~VarHolds(w, frames[i].to)
         /\ \A d \in Cells : \A j \in DOMAIN cell[d] : ~Holds(cell[d][j], frames[i].to)
  <1>1. frames # << >> /\ TypeOK /\ live \subseteq Cells
    BY DEF Inv, TypeOK
  <1>2. /\ frames[i] \in [type : LargeTypes, from : Cells, to : Cells]
        /\ frames[i].to \in live /\ frames[i].from \in live
    BY <1>1, TopFacts
  <1>3. \A j \in DOMAIN frames : FrameHolds(j, frames[j].to)
    BY DEF FrameHolds
  <1>4. /\ \A w : ~VarHolds(w, frames[i].to)
        /\ \A d, j : ~ElementHolds(d, j, frames[i].to)
        /\ \A j \in DOMAIN frames : frames[j].to = frames[i].to => j = i
    BY <1>3 DEF Inv, Owners, HeldOnce
  <1>5. \A j \in DOMAIN frames : frames[j].from # frames[i].to
    BY DEF Inv, Lengths
  <1>6. \A d \in Cells : \A j \in DOMAIN cell[d] : ~Holds(cell[d][j], frames[i].to)
    BY <1>1, <1>4, Unheld
  <1>7. QED
    BY <1>1, <1>2, <1>4, <1>5, <1>6

LEMMA CopyNoLonger ==
  ASSUME Inv, NEW i \in DOMAIN frames, NEW j \in DOMAIN cell[frames[i].to]
  PROVE  j \in DOMAIN cell[frames[i].from]
  <1>1. frames[i].to \in Cells /\ frames[i].from \in Cells /\ cell \in [Cells -> Seq(Values)]
    <2>1. frames # << >> /\ TypeOK /\ live \subseteq Cells
      BY DEF Inv, TypeOK
    <2>2. QED
      BY <2>1, TopFacts DEF TypeOK
  <1>2. /\ Len(cell[frames[i].to]) \in Nat /\ DOMAIN cell[frames[i].to] = 1..Len(cell[frames[i].to])
        /\ Len(cell[frames[i].from]) \in Nat
        /\ DOMAIN cell[frames[i].from] = 1..Len(cell[frames[i].from])
    BY <1>1
  <1>3. Len(cell[frames[i].to]) <= Len(cell[frames[i].from])
    BY DEF Inv, Lengths
  <1>4. QED
    BY <1>2, <1>3

\* A rank stays one when a new cell gets that of another.
RankLike(rank, c0, a) == [rank EXCEPT ![c0] = rank[a]]

LEMMA CopyRanked ==
  ASSUME Inv, Shape, NEW c0 \in Cells, New(c0, << >>), NEW a \in live,
         NEW n \in Nat, NEW rank, IsRank(cell, rank, n)
  PROVE  /\ IsRank(cell', RankLike(rank, c0, a), n)
         /\ RankLike(rank, c0, a)[c0] = RankLike(rank, c0, a)[a]
         /\ \A d \in live : RankLike(rank, c0, a)[d] = rank[d]
  <1>1. TypeOK /\ cell \in [Cells -> Seq(Values)] /\ cell' = [cell EXCEPT ![c0] = << >>]
        /\ live \subseteq Cells /\ c0 \notin live
    BY DEF Inv, TypeOK, New
  <1>2. << >> \in Seq(Values) /\ \A i \in DOMAIN << >> : FALSE
    OBVIOUS
  <1>3. \A d \in Cells : \A i \in DOMAIN cell[d] : ~Holds(cell[d][i], c0)
    <2>1. \A d, i : ~ElementHolds(d, i, c0)
      BY <1>2, NewCell
    <2>2. QED
      BY <1>1, <2>1, Unheld
  <1>4. rank \in [Cells -> 0..n] /\ rank[a] \in 0..n /\ n <= n
    BY <1>1 DEF IsRank
  <1>5. IsRank([cell EXCEPT ![c0] = << >>], [rank EXCEPT ![c0] = rank[a]], n)
    BY <1>1, <1>2, <1>3, <1>4, RankChange
  <1>6. RankLike(rank, c0, a)[c0] = rank[a] /\ \A d \in live : RankLike(rank, c0, a)[d] = rank[d]
    BY <1>1, <1>4 DEF RankLike
  <1>7. IsRank(cell', RankLike(rank, c0, a), n)
    BY <1>1, <1>5 DEF RankLike
  <1>8. QED
    BY <1>6, <1>7

LEMMA CopySim ==
  ASSUME SInv, NEW v \in Vars, NEW x \in Reachable, Copy(v, x)
  PROVE  Shape' /\ Copying' /\ Simulated
  <1>1. /\ Inv /\ Shape /\ Idle /\ frames = << >> /\ source = None /\ var[v] = Dead
        /\ UNCHANGED <<doomed, source>>
    BY DEF SInv, Copy, Idle
  <1>2. x \in Values /\ (x.type \in LargeTypes => x.as \in live) /\ Seen(x)
    BY <1>1, ReachableOwns, ReachableSeen
  <1>3. CASE /\ x.type \notin LargeTypes
             /\ var' = [var EXCEPT ![v] = x]
             /\ UNCHANGED <<live, cell, frames, target>>
    <2>1. Shape' /\ Contents' = Contents
      BY <1>1, <1>3, SameCells
    <2>2. Copying'
      BY <1>1, <1>3, NotCopying
    <2>3. x \in {Nil, Integer}
      BY <1>2, <1>3 DEF Values, Boxed
    <2>4. PICK type \in {"NIL", "INTEGER_32", "STRING"} : Meaning(x) = Leaf(type)
      BY <1>1, <2>3, HeldFacts DEF NilValue
    <2>5. Leaf(type) = Holding(x, Contents')
      BY <2>1, <2>4 DEF Meaning
    <2>6. \A w \in Vars \ {v} : Holding(var[w], Contents') = Meaning(var[w])
      BY <2>1 DEF Meaning
    <2>7. Held' = [Held EXCEPT ![v] = Leaf(type)]
      BY <1>1, <1>3, <2>5, <2>6, HeldPut
    <2>8. Held[v] = Gone
      BY <1>1, HeldFacts
    <2>9. QED
      BY <2>1, <2>2, <2>7, <2>8, StepConstruct DEF Simulated
  <1>4. ASSUME x.type \in LargeTypes, NEW c0 \in Cells, New(c0, << >>),
               frames' = <<Frame(x, c0)>>, target' = v, UNCHANGED var
        PROVE  Shape' /\ Copying' /\ Simulated
    <2>1. /\ DOMAIN frames' = {1} /\ Len(frames') = 1
          /\ frames'[1].type = x.type /\ frames'[1].from = x.as /\ frames'[1].to = c0
      BY <1>4 DEF Frame
    <2>2. << >> \in Seq(Values) /\ \A i \in DOMAIN << >> : FALSE
      OBVIOUS
    <2>3. /\ c0 \notin live /\ cell'[c0] = << >> /\ x.as \in live
      BY <1>1, <1>2, <1>4, <2>2, NewCell
    <2>4. Ranked'
      <3>1. PICK n \in Nat : \E rank : IsRank(cell, rank, n)
        BY <1>1 DEF Shape, Ranked
      <3>2. PICK rank : IsRank(cell, rank, n)
        BY <3>1
      <3> DEFINE rank2 == RankLike(rank, c0, x.as)
      <3>3. IsRank(cell', rank2, n) /\ rank2[c0] = rank2[x.as]
        BY <1>1, <1>4, <2>3, <3>2, CopyRanked
      <3> HIDE DEF rank2
      <3>4. QED
        BY <2>1, <3>3 DEF Ranked
    <2>5. /\ Shape'
          /\ \A y \in Values \cup {Dead} : ~Holds(y, c0) => Holding(y, Contents') = Meaning(y)
          /\ \A w \in Vars : Holding(var[w], Contents') = Meaning(var[w])
      BY <1>1, <1>4, <2>2, <2>4, NewKeeps
    <2>6. Held' = Held
      BY <1>1, <1>4, <2>5, HeldStays
    <2>7. Holding(x, Contents') = Meaning(x)
      BY <1>2, <2>3, <2>5 DEF Holds
    <2>8. \E w \in Vars : var'[w] # Dead /\ Holding(x, Contents') \in Inside(Holding(var'[w], Contents'))
      BY <1>2, <1>4, <2>5, <2>7, SeenKept
    <2>9. Boxed(frames'[1].type, frames'[1].from) = x
      BY <1>2, <1>4, <2>1, LargeBoxed
    <2>10. var'[target'] = Dead /\ source' = None
      BY <1>1, <1>4
    <2>11. Copying'
      BY <2>1, <2>3, <2>8, <2>9, <2>10 DEF Copying, Seen, Meaning
    <2>12. QED
      BY <2>5, <2>6, <2>11 DEF Simulated
  <1>5. QED
    BY <1>3, <1>4 DEF Copy

LEMMA LargeElementSim ==
  ASSUME SInv, frames # << >>, ~TopDone, NextElement.type \in LargeTypes, NEW c0 \in Cells,
         New(c0, << >>), frames' = Append(frames, Frame(NextElement, c0)),
         UNCHANGED <<var, target, source>>
  PROVE  Shape' /\ Copying' /\ Simulated
  <1> DEFINE n == Len(frames)
             x == NextElement
             T == [type : LargeTypes, from : Cells, to : Cells]
  <1>1. /\ Inv /\ Shape /\ Copying
        /\ n \in Nat /\ n >= 1 /\ DOMAIN frames = 1..n /\ Top = frames[n] /\ source = None
    BY TopFacts DEF SInv
  <1>2. x \in Values /\ x.as \in live /\ Boxed(x.type, x.as) = x
    BY <1>1, NextFacts, LargeBoxed
  <1>3. << >> \in Seq(Values) /\ \A i \in DOMAIN << >> : FALSE
    OBVIOUS
  <1>4. /\ c0 \notin live /\ cell'[c0] = << >> /\ \A d \in live : cell'[d] = cell[d]
        /\ \A d, i : ~ElementHolds(d, i, c0)
        /\ live \subseteq Cells /\ TypeOK
    <2>1. /\ c0 \notin live /\ cell'[c0] = << >> /\ \A d \in Cells \ {c0} : cell'[d] = cell[d]
          /\ \A d, i : ~ElementHolds(d, i, c0)
      BY <1>1, <1>3, NewCell
    <2>2. live \subseteq Cells /\ TypeOK
      BY <1>1 DEF Inv, TypeOK
    <2>3. QED
      BY <2>1, <2>2
  <1>5. /\ Len(frames') = n + 1 /\ DOMAIN frames' = 1..(n + 1)
        /\ \A i \in 1..n : frames'[i] = frames[i]
        /\ frames'[n + 1].type = x.type /\ frames'[n + 1].from = x.as /\ frames'[n + 1].to = c0
    <2> DEFINE f == Frame(x, c0)
    <2>1. f.type = x.type /\ f.from = x.as /\ f.to = c0 /\ f \in T
      BY <1>2, <1>4 DEF Frame
    <2>2. frames \in Seq(T)
      BY <1>4 DEF TypeOK
    <2> HIDE DEF f, T
    <2>3. frames' = Append(frames, f)
      BY DEF f
    <2>4. QED
      BY <2>1, <2>2, <2>3
  <1> HIDE DEF n
  <1>6. Ranked'
    <2>1. PICK m \in Nat : \E rank : /\ IsRank(cell, rank, m)
                                     /\ \A i \in DOMAIN frames : rank[frames[i].to] = rank[frames[i].from]
      BY <1>1 DEF Shape, Ranked
    <2>2. PICK rank : /\ IsRank(cell, rank, m)
                      /\ \A i \in DOMAIN frames : rank[frames[i].to] = rank[frames[i].from]
      BY <2>1
    <2> DEFINE rank2 == RankLike(rank, c0, x.as)
    <2>3. IsRank(cell', rank2, m) /\ rank2[c0] = rank2[x.as] /\ \A d \in live : rank2[d] = rank[d]
      BY <1>1, <1>2, <2>2, CopyRanked
    <2> HIDE DEF rank2
    <2>4. ASSUME NEW i \in DOMAIN frames' PROVE rank2[frames'[i].to] = rank2[frames'[i].from]
      <3>1. CASE i = n + 1
        BY <1>5, <2>3, <3>1
      <3>2. CASE i \in 1..n
        BY <1>1, <1>5, <2>2, <2>3, <3>2, FrameCells
      <3>3. QED
        BY <1>1, <1>5, <3>1, <3>2
    <2>5. QED
      BY <2>3, <2>4 DEF Ranked
  <1>7. /\ Shape'
        /\ \A y \in Values \cup {Dead} : ~Holds(y, c0) => Holding(y, Contents') = Meaning(y)
        /\ \A w \in Vars : Holding(var[w], Contents') = Meaning(var[w])
    BY <1>1, <1>3, <1>6, NewKeeps
  <1>8. ASSUME NEW d \in Cells, NEW j \in DOMAIN cell[d]
        PROVE  Holding(cell[d][j], Contents') = Meaning(cell[d][j])
    <2>1. ~Holds(cell[d][j], c0)
      BY <1>1, <1>4, Unheld
    <2>2. cell[d][j] \in Values
      BY <1>4 DEF TypeOK
    <2>3. QED
      BY <1>7, <2>1, <2>2
  <1>9. Held' = Held
    BY <1>1, <1>7, HeldStays
  <1>10. ASSUME NEW i \in 1..n
         PROVE  /\ i \in DOMAIN frames /\ frames'[i] = frames[i]
                /\ cell'[frames[i].to] = cell[frames[i].to]
                /\ cell'[frames[i].from] = cell[frames[i].from]
                /\ frames[i].to \in Cells /\ frames[i].from \in Cells
    BY <1>1, <1>4, <1>5, FrameCells
  <1>11. /\ var'[target'] = Dead
         /\ \E w \in Vars : var'[w] # Dead /\ Holding(Boxed(frames'[1].type, frames'[1].from), Contents')
                              \in Inside(Holding(var'[w], Contents'))
    <2> DEFINE y == Boxed(frames[1].type, frames[1].from)
    <2>1. /\ 1 \in 1..n /\ frames'[1] = frames[1] /\ var[target] = Dead /\ Seen(y)
      BY <1>1, <1>5 DEF Copying
    <2>2. /\ frames[1].type \in LargeTypes /\ frames[1].from \in live
      BY <1>1, <2>1, FrameCells
    <2>3. y \in Values /\ ~Holds(y, c0)
      BY <1>4, <2>2 DEF Values, Boxed, Holds
    <2>4. Holding(y, Contents') = Meaning(y)
      BY <1>7, <2>3
    <2>5. \E w \in Vars : var'[w] # Dead /\ Holding(y, Contents') \in Inside(Holding(var'[w], Contents'))
      BY <1>7, <2>1, <2>4, SeenKept
    <2>6. QED
      BY <2>1, <2>5
  <1>12. ASSUME NEW i \in DOMAIN frames', NEW j \in DOMAIN cell'[frames'[i].to]
         PROVE  Holding(cell'[frames'[i].to][j], Contents') = Holding(cell'[frames'[i].from][j], Contents')
    <2>1. CASE i = n + 1
      BY <1>3, <1>4, <1>5, <1>12, <2>1
    <2>2. CASE i \in 1..n
      <3>1. j \in DOMAIN cell[frames[i].to]
        BY <1>10, <1>12, <2>2
      <3>2. j \in DOMAIN cell[frames[i].from]
        BY <1>1, <1>4, <1>10, <2>2, <3>1, CopyNoLonger
      <3>3. Meaning(cell[frames[i].to][j]) = Meaning(cell[frames[i].from][j])
        BY <1>1, <1>10, <2>2, <3>1 DEF Copying
      <3>4. QED
        BY <1>8, <1>10, <2>2, <3>1, <3>2, <3>3
    <2>3. QED
      BY <1>1, <1>5, <2>1, <2>2
  <1>13. ASSUME NEW i \in DOMAIN frames', i # Len(frames')
         PROVE  cell'[frames'[i].from][Len(cell'[frames'[i].to]) + 1] =
                  Boxed(frames'[i + 1].type, frames'[i + 1].from)
    <2>1. i \in 1..n
      BY <1>1, <1>5, <1>13
    <2>2. CASE i = n
      <3>1. cell[Top.from][Len(cell[Top.to]) + 1] = Boxed(x.type, x.as)
        BY <1>2 DEF NextElement
      <3>2. QED
        BY <1>1, <1>5, <1>10, <2>1, <2>2, <3>1
    <2>3. CASE i # n
      <3>1. cell[frames[i].from][Len(cell[frames[i].to]) + 1] = Boxed(frames[i + 1].type, frames[i + 1].from)
        BY <1>1, <2>1, <2>3 DEF Copying, n
      <3>2. i + 1 \in 1..n
        BY <1>1, <2>1, <2>3
      <3>3. QED
        BY <1>10, <2>1, <3>1, <3>2
    <2>4. QED
      BY <2>2, <2>3
  <1>14. Copying'
    <2>1. source' = None
      BY <1>1
    <2>2. QED
      BY <1>11, <1>12, <1>13, <2>1 DEF Copying, Seen, Meaning
  <1>15. QED
    BY <1>7, <1>9, <1>14 DEF Simulated

\* An element goes to the innermost of the copies that remain; it holds what the
\* element that is copied holds.
LEMMA AppendSim ==
  ASSUME SInv, NEW k \in DOMAIN frames, DOMAIN frames' = 1..k, Len(frames') = k,
         \A i \in 1..k : frames'[i] = frames[i],
         NEW t, t = frames[k].to, NEW y \in Values, ~Holds(y, t),
         cell' = [cell EXCEPT ![t] = Append(cell[t], y)],
         UNCHANGED <<var, live, target, source>>,
         Len(cell[t]) + 1 \in DOMAIN cell[frames[k].from],
         Meaning(y) = Meaning(cell[frames[k].from][Len(cell[t]) + 1]),
         \A n \in Nat : \A rank :
           /\ IsRank(cell, rank, n)
           /\ \A i \in DOMAIN frames : rank[frames[i].to] = rank[frames[i].from]
           => \A d \in Cells : Holds(y, d) => rank[d] < rank[t]
  PROVE  Shape' /\ Copying' /\ Simulated
  <1> DEFINE e == Append(cell[t], y)
             l == Len(cell[t])
  <1>1. /\ Inv /\ Shape /\ Copying /\ TypeOK /\ cell \in [Cells -> Seq(Values)] /\ frames # << >>
        /\ var \in [Vars -> Values \cup {Dead}]
    BY DEF SInv, Inv, TypeOK
  <1>2. /\ k \in Nat /\ DOMAIN frames = 1..Len(frames) /\ Len(frames) \in Nat /\ k <= Len(frames)
        /\ k >= 1 /\ source = None
    BY <1>1, TopFacts
  <1>3. /\ t \in live /\ t \in Cells
        /\ \A w : ~VarHolds(w, t)
        /\ \A d \in Cells : \A j \in DOMAIN cell[d] : ~Holds(cell[d][j], t)
        /\ \A i \in DOMAIN frames : frames[i].from # t /\ (frames[i].to = t => i = k)
    BY <1>1, FrameCells
  <1>4. /\ e \in Seq(Values) /\ l \in Nat /\ Len(e) = l + 1
        /\ DOMAIN cell[t] = 1..l /\ DOMAIN e = 1..(l + 1)
        /\ \A j \in 1..l : e[j] = cell[t][j]
        /\ e[l + 1] = y
    BY <1>1, <1>3
  <1>5. cell' = [cell EXCEPT ![t] = e] /\ ~Holds(y, t)
    OBVIOUS
  <1> HIDE DEF e
  <1>6. cell'[t] = e /\ \A d \in Cells \ {t} : cell'[d] = cell[d]
    BY <1>1, <1>3, <1>5
  <1>7. \A j \in DOMAIN e : ~Holds(e[j], t)
    <2> SUFFICES ASSUME NEW j \in DOMAIN e PROVE ~Holds(e[j], t)
      OBVIOUS
    <2>1. CASE j \in 1..l
      <3>1. j \in DOMAIN cell[t] /\ e[j] = cell[t][j]
        BY <1>4, <2>1
      <3>2. ~Holds(cell[t][j], t)
        BY ONLY <1>3, <3>1
      <3>3. QED
        BY ONLY <3>1, <3>2
    <2>2. CASE j = l + 1
      BY ONLY <1>4, <1>5, <2>2
    <2>3. j \in 1..l \/ j = l + 1
      BY ONLY <1>4, j \in DOMAIN e
    <2>4. QED
      BY <2>1, <2>2, <2>3
  <1>8. Ranked'
    <2>1. PICK n \in Nat : \E rank : /\ IsRank(cell, rank, n)
                                     /\ \A i \in DOMAIN frames : rank[frames[i].to] = rank[frames[i].from]
      BY <1>1 DEF Shape, Ranked
    <2>2. PICK rank : /\ IsRank(cell, rank, n)
                      /\ \A i \in DOMAIN frames : rank[frames[i].to] = rank[frames[i].from]
      BY <2>1
    <2>3. rank \in [Cells -> 0..n] /\ rank[t] \in 0..n /\ n <= n
      BY <1>3, <2>2 DEF IsRank
    <2>4. \A d \in Cells : Holds(y, d) => rank[d] < rank[t]
      BY <2>2
    <2>5. ASSUME NEW j \in DOMAIN e, NEW d \in Cells, Holds(e[j], d) PROVE rank[d] < rank[t]
      <3>1. CASE j \in 1..l
        BY <1>3, <1>4, <2>2, <2>5, <3>1 DEF IsRank
      <3>2. CASE j = l + 1
        BY <1>4, <2>4, <2>5, <3>2
      <3>3. QED
        BY <1>4, <3>1, <3>2
    <2>6. IsRank([cell EXCEPT ![t] = e], [rank EXCEPT ![t] = rank[t]], n)
      BY <1>1, <1>3, <1>4, <1>7, <2>2, <2>3, <2>5, RankChange
    <2>7. [rank EXCEPT ![t] = rank[t]] = rank
      BY <2>3
    <2>8. IsRank(cell', rank, n)
      BY <1>5, <2>6, <2>7
    <2>9. \A i \in DOMAIN frames' : rank[frames'[i].to] = rank[frames'[i].from]
      BY <1>2, <2>2
    <2>10. QED
      BY <2>8, <2>9 DEF Ranked
  <1>9. /\ Shape'
        /\ \A x \in Values \cup {Dead} : ~Holds(x, t) => Holding(x, Contents') = Meaning(x)
    <2>1. live \subseteq live' \cup {t} /\ t \in live'
      BY <1>3
    <2>2. QED
      BY <1>1, <1>3, <1>4, <1>5, <1>7, <1>8, <2>1, OneCellChanges
  <1>10. ASSUME NEW w \in Vars PROVE Holding(var[w], Contents') = Meaning(var[w])
    <2>1. var[w] \in Values \cup {Dead} /\ ~Holds(var[w], t)
      BY <1>1, <1>3 DEF VarHolds
    <2>2. QED
      BY <1>9, <2>1
  <1>11. ASSUME NEW d \in Cells, NEW j \in DOMAIN cell[d]
         PROVE  Holding(cell[d][j], Contents') = Meaning(cell[d][j])
    <2>1. cell[d][j] \in Values
      BY <1>1
    <2>2. QED
      BY <1>3, <1>9, <2>1
  <1>12. Held' = Held
    BY <1>1, <1>10, HeldStays
  <1>13. ASSUME NEW i \in 1..k
         PROVE  /\ i \in DOMAIN frames /\ frames'[i] = frames[i]
                /\ frames[i].to \in Cells /\ frames[i].from \in Cells
                /\ cell'[frames[i].from] = cell[frames[i].from]
                /\ i # k => cell'[frames[i].to] = cell[frames[i].to]
    <2>1. i \in DOMAIN frames
      BY <1>2
    <2>2. QED
      BY <1>1, <1>3, <1>6, <2>1, FrameCells
  <1>14. /\ var'[target'] = Dead
         /\ \E w \in Vars : var'[w] # Dead /\ Holding(Boxed(frames'[1].type, frames'[1].from), Contents')
                              \in Inside(Holding(var'[w], Contents'))
    <2> DEFINE x == Boxed(frames[1].type, frames[1].from)
    <2>1. /\ 1 \in 1..k /\ 1 \in DOMAIN frames /\ frames'[1] = frames[1]
          /\ var[target] = Dead /\ Seen(x)
      BY <1>1, <1>2 DEF Copying
    <2>2. /\ frames[1].type \in LargeTypes /\ frames[1].from \in Cells /\ frames[1].from # t
      BY <1>1, <1>3, <2>1, FrameCells
    <2>3. x \in Values /\ ~Holds(x, t)
      BY <2>2 DEF Values, Boxed, Holds
    <2>4. Holding(x, Contents') = Meaning(x)
      BY <1>9, <2>3
    <2>5. \E w \in Vars : var'[w] # Dead /\ Holding(x, Contents') \in Inside(Holding(var'[w], Contents'))
      BY <1>10, <2>1, <2>4, SeenKept
    <2>6. QED
      BY <2>1, <2>5
  <1>15. ASSUME NEW i \in DOMAIN frames', NEW j \in DOMAIN cell'[frames'[i].to]
         PROVE  Holding(cell'[frames'[i].to][j], Contents') = Holding(cell'[frames'[i].from][j], Contents')
    <2>1. i \in 1..k
      OBVIOUS
    <2>2. CASE i = k /\ j = l + 1
      <3>1. cell'[frames'[i].to][j] = y /\ Holding(y, Contents') = Meaning(y)
        BY <1>4, <1>6, <1>9, <1>13, <2>1, <2>2
      <3>2. Holding(cell'[frames'[i].from][j], Contents') = Meaning(cell[frames[k].from][j])
        BY <1>11, <1>13, <2>1, <2>2
      <3>3. QED
        BY <2>2, <3>1, <3>2
    <2>3. CASE ~(i = k /\ j = l + 1)
      <3>1. j \in DOMAIN cell[frames[i].to] /\ cell'[frames'[i].to][j] = cell[frames[i].to][j]
        <4>1. CASE i = k
          BY <1>4, <1>6, <1>13, <1>15, <2>1, <2>3, <4>1
        <4>2. CASE i # k
          BY <1>13, <1>15, <2>1, <4>2
        <4>3. QED
          BY <4>1, <4>2
      <3>2. j \in DOMAIN cell[frames[i].from]
        BY <1>1, <1>13, <2>1, <3>1, CopyNoLonger
      <3>3. Meaning(cell[frames[i].to][j]) = Meaning(cell[frames[i].from][j])
        BY <1>1, <1>13, <2>1, <3>1 DEF Copying
      <3>4. QED
        BY <1>11, <1>13, <2>1, <3>1, <3>2, <3>3
    <2>4. QED
      BY <2>2, <2>3
  <1>16. ASSUME NEW i \in DOMAIN frames', i # Len(frames')
         PROVE  cell'[frames'[i].from][Len(cell'[frames'[i].to]) + 1] =
                  Boxed(frames'[i + 1].type, frames'[i + 1].from)
    <2>1. i \in 1..k /\ i # k /\ i + 1 \in 1..k
      BY <1>2, <1>16
    <2>2. i \in DOMAIN frames /\ i # Len(frames)
      BY <1>2, <2>1
    <2>3. cell[frames[i].from][Len(cell[frames[i].to]) + 1] = Boxed(frames[i + 1].type, frames[i + 1].from)
      BY <1>1, <2>2 DEF Copying
    <2>4. QED
      BY <1>13, <2>1, <2>3
  <1>17. Copying'
    <2>1. source' = None
      BY <1>2
    <2>2. QED
      BY <1>14, <1>15, <1>16, <2>1 DEF Copying, Seen, Meaning
  <1>18. QED
    BY <1>9, <1>12, <1>17 DEF Simulated

LEMMA CopyElementSim ==
  ASSUME SInv, CopyElement
  PROVE  Shape' /\ Copying' /\ Simulated
  <1>1. /\ frames # << >> /\ ~TopDone /\ UNCHANGED <<var, target, doomed, source>> /\ Inv
    BY DEF CopyElement, SInv
  <1>2. CASE NextElement.type \in LargeTypes
    <2>1. PICK c0 \in Cells : New(c0, << >>) /\ frames' = Append(frames, Frame(NextElement, c0))
      BY <1>2 DEF CopyElement
    <2>2. QED
      BY <1>1, <1>2, <2>1, LargeElementSim
  <1>3. CASE NextElement.type \notin LargeTypes
    <2> DEFINE k == Len(frames)
               t == frames[k].to
               y == NextElement
    <2>1. /\ cell' = [cell EXCEPT ![Top.to] = Append(@, NextElement)]
          /\ UNCHANGED <<live, frames>>
      BY <1>3 DEF CopyElement
    <2>2. /\ k \in Nat /\ k >= 1 /\ DOMAIN frames = 1..k /\ Top = frames[k]
          /\ t \in live /\ frames[k].from \in live
      BY <1>1, TopFacts
    <2>3. k \in DOMAIN frames /\ t = frames[k].to
      BY <2>2
    <2>4. /\ y \in Values /\ \A c : ~Holds(y, c)
          /\ Len(cell[t]) < Len(cell[frames[k].from])
      BY <1>1, <1>3, <2>2, NextFacts DEF Holds
    <2>5. /\ y = cell[frames[k].from][Len(cell[t]) + 1]
          /\ Len(cell[t]) + 1 \in DOMAIN cell[frames[k].from]
      <3>1. cell \in [Cells -> Seq(Values)] /\ t \in Cells /\ frames[k].from \in Cells
        BY <1>1, <2>2 DEF Inv, TypeOK
      <3>2. /\ Len(cell[t]) \in Nat /\ Len(cell[frames[k].from]) \in Nat
            /\ DOMAIN cell[frames[k].from] = 1..Len(cell[frames[k].from])
        BY <3>1
      <3>3. QED
        BY <2>2, <2>4, <3>2 DEF NextElement
    <2>6. cell' = [cell EXCEPT ![t] = Append(cell[t], y)]
      BY <2>1, <2>2
    <2>7. DOMAIN frames' = 1..k /\ Len(frames') = k /\ \A i \in 1..k : frames'[i] = frames[i]
      BY <2>1, <2>2
    <2>8. Meaning(y) = Meaning(cell[frames[k].from][Len(cell[t]) + 1])
      BY <2>5
    <2>9. UNCHANGED <<var, live, target, source>>
      BY <1>1, <2>1
    <2> HIDE DEF k, t, y
    <2>10. QED
      BY <2>3, <2>4, <2>5, <2>6, <2>7, <2>8, <2>9, AppendSim
  <1>4. QED
    BY <1>2, <1>3

\* A copy that is complete holds what it was copied from.
LEMMA CopyIsEqual ==
  ASSUME SInv, frames # << >>, TopDone
  PROVE  Meaning(Boxed(Top.type, Top.to)) = Meaning(Boxed(Top.type, Top.from))
  <1> DEFINE a == Top.from
             b == Top.to
  <1>1. /\ Inv /\ Shape /\ Copying
        /\ IsContents(cell, Contents) /\ cell \in [Cells -> Seq(Values)]
    BY DEF SInv, Shape, ContentsInv, Inv, TypeOK
  <1>2. /\ Len(frames) \in DOMAIN frames /\ Top = frames[Len(frames)]
        /\ a \in Cells /\ b \in Cells /\ Top.type \in LargeTypes
    <2>1. Len(frames) \in DOMAIN frames /\ Top = frames[Len(frames)]
      BY <1>1, TopFacts
    <2>2. QED
      BY <1>1, <2>1, FrameCells
  <1>3. DOMAIN cell[a] = DOMAIN cell[b]
    <2>1. /\ cell[a] \in Seq(Values) /\ cell[b] \in Seq(Values)
      BY <1>1, <1>2
    <2>2. DOMAIN cell[a] = 1..Len(cell[a]) /\ DOMAIN cell[b] = 1..Len(cell[b])
      BY <2>1
    <2>3. QED
      BY <2>2 DEF TopDone
  <1>4. \A j \in DOMAIN cell[b] : Holding(cell[b][j], Contents) = Holding(cell[a][j], Contents)
    BY <1>1, <1>2 DEF Copying, Meaning
  <1>5. [j \in DOMAIN cell[b] |-> Holding(cell[b][j], Contents)] =
        [j \in DOMAIN cell[a] |-> Holding(cell[a][j], Contents)]
    BY ONLY <1>3, <1>4
  <1>6. /\ Contents[a] = Below([j \in DOMAIN cell[a] |-> Holding(cell[a][j], Contents)])
        /\ Contents[b] = Below([j \in DOMAIN cell[b] |-> Holding(cell[b][j], Contents)])
    BY <1>1, <1>2 DEF IsContents
  <1>7. Contents[a] = Contents[b]
    BY ONLY <1>5, <1>6
  <1>8. QED
    BY <1>2, <1>7 DEF Meaning, Holding, Boxed

LEMMA CopyDoneSim ==
  ASSUME SInv, CopyDone
  PROVE  Shape' /\ Copying' /\ Simulated
  <1> DEFINE n == Len(frames)
             T == [type : LargeTypes, from : Cells, to : Cells]
             y == Boxed(Top.type, Top.to)
  <1>1. /\ Inv /\ Shape /\ Copying
        /\ frames # << >> /\ TopDone /\ frames' = Front(frames)
        /\ UNCHANGED <<live, doomed, source>>
        /\ frames \in Seq(T) /\ cell \in [Cells -> Seq(Values)]
    BY DEF SInv, CopyDone, Inv, TypeOK
  <1>2. /\ n \in Nat /\ n >= 1 /\ DOMAIN frames = 1..n /\ Top = frames[n] /\ n \in DOMAIN frames
        /\ target \in Vars /\ source = None
    BY <1>1, TopFacts
  <1>3. /\ Len(frames') = n - 1 /\ DOMAIN frames' = 1..(n - 1)
        /\ \A i \in 1..(n - 1) : frames'[i] = frames[i]
    BY <1>1, <1>2 DEF Front
  <1>4. /\ Top.type \in LargeTypes /\ Top.to \in Cells /\ Top.from \in Cells
        /\ \A i \in DOMAIN frames : frames[i].to = Top.to => i = n
    BY <1>1, <1>2, FrameCells
  <1>5. y \in Values /\ \A c : Holds(y, c) <=> c = Top.to
    <2>1. y \in Values
      BY <1>4 DEF Values
    <2>2. QED
      BY <1>4, <2>1, ValueTypes
  <1>6. Meaning(y) = Meaning(Boxed(Top.type, Top.from))
    BY <1>1, CopyIsEqual
  <1>7. CopyDone =>
          \/ n = 1 /\ var' = [var EXCEPT ![target] = y] /\ UNCHANGED cell
          \/ /\ n # 1
             /\ cell' = [cell EXCEPT ![Last(Front(frames)).to] = Append(@, y)]
             /\ UNCHANGED <<var, target>>
    BY DEF CopyDone
  <1> HIDE DEF n, y, T
  <1>8. CASE n = 1 /\ var' = [var EXCEPT ![target] = y] /\ UNCHANGED cell
    <2>1. frames' = << >>
      BY <1>1, <1>2, <1>3, <1>8 DEF n
    <2>2. Shape' /\ Contents' = Contents
      BY <1>1, <1>8, <2>1, SameCells
    <2>3. Copying'
      BY <1>1, <1>2, <2>1, NotCopying
    <2>4. Meaning(y) = Holding(y, Contents') /\ \A w \in Vars : Holding(var[w], Contents') = Meaning(var[w])
      BY <2>2 DEF Meaning
    <2>5. Held' = [Held EXCEPT ![target] = Meaning(y)]
      BY <1>1, <1>2, <1>8, <2>4, HeldPut
    <2>6. /\ var[target] = Dead /\ Seen(Boxed(Top.type, Top.from))
      BY <1>1, <1>2, <1>8 DEF Copying
    <2>7. PICK w \in Vars : var[w] # Dead /\ Meaning(y) \in Inside(Meaning(var[w]))
      BY <1>6, <2>6 DEF Seen
    <2>8. Held[w] = Meaning(var[w]) /\ Held[w] # Gone /\ Held[target] = Gone
      BY <1>1, <1>2, <2>6, <2>7, HeldFacts
    <2>9. Semantics!SNext
      BY <1>2, <2>5, <2>7, <2>8, StepCopy
    <2>10. QED
      BY <2>2, <2>3, <2>9 DEF Simulated
  <1>9. CASE /\ n # 1
             /\ cell' = [cell EXCEPT ![Last(Front(frames)).to] = Append(@, y)]
             /\ UNCHANGED <<var, target>>
    <2> DEFINE k == n - 1
               t == frames[k].to
               a == frames[k].from
    <2>1. k \in DOMAIN frames /\ k # n /\ k \in Nat /\ k + 1 = n /\ k \in 1..k
      BY <1>2, <1>9
    <2>2. Last(Front(frames)) = frames[k]
      BY <1>1, <1>3, <2>1 DEF Last
    <2>3. /\ t \in Cells /\ a \in Cells /\ Top.to # t
      BY <1>1, <1>4, <2>1, FrameCells
    <2>4. ~Holds(y, t)
      BY <1>5, <2>3
    <2>5. cell' = [cell EXCEPT ![t] = Append(cell[t], y)]
      BY <1>9, <2>2
    <2>6. Len(cell[t]) + 1 \in DOMAIN cell[a]
      <3>1. Len(cell[t]) < Len(cell[a])
        BY <1>1, <2>1 DEF Inv, Lengths, n
      <3>2. /\ Len(cell[t]) \in Nat /\ Len(cell[a]) \in Nat /\ DOMAIN cell[a] = 1..Len(cell[a])
        BY <1>1, <2>3
      <3>3. QED
        BY <3>1, <3>2
    <2>7. cell[a][Len(cell[t]) + 1] = Boxed(Top.type, Top.from)
      <3>1. cell[frames[k].from][Len(cell[frames[k].to]) + 1] = Boxed(frames[k + 1].type, frames[k + 1].from)
        BY <1>1, <2>1 DEF Copying, n
      <3>2. QED
        BY <1>2, <2>1, <3>1
    <2>8. Meaning(y) = Meaning(cell[a][Len(cell[t]) + 1])
      BY <1>6, <2>7
    <2>9. ASSUME NEW m \in Nat, NEW rank, IsRank(cell, rank, m),
                 \A i \in DOMAIN frames : rank[frames[i].to] = rank[frames[i].from],
                 NEW d \in Cells, Holds(y, d)
          PROVE  rank[d] < rank[t]
      <3>1. d = Top.to /\ rank[Top.to] = rank[Top.from] /\ rank[t] = rank[a]
        BY <1>2, <1>5, <2>1, <2>9
      <3>2. Holds(cell[a][Len(cell[t]) + 1], Top.from)
        BY <1>4, <2>7, ValueTypes
      <3>3. rank[Top.from] < rank[a]
        BY <1>4, <2>3, <2>6, <2>9, <3>2 DEF IsRank
      <3>4. QED
        BY <3>1, <3>3
    <2>10. DOMAIN frames' = 1..k /\ Len(frames') = k /\ \A i \in 1..k : frames'[i] = frames[i]
      BY <1>3
    <2>11. UNCHANGED <<var, live, target, source>> /\ t = frames[k].to
      BY <1>1, <1>9
    <2>12. Len(cell[t]) + 1 \in DOMAIN cell[frames[k].from]
           /\ Meaning(y) = Meaning(cell[frames[k].from][Len(cell[t]) + 1])
      BY <2>6, <2>8
    <2> HIDE DEF k, t, a
    <2>13. QED
      BY <1>5, <2>1, <2>4, <2>5, <2>9, <2>10, <2>11, <2>12, AppendSim
  <1>10. QED
    BY <1>7, <1>8, <1>9

\* A cell that is deleted is nobody's.
LEMMA DeleteSim ==
  ASSUME SInv, NEW c \in Cells, Delete(c)
  PROVE  Shape' /\ Copying' /\ Simulated
  <1>1. /\ Inv /\ Shape /\ Copying /\ TypeOK /\ c \in doomed /\ live' = live \ {c}
        /\ cell' = [cell EXCEPT ![c] = << >>] /\ UNCHANGED <<var, frames, target, source>>
        /\ cell \in [Cells -> Seq(Values)] /\ var \in [Vars -> Values \cup {Dead}]
    BY DEF SInv, Inv, TypeOK, Delete
  <1>2. frames = << >>
    BY <1>1 DEF TypeOK
  <1>3. /\ \A w : ~VarHolds(w, c)
        /\ \A d, i : ~ElementHolds(d, i, c)
    BY <1>1 DEF Inv, Owners, HeldOnce, DoomedHolds
  <1>4. \A d \in Cells : \A i \in DOMAIN cell[d] : ~Holds(cell[d][i], c)
    BY <1>1, <1>3, Unheld
  <1>5. << >> \in Seq(Values) /\ \A i \in DOMAIN << >> : FALSE
    OBVIOUS
  <1>6. Ranked'
    <2>1. PICK n \in Nat : \E rank : IsRank(cell, rank, n)
      BY <1>1 DEF Shape, Ranked
    <2>2. PICK rank : IsRank(cell, rank, n)
      BY <2>1
    <2>3. rank \in [Cells -> 0..n] /\ rank[c] \in 0..n /\ n <= n
      BY <2>2 DEF IsRank
    <2>4. IsRank([cell EXCEPT ![c] = << >>], [rank EXCEPT ![c] = rank[c]], n)
      BY <1>1, <1>4, <1>5, <2>2, <2>3, RankChange
    <2>5. [rank EXCEPT ![c] = rank[c]] = rank
      BY <2>3
    <2>6. IsRank(cell', rank, n)
      BY <1>1, <2>4, <2>5
    <2>7. \A i \in DOMAIN frames' : FALSE
      BY <1>1, <1>2
    <2>8. QED
      BY <2>6, <2>7 DEF Ranked
  <1>7. /\ Shape'
        /\ \A x \in Values \cup {Dead} : ~Holds(x, c) => Holding(x, Contents') = Meaning(x)
    <2>1. live \subseteq live' \cup {c}
      BY <1>1
    <2>2. QED
      BY <1>1, <1>4, <1>5, <1>6, <2>1, OneCellChanges
  <1>8. ASSUME NEW w \in Vars PROVE Holding(var[w], Contents') = Meaning(var[w])
    <2>1. var[w] \in Values \cup {Dead} /\ ~Holds(var[w], c)
      BY <1>1, <1>3 DEF VarHolds
    <2>2. QED
      BY <1>7, <2>1
  <1>9. Held' = Held
    BY <1>1, <1>8, HeldStays
  <1>10. Copying'
    <2>1. source' # None => var'[target'] = Nil /\ var'[source'] # Dead
      BY <1>1 DEF Copying
    <2>2. QED
      BY <1>1, <1>2, <2>1, NotCopying
  <1>11. QED
    BY <1>7, <1>9, <1>10 DEF Simulated

\* Initially nothing is held, ...
LEMMA InitSim == Init => SInv /\ Semantics!SInit
  <1> SUFFICES ASSUME Init PROVE SInv /\ Semantics!SInit
    OBVIOUS
  <1>1. Inv /\ cell = [c \in Cells |-> << >>] /\ frames = << >> /\ source = None
        /\ var = [v \in Vars |-> Dead]
    BY InitInv DEF Init
  <1> DEFINE rank == [c \in Cells |-> 0]
             f == [c \in Cells |-> {}]
  <1>2. \A c \in Cells : DOMAIN cell[c] = {}
    BY <1>1
  <1>3. IsRank(cell, rank, 0)
    <2>1. rank \in [Cells -> 0..0]
      OBVIOUS
    <2>2. QED
      BY <1>2, <2>1 DEF IsRank
  <1>4. Ranked
    <2>1. 0 \in Nat /\ \A i \in DOMAIN frames : FALSE
      BY <1>1
    <2> HIDE DEF rank
    <2>2. QED
      BY <1>3, <2>1 DEF Ranked
  <1>5. IsContents(cell, f)
    <2>1. ASSUME NEW c \in Cells
          PROVE  Below([i \in DOMAIN cell[c] |-> Holding(cell[c][i], f)]) = {}
      BY <1>2 DEF Below
    <2>2. QED
      BY <2>1 DEF IsContents
  <1>6. ContentsInv
    <2>1. cell \in [Cells -> Seq(Values)] /\ 0 \in Nat
      BY <1>1 DEF Inv, TypeOK
    <2> HIDE DEF f
    <2>2. IsContents(cell, ContentsOf(cell))
      BY <1>5 DEF ContentsOf
    <2> HIDE DEF rank
    <2>3. ContentsOf(cell) = f
      BY <1>3, <1>5, <2>1, <2>2, OneContents
    <2>4. Contents = f
      BY <2>3, ContentsAre
    <2>5. f \in [Cells -> SUBSET Nodes]
      BY DEF f
    <2>6. QED
      BY <1>5, <2>4, <2>5 DEF ContentsInv
  <1>7. Shape
    BY <1>1, <1>4, <1>6 DEF Shape, CellsEmpty
  <1>8. Copying
    BY <1>1 DEF Copying
  <1>9. Semantics!SInit
    <2>1. \A v \in Vars : Meaning(var[v]) = Gone
      BY <1>1, <1>7, HeldFacts
    <2>2. Held = [v \in Vars |-> Gone]
      BY <2>1 DEF Held
    <2>3. Semantics!Gone = Gone
      BY SameTrees DEF Semantics!Gone, Gone
    <2>4. QED
      BY <2>2, <2>3 DEF Semantics!SInit
  <1>10. QED
    BY <1>1, <1>7, <1>8, <1>9 DEF SInv

\* ... and every step is one of ValueSemantics or none.
LEMMA NextSim == SInv /\ [Next]_vars => SInv' /\ [Semantics!SNext]_Held
  <1> SUFFICES ASSUME SInv, [Next]_vars PROVE SInv' /\ [Semantics!SNext]_Held
    OBVIOUS
  <1>1. Shape' /\ Copying' /\ Simulated
    <2>1. ASSUME NEW v \in Vars, ConstructSmall(v) \/ ConstructString(v)
          PROVE  Shape' /\ Copying' /\ Simulated
      BY <2>1, ConstructSmallSim, ConstructStringSim
    <2>2. ASSUME NEW v \in Vars, NEW list \in Lists, ConstructArray(v, list)
          PROVE  Shape' /\ Copying' /\ Simulated
      BY <2>2, ConstructArraySim
    <2>3. ASSUME NEW v \in Vars, NEW w \in Vars, MoveConstruct(v, w)
          PROVE  Shape' /\ Copying' /\ Simulated
      BY <2>3, MoveConstructSim
    <2>4. ASSUME NEW v \in Vars, NEW w \in Vars, MoveAssign(v, w) \/ Destroy(v)
          PROVE  Shape' /\ Copying' /\ Simulated
      BY <2>4, MoveAssignSim
    <2>5. ASSUME NEW v \in Vars, NEW x \in Reachable, Copy(v, x)
          PROVE  Shape' /\ Copying' /\ Simulated
      BY <2>5, CopySim
    <2>6. ASSUME NEW c \in Cells, Delete(c)
          PROVE  Shape' /\ Copying' /\ Simulated
      BY <2>6, DeleteSim
    <2>7. CASE CopyElement \/ CopyDone \/ CopyFails \/ MoveAssignDone
      BY <2>7, CopyElementSim, CopyDoneSim, CopyFailsSim, MoveAssignDoneSim
    <2>8. CASE UNCHANGED vars
      BY <2>8, StutterSim
    <2>9. QED
      BY <2>1, <2>2, <2>3, <2>4, <2>5, <2>6, <2>7, <2>8 DEF Next
  <1>2. Inv'
    BY NextInv DEF SInv
  <1>3. QED
    BY <1>1, <1>2 DEF SInv, Simulated

\* A program cannot tell that Values share a heap: whatever it constructs, copies,
\* moves, assigns and destroys, and whichever copies run out of memory half way,
\* its variables hold what variables would that each had a tree of its own
\* (value.cpp:50-128, 243-270).
THEOREM SpecImplementsValueSemantics == Spec => ImplementsValueSemantics
  BY InitSim, NextSim, PTL DEF Spec, ImplementsValueSemantics, Semantics!SSpec
=============================================================================
