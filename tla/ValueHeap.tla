------------------------------ MODULE ValueHeap ------------------------------
(***************************************************************************)
(* Who owns the memory of Values (src/value.cpp).  A Value of a large type *)
(* points to a cell of its own, an array's cell holds Values in turn, and  *)
(* all of it is done by hand: new in the constructors, a deep copy that    *)
(* can run out of memory half way, moves that leave NIL behind, delete in  *)
(* Reset.  A program with a few variables runs one statement at a time.    *)
(* Structs are owned like arrays, dates and binaries like strings.         *)
(***************************************************************************)
EXTENDS Integers, FiniteSets, ValueTrees

CONSTANTS
  Vars,         \* the variables of the program
  Cells,        \* addresses of std::strings and std::vectors
  MaxElements   \* bound on the length of an array

VARIABLES
  var,     \* what each variable holds, or Dead
  live,    \* the cells that are allocated
  cell,    \* the elements in each cell
  frames,  \* the copies under construction, the innermost last
  target,  \* the variable they are for
  doomed,  \* cells that are being deleted
  source   \* the variable a move assignment will take over, or None

vars == <<var, live, cell, frames, target, doomed, source>>

ASSUME ElementsAssumption == MaxElements \in Nat

Null == <<"null">>
None == <<"none">>
ASSUME DistinctAssumption == Null \notin Cells /\ None \notin Vars

Nil == [type |-> "NIL", as |-> Null]
Integer == [type |-> "INTEGER_32", as |-> Null]
Boxed(type, c) == [type |-> type, as |-> c]
Dead == [type |-> "DEAD", as |-> Null]

LargeTypes == {"ARRAY", "STRING"}
Values == {Nil, Integer} \cup {Boxed(t, c) : t \in LargeTypes, c \in Cells}

\* The cells Values own.
Owned(S) == {v.as : v \in {w \in S : w.type \in LargeTypes}}

\* No statement is being executed.
Idle == frames = << >> /\ doomed = {} /\ source = None

Init ==
  /\ var = [v \in Vars |-> Dead]
  /\ live = {}
  /\ cell = [c \in Cells |-> << >>]
  /\ frames = << >>
  /\ target = None
  /\ doomed = {}
  /\ source = None

-----------------------------------------------------------------------------
(***************************************************************************)
(* Constructors.                                                           *)
(***************************************************************************)

ConstructSmall(v) ==
  /\ Idle
  /\ var[v] = Dead
  /\ \E small \in {Nil, Integer} : var' = [var EXCEPT ![v] = small]
  /\ UNCHANGED <<live, cell, frames, target, doomed, source>>

New(c, elements) ==
  /\ c \notin live
  /\ live' = live \cup {c}
  /\ cell' = [cell EXCEPT ![c] = elements]

ConstructString(v) ==
  /\ Idle
  /\ var[v] = Dead
  /\ \E c \in Cells : New(c, << >>) /\ var' = [var EXCEPT ![v] = Boxed("STRING", c)]
  /\ UNCHANGED <<frames, target, doomed, source>>

\* Lists of different variables.
Lists == {s \in SeqOf(Vars, MaxElements) : IsInjective(s)}

\* An Array made of variables that are moved into it.  If new throws, the
\* parameter is destroyed with all that was moved.
ConstructArray(v, list) ==
  /\ Idle
  /\ var[v] = Dead
  /\ \A i \in DOMAIN list : list[i] # v /\ var[list[i]] # Dead
  /\ LET moved == [w \in Vars |-> IF w \in ToSet(list) THEN Nil ELSE var[w]]
         elements == [i \in DOMAIN list |-> var[list[i]]]
     IN  \/ \E c \in Cells :
              /\ New(c, elements)
              /\ var' = [moved EXCEPT ![v] = Boxed("ARRAY", c)]
              /\ UNCHANGED doomed
         \/ /\ var' = moved
            /\ doomed' = Owned(ToSet(elements))
            /\ UNCHANGED <<live, cell>>
  /\ UNCHANGED <<frames, target, source>>

\* Variant: the source keeps its type.
TakeOverKeeps(v, w) == var' = [var EXCEPT ![v] = var[w]]

TakeOver(v, w) == var' = [var EXCEPT ![v] = var[w], ![w] = Nil]

MoveConstruct(v, w) ==
  /\ Idle
  /\ var[v] = Dead
  /\ var[w] # Dead
  /\ TakeOver(v, w)
  /\ UNCHANGED <<live, cell, frames, target, doomed, source>>

-----------------------------------------------------------------------------
(***************************************************************************)
(* Copies.  The source is any Value a program can reach, also one inside   *)
(* an array: AsArray gives const access to it.                             *)
(***************************************************************************)

Reachable ==
  {x \in {var[v] : v \in Vars} : x # Dead} \cup UNION {ToSet(cell[c]) : c \in live}

Frame(x, c) == [type |-> x.type, from |-> x.as, to |-> c]

Copy(v, x) ==
  /\ Idle
  /\ var[v] = Dead
  /\ IF x.type \in LargeTypes
     THEN /\ \E c \in Cells : New(c, << >>) /\ frames' = <<Frame(x, c)>>
          /\ target' = v
          /\ UNCHANGED var
     ELSE /\ var' = [var EXCEPT ![v] = x]
          /\ UNCHANGED <<live, cell, frames, target>>
  /\ UNCHANGED <<doomed, source>>

Top == Last(frames)
NextElement == cell[Top.from][Len(cell[Top.to]) + 1]
TopDone == Len(cell[Top.to]) = Len(cell[Top.from])

CopyElement ==
  /\ frames # << >>
  /\ ~TopDone
  /\ IF NextElement.type \in LargeTypes
     THEN \E c \in Cells :
            New(c, << >>) /\ frames' = Append(frames, Frame(NextElement, c))
     ELSE /\ cell' = [cell EXCEPT ![Top.to] = Append(@, NextElement)]
          /\ UNCHANGED <<live, frames>>
  /\ UNCHANGED <<var, target, doomed, source>>

\* A cell is complete: its Value goes to the element or variable it is for.
CopyDone ==
  /\ frames # << >>
  /\ TopDone
  /\ frames' = Front(frames)
  /\ LET x == Boxed(Top.type, Top.to)
     IN  IF Len(frames) = 1
         THEN var' = [var EXCEPT ![target] = x] /\ target' = None /\ UNCHANGED cell
         ELSE /\ cell' = [cell EXCEPT ![Last(Front(frames)).to] = Append(@, x)]
              /\ UNCHANGED <<var, target>>
  /\ UNCHANGED <<live, doomed, source>>

\* Variant: only the innermost is destroyed.
CopyFailsOneLevel ==
  /\ frames # << >>
  /\ ~TopDone
  /\ doomed' = {Top.to}
  /\ frames' = << >>
  /\ target' = None
  /\ UNCHANGED <<var, live, cell, source>>

\* new throws.  Every vector under construction is destroyed with the elements
\* it has; the Value was not constructed, and its destructor does not run.
CopyFails ==
  /\ frames # << >>
  /\ ~TopDone
  /\ doomed' = {frames[i].to : i \in DOMAIN frames}
  /\ frames' = << >>
  /\ target' = None
  /\ UNCHANGED <<var, live, cell, source>>

-----------------------------------------------------------------------------
(***************************************************************************)
(* Move assignment and the destructor.                                     *)
(***************************************************************************)

\* Value::Reset.
Reset(v, after) ==
  /\ doomed' = Owned({var[v]})
  /\ var' = [var EXCEPT ![v] = after]

\* Assignment to itself does nothing.
MoveAssign(v, w) ==
  /\ Idle
  /\ v # w
  /\ var[v] # Dead
  /\ var[w] # Dead
  /\ Reset(v, Nil)
  /\ target' = v
  /\ source' = w
  /\ UNCHANGED <<live, cell, frames>>

MoveAssignDone ==
  /\ source # None
  /\ doomed = {}
  /\ TakeOver(target, source)
  /\ target' = None
  /\ source' = None
  /\ UNCHANGED <<live, cell, frames, doomed>>

Destroy(v) ==
  /\ Idle
  /\ var[v] # Dead
  /\ Reset(v, Dead)
  /\ UNCHANGED <<live, cell, frames, target, source>>

\* Variant: the elements are not destroyed.
DeleteShallow(c) ==
  /\ c \in doomed
  /\ live' = live \ {c}
  /\ cell' = [cell EXCEPT ![c] = << >>]
  /\ doomed' = doomed \ {c}
  /\ UNCHANGED <<var, frames, target, source>>

\* delete runs the destructors of the elements, then frees the cell.
Delete(c) ==
  /\ c \in doomed
  /\ live' = live \ {c}
  /\ cell' = [cell EXCEPT ![c] = << >>]
  /\ doomed' = (doomed \ {c}) \cup Owned(ToSet(cell[c]))
  /\ UNCHANGED <<var, frames, target, source>>

Next ==
  \/ \E v \in Vars :
       \/ ConstructSmall(v) \/ ConstructString(v) \/ Destroy(v)
       \/ \E list \in Lists : ConstructArray(v, list)
       \/ \E w \in Vars : MoveConstruct(v, w) \/ MoveAssign(v, w)
       \/ \E x \in Reachable : Copy(v, x)
  \/ CopyElement \/ CopyDone \/ CopyFails \/ MoveAssignDone
  \/ \E c \in Cells : Delete(c)

Spec == Init /\ [][Next]_vars

-----------------------------------------------------------------------------
(***************************************************************************)
(* Properties.                                                             *)
(***************************************************************************)

\* The types of the variables; frames only while a copy runs, a source only in
\* a move assignment.
TypeOK ==
  /\ var \in [Vars -> Values \cup {Dead}]
  /\ live \in SUBSET Cells
  /\ cell \in [Cells -> Seq(Values)]
  /\ frames \in Seq([type : LargeTypes, from : Cells, to : Cells])
  /\ target \in Vars \cup {None}
  /\ doomed \in SUBSET Cells
  /\ source \in Vars \cup {None}
  /\ frames # << >> => target # None /\ doomed = {} /\ source = None
  /\ source # None => target # None

\* What can own a cell: a variable, an element of an allocated cell, a copy
\* under construction, or the statement that is deleting it.
Slots ==
  {<<"var", v>> : v \in Vars}
  \cup {<<"cell", c, i>> : c \in live, i \in 1..MaxElements}
  \cup {<<"frame", i>> : i \in DOMAIN frames}
  \cup {<<"doomed", c>> : c \in doomed}

HeldBy(slot) ==
  CASE slot[1] = "var"    -> Owned({var[slot[2]]})
    [] slot[1] = "cell"   -> IF slot[3] \in DOMAIN cell[slot[2]]
                             THEN Owned({cell[slot[2]][slot[3]]}) ELSE {}
    [] slot[1] = "frame"  -> {frames[slot[2]].to}
    [] slot[1] = "doomed" -> {slot[2]}

\* Every allocated cell has exactly one owner and everything owned is
\* allocated: no copy, move or assignment, and no copy that runs out of memory,
\* makes two Values delete the same cell, leaves one to nobody or leaves a
\* Value with a cell that was deleted (value.cpp:76-128, 243-270).
OwnedOnce ==
  /\ TypeOK
  /\ \A s \in Slots : HeldBy(s) \subseteq live
  /\ \A s, t \in Slots : s # t => HeldBy(s) \cap HeldBy(t) = {}
  /\ \A c \in live : \E s \in Slots : c \in HeldBy(s)

\* What a Value holds if the elements in each cell are those in contents, and what
\* they are: Values of a large type hold what is in their cell.
Holding(x, contents) ==
  Leaf(x.type) \cup IF x.type \in LargeTypes THEN contents[x.as] ELSE {}
Contents[c \in Cells] ==
  Below([i \in DOMAIN cell[c] |-> Holding(cell[c][i], Contents)])
Meaning(x) == Holding(x, Contents)

Held == [v \in Vars |-> Meaning(var[v])]

Semantics == INSTANCE ValueSemantics WITH held <- Held

\* A program cannot tell that Values share a heap: copies are deep and equal to
\* what was copied, moves take everything and leave NIL, and no statement
\* changes a variable it does not name, whatever the order of constructions,
\* moves, failed copies and destructions before it (value.cpp).
ImplementsValueSemantics == Semantics!SSpec
=============================================================================
