--------------------------- MODULE ValueSemantics ---------------------------
(***************************************************************************)
(* Values as a program thinks of them: a variable holds a value of its     *)
(* own, an array is a sequence of values, and an assignment to one         *)
(* variable is never seen through another.  No cells.                      *)
(***************************************************************************)
EXTENDS ValueTrees

CONSTANTS Vars, MaxElements

VARIABLE held  \* what each variable holds, or Gone

Gone == Leaf("DEAD")
NilValue == Leaf("NIL")

SInit == held = [v \in Vars |-> Gone]

Put(v, x) == held' = [held EXCEPT ![v] = x]

SConstruct(v) ==
  held[v] = Gone /\ \E type \in {"NIL", "INTEGER_32", "STRING"} : Put(v, Leaf(type))

SCopy(v) ==
  /\ held[v] = Gone
  /\ \E w \in Vars : held[w] # Gone /\ \E x \in Inside(held[w]) : Put(v, x)

\* What is moved into an array leaves its variable, also when there is no memory
\* for the array.
SArray(v, list) ==
  /\ held[v] = Gone
  /\ \A i \in DOMAIN list : list[i] # v /\ held[list[i]] # Gone
  /\ LET moved == [w \in Vars |-> IF w \in ToSet(list) THEN NilValue ELSE held[w]]
         array == ArrayOf([i \in DOMAIN list |-> held[list[i]]])
     IN  held' \in {moved, [moved EXCEPT ![v] = array]}

SMove(v, w) ==
  /\ held[v] \in {Gone, NilValue}
  /\ held[w] # Gone
  /\ held' = [held EXCEPT ![v] = held[w], ![w] = NilValue]

SReset(v) == held[v] # Gone /\ \E x \in {NilValue, Gone} : Put(v, x)

SNext ==
  \E v \in Vars :
    \/ SConstruct(v) \/ SCopy(v) \/ SReset(v)
    \/ \E w \in Vars : SMove(v, w)
    \/ \E list \in {s \in SeqOf(Vars, MaxElements) : IsInjective(s)} :
         SArray(v, list)

SSpec == SInit /\ [][SNext]_held
=============================================================================
