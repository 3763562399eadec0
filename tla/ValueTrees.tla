----------------------------- MODULE ValueTrees -----------------------------
(***************************************************************************)
(* Values as trees.  A tree is the set of its nodes, and a node is the     *)
(* path that leads to it, a sequence of positions in arrays, with the type *)
(* of the value there.                                                     *)
(***************************************************************************)
EXTENDS SequencesExt

Leaf(type) == {<< << >>, type>>}

\* The nodes of an array's elements, as they are in the array.
Below(elements) ==
  UNION {{<< <<i>> \o node[1], node[2]>> : node \in elements[i]} : i \in DOMAIN elements}

ArrayOf(elements) == Leaf("ARRAY") \cup Below(elements)

\* The value in x that a path leads to, and all the values in x, itself included.
At(x, path) ==
  {<<SubSeq(node[1], Len(path) + 1, Len(node[1])), node[2]>> :
     node \in {n \in x : IsPrefix(path, n[1])}}
Inside(x) == {At(x, node[1]) : node \in x}
=============================================================================
