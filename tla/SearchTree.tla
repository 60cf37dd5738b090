----------------------------- MODULE SearchTree -----------------------------
(***************************************************************************)
(* binary_search_tree (tree.h) as operators on nodes.  Loops that walk     *)
(* down with a parent pointer are recursions that rebuild the path.        *)
(***************************************************************************)
EXTENDS Integers, Sequences

Nil == [null |-> TRUE]
NewNode(key) == [key |-> key, left |-> Nil, right |-> Nil]

RECURSIVE emplace(_, _)
emplace(n, key) ==
  IF n = Nil THEN NewNode(key)
  ELSE IF key < n.key THEN [n EXCEPT !.left = emplace(@, key)]
  ELSE [n EXCEPT !.right = emplace(@, key)]

RECURSIVE find(_, _)
find(n, key) ==
  /\ n # Nil
  /\ \/ key = n.key
     \/ key < n.key /\ find(n.left, key)
     \/ n.key < key /\ find(n.right, key)

\* mutant: the right child of the least node is dropped with it
RECURSIVE min_value_only(_)
min_value_only(n) ==
  IF n.left = Nil THEN [key |-> n.key, node |-> Nil]
  ELSE LET below == min_value_only(n.left)
       IN  [key |-> below.key, node |-> [n EXCEPT !.left = below.node]]
\* The least key below n, and n with that node's right child in its place.
RECURSIVE min_value(_)
min_value(n) ==
  IF n.left = Nil THEN [key |-> n.key, node |-> n.right]
  ELSE LET below == min_value(n.left)
       IN  [key |-> below.key, node |-> [n EXCEPT !.left = below.node]]

\* What takes the place of a node that is removed.
successor(n) ==
  IF n.left # Nil /\ n.right # Nil
    THEN LET least == min_value(n.right)
         IN  [n EXCEPT !.key = least.key, !.right = least.node]
  ELSE IF n.right # Nil THEN n.right
  ELSE n.left

RECURSIVE remove(_, _)
remove(n, key) ==
  IF n = Nil THEN Nil
  ELSE IF key < n.key THEN [n EXCEPT !.left = remove(@, key)]
  ELSE IF n.key < key THEN [n EXCEPT !.right = remove(@, key)]
  ELSE successor(n)

\* The keys from left to right, as print() walks them.
RECURSIVE InOrder(_)
InOrder(n) == IF n = Nil THEN <<>> ELSE InOrder(n.left) \o <<n.key>> \o InOrder(n.right)
=============================================================================
