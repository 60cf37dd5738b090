------------------------------- MODULE BTree --------------------------------
(***************************************************************************)
(* btree (btree.h) as operators on nodes.  A node is its two vectors,      *)
(* `values' (keys only: the mapped values ride along) and `children'; Nil  *)
(* is an empty node_ptr.  Positions count from one.  A leaf keeps null     *)
(* children whose number drifts from that of its values, as in the code.   *)
(***************************************************************************)
EXTENDS Integers, FiniteSets, SequencesExt

CONSTANT Degree

Nil == [null |-> TRUE]
NewNode == [values |-> <<>>, children |-> <<>>]

is_leaf(n) == n.children = <<>> \/ Head(n.children) = Nil

underflows(n) == Len(n.values) < Degree - 1

\* The comparator that upper_index_of passes to upper_bound makes it a
\* lower bound as well, so this is the position that both compute.
index_of(n, key) == 1 + Cardinality({i \in DOMAIN n.values : n.values[i] < key})

holds(n, key) == index_of(n, key) <= Len(n.values) /\ n.values[index_of(n, key)] = key

RECURSIVE find(_, _)
find(n, key) == /\ n # Nil
                /\ \/ holds(n, key)
                   \/ ~is_leaf(n) /\ find(n.children[index_of(n, key)], key)

\* What remove_child_at leaves of the children.  An index past the end
\* throws half way: no tree is left that is worth describing.
remove_child_at(children, i) ==
  IF i \in DOMAIN children THEN RemoveAt(children, i) ELSE <<[error |-> "wrong index"]>>

set_child(children, i, child) ==
  IF i = Len(children) + 1 THEN Append(children, child) ELSE ReplaceAt(children, i, child)

insert_into(n, key) ==
  LET i == index_of(n, key)
  IN  [values |-> InsertAt(n.values, i, key), children |-> InsertAt(n.children, i, Nil)]

\* The parent after its child n was split about the middle value.
split_into(n, parent) ==
  LET mid   == Len(n.values) \div 2
      left  == [values   |-> SubSeq(n.values, 1, mid),
                children |-> SubSeq(n.children, 1, mid + 1)]
      right == [values   |-> SubSeq(n.values, mid + 2, Len(n.values)),
                children |-> SubSeq(n.children, mid + 2, Len(n.children))]
      i     == index_of(parent, n.values[mid + 1])
      p     == insert_into(parent, n.values[mid + 1])
  IN  [p EXCEPT !.children = set_child(set_child(@, i, left), i + 1, right)]

RECURSIVE insert_into_leaf(_, _)
insert_into_leaf(n, key) ==
  LET Grown(m) == [node |-> m, fits |-> Len(m.values) < Degree]
      i        == index_of(n, key)
      below    == insert_into_leaf(n.children[i], key)
      kept     == [n EXCEPT !.children[i] = below.node]
  IN  IF is_leaf(n) THEN Grown(insert_into(n, key))
      ELSE IF below.fits THEN [node |-> kept, fits |-> TRUE]
      ELSE Grown(split_into(below.node, kept))

insert(root, key) ==
  LET r == insert_into_leaf(IF root = Nil THEN NewNode ELSE root, key)
  IN  IF r.fits THEN r.node ELSE split_into(r.node, NewNode)

\* Child j of p takes the value between it and child j + 1, whose first value
\* and first child follow.
rotate_left(p, j) ==
  LET l == p.children[j]
      r == p.children[j + 1]
  IN  [values   |-> ReplaceAt(p.values, j, Head(r.values)),
       children |-> ReplaceAt(ReplaceAt(p.children,
         j, [values   |-> Append(l.values, p.values[j]),
             children |-> Append(l.children, Head(r.children))]),
         j + 1, [values   |-> Tail(r.values),
                 children |-> remove_child_at(r.children, 1)])]

rotate_right(p, j) ==
  LET l == p.children[j]
      r == p.children[j + 1]
  IN  [values   |-> ReplaceAt(p.values, j, Last(l.values)),
       children |-> ReplaceAt(ReplaceAt(p.children,
         j, [values   |-> Front(l.values),
             children |-> remove_child_at(l.children, Len(l.values) + 1)]),
         j + 1, [values   |-> Cons(p.values[j], r.values),
                 children |-> Cons(Last(l.children), r.children)])]

\* Child j of p takes the value between it and child j + 1, and all of that.
merge(p, j) ==
  LET l == p.children[j]
      r == p.children[j + 1]
      m == insert_into(l, p.values[j])
      i == index_of(l, p.values[j])
  IN  [values   |-> RemoveAt(p.values, j),
       children |-> remove_child_at(ReplaceAt(p.children, j,
         [values   |-> m.values \o r.values,
          children |-> remove_child_at(m.children, i) \o r.children]), j + 1)]

\* mutant: nodes too small to lend are left as they are
rebalance_by_rotation(p, i) ==
  LET j == IF i = Len(p.children) THEN i - 1 ELSE i
      l == p.children[j]
      r == p.children[j + 1]
  IN  IF underflows(l) /\ Len(r.values) > 1 THEN rotate_left(p, j)
      ELSE IF underflows(r) /\ Len(l.values) > 1 THEN rotate_right(p, j)
      ELSE p
rebalance(p, i) ==
  LET j == IF i = Len(p.children) THEN i - 1 ELSE i
      l == p.children[j]
      r == p.children[j + 1]
  IN  IF underflows(l) /\ Len(r.values) > 1 THEN rotate_left(p, j)
      ELSE IF underflows(r) /\ Len(l.values) > 1 THEN rotate_right(p, j)
      ELSE IF underflows(l) \/ underflows(r) THEN merge(p, j)
      ELSE p

\* The greatest key below n, and n without it.
RECURSIVE steal_max(_)
steal_max(n) ==
  LET last  == Len(n.children)
      below == steal_max(n.children[last])
  IN  IF is_leaf(n) THEN [key |-> Last(n.values), node |-> [n EXCEPT !.values = Front(@)]]
      ELSE [key  |-> below.key,
            node |-> rebalance([n EXCEPT !.children[last] = below.node], Len(n.values))]

RECURSIVE remove_from(_, _)
remove_from(n, key) ==
  LET i     == index_of(n, key)
      below == remove_from(n.children[i], key)
      kept  == [n EXCEPT !.children[i] = below.node]
      taken == steal_max(n.children[i])
  IN  IF is_leaf(n)
        THEN IF holds(n, key) THEN [node |-> [n EXCEPT !.values = RemoveAt(@, i)], found |-> TRUE]
             ELSE [node |-> n, found |-> FALSE]
      ELSE IF holds(n, key)
        THEN [node  |-> rebalance([n EXCEPT !.values[i] = taken.key, !.children[i] = taken.node], i),
              found |-> TRUE]
      ELSE IF ~below.found THEN [node |-> n, found |-> FALSE]
      ELSE [node  |-> IF n.values # <<>> THEN rebalance(kept, i)
                      ELSE IF below.node.values = <<>>
                        THEN [n EXCEPT !.children[i] = below.node.children[1]]
                      ELSE kept,
            found |-> TRUE]

remove(root, key) ==
  LET r == remove_from(root, key).node
  IN  IF root = Nil THEN Nil ELSE IF Len(r.children) = 1 THEN r.children[1] ELSE r

\* The keys from left to right, as print() walks them.
RECURSIVE InOrder(_)
InOrder(n) ==
  IF n = Nil THEN <<>>
  ELSE IF is_leaf(n) THEN n.values
  ELSE LET Below(i) == InOrder(n.children[i])
       IN  FlattenSeq([i \in DOMAIN n.values |-> Append(Below(i), n.values[i])])
             \o Below(Len(n.children))

\* One child more than values, and leaves at one depth: the heights of the
\* subtrees of a well-formed tree.
RECURSIVE Heights(_)
Heights(n) == IF n = Nil THEN {0}
              ELSE IF is_leaf(n) THEN {1}
              ELSE {1 + h : h \in UNION {Heights(n.children[i]) : i \in DOMAIN n.children}}

\* How many null children the leaves hold.
RECURSIVE Nulls(_)
Nulls(n) == IF is_leaf(n) THEN Len(n.children)
            ELSE FoldLeft(+, 0, [i \in DOMAIN n.children |-> Nulls(n.children[i])])

RECURSIVE NodesSound(_, _)
NodesSound(n, isRoot) ==
  /\ Len(n.values) <= Degree
  /\ isRoot \/ n.values # <<>>
  /\ is_leaf(n) => \A i \in DOMAIN n.children : n.children[i] = Nil
  /\ ~is_leaf(n) => /\ n.values # <<>>
                    /\ Len(n.children) = Len(n.values) + 1
                    /\ \A i \in DOMAIN n.children : n.children[i] # Nil /\ NodesSound(n.children[i], FALSE)
=============================================================================
