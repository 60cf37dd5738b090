----------------------------- MODULE SortedSet ------------------------------
(***************************************************************************)
(* set (set.h) and sorted (sorted.h) as operators on sequences of keys.    *)
(* An iterator is a position that counts from one; Len + 1 is end().       *)
(***************************************************************************)
EXTENDS Integers, FiniteSets, SequencesExt

CONSTANT LINEAR_SEARCH_LIMIT

lower_bound(s, v) == 1 + Cardinality({i \in DOMAIN s : s[i] < v})
upper_bound(s, v) == 1 + Cardinality({i \in DOMAIN s : s[i] <= v})

linear_search(s, v) == SelectInSeq(s, LAMBDA e : ~(e < v) /\ ~(v < e)) # 0

\* mutant: the last element is taken for end()
bisect_short(s, v) == LET i == lower_bound(s, v)
                      IN  i < Len(s) /\ ~(s[i] < v) /\ ~(v < s[i])
bisect(s, v) == LET i == lower_bound(s, v)
                IN  i <= Len(s) /\ ~(s[i] < v) /\ ~(v < s[i])

contains(s, v) == IF Len(s) <= LINEAR_SEARCH_LIMIT THEN linear_search(s, v) ELSE bisect(s, v)

add(s, v) == IF bisect(s, v) THEN s ELSE InsertAt(s, lower_bound(s, v), v)

\* Whatever stands at the lower bound goes, be it v or the next greater value.
erase(s, v) == LET i == lower_bound(s, v)
               IN  IF i <= Len(s) THEN RemoveAt(s, i) ELSE s

\* std::set_intersection of two ranges without duplicates.
intersect(s, t) == SelectSeq(t, LAMBDA v : v \in ToSet(s))

\* std::set_union of two ranges without duplicates.
merge(s, t) == SetToSortSeq(ToSet(s) \cup ToSet(t), <)

\* The loops of merge_from: x and y are what the two iterators still have
\* before them, done is what they left behind.
RECURSIVE Merged(_, _, _)
Merged(done, x, y) ==
  IF y = <<>> THEN done \o x
  ELSE IF x = <<>> THEN done \o y
  ELSE LET n == lower_bound(x, Head(y)) - 1
       IN  Merged(done \o SubSeq(x, 1, n) \o <<Head(y)>>, SubSeq(x, n + 1, Len(x)), Tail(y))

merge_from(s, t) == Merged(<<>>, s, t)

\* sorted<T>::emplace_sorted and insert_sorted, which keep duplicates.
insert_sorted(s, v) == InsertAt(s, upper_bound(s, v), v)
=============================================================================
