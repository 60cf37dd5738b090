-------------------------- MODULE OrderedContainers --------------------------
(***************************************************************************)
(* A client of one ordered container: btree of two degrees, the binary     *)
(* search tree, set, or sorted<T>.  `store' is the container as its code   *)
(* keeps it, `contents' what it should hold: the keys in order, with their *)
(* repetitions where the container allows them.  The properties are about  *)
(* the behaviours of Kinds: a composition may have others.                 *)
(***************************************************************************)
EXTENDS Integers, FiniteSets, SequencesExt

CONSTANTS
  Kinds,     \* the containers a behaviour may be about
  Keys,      \* per kind, the keys the client uses
  MaxSize,   \* bound per kind: how much the client puts in
  MaxNulls,  \* bound: the null children of a btree's leaves, which pile up
  Careful    \* whether the client avoids the calls that lose keys

ASSUME ContainerAssumption ==
  /\ Kinds \subseteq {"btree3", "btree5", "tree", "set", "sorted"}
  /\ \A kind \in Kinds : Keys[kind] \subseteq Int /\ MaxSize[kind] \in Nat
  /\ MaxNulls \in Nat
  /\ Careful \in BOOLEAN

VARIABLES kind, store, contents
vars == <<kind, store, contents>>

B3 == INSTANCE BTree WITH Degree <- 3
B5 == INSTANCE BTree WITH Degree <- 5
T  == INSTANCE SearchTree
S  == INSTANCE SortedSet WITH LINEAR_SEARCH_LIMIT <- 2

IsBTree == kind \in {"btree3", "btree5"}

-----------------------------------------------------------------------------
(* The abstract container: a sorted sequence of keys.                      *)
Present(key) == \E i \in DOMAIN contents : contents[i] = key
With(key)    == LET UpTo(k) == k <= key
                    After(k) == key < k
                IN  Append(SelectSeq(contents, UpTo), key) \o SelectSeq(contents, After)
Without(key) == RemoveFirst(contents, key)

-----------------------------------------------------------------------------
Empty(k) == IF k \in {"set", "sorted"} THEN <<>> ELSE T!Nil

Init == /\ kind \in Kinds
        /\ store = Empty(kind)
        /\ contents = <<>>

\* A second equal key misplaces or drops others in a btree.
Insert(key) ==
  /\ Len(contents) < MaxSize[kind]
  /\ IsBTree /\ store # T!Nil => B3!Nulls(store) <= MaxNulls
  /\ Careful /\ IsBTree => ~Present(key)
  /\ store' = CASE kind = "btree3" -> B3!insert(store, key)
                [] kind = "btree5" -> B5!insert(store, key)
                [] kind = "tree"   -> T!emplace(store, key)
                [] kind = "set"    -> S!add(store, key)
                [] kind = "sorted" -> S!insert_sorted(store, key)
  /\ contents' = IF kind = "set" /\ Present(key) THEN contents ELSE With(key)
  /\ UNCHANGED kind

\* Removing a key that is not there goes wrong in a btree of one key and in a
\* set that holds a greater one.
LosesKeys(key) ==
  /\ ~Present(key)
  /\ \/ IsBTree /\ Len(contents) = 1
     \/ kind = "set" /\ \E i \in DOMAIN contents : key < contents[i]

Erase(key) ==
  /\ kind # "sorted"
  /\ Careful => ~LosesKeys(key)
  /\ store' = CASE kind = "btree3" -> B3!remove(store, key)
                [] kind = "btree5" -> B5!remove(store, key)
                [] kind = "tree"   -> T!remove(store, key)
                [] kind = "set"    -> S!erase(store, key)
  /\ contents' = Without(key)
  /\ UNCHANGED kind

\* The set operations with a second set, assigned back.
Combine(other) ==
  /\ kind = "set"
  /\ \/ /\ store' = S!merge(store, other)
        /\ contents' = SetToSortSeq(ToSet(contents) \cup ToSet(other), <)
     \/ /\ store' = S!intersect(store, other)
        /\ contents' = SetToSortSeq(ToSet(contents) \cap ToSet(other), <)
     \/ /\ Careful => ToSet(contents) \cap ToSet(other) = {}
        /\ store' = S!merge_from(store, other)
        /\ contents' = SetToSortSeq(ToSet(contents) \cup ToSet(other), <)
  /\ UNCHANGED kind

Next == \/ \E key \in Keys[kind] : Insert(key) \/ Erase(key)
        \/ \E other \in SUBSET Keys[kind] : Combine(SetToSortSeq(other, <))

Spec == Init /\ [][Next]_vars

-----------------------------------------------------------------------------
InOrder == CASE kind = "btree3" -> B3!InOrder(store)
             [] kind = "btree5" -> B5!InOrder(store)
             [] kind = "tree"   -> T!InOrder(store)
             [] OTHER           -> store

Find(key) == CASE kind = "btree3" -> B3!find(store, key)
               [] kind = "btree5" -> B5!find(store, key)
               [] kind = "tree"   -> T!find(store, key)
               [] OTHER           -> S!contains(store, key)

\* Through every sequence of calls the container holds just the keys that were
\* put in and not taken out, in order: no split, rotation, merge or promotion
\* of a successor loses, repeats or misplaces one (btree.h:85-100, 202-351,
\* tree.h:42-63, set.h:104-202).
ContentsExact == kind \in Kinds => InOrder = contents

\* Whatever was done before, find() reaches every key the container holds and
\* none other (btree.h:37-49, tree.h:113-136, set.h:56-82).
Findable == kind \in Kinds => \A key \in Keys[kind] : Find(key) <=> Present(key)

\* A btree stays balanced: its leaves are at one depth, every inner node has
\* one child more than values, only a root is empty, and no node holds more
\* values than the degree, one more than insertion alone would leave.
Balanced ==
  IsBTree /\ store # T!Nil =>
    /\ Cardinality(B3!Heights(store)) = 1
    /\ IF kind = "btree3" THEN B3!NodesSound(store, TRUE) ELSE B5!NodesSound(store, TRUE)
=============================================================================
