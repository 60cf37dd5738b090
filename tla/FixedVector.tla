------------------------------ MODULE FixedVector ------------------------------
(***************************************************************************)
(* txl::fixed_vector (fixed_vector.h) over slots of unsafe_storage         *)
(* (storage.h), which construct and assign in place without destructing    *)
(* what was there.  A slot holds a value, the shell of a value that was    *)
(* moved out, or no object.                                                *)
(*                                                                         *)
(* `store' has two vectors of one capacity, `contents' the sequences that  *)
(* they should be.                                                         *)
(***************************************************************************)
EXTENDS Integers, SequencesExt

CONSTANTS
    Capacity, Values,
    Raw, Shell,     \* what a slot without a value holds
    Careful         \* whether the client avoids the calls that misplace elements

\* of the constants
VectorAssumption ==
    Capacity \in Nat \ {0} /\ {Raw, Shell} \cap Values = {} /\ Careful \in BOOLEAN

VARIABLES store, contents
vars == <<store, contents>>

Names == {"a", "b"}
Slots == 0..Capacity - 1
Vector(data, count) == [data |-> data, count |-> count]
EmptyVector == Vector([i \in Slots |-> Raw], 0)

Init ==
    /\ store = [x \in Names |-> EmptyVector]
    /\ contents = [x \in Names |-> <<>>]

----------------------------------------------------------------------------
(* The slots.                                                              *)

emplace(data, i, v) == [data EXCEPT ![i] = v]
erase(data, i)      == [data EXCEPT ![i] = Raw]

\* the values are constructed one after another, in slots from a place on
emplace_all(data, at, vs) ==
    [i \in Slots |-> IF i \in at..at + Len(vs) - 1 THEN vs[i - at + 1] ELSE data[i]]

\* *to = std::move(*from), which to the same slot does nothing
assign(data, from, to) == IF from = to THEN data ELSE [data EXCEPT ![to] = data[from], ![from] = Shell]

\* std::move_backward over slots: from the last of them down
move_backward(data, first, last, d_last) ==
    LET moved[k \in 0..last - first] ==
            IF k = 0 THEN data ELSE assign(moved[k - 1], last - k, d_last - k)
    IN  moved[last - first]

\* mutant: one element less is moved
opened_short(vec, at, n) == move_backward(vec.data, Min({at + 1, vec.count}), vec.count, vec.count + n)
\* room for n elements at a place
opened(vec, at, n) == move_backward(vec.data, at, vec.count, vec.count + n)

----------------------------------------------------------------------------
Set(x, vec, seq) ==
    /\ store' = [store EXCEPT ![x] = vec]
    /\ contents' = [contents EXCEPT ![x] = seq]

\* push_back and emplace_back: a full vector is left as it is
PushBack(x, v) ==
    LET vec == store[x]
    IN  IF vec.count = Capacity THEN UNCHANGED vars
        ELSE Set(x, Vector(emplace(vec.data, vec.count, v), vec.count + 1), Append(contents[x], v))

PopBack(x) ==
    LET vec == store[x]
    IN  /\ vec.count > 0
        /\ Set(x, Vector(erase(vec.data, vec.count - 1), vec.count - 1), Front(contents[x]))

\* insert of a value, or of a number of copies, and emplace
Insert(x, at, n, v) ==
    LET vec == store[x]
        vs  == [k \in 1..n |-> v]
        seq == contents[x]
    IN  /\ at \in 0..vec.count
        /\ IF vec.count + n > Capacity THEN UNCHANGED vars
           ELSE Set(x, Vector(emplace_all(opened(vec, at, n), at, vs), vec.count + n),
                    SubSeq(seq, 1, at) \o vs \o SubSeq(seq, at + 1, Len(seq)))

\* insert of a range or of an initializer_list, which does not count what it inserts
InsertRange(x, at, vs) ==
    LET vec == store[x]
        seq == contents[x]
    IN  /\ at \in 0..vec.count
        /\ Careful => vs = <<>>
        /\ IF vec.count + Len(vs) > Capacity THEN UNCHANGED vars
           ELSE Set(x, Vector(emplace_all(opened(vec, at, Len(vs)), at, vs), vec.count),
                    SubSeq(seq, 1, at) \o vs \o SubSeq(seq, at + 1, Len(seq)))

\* erase of the elements from one place up to another: those that follow are moved
\* back to front, which is right while they do not overlap the gap's end
\* mutant: the erased elements are not destructed
closed_over(data, first, last) == data
cleared_gap(data, first, last) == [i \in Slots |-> IF i \in first..last - 1 THEN Raw ELSE data[i]]
Erase(x, first, last) ==
    LET vec == store[x]
        n   == last - first
        seq == contents[x]
    IN  /\ 0 <= first /\ first < last /\ last <= vec.count
        /\ Careful => vec.count - last <= n
        /\ Set(x, Vector(move_backward(cleared_gap(vec.data, first, last), last, vec.count, vec.count - n),
                         vec.count - n),
               SubSeq(seq, 1, first) \o SubSeq(seq, last + 1, Len(seq)))

\* clear: the first count_ slots are destructed
cleared(vec) == [i \in Slots |-> IF i < vec.count THEN Raw ELSE vec.data[i]]

\* assign of a list, a range or a number of copies: clear, and push_back each
Assign(x, vs) ==
    LET kept == Min({Len(vs), Capacity})
        data == cleared(store[x])
    IN  Set(x, Vector([i \in Slots |-> IF i < kept THEN vs[i + 1] ELSE data[i]], kept),
            SubSeq(vs, 1, kept))

\* clear, and the destructor followed by a new vector
Clear(x) == Assign(x, <<>>)

\* move assignment: clear, take the slots, and leave the other with none
\* mutant: the other keeps its count
MovedCount(vec) == vec.count
LeftCount(vec) == 0
Move(x, y) ==
    LET from == store[y]
        data == cleared(store[x])
    IN  /\ x # y
        /\ store' = [store EXCEPT
             ![x] = Vector([i \in Slots |-> IF i < from.count THEN from.data[i] ELSE data[i]], from.count),
             ![y] = Vector([i \in Slots |-> IF i < from.count THEN Shell ELSE from.data[i]], LeftCount(from))]
        /\ contents' = [contents EXCEPT ![x] = contents[y], ![y] = <<>>]

\* swap goes through every slot, so both vectors must be full of objects
SwapVectors ==
    /\ Careful => \A x \in Names, i \in Slots : store[x].data[i] # Raw
    /\ store' = [store EXCEPT !["a"] = store["b"], !["b"] = store["a"]]
    /\ contents' = [contents EXCEPT !["a"] = contents["b"], !["b"] = contents["a"]]

Lists == UNION {[1..n -> Values] : n \in {0, 2, Capacity + 1}}

Next ==
    \/ \E x \in Names :
        \/ \E v \in Values : PushBack(x, v) \/ \E at \in Slots, n \in 0..2 : Insert(x, at, n, v)
        \/ PopBack(x) \/ Clear(x)
        \/ \E first \in Slots, last \in 1..Capacity : Erase(x, first, last)
        \/ \E vs \in Lists : Assign(x, vs) \/ \E at \in Slots : InsertRange(x, at, vs)
        \/ \E y \in Names : Move(x, y)
    \/ SwapVectors

Spec == Init /\ [][Next]_vars

----------------------------------------------------------------------------
\* Through every sequence of insertions and removals that shift the slots, a vector
\* holds the elements it should, in order (fixed_vector.h:295-491).
ElementsExact == \A x \in Names :
    contents[x] = [i \in 1..store[x].count |-> store[x].data[i - 1]]

\* The slots that hold a value are the first count_ of them: no element is read or
\* destructed that is none, and none is left behind undestructed.
SlotsSound == \A x \in Names, i \in Slots : store[x].data[i] \in Values <=> i < store[x].count
=============================================================================
