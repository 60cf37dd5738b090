------------------------------ MODULE StorageUnion ------------------------------
(***************************************************************************)
(* txl::storage_union (storage_union.h): one object of several types in    *)
(* one place, with the index of its type, and no other safety: reset()     *)
(* forgets the object, release() and a visitor leave a shell of it.        *)
(*                                                                         *)
(* An object is its type's index and its payload; `contents' is what each  *)
(* of two unions should hold.                                              *)
(***************************************************************************)
EXTENDS Naturals, FiniteSets

CONSTANTS
    NumTypes,
    Payloads,
    Shell,
    Careful     \* swap is of two occupied unions, or of two empty ones

\* of the constants
UnionAssumption ==
    NumTypes \in Nat \ {0} /\ Shell \notin Payloads /\ Careful \in BOOLEAN

VARIABLES store, contents
vars == <<store, contents>>

Names == {"x", "y"}
Empty == NumTypes   \* occupied_ at its maximum
Object(type, data) == [type |-> type, data |-> data]
NoObject == Object(Empty, Shell)
Union(occupied, object) == [occupied |-> occupied, object |-> object]

\* lost: payloads that were overwritten or forgotten and not destructed; misread:
\* whether an object was destructed, moved or visited as one of another type
Init ==
    /\ store = [x |-> Union(Empty, NoObject), y |-> Union(Empty, NoObject),
                lost |-> {}, misread |-> FALSE]
    /\ contents = [x \in Names |-> NoObject]

----------------------------------------------------------------------------
\* invoke_deleter: of the type that occupied_ says
Misread(u) == u.occupied # Empty /\ u.occupied # u.object.type
Deleted(u) == IF u.occupied = Empty THEN u.object ELSE NoObject
Payload(object) == {object.data} \ {Shell}

\* set: the old object is deleted and the new one constructed in its place
\* mutant: occupied_ is left as it was
KeepsIndex(u, object) == Union(IF u.occupied = Empty THEN object.type ELSE u.occupied, object)
assign(u, object) == Union(object.type, object)

Fresh == {Object(t, p) : t \in 0..NumTypes - 1,
                         p \in Payloads \ ({store[x].object.data : x \in Names} \cup store.lost)}

Set(x, object) ==
    /\ store' = [store EXCEPT ![x] = assign(@, object),
                              !.lost = @ \cup Payload(Deleted(store[x])),
                              !.misread = @ \/ Misread(store[x])]
    /\ contents' = [contents EXCEPT ![x] = object]

\* the destructor, and a union constructed anew
Renew(x) ==
    /\ store' = [store EXCEPT ![x] = Union(Empty, NoObject),
                              !.lost = @ \cup Payload(Deleted(store[x])),
                              !.misread = @ \/ Misread(store[x])]
    /\ contents' = [contents EXCEPT ![x] = NoObject]

\* visit with a visitor that moves the object out
Take(x) ==
    /\ store[x].occupied # Empty
    /\ store' = [store EXCEPT ![x].object.data = Shell, !.misread = @ \/ Misread(store[x])]
    /\ contents' = [contents EXCEPT ![x].data = Shell]

\* release<T>: the same, and reset
Release(x) ==
    /\ store[x].occupied # Empty
    /\ store' = [store EXCEPT ![x] = Union(Empty, Object(@.object.type, Shell)),
                              !.misread = @ \/ Misread(store[x])]
    /\ contents' = [contents EXCEPT ![x] = NoObject]

\* reset, of an object that was moved out: it would not be destructed
Reset(x) ==
    /\ store[x].object.data = Shell
    /\ store' = [store EXCEPT ![x].occupied = Empty]
    /\ contents' = [contents EXCEPT ![x] = NoObject]

\* std::swap: x to a third, y to x, and the third to y, each by a visitor of the one
\* that sets the other; a visitor of an empty union is not called.  What was moved
\* from stays occupied until it is set.
\* mutant: x is not set again
HalfSwapped(u, v) == [x |-> u, y |-> IF u.occupied = Empty THEN v ELSE assign(v, u.object)]
Swapped(u, v) ==
    LET shell(w) == IF w.occupied = Empty THEN w ELSE Union(w.occupied, Object(w.object.type, Shell))
    IN  [x |-> IF v.occupied = Empty THEN shell(u) ELSE assign(u, v.object),
         y |-> IF u.occupied = Empty THEN shell(v) ELSE assign(v, u.object)]

Swap ==
    LET swapped == Swapped(store.x, store.y)
    IN  /\ Careful => (store.x.occupied = Empty <=> store.y.occupied = Empty)
        /\ store' = [store EXCEPT !.x = swapped.x, !.y = swapped.y,
                                  !.misread = @ \/ Misread(store.x) \/ Misread(store.y)]
        /\ contents' = [x |-> contents.y, y |-> contents.x]

Next ==
    \/ \E x \in Names : (\E object \in Fresh : Set(x, object))
                        \/ Renew(x) \/ Take(x) \/ Release(x) \/ Reset(x)
    \/ Swap

Spec == Init /\ [][Next]_vars

----------------------------------------------------------------------------
\* Each union holds what it should, under the index of its type; no object is touched
\* as one of another type, and no payload is lost or in two unions
\* (storage_union.h:150-206, 223-233).
UnionExact ==
    /\ \A x \in Names :
        /\ store[x].occupied = contents[x].type
        /\ store[x].occupied # Empty => store[x].object = contents[x]
        /\ store[x].object.data \in Payloads => store[x].occupied # Empty
    /\ store.x.object.data \in Payloads => store.x.object.data # store.y.object.data
    /\ store.lost = {} /\ ~store.misread
=============================================================================
