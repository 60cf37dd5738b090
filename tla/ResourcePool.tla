------------------------------- MODULE ResourcePool -------------------------------
(***************************************************************************)
(* resource_pool.h: a queue of ready resources under a lock; get takes the *)
(* first or has the factory make one, put gives one back.                  *)
(*                                                                         *)
(* get and put hold the lock throughout, so each is one step of the thread *)
(* that calls it.  `store' is the pool and the callers' handles (a handle  *)
(* that was moved from is empty), `contents' the resources that are alive. *)
(***************************************************************************)
EXTENDS Naturals, FiniteSets, SequencesExt

CONSTANTS
    Handles,    \* the callers' variables
    InitSize,   \* made by the constructor
    MaxMade,    \* the factory makes no more than so many, and then nothing
    Null

\* of the constants
PoolAssumption ==
    IsFiniteSet(Handles) /\ InitSize \in 0..MaxMade /\ MaxMade \in Nat /\ Null \notin 1..MaxMade

VARIABLES store, contents
vars == <<store, contents>>

Init ==
    /\ store = [ready |-> [i \in 1..InitSize |-> i], handle |-> [h \in Handles |-> Null],
                made |-> InitSize]
    /\ contents = 1..InitSize

\* The handle that get is assigned to drops what it held.
Dropped(h) == {store.handle[h]} \ {Null}

GetReady(h) ==
    /\ store.ready # <<>>
    /\ store' = [store EXCEPT !.handle[h] = Head(store.ready), !.ready = Tail(@)]
    /\ contents' = contents \ Dropped(h)

GetMade(h) ==
    /\ store.ready = <<>>
    /\ store' = IF store.made = MaxMade THEN [store EXCEPT !.handle[h] = Null]
                ELSE [store EXCEPT !.handle[h] = store.made + 1, !.made = @ + 1]
    /\ contents' = (contents \ Dropped(h)) \cup (1..store'.made \ 1..store.made)

\* put, of an empty handle too: that one is ignored
\* mutant: it is queued as well
QueuesEmpty(ready, res) == Append(ready, res)
Returned(ready, res) == IF res = Null THEN ready ELSE Append(ready, res)
Put(h) ==
    /\ store' = [store EXCEPT !.ready = Returned(@, store.handle[h]), !.handle[h] = Null]
    /\ UNCHANGED contents

Drop(h) ==
    /\ store' = [store EXCEPT !.handle[h] = Null]
    /\ contents' = contents \ Dropped(h)

Next == \E h \in Handles : GetReady(h) \/ GetMade(h) \/ Put(h) \/ Drop(h)

Spec == Init /\ [][Next]_vars

----------------------------------------------------------------------------
\* Every living resource is in one place, in the queue once or in one handle, however
\* often handles are put back or dropped, and the queue never holds an empty one that get
\* would hand out while the factory could make another (resource_pool.h:77-101).
OnePlace ==
    LET held == {h \in Handles : store.handle[h] # Null}
    IN  /\ ToSet(store.ready) \cup {store.handle[h] : h \in held} = contents
        /\ Len(store.ready) + Cardinality(held) = Cardinality(contents)
=============================================================================
