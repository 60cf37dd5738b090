------------------------------- MODULE LazyAtomic -------------------------------
(***************************************************************************)
(* txl::lazy_atomic (atomic.h): an atomic node that is empty, pending or   *)
(* the address of a value.  The thread that swaps empty for pending makes  *)
(* the value; the others spin.  Every load and every compare-and-swap is a *)
(* step; an address that was deleted may be allocated again.               *)
(***************************************************************************)
EXTENDS Naturals, FiniteSets

CONSTANTS
    Threads,
    Addresses,      \* of the values on the heap
    Empty, Pending, \* the nodes 0x0 and 0x1
    MaxClears,      \* bound: calls of clear() and operator=
    MaxSpurious     \* bound: compare-and-swaps that fail on equal values

\* of the constants
LazyAssumption ==
    /\ {Empty, Pending} \cap Addresses = {} /\ Empty # Pending
    /\ MaxClears \in Nat /\ MaxSpurious \in Nat

VARIABLES
    mem,    \* value_, the addresses in use, and how much of each bound is used
    pc,
    loc     \* the locals of each thread's call

vars == <<mem, pc, loc>>

Nodes == Addresses \cup {Empty, Pending}
Pcs   == {"idle", "clear_load", "clear_cas", "delete", "reserve_load", "reserve_cas",
          "make", "install_load", "install_cas", "spin"}

\* op: the call; expected: the node it read; made: the address it holds; quiet:
\* no clear has emptied the node since the call began; got: the last answer
NoLocals == [op |-> "ptr", expected |-> Empty, made |-> Empty, quiet |-> TRUE, got |-> Pending]

Init ==
    /\ mem = [value |-> Empty, heap |-> {}, clears |-> 0, spurious |-> 0]
    /\ pc = [t \in Threads |-> "idle"]
    /\ loc = [t \in Threads |-> NoLocals]

Goto(t, l) == pc' = [pc EXCEPT ![t] = l]
Return(t)  == Goto(t, "idle") /\ loc' = [loc EXCEPT ![t] = NoLocals]

CallPtr(t) ==
    /\ pc[t] = "idle"
    /\ Goto(t, "reserve_load")
    /\ loc' = [loc EXCEPT ![t] = NoLocals]
    /\ UNCHANGED mem

CallClear(t) ==
    /\ pc[t] = "idle"
    /\ mem.clears < MaxClears
    /\ mem' = [mem EXCEPT !.clears = @ + 1]
    /\ Goto(t, "clear_load")
    /\ \E op \in {"clear", "assign"} : loc' = [loc EXCEPT ![t] = [NoLocals EXCEPT !.op = op]]

\* a weak compare-and-swap that fails although the node is the expected one
SpuriousFailure(t) ==
    /\ mem.value = loc[t].expected
    /\ mem.spurious < MaxSpurious
    /\ mem' = [mem EXCEPT !.spurious = @ + 1]

----------------------------------------------------------------------------
(* clear(), which operator= begins with                                    *)

Cleared(t) == IF loc[t].op = "assign"
              THEN Goto(t, "reserve_load") /\ UNCHANGED loc
              ELSE Return(t)

\* has_value()
\* mutant: a pending node counts as a value
NotEmpty(node) == node # Empty
HasValue(node) == node \in Addresses

ClearLoad(t) ==
    /\ pc[t] = "clear_load"
    /\ IF HasValue(mem.value)
       THEN /\ loc' = [loc EXCEPT ![t].expected = mem.value]
            /\ Goto(t, "clear_cas")
       ELSE Cleared(t)
    /\ UNCHANGED mem

ClearCas(t) ==
    /\ pc[t] = "clear_cas"
    /\ \/ /\ mem.value = loc[t].expected
          /\ mem' = [mem EXCEPT !.value = Empty]
          /\ loc' = [u \in Threads |-> [loc[u] EXCEPT !.quiet = FALSE]]
          /\ Goto(t, "delete")
       \/ /\ mem.value # loc[t].expected
          /\ Goto(t, "clear_load")
          /\ UNCHANGED <<mem, loc>>
       \/ /\ SpuriousFailure(t)
          /\ Goto(t, "clear_load")
          /\ UNCHANGED loc

\* expected.destroy()
Delete(t) ==
    /\ pc[t] = "delete"
    /\ mem' = [mem EXCEPT !.heap = @ \ {loc[t].expected}]
    /\ Cleared(t)

----------------------------------------------------------------------------
(* ptr() and the rest of operator=                                         *)

\* the place is taken: ptr() waits for the value, operator= drops its own
Taken(t) == IF loc[t].op = "ptr" THEN Goto(t, "spin") /\ UNCHANGED loc ELSE Return(t)

ReserveLoad(t) ==
    /\ pc[t] = "reserve_load"
    /\ IF mem.value = Empty
       THEN /\ loc' = [loc EXCEPT ![t].expected = Empty]
            /\ Goto(t, "reserve_cas")
       ELSE Taken(t)
    /\ UNCHANGED mem

\* mutant: reserve with a plain store
ReserveStore(t) ==
    /\ pc[t] = "reserve_cas"
    /\ mem' = [mem EXCEPT !.value = Pending]
    /\ Goto(t, "make")
    /\ UNCHANGED loc
ReserveCas(t) ==
    /\ pc[t] = "reserve_cas"
    /\ \/ /\ mem.value = Empty
          /\ mem' = [mem EXCEPT !.value = Pending]
          /\ Goto(t, "make")
       \/ /\ mem.value # Empty
          /\ Goto(t, "reserve_load")
          /\ UNCHANGED mem
       \/ /\ SpuriousFailure(t)
          /\ Goto(t, "reserve_load")
    /\ UNCHANGED loc

\* factory_() or new Value(std::move(v)), and the load before the next swap
Make(t) ==
    /\ pc[t] = "make"
    /\ \E a \in Addresses \ mem.heap :
          /\ mem' = [mem EXCEPT !.heap = @ \cup {a}]
          /\ loc' = [loc EXCEPT ![t].made = a]
    /\ Goto(t, "install_load")

InstallLoad(t) ==
    /\ pc[t] = "install_load"
    /\ loc' = [loc EXCEPT ![t].expected = mem.value]
    /\ Goto(t, "install_cas")
    /\ UNCHANGED mem

InstallCas(t) ==
    /\ pc[t] = "install_cas"
    /\ \/ /\ mem.value = loc[t].expected
          /\ mem' = [mem EXCEPT !.value = loc[t].made]
          /\ IF loc[t].op = "ptr"
             THEN Goto(t, "spin") /\ loc' = [loc EXCEPT ![t].made = Empty]
             ELSE Return(t)
       \/ /\ mem.value # loc[t].expected
          /\ Goto(t, "install_load")
          /\ UNCHANGED <<mem, loc>>
       \/ /\ SpuriousFailure(t)
          /\ Goto(t, "install_load")
          /\ UNCHANGED loc

\* while (expected.is_pending())
Spin(t) ==
    /\ pc[t] = "spin"
    /\ mem.value # Pending
    /\ loc' = [loc EXCEPT ![t].got = mem.value]
    /\ Goto(t, "idle")
    /\ UNCHANGED mem

Step(t) ==
    \/ ClearLoad(t) \/ ClearCas(t) \/ Delete(t)
    \/ ReserveLoad(t) \/ ReserveCas(t) \/ Make(t) \/ InstallLoad(t) \/ InstallCas(t)
    \/ Spin(t)

Next == \E t \in Threads : CallPtr(t) \/ CallClear(t) \/ Step(t)

Spec == Init /\ [][Next]_vars /\ \A t \in Threads : WF_vars(Step(t))

----------------------------------------------------------------------------
TypeOK ==
    /\ mem \in [value : Nodes, heap : SUBSET Addresses,
                clears : 0..MaxClears, spurious : 0..MaxSpurious]
    /\ pc \in [Threads -> Pcs]
    /\ loc \in [Threads -> [op : {"ptr", "clear", "assign"}, expected : Nodes, made : Nodes,
                            quiet : BOOLEAN, got : Nodes]]

\* the threads that hold a's value outside the node: the maker and the deleter
HoldersOf(a) == {t \in Threads : loc[t].made = a \/ (pc[t] = "delete" /\ loc[t].expected = a)}

\* Each value on the heap is in the node or with the one thread that made it or
\* took it out, and no address off the heap is: nothing leaks, nothing is deleted
\* twice, whatever clears and assignments race (atomic.h:239-256, 277-286).
OwnedOnce == \A a \in Addresses :
    Cardinality(HoldersOf(a)) + (IF mem.value = a THEN 1 ELSE 0) = (IF a \in mem.heap THEN 1 ELSE 0)

\* A pending node has just one thread to complete it (atomic.h:262-317).
ReservedByOne ==
    Cardinality({t \in Threads : pc[t] \in {"make", "install_load", "install_cas"}})
        = (IF mem.value = Pending THEN 1 ELSE 0)

\* ptr() answers a value that is still on the heap, unless a clear or an
\* assignment emptied the node meanwhile or since: then get() dereferences a null
\* or a deleted value (atomic.h:319-331).
GotValue == \A t \in Threads :
    pc[t] = "idle" /\ loc[t].got # Pending /\ loc[t].quiet => loc[t].got \in mem.heap

InPtr(t) == pc[t] # "idle" /\ loc[t].op = "ptr"

\* Every ptr() returns: whoever reserved the node completes it.
PtrReturns == \A t \in Threads : InPtr(t) ~> pc[t] = "idle"
=============================================================================
