------------------------------ MODULE AtomicStack ------------------------------
(***************************************************************************)
(* What txl::atomic_linked_list promises its callers: a stack of values    *)
(* whose operations each take effect at one instant between their call and *)
(* their return, whatever the other threads do.  No addresses, no          *)
(* generation counters and no retries appear here; AtomicLinkedList is     *)
(* shown to implement this specification.                                  *)
(***************************************************************************)
EXTENDS Sequences

CONSTANTS
    Threads,    \* threads that share the list
    Values,     \* what they push
    None        \* the empty std::optional

VARIABLES
    stack,      \* the values in the list, front first
    op          \* op[t]: the call thread t is in, and its outcome once it has taken effect

vars == <<stack, op>>

idle        == [call |-> "none"]
pushing(v)  == [call |-> "push", arg |-> v]
pushed      == [call |-> "pushed"]
popping     == [call |-> "pop"]
popped(r)   == [call |-> "popped", res |-> r]
releasing   == [call |-> "release"]
released(s) == [call |-> "released", res |-> s]

Init ==
    /\ stack = <<>>
    /\ op = [t \in Threads |-> idle]

Call(t) ==
    /\ op[t] = idle
    /\ \/ \E v \in Values : op' = [op EXCEPT ![t] = pushing(v)]
       \/ op' = [op EXCEPT ![t] = popping]
       \/ op' = [op EXCEPT ![t] = releasing]
    /\ UNCHANGED stack

Push(t) ==
    /\ op[t].call = "push"
    /\ stack' = <<op[t].arg>> \o stack
    /\ op' = [op EXCEPT ![t] = pushed]

Pop(t) ==
    /\ op[t] = popping
    /\ IF stack = <<>>
       THEN /\ op' = [op EXCEPT ![t] = popped(None)]
            /\ UNCHANGED stack
       ELSE /\ op' = [op EXCEPT ![t] = popped(Head(stack))]
            /\ stack' = Tail(stack)

\* release hands the whole list to one caller
Release(t) ==
    /\ op[t] = releasing
    /\ op' = [op EXCEPT ![t] = released(stack)]
    /\ stack' = <<>>

Return(t) ==
    /\ op[t].call \in {"pushed", "popped", "released"}
    /\ op' = [op EXCEPT ![t] = idle]
    /\ UNCHANGED stack

Next == \E t \in Threads : Call(t) \/ Push(t) \/ Pop(t) \/ Release(t) \/ Return(t)

Spec == Init /\ [][Next]_vars
=============================================================================
