-------------------------------- MODULE Signal --------------------------------
(***************************************************************************)
(* What txl::awaiter promises: a flag.  set() raises it, reset() lowers it *)
(* and wait() returns at an instant at which it is up.  No mutex, no       *)
(* condition variable and no missed notification appear here: a thread     *)
(* that waits while the flag stays up does return.                         *)
(***************************************************************************)
CONSTANT Threads

VARIABLES
    flag,
    call    \* call[t]: the call thread t is in

vars == <<flag, call>>

Calls == {"none", "set", "set_done", "wait", "wait_and_reset", "reset"}

Init == flag = FALSE /\ call = [t \in Threads |-> "none"]

Call(t) ==
    /\ call[t] = "none"
    /\ \E c \in {"set", "wait", "wait_and_reset", "reset"} : call' = [call EXCEPT ![t] = c]
    /\ UNCHANGED flag

Raise(t) ==
    /\ call[t] = "set"
    /\ flag' = TRUE
    /\ call' = [call EXCEPT ![t] = "set_done"]

SetReturns(t) ==
    /\ call[t] = "set_done"
    /\ call' = [call EXCEPT ![t] = "none"]
    /\ UNCHANGED flag

\* wait_and_reset is a wait followed by a reset, not one atomic step
WaitReturns(t) ==
    /\ flag
    /\ \/ call[t] = "wait" /\ call' = [call EXCEPT ![t] = "none"]
       \/ call[t] = "wait_and_reset" /\ call' = [call EXCEPT ![t] = "reset"]
    /\ UNCHANGED flag

Lower(t) ==
    /\ call[t] = "reset"
    /\ flag' = FALSE
    /\ call' = [call EXCEPT ![t] = "none"]

Next == \E t \in Threads :
            Call(t) \/ Raise(t) \/ SetReturns(t) \/ WaitReturns(t) \/ Lower(t)

Spec == /\ Init /\ [][Next]_vars
        /\ \A t \in Threads : /\ WF_vars(Raise(t)) /\ WF_vars(SetReturns(t))
                              /\ WF_vars(WaitReturns(t)) /\ WF_vars(Lower(t))
=============================================================================
