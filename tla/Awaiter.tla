-------------------------------- MODULE Awaiter --------------------------------
(***************************************************************************)
(* txl::awaiter (threading.h): a bool, a mutex and a condition variable.   *)
(*                                                                         *)
(* The mutex is never held across a blocking point other than the wait on  *)
(* the condition variable, so each critical section is one action.  What   *)
(* happens outside the mutex has actions of its own: the plain read of     *)
(* set_ with which wait() begins, and the notify_all that set() issues     *)
(* after it has unlocked.  The condition variable may wake a thread that   *)
(* nobody notified.                                                        *)
(***************************************************************************)
CONSTANT Threads

VARIABLES
    set_,
    waiters,    \* the threads blocked on cond_
    pc,         \* the next step of each thread
    resets      \* the threads whose wait is part of a wait_and_reset

vars == <<set_, waiters, pc, resets>>

Pcs == {"idle", "set", "notify", "wait_read", "wait_lock", "blocked", "reset"}

Init ==
    /\ set_ = FALSE
    /\ waiters = {}
    /\ pc = [t \in Threads |-> "idle"]
    /\ resets = {}

Goto(t, l) == pc' = [pc EXCEPT ![t] = l]

Call(t) ==
    /\ pc[t] = "idle"
    /\ \E l \in {"set", "wait_read", "reset"} : Goto(t, l)
    /\ UNCHANGED <<set_, waiters, resets>>

CallWaitAndReset(t) ==
    /\ pc[t] = "idle"
    /\ Goto(t, "wait_read")
    /\ resets' = resets \cup {t}
    /\ UNCHANGED <<set_, waiters>>

\* set(): the critical section
Set(t) ==
    /\ pc[t] = "set"
    /\ set_' = TRUE
    /\ Goto(t, "notify")
    /\ UNCHANGED <<waiters, resets>>

\* set(): cond_.notify_all(), after the unlock
NotifyAll(t) ==
    /\ pc[t] = "notify"
    /\ waiters' = {}
    /\ pc' = [u \in Threads |->
                IF u = t THEN "idle" ELSE IF u \in waiters THEN "wait_lock" ELSE pc[u]]
    /\ UNCHANGED <<set_, resets>>

\* mutant: a wait_and_reset is not told from a wait the next time
WaitedKeeps(t) == Goto(t, IF t \in resets THEN "reset" ELSE "idle") /\ UNCHANGED resets
\* wait() returns; wait_and_reset() goes on to reset()
Waited(t) ==
    /\ Goto(t, IF t \in resets THEN "reset" ELSE "idle")
    /\ resets' = resets \ {t}

\* wait(): the fast path reads set_ without the lock
WaitRead(t) ==
    /\ pc[t] = "wait_read"
    /\ IF set_ THEN Waited(t) ELSE Goto(t, "wait_lock") /\ UNCHANGED resets
    /\ UNCHANGED <<set_, waiters>>

\* mutant: block without testing the predicate under the lock
WaitBlindly(t) ==
    /\ pc[t] = "wait_lock"
    /\ Goto(t, "blocked")
    /\ waiters' = waiters \cup {t}
    /\ UNCHANGED <<set_, resets>>
\* cond_.wait: with the lock held, test the predicate, and if it is false
\* release the lock and block in one step
WaitTest(t) ==
    /\ pc[t] = "wait_lock"
    /\ IF set_
       THEN Waited(t) /\ UNCHANGED waiters
       ELSE /\ Goto(t, "blocked")
            /\ waiters' = waiters \cup {t}
            /\ UNCHANGED resets
    /\ UNCHANGED set_

\* mutant: return from a wakeup without testing the predicate again
SpuriousReturn(t) ==
    pc[t] = "blocked" /\ Waited(t) /\ waiters' = waiters \ {t} /\ UNCHANGED set_
SpuriousWake(t) ==
    /\ pc[t] = "blocked"
    /\ Goto(t, "wait_lock")
    /\ waiters' = waiters \ {t}
    /\ UNCHANGED <<set_, resets>>

Reset(t) ==
    /\ pc[t] = "reset"
    /\ set_' = FALSE
    /\ Goto(t, "idle")
    /\ UNCHANGED <<waiters, resets>>

\* a call that has begun goes on, unless it is blocked
Step(t) == Set(t) \/ NotifyAll(t) \/ WaitRead(t) \/ WaitTest(t) \/ Reset(t)

Next == \E t \in Threads : Call(t) \/ CallWaitAndReset(t) \/ Step(t) \/ SpuriousWake(t)

Spec == Init /\ [][Next]_vars /\ \A t \in Threads : WF_vars(Step(t))

----------------------------------------------------------------------------
TypeOK ==
    /\ set_ \in BOOLEAN
    /\ waiters = {t \in Threads : pc[t] = "blocked"}
    /\ pc \in [Threads -> Pcs]
    /\ resets \subseteq {t \in Threads : pc[t] \in {"wait_read", "wait_lock", "blocked"}}

\* No lost wakeup: while a thread is blocked and the flag is up, some set() has
\* still to issue its notify_all.  It holds although wait() first reads the flag
\* without the lock and set() notifies without it.
NoLostWakeup == set_ /\ waiters # {} => \E t \in Threads : pc[t] = "notify"

callBar == [t \in Threads |->
    CASE pc[t] = "idle"   -> "none"
      [] pc[t] = "notify" -> "set_done"
      [] pc[t] \in {"wait_read", "wait_lock", "blocked"} ->
            IF t \in resets THEN "wait_and_reset" ELSE "wait"
      [] OTHER            -> pc[t]]

Flag == INSTANCE Signal WITH flag <- set_, call <- callBar

\* awaiter is a flag with a wait that returns, in safety and in liveness: a
\* waiter only returns at an instant at which the flag is up, and it does
\* return if the flag stays up.
IsSignal == Flag!Spec
=============================================================================
