----------------------------- MODULE Awaiter_proofs -----------------------------
(***************************************************************************)
(* Proofs about Awaiter, for every set of threads: no wakeup is lost, and  *)
(* the awaiter is the flag of Signal as far as safety goes.                *)
(***************************************************************************)
EXTENDS Awaiter, TLAPS

\* What the steps of an awaiter preserve.
Inv == TypeOK /\ NoLostWakeup


\* The waiters, the flag and the notifications on their way stay in step
\* whatever one thread does in awaiter's functions, or if nothing happens.
LEMMA InvStep == Inv /\ [Next]_vars => Inv'
<1> SUFFICES ASSUME Inv, [Next]_vars PROVE Inv'
  OBVIOUS
<1> USE DEF Inv, TypeOK, NoLostWakeup, Pcs
<1>1. ASSUME NEW t \in Threads, Call(t) PROVE Inv'
  BY <1>1 DEF Call, Goto
<1>2. ASSUME NEW t \in Threads, CallWaitAndReset(t) PROVE Inv'
  BY <1>2 DEF CallWaitAndReset, Goto
<1>3. ASSUME NEW t \in Threads, Set(t) PROVE Inv'
  BY <1>3 DEF Set, Goto
<1>4. ASSUME NEW t \in Threads, NotifyAll(t) PROVE Inv'
  BY <1>4 DEF NotifyAll
<1>5. ASSUME NEW t \in Threads, WaitRead(t) PROVE Inv'
  BY <1>5 DEF WaitRead, Waited, Goto
<1>6. ASSUME NEW t \in Threads, WaitTest(t) PROVE Inv'
  BY <1>6 DEF WaitTest, Waited, Goto
<1>7. ASSUME NEW t \in Threads, Reset(t) PROVE Inv'
  BY <1>7 DEF Reset, Goto
<1>8. ASSUME NEW t \in Threads, SpuriousWake(t) PROVE Inv'
  BY <1>8 DEF SpuriousWake, Goto
<1>9. CASE UNCHANGED vars
  BY <1>9 DEF vars
<1> QED
  BY <1>1, <1>2, <1>3, <1>4, <1>5, <1>6, <1>7, <1>8, <1>9 DEF Next, Step

\* Nobody waits at the start.
LEMMA InvStart == Init => Inv
BY DEF Init, Inv, TypeOK, NoLostWakeup, Pcs

\* No wakeup is lost, for any number of threads and any spurious wakeups.
THEOREM Invariance == Spec => []Inv
BY InvStart, InvStep, PTL DEF Spec

\* The flag of the awaiter is never up while a thread sleeps on it that no
\* set() is about to notify.
THEOREM WakeupsArrive == Spec => []NoLostWakeup
BY Invariance, PTL DEF Inv

----------------------------------------------------------------------------
\* The call a thread is in, when it is at l and waits_and_resets or not.
bar(l, r) ==
    CASE l = "idle"   -> "none"
      [] l = "notify" -> "set_done"
      [] l \in {"wait_read", "wait_lock", "blocked"} -> IF r THEN "wait_and_reset" ELSE "wait"
      [] OTHER        -> l

\* callBar is bar at each thread.
LEMMA CallBar == callBar = [t \in Threads |-> bar(pc[t], t \in resets)]
BY DEF callBar, bar

\* A step that moves one thread from one place to another changes the abstract
\* call of that thread only.
LEMMA CallBarExcept ==
  ASSUME Inv, NEW t \in Threads,
         \A u \in Threads \ {t} : bar(pc'[u], u \in resets') = bar(pc[u], u \in resets)
  PROVE  callBar' = [callBar EXCEPT ![t] = bar(pc'[t], t \in resets')]
<1>1. callBar' = [u \in Threads |-> bar(pc'[u], u \in resets')]
  BY DEF callBar, bar
<1> QED
  BY <1>1, CallBar

\* Replacing a thread's abstract call by itself changes nothing.
LEMMA SameCall ==
  ASSUME NEW t \in Threads, callBar' = [callBar EXCEPT ![t] = callBar[t]]
  PROVE  callBar' = callBar
<1>1. callBar = [u \in Threads |-> callBar[u]]
  BY DEF callBar
<1> QED
  BY <1>1

\* Every step of an awaiter is a step of the flag or invisible there: a wait
\* returns only when the flag is up, a set raises it, a reset lowers it.
LEMMA FlagStep == Inv /\ [Next]_vars => [Flag!Next]_(Flag!vars)
<1> SUFFICES ASSUME Inv, [Next]_vars PROVE [Flag!Next]_(Flag!vars)
  OBVIOUS
<1> USE DEF Inv, TypeOK, Pcs
<1>a. ASSUME NEW t \in Threads, NEW l, pc' = [pc EXCEPT ![t] = l],
             \A u \in Threads \ {t} : u \in resets' <=> u \in resets
      PROVE  callBar' = [callBar EXCEPT ![t] = bar(l, t \in resets')]
  <2>1. \A u \in Threads \ {t} : bar(pc'[u], u \in resets') = bar(pc[u], u \in resets)
    BY <1>a DEF bar
  <2>2. pc'[t] = l
    BY <1>a
  <2> QED
    BY <2>1, <2>2, CallBarExcept
<1>b. ASSUME NEW t \in Threads PROVE callBar[t] = bar(pc[t], t \in resets)
  BY CallBar
<1>c. ASSUME callBar' = callBar, set_' = set_ PROVE UNCHANGED Flag!vars
  BY <1>c DEF Flag!vars
<1>d. ASSUME NEW t \in Threads, callBar' = [callBar EXCEPT ![t] = callBar[t]] PROVE callBar' = callBar
  BY <1>d, SameCall
<1>1. ASSUME NEW t \in Threads, Call(t) PROVE Flag!Call(t)
  <2>1. PICK l \in {"set", "wait_read", "reset"} : pc' = [pc EXCEPT ![t] = l]
    BY <1>1 DEF Call, Goto
  <2>2. callBar' = [callBar EXCEPT ![t] = bar(l, t \in resets)] /\ t \notin resets
    BY <1>1, <1>a, <2>1 DEF Call
  <2>3. callBar[t] = "none" /\ bar(l, FALSE) \in {"set", "wait", "reset"}
    BY <1>1, <1>b DEF Call, bar
  <2> QED
    BY <1>1, <2>2, <2>3 DEF Call, Flag!Call, bar
<1>2. ASSUME NEW t \in Threads, CallWaitAndReset(t) PROVE Flag!Call(t)
  <2>1. callBar' = [callBar EXCEPT ![t] = "wait_and_reset"]
    BY <1>2, <1>a DEF CallWaitAndReset, Goto, bar
  <2>2. callBar[t] = "none"
    BY <1>2, <1>b DEF CallWaitAndReset, bar
  <2> QED
    BY <1>2, <2>1, <2>2 DEF CallWaitAndReset, Flag!Call
<1>3. ASSUME NEW t \in Threads, Set(t) PROVE Flag!Raise(t)
  <2>1. callBar' = [callBar EXCEPT ![t] = "set_done"]
    BY <1>3, <1>a DEF Set, Goto, bar
  <2>2. callBar[t] = "set"
    BY <1>3, <1>b DEF Set, bar
  <2> QED
    BY <1>3, <2>1, <2>2 DEF Set, Flag!Raise
<1>4. ASSUME NEW t \in Threads, NotifyAll(t) PROVE Flag!SetReturns(t)
  <2>1. \A u \in Threads \ {t} : bar(pc'[u], u \in resets') = bar(pc[u], u \in resets)
    BY <1>4 DEF NotifyAll, bar
  <2>2. callBar' = [callBar EXCEPT ![t] = "none"]
    BY <1>4, <2>1, CallBarExcept DEF NotifyAll, bar
  <2>3. callBar[t] = "set_done"
    BY <1>4, <1>b DEF NotifyAll, bar
  <2> QED
    BY <1>4, <2>2, <2>3 DEF NotifyAll, Flag!SetReturns
<1>w. ASSUME NEW t \in Threads, pc[t] \in {"wait_read", "wait_lock"}, set_, Waited(t), UNCHANGED set_
      PROVE  Flag!WaitReturns(t)
  <2>1. callBar' = [callBar EXCEPT ![t] = IF t \in resets THEN "reset" ELSE "none"]
    BY <1>w, <1>a DEF Waited, Goto, bar
  <2>2. callBar[t] = IF t \in resets THEN "wait_and_reset" ELSE "wait"
    BY <1>w, <1>b DEF bar
  <2> QED
    BY <1>w, <2>1, <2>2 DEF Flag!WaitReturns
<1>v. ASSUME NEW t \in Threads, NEW l \in {"wait_read", "wait_lock", "blocked"},
             pc[t] \in {"wait_read", "wait_lock", "blocked"},
             pc' = [pc EXCEPT ![t] = l], UNCHANGED <<resets, set_>>
      PROVE  UNCHANGED Flag!vars
  <2>1. callBar' = [callBar EXCEPT ![t] = bar(l, t \in resets)]
    BY <1>v, <1>a
  <2>2. callBar[t] = bar(l, t \in resets)
    BY <1>v, <1>b DEF bar
  <2> QED
    BY <1>v, <2>1, <2>2, <1>c, <1>d
<1>5. ASSUME NEW t \in Threads, WaitRead(t) PROVE Flag!WaitReturns(t) \/ UNCHANGED Flag!vars
  BY <1>5, <1>w, <1>v DEF WaitRead, Goto
<1>6. ASSUME NEW t \in Threads, WaitTest(t) PROVE Flag!WaitReturns(t) \/ UNCHANGED Flag!vars
  BY <1>6, <1>w, <1>v DEF WaitTest, Goto
<1>7. ASSUME NEW t \in Threads, Reset(t) PROVE Flag!Lower(t)
  <2>1. callBar' = [callBar EXCEPT ![t] = "none"]
    BY <1>7, <1>a DEF Reset, Goto, bar
  <2>2. callBar[t] = "reset"
    BY <1>7, <1>b DEF Reset, bar
  <2> QED
    BY <1>7, <2>1, <2>2 DEF Reset, Flag!Lower
<1>8. ASSUME NEW t \in Threads, SpuriousWake(t) PROVE UNCHANGED Flag!vars
  BY <1>8, <1>v DEF SpuriousWake, Goto
<1>9. CASE UNCHANGED vars
  BY <1>9, <1>c DEF vars, callBar
<1> QED
  BY <1>1, <1>2, <1>3, <1>4, <1>5, <1>6, <1>7, <1>8, <1>9 DEF Next, Step, Flag!Next

\* An awaiter is the flag of Signal: its initial state and all of its steps are
\* those of the flag.  (That waits return is checked by TLC alone.)
THEOREM ImplementsSignal == Spec => Flag!Init /\ [][Flag!Next]_(Flag!vars)
<1>1. Init => Flag!Init
  BY DEF Init, Flag!Init, callBar
<1> QED
  BY <1>1, FlagStep, Invariance, PTL DEF Spec
=============================================================================
