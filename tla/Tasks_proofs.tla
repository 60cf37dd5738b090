------------------------------ MODULE Tasks_proofs ------------------------------
(***************************************************************************)
(* Proofs about Tasks, for any number of workers, calls and chain length:  *)
(* one worker at a time writes the promise of a task that has a function,  *)
(* and a call returns the outcome of its own chain.                        *)
(***************************************************************************)
EXTENDS Tasks, TLAPS

\* The types that the argument needs.
Typed ==
    /\ len \in Nat /\ calls \in Nat
    /\ opc \in OwnerPcs
    /\ flag \in BOOLEAN /\ stopped \in BOOLEAN
    /\ wpc   \in [Workers -> WorkerPcs]
    /\ wcall \in [Workers -> Nat]
    /\ step  \in [Workers -> Nat]
    /\ queue \subseteq Nat

\* w has a closure that has not raised the flag yet.
Busy(w) == wpc[w] \notin {"free", "notify"}

\* The promise holds the outcome of step k of the call that is on.
Holds(k) == res = Value(calls, k) \/ res = Error(calls, k)

\* The outcome of the call is there for good.
Finished ==
    /\ res.has \in {"value", "exception"}
    /\ res.call = calls
    /\ res.step = len \/ stopped

\* The closure of a call is in the queue, then with one worker, and then done:
\* at each of these the owner waits and the flag is down.
QueuedAlone ==
    queue # {} =>
        /\ opc = "wait" /\ ~flag
        /\ queue = {calls}
        /\ \A w \in Workers : ~Busy(w)

BusyAlone ==
    \A w \in Workers : Busy(w) =>
        /\ opc = "wait" /\ ~flag
        /\ queue = {}
        /\ wcall[w] = calls
        /\ \A x \in Workers : Busy(x) => x = w

\* What a worker has written when it is at a place in its closure's code.
Progress ==
    \A w \in Workers :
        /\ wpc[w] \notin {"early_set", "early_notify"}
        /\ Busy(w) => step[w] <= len
        /\ wpc[w] \in {"next", "complete", "test", "set"} => Holds(step[w])
        /\ wpc[w] \in {"complete", "test", "set"} => step[w] = len \/ stopped

\* The flag that the owner waits for is down until the call is finished.
FlagMeansFinished ==
    /\ opc = "run" => ~flag
    /\ opc = "wait" /\ flag => Finished
    /\ opc = "take" => Finished

TaskInv == len > 0 => QueuedAlone /\ BusyAlone /\ Progress /\ FlagMeansFinished

Inv == Typed /\ TaskInv

\* The types are kept.
LEMMA TypedStep == Typed /\ [Next]_vars => Typed'
<1> SUFFICES ASSUME Typed, [Next]_vars PROVE Typed'
  OBVIOUS
<1> USE DEF Typed, OwnerPcs, WorkerPcs, WGoto, params, owner, worker
<1>1. CASE Owner
  BY <1>1 DEF Owner, ResetFlag, Run, Wait, TakeResult
<1>2. CASE CallReset \/ Destroy \/ Stop
  <2>1. CASE CallReset
    BY <2>1 DEF CallReset
  <2>2. CASE Destroy
    BY <2>2 DEF Destroy
  <2>3. CASE Stop
    BY <2>3 DEF Stop
  <2> QED
    BY <1>2, <2>1, <2>2, <2>3
<1>3. ASSUME NEW w \in Workers, Worker(w) PROVE Typed'
  <2>1. CASE TakeClosure(w)
    BY <2>1 DEF TakeClosure
  <2>2. CASE Execute(w)
    BY <2>2 DEF Execute
  <2>3. CASE NextStep(w)
    BY <2>3 DEF NextStep
  <2>4. CASE Complete(w) \/ SetFlag(w) \/ NotifyCond(w) \/ NotifyTest(w)
    BY <2>4 DEF Complete, SetFlag, NotifyCond, NotifyTest
  <2> QED
    BY <1>3, <2>1, <2>2, <2>3, <2>4 DEF Worker
<1>4. CASE UNCHANGED vars
  BY <1>4 DEF vars
<1> QED
  BY <1>1, <1>2, <1>3, <1>4 DEF Next

\* The owner, the thread that stops the pool, and one call that starts or ends.
LEMMA OwnerStep ==
  ASSUME Typed, TaskInv, len > 0, Owner \/ CallReset \/ Destroy \/ Stop
  PROVE  (QueuedAlone /\ BusyAlone /\ Progress /\ FlagMeansFinished)'
<1> USE DEF Typed, TaskInv, QueuedAlone, BusyAlone, Progress, FlagMeansFinished, Busy, params,
            owner, worker
<1>1. CASE CallReset
  BY <1>1 DEF CallReset
<1>2. CASE ResetFlag
  BY <1>2 DEF ResetFlag, Finished
<1>3. CASE Run
  BY <1>3 DEF Run, Finished
<1>4. CASE Wait
  BY <1>4 DEF Wait, Finished
<1>5. CASE TakeResult
  BY <1>5 DEF TakeResult, Finished
<1>6. CASE Destroy
  BY <1>6 DEF Destroy, Finished
<1>7. CASE Stop
  BY <1>7 DEF Stop, Finished, Holds
<1> QED
  BY <1>1, <1>2, <1>3, <1>4, <1>5, <1>6, <1>7 DEF Owner

\* A worker takes the closure of the call, and is then the only busy one.
LEMMA TakeStep ==
  ASSUME Typed, TaskInv, len > 0, NEW w \in Workers, TakeClosure(w)
  PROVE  (QueuedAlone /\ BusyAlone /\ Progress /\ FlagMeansFinished)'
<1> USE DEF Typed, TaskInv, QueuedAlone, BusyAlone, Progress, FlagMeansFinished, Busy, params,
            owner, worker
<1>1. /\ opc = "wait" /\ ~flag /\ queue = {calls} /\ \A x \in Workers : ~Busy(x)
      /\ queue' = {} /\ wcall'[w] = calls /\ step'[w] = 1
      /\ wpc' = [wpc EXCEPT ![w] = "execute"]
      /\ \A x \in Workers \ {w} : step'[x] = step[x] /\ wcall'[x] = wcall[x]
      /\ UNCHANGED <<params, res, flag, owner, stopped>>
  BY DEF TakeClosure, WGoto
<1> QED
  BY <1>1

\* The busy worker goes through the chain, and raises the flag at its end only.
LEMMA BusyStep ==
  ASSUME Typed, TaskInv, len > 0, NEW w \in Workers,
         Execute(w) \/ NextStep(w) \/ Complete(w) \/ SetFlag(w) \/ NotifyCond(w) \/ NotifyTest(w)
  PROVE  (QueuedAlone /\ BusyAlone /\ Progress /\ FlagMeansFinished)'
<1> USE DEF Typed, TaskInv, QueuedAlone, BusyAlone, Progress, FlagMeansFinished, Busy, params,
            owner, worker, WGoto
<1>1. CASE Execute(w)
  BY <1>1 DEF Execute, Holds, Value, Error
<1>2. CASE NextStep(w)
  BY <1>2 DEF NextStep, next, Holds
<1>3. CASE Complete(w)
  <2>1. has_value \/ has_exception
    BY <1>3 DEF Complete, Holds, Value, Error, has_value, has_exception
  <2> QED
    BY <1>3, <2>1 DEF Complete, Holds
<1>4. CASE SetFlag(w)
  <2>1. Holds(step[w]) /\ (step[w] = len \/ stopped)
    BY <1>4 DEF SetFlag
  <2>2. Finished
    BY <2>1 DEF Holds, Value, Error, Finished
  <2> QED
    BY <1>4, <2>2 DEF SetFlag, Finished, Holds
<1>5. CASE NotifyCond(w)
  BY <1>5 DEF NotifyCond, Finished, Holds
<1>6. CASE NotifyTest(w)
  <2>1. res # Empty
    BY <1>6 DEF NotifyTest, Holds, Value, Error, Empty
  <2> QED
    BY <1>6, <2>1 DEF NotifyTest, Holds
<1> QED
  BY <1>1, <1>2, <1>3, <1>4, <1>5, <1>6

\* No interleaving of calls, workers and a stop of the pool breaks the invariant.
THEOREM Invariance == Spec => []Inv
<1>1. Init => Inv
  <2> SUFFICES ASSUME Init PROVE Inv
    OBVIOUS
  <2>1. Typed
    <3>1. len \in Nat /\ calls \in Nat /\ opc \in OwnerPcs
      BY BoundsAssumption DEF Init, OwnerPcs
    <3>2. flag \in BOOLEAN /\ stopped \in BOOLEAN
      BY DEF Init
    <3>3. /\ wpc \in [Workers -> WorkerPcs]
          /\ wcall \in [Workers -> Nat] /\ step \in [Workers -> Nat]
      BY DEF Init, WorkerPcs
    <3> QED
      BY <3>1, <3>2, <3>3 DEF Init, Typed
  <2>2. queue = {} /\ opc = "idle" /\ \A w \in Workers : wpc[w] = "free"
    BY DEF Init
  <2> QED
    BY <2>1, <2>2 DEF Inv, TaskInv, QueuedAlone, BusyAlone, Progress, FlagMeansFinished, Busy
<1>2. Inv /\ [Next]_vars => Inv'
  <2> SUFFICES ASSUME Inv, [Next]_vars PROVE Inv'
    OBVIOUS
  <2>1. Typed'
    BY TypedStep DEF Inv
  <2>2. len' = len
    BY DEF Next, Owner, Worker, CallReset, ResetFlag, Run, Wait, TakeResult, Destroy, Stop,
       TakeClosure, Execute, NextStep, Complete, SetFlag, NotifyCond, NotifyTest, params, vars
  <2>3. ASSUME len > 0
        PROVE  (QueuedAlone /\ BusyAlone /\ Progress /\ FlagMeansFinished)'
    <3>1. CASE UNCHANGED vars
      BY <2>3, <3>1 DEF vars, params, owner, worker, Inv, TaskInv, QueuedAlone, BusyAlone,
         Progress, FlagMeansFinished, Busy, Holds, Finished
    <3>2. CASE Owner \/ CallReset \/ Destroy \/ Stop
      BY <2>3, <3>2, OwnerStep DEF Inv
    <3>3. ASSUME NEW w \in Workers, Worker(w)
          PROVE  (QueuedAlone /\ BusyAlone /\ Progress /\ FlagMeansFinished)'
      BY <2>3, <3>3, TakeStep, BusyStep DEF Inv, Worker
    <3> QED
      BY <3>1, <3>2, <3>3 DEF Next
  <2> QED
    BY <2>1, <2>2, <2>3 DEF Inv, TaskInv
<1> QED
  BY <1>1, <1>2, PTL DEF Spec

\* A call of a task that has a function returns the outcome of its own last
\* step, for any number of workers and any length of the chain.
THEOREM ResultIsOwn == Spec => []OwnResult
<1>1. Inv => OwnResult
  BY DEF Inv, TaskInv, FlagMeansFinished, Finished, OwnResult
<1> QED
  BY <1>1, Invariance, PTL

\* No two workers write the promise, although the one of the call before may
\* still be notifying when the next call's closure starts.
THEOREM WriterIsAlone == Spec => []OneWriter
<1>1. Inv => OneWriter
  BY DEF Inv, TaskInv, BusyAlone, Busy, OneWriter
<1> QED
  BY <1>1, Invariance, PTL
=============================================================================
