---------------------------- MODULE ThreadPool_proofs ----------------------------
(***************************************************************************)
(* Proofs about ThreadPool, for any number of workers, clients and jobs:   *)
(* no worker sleeps on work that was pushed, or through a stop, and each   *)
(* work object is in one place from the moment it is accepted to the       *)
(* moment it is complete.  From where they are follows what pending_ says  *)
(* of them, and from that what wait_for_idle promises.                     *)
(***************************************************************************)
EXTENDS ThreadPool, FiniteSetTheorems, TLAPS

\* A counter stays in its range: adding or subtracting one wraps.
LEMMA CounterWraps ==
  ASSUME NEW n \in 0..CounterMod - 1
  PROVE  /\ minus_one(n) \in 0..CounterMod - 1
         /\ (n + 1) % CounterMod \in 0..CounterMod - 1
BY CounterAssumption DEF minus_one

\* What a pop takes is a job, and what it leaves is a list of jobs.
LEMMA FirstOfList ==
  ASSUME NEW s \in Seq(Jobs), s # <<>>
  PROVE  Head(s) \in Jobs /\ Tail(s) \in Seq(Jobs)
OBVIOUS

\* A pop that finds a job hands it to the worker and keeps every type.
LEMMA PopTyped ==
  ASSUME list \in [Workers -> Seq(Jobs)], work \in [Workers -> Jobs \cup {None}],
         wpc \in [Workers -> WorkerPcs], NEW w \in Workers, PopWork(w), list[w] # <<>>,
         \A v \in Workers : wpc[v] \in {"execute", "next", "complete", "count"} => work[v] \in Jobs
  PROVE  /\ list' \in [Workers -> Seq(Jobs)]
         /\ work' \in [Workers -> Jobs \cup {None}]
         /\ wpc' \in [Workers -> WorkerPcs]
         /\ \A v \in Workers : wpc'[v] \in {"execute", "next", "complete", "count"} => work'[v] \in Jobs
<1>1. list' = [list EXCEPT ![w] = Tail(list[w])] /\ work' = [work EXCEPT ![w] = Head(list[w])]
  BY DEF PopWork
<1>2. wpc' = [wpc EXCEPT ![w] = "execute"]
  BY DEF PopWork, WGoto
<1>3. Head(list[w]) \in Jobs /\ Tail(list[w]) \in Seq(Jobs)
  BY FirstOfList
<1> QED
  BY <1>1, <1>2, <1>3 DEF WorkerPcs

\* What a push leaves is a list of jobs that is not empty.
LEMMA PushedList ==
  ASSUME NEW s \in Seq(Jobs), NEW j \in Jobs
  PROVE  <<j>> \o s \in Seq(Jobs) /\ <<j>> \o s # <<>>
OBVIOUS

\* The owner's loops over workers_ stay among the workers, and concern nobody
\* else's index or place in the code.
LEMMA NextWorker ==
  ASSUME TypeOK, index[Owner] \in Workers,
         NEW again \in ClientPcs, NEW then \in ClientPcs, ForEachWorker(again, then)
  PROVE  /\ index' \in [Clients -> Nat] /\ cpc' \in [Clients -> ClientPcs]
         /\ index'[Owner] \in Workers /\ cpc'[Owner] \in {again, then}
         /\ \A c \in Clients \ {Owner} : index'[c] = index[c] /\ cpc'[c] = cpc[c]
<1>1. index \in [Clients -> Nat] /\ cpc \in [Clients -> ClientPcs]
  BY DEF TypeOK
<1>2. PICK i \in Workers, l \in {again, then} :
         index' = [index EXCEPT ![Owner] = i] /\ cpc' = [cpc EXCEPT ![Owner] = l]
  <2>1. CASE index[Owner] + 1 < NumWorkers
    <3>1. index[Owner] + 1 \in Workers
      BY <2>1, PoolAssumption DEF Workers
    <3> QED
      BY <2>1, <3>1 DEF ForEachWorker, CGoto
  <2>2. CASE ~(index[Owner] + 1 < NumWorkers)
    <3>1. 0 \in Workers
      BY PoolAssumption DEF Workers
    <3> QED
      BY <2>2, <3>1 DEF ForEachWorker, CGoto
  <2> QED
    BY <2>1, <2>2
<1>3. i \in Nat
  BY PoolAssumption DEF Workers
<1> QED
  BY <1>1, <1>2, <1>3, OwnerAssumption

\* Every step keeps every variable in its type; in particular an index that is
\* used is that of a worker, however many posters overrun next_thread_index_.
LEMMA TypeStep == TypeOK /\ [Next]_vars => TypeOK'
<1> SUFFICES ASSUME TypeOK, [Next]_vars PROVE TypeOK'
  OBVIOUS
<1> USE PoolAssumption, OwnerAssumption
    DEF TypeOK, Workers, poolVars, jobVars, workerVars, clientVars,
        PostPcs, WaitPcs, OwnerPcs, ClientPcs, WorkerPcs
<1>1. ASSUME NEW w \in Workers, Loop(w) PROVE TypeOK'
  BY <1>1 DEF Loop, WGoto
<1>2. ASSUME NEW w \in Workers, PopWork(w) PROVE TypeOK'
  <2>1. CASE list[w] = <<>>
    BY <1>2, <2>1 DEF PopWork, WGoto
  <2>2. CASE list[w] # <<>>
    <3>1. Head(list[w]) \in Jobs /\ Tail(list[w]) \in Seq(Jobs)
      BY <2>2, FirstOfList
    <3>2. list' \in [Workers -> Seq(Jobs)] /\ work' \in [Workers -> Jobs \cup {None}]
      BY <1>2, <2>2, PopTyped
    <3>3. wpc' \in [Workers -> WorkerPcs]
      BY <1>2, <2>2, PopTyped
    <3>4. UNCHANGED <<poolVars, jobVars, stopped, work_flag, clientVars, starts>>
      BY <1>2 DEF PopWork
    <3>5. \A v \in Workers : wpc'[v] \in {"execute", "next", "complete", "count"} => work'[v] \in Jobs
      BY <1>2, <2>2, PopTyped
    <3> QED
      BY <3>2, <3>3, <3>4, <3>5
  <2> QED
    BY <2>1, <2>2
<1>3. ASSUME NEW w \in Workers, Execute(w) PROVE TypeOK'
  BY <1>3 DEF Execute, WGoto
<1>4. ASSUME NEW w \in Workers, NextStep(w) PROVE TypeOK'
  BY <1>4 DEF NextStep, WGoto, next
<1>5. ASSUME NEW w \in Workers, Complete(w) PROVE TypeOK'
  BY <1>5 DEF Complete, WGoto
<1>6. ASSUME NEW w \in Workers, CountDone(w) PROVE TypeOK'
  BY <1>6, CounterWraps DEF CountDone, WGoto, minus_one
<1>7. ASSUME NEW w \in Workers, Recheck(w) PROVE TypeOK'
  BY <1>7 DEF Recheck, WGoto
<1>8. ASSUME NEW w \in Workers, NotifyIdle(w) PROVE TypeOK'
  BY <1>8 DEF NotifyIdle, WGoto
<1>9. ASSUME NEW w \in Workers, WaitForWork(w) PROVE TypeOK'
  BY <1>9 DEF WaitForWork, WGoto
<1>10. ASSUME NEW w \in Workers, ResetWork(w) PROVE TypeOK'
  BY <1>10 DEF ResetWork, WGoto
<1>11. ASSUME NEW c \in Clients, PostWork(c) PROVE TypeOK'
  BY <1>11 DEF PostWork, CGoto
<1>12. ASSUME NEW c \in Clients, PostIndex(c) PROVE TypeOK'
  BY <1>12 DEF PostIndex, CGoto, past_end
<1>13. ASSUME NEW c \in Clients, PostWrap(c) PROVE TypeOK'
  BY <1>13 DEF PostWrap, CGoto
<1>14. ASSUME NEW c \in Clients, PostCheck(c) PROVE TypeOK'
  <2>1. PICK l \in {"ready", "post_push"} : cpc' = [cpc EXCEPT ![c] = l]
    BY <1>14 DEF PostCheck, CGoto
  <2>2. cpc[c] = "post_check" /\ index[c] \in Workers /\ job[c] \in Jobs
    BY <1>14 DEF PostCheck
  <2>3. job' \in [Clients -> Jobs \cup {None}] /\ (cpc'[c] = "post_push" => job' = job)
    BY <1>14 DEF PostCheck, CGoto
  <2>4. \A d \in Clients \ {c} : job'[d] = job[d]
    BY <1>14 DEF PostCheck
  <2>5. UNCHANGED <<poolVars, jobVars, workerVars, index, posted, starts>>
    BY <1>14 DEF PostCheck
  <2> QED
    BY <2>1, <2>2, <2>3, <2>4, <2>5
<1>15. ASSUME NEW c \in Clients, PostPush(c) PROVE TypeOK'
  BY <1>15, PushedList DEF PostPush, CGoto
<1>16. ASSUME NEW c \in Clients, PostSet(c) PROVE TypeOK'
  BY <1>16 DEF PostSet, CGoto
<1>17. ASSUME NEW c \in Clients, PostCount(c) PROVE TypeOK'
  BY <1>17, CounterWraps DEF PostCount, CGoto
<1>18. ASSUME NEW c \in Clients, CallWait(c) PROVE TypeOK'
  BY <1>18 DEF CallWait, CGoto
<1>19. ASSUME NEW c \in Clients, WaitLoad(c) PROVE TypeOK'
  BY <1>19 DEF WaitLoad, CGoto
<1>20. ASSUME NEW c \in Clients, WaitIdle(c) PROVE TypeOK'
  BY <1>20 DEF WaitIdle, CGoto
<1>21. ASSUME NEW c \in Clients, WaitReset(c) PROVE TypeOK'
  BY <1>21 DEF WaitReset, CGoto
<1>22. ASSUME CallStart PROVE TypeOK'
  BY <1>22 DEF CallStart, CGoto
<1>23. ASSUME StartWorker PROVE TypeOK'
  <2>1. cpc[Owner] = "start" /\ index[Owner] \in Workers
    BY <1>23 DEF StartWorker, OwnerPcs
  <2>2. /\ index' \in [Clients -> Nat] /\ cpc' \in [Clients -> ClientPcs]
        /\ index'[Owner] \in Workers /\ cpc'[Owner] \in {"start", "ready"}
        /\ \A c \in Clients \ {Owner} : index'[c] = index[c] /\ cpc'[c] = cpc[c]
    BY <1>23, <2>1, NextWorker DEF StartWorker, ClientPcs, OwnerPcs
  <2> QED
    BY <1>23, <2>1, <2>2 DEF StartWorker, WGoto
<1>24. ASSUME CallStop PROVE TypeOK'
  BY <1>24 DEF CallStop, CGoto
<1>25. ASSUME StopStore PROVE TypeOK'
  BY <1>25 DEF StopStore, CGoto
<1>26. ASSUME StopSet PROVE TypeOK'
  <2>1. cpc[Owner] = "stop_set" /\ index[Owner] \in Workers
    BY <1>26 DEF StopSet, OwnerPcs
  <2>2. /\ index' \in [Clients -> Nat] /\ cpc' \in [Clients -> ClientPcs]
        /\ index'[Owner] \in Workers /\ cpc'[Owner] \in {"stop_store", "join"}
        /\ \A c \in Clients \ {Owner} : index'[c] = index[c] /\ cpc'[c] = cpc[c]
    BY <1>26, <2>1, NextWorker DEF StopSet, ClientPcs, OwnerPcs
  <2> QED
    BY <1>26, <2>1, <2>2 DEF StopSet
<1>27. ASSUME Join PROVE TypeOK'
  <2>1. cpc[Owner] = "join" /\ index[Owner] \in Workers
    BY <1>27 DEF Join, OwnerPcs
  <2>2. /\ index' \in [Clients -> Nat] /\ cpc' \in [Clients -> ClientPcs]
        /\ index'[Owner] \in Workers /\ cpc'[Owner] \in {"join", "ready"}
        /\ \A c \in Clients \ {Owner} : index'[c] = index[c] /\ cpc'[c] = cpc[c]
    BY <1>27, <2>1, NextWorker DEF Join, ClientPcs, OwnerPcs
  <2> QED
    BY <1>27, <2>1, <2>2 DEF Join, WGoto
<1>28. CASE UNCHANGED vars
  BY <1>28 DEF vars, poolVars, jobVars, workerVars, clientVars
<1> QED
  BY <1>1, <1>2, <1>3, <1>4, <1>5, <1>6, <1>7, <1>8, <1>9, <1>10, <1>11, <1>12,
     <1>13, <1>14, <1>15, <1>16, <1>17, <1>18, <1>19, <1>20, <1>21, <1>22, <1>23,
     <1>24, <1>25, <1>26, <1>27, <1>28
  DEF Next, Worker, Post, Wait, Own

\* A worker that saw its list empty is not asleep over work pushed since: every
\* push is followed by a set() that no reset() can erase before the worker has
\* looked at its list again.
LEMMA NoLostWorkStep == TypeOK /\ NoLostWork /\ [Next]_vars => NoLostWork'
<1> SUFFICES ASSUME TypeOK, NoLostWork, [Next]_vars PROVE NoLostWork'
  OBVIOUS
<1> USE OwnerAssumption
    DEF TypeOK, NoLostWork, poolVars, jobVars, workerVars, clientVars, PostPcs, OwnerPcs
<1>1. ASSUME NEW w \in Workers, Loop(w) PROVE NoLostWork'
  BY <1>1 DEF Loop, WGoto
<1>2. ASSUME NEW w \in Workers, PopWork(w) PROVE NoLostWork'
  <2>1. CASE list[w] = <<>>
    BY <1>2, <2>1 DEF PopWork, WGoto
  <2>2. CASE list[w] # <<>>
    <3>1. wpc' = [wpc EXCEPT ![w] = "execute"]
      BY <1>2, <2>2 DEF PopWork, WGoto
    <3>2. \A v \in Workers \ {w} : list'[v] = list[v]
      BY <1>2, <2>2 DEF PopWork
    <3> QED
      BY <1>2, <3>1, <3>2 DEF PopWork
  <2> QED
    BY <2>1, <2>2
<1>3. ASSUME NEW w \in Workers, Execute(w) PROVE NoLostWork'
  BY <1>3 DEF Execute, WGoto
<1>4. ASSUME NEW w \in Workers, NextStep(w) PROVE NoLostWork'
  BY <1>4 DEF NextStep, WGoto
<1>5. ASSUME NEW w \in Workers, Complete(w) PROVE NoLostWork'
  BY <1>5 DEF Complete, WGoto
<1>6. ASSUME NEW w \in Workers, CountDone(w) PROVE NoLostWork'
  BY <1>6 DEF CountDone, WGoto
<1>7. ASSUME NEW w \in Workers, Recheck(w) PROVE NoLostWork'
  BY <1>7 DEF Recheck, WGoto
<1>8. ASSUME NEW w \in Workers, NotifyIdle(w) PROVE NoLostWork'
  <2>1. PICK l \in {"wait", "exited"} :
          wpc' = [wpc EXCEPT ![w] = l] /\ (l = "wait" => wpc[w] = "idle")
    BY <1>8 DEF NotifyIdle, WGoto
  <2>2. UNCHANGED <<list, work_flag, cpc, index>>
    BY <1>8 DEF NotifyIdle
  <2> QED
    BY <2>1, <2>2
<1>9. ASSUME NEW w \in Workers, WaitForWork(w) PROVE NoLostWork'
  BY <1>9 DEF WaitForWork, WGoto
<1>10. ASSUME NEW w \in Workers, ResetWork(w) PROVE NoLostWork'
  BY <1>10 DEF ResetWork, WGoto
<1>11. ASSUME NEW c \in Clients, PostWork(c) PROVE NoLostWork'
  BY <1>11 DEF PostWork, CGoto
<1>12. ASSUME NEW c \in Clients, PostIndex(c) PROVE NoLostWork'
  BY <1>12 DEF PostIndex, CGoto
<1>13. ASSUME NEW c \in Clients, PostWrap(c) PROVE NoLostWork'
  BY <1>13 DEF PostWrap, CGoto
<1>14. ASSUME NEW c \in Clients, PostCheck(c) PROVE NoLostWork'
  BY <1>14 DEF PostCheck, CGoto
<1>15. ASSUME NEW c \in Clients, PostPush(c) PROVE NoLostWork'
  BY <1>15 DEF PostPush, CGoto
<1>16. ASSUME NEW c \in Clients, PostSet(c) PROVE NoLostWork'
  BY <1>16 DEF PostSet, CGoto
<1>17. ASSUME NEW c \in Clients, PostCount(c) PROVE NoLostWork'
  BY <1>17 DEF PostCount, CGoto
<1>18. ASSUME NEW c \in Clients, CallWait(c) PROVE NoLostWork'
  BY <1>18 DEF CallWait, CGoto
<1>19. ASSUME NEW c \in Clients, WaitLoad(c) PROVE NoLostWork'
  BY <1>19 DEF WaitLoad, CGoto
<1>20. ASSUME NEW c \in Clients, WaitIdle(c) PROVE NoLostWork'
  BY <1>20 DEF WaitIdle, CGoto
<1>21. ASSUME NEW c \in Clients, WaitReset(c) PROVE NoLostWork'
  BY <1>21 DEF WaitReset, CGoto
<1>22. ASSUME CallStart PROVE NoLostWork'
  BY <1>22 DEF CallStart, CGoto
<1>23. ASSUME StartWorker PROVE NoLostWork'
  <2>1. cpc[Owner] = "start" /\ index[Owner] \in Workers
    BY <1>23 DEF StartWorker, OwnerPcs
  <2>2. /\ index' \in [Clients -> Nat] /\ cpc' \in [Clients -> ClientPcs]
        /\ index'[Owner] \in Workers /\ cpc'[Owner] \in {"start", "ready"}
        /\ \A c \in Clients \ {Owner} : index'[c] = index[c] /\ cpc'[c] = cpc[c]
    BY <1>23, <2>1, NextWorker DEF StartWorker, ClientPcs, OwnerPcs
  <2>3. \A v \in Workers :
          (\E c \in Clients : cpc[c] = "post_set" /\ index[c] = v)
            => \E c \in Clients : cpc'[c] = "post_set" /\ index'[c] = v
    BY <2>1, <2>2
  <2> QED
    BY <1>23, <2>1, <2>3 DEF StartWorker, WGoto
<1>24. ASSUME CallStop PROVE NoLostWork'
  BY <1>24 DEF CallStop, CGoto
<1>25. ASSUME StopStore PROVE NoLostWork'
  BY <1>25 DEF StopStore, CGoto
<1>26. ASSUME StopSet PROVE NoLostWork'
  <2>1. cpc[Owner] = "stop_set" /\ index[Owner] \in Workers
    BY <1>26 DEF StopSet, OwnerPcs
  <2>2. /\ index' \in [Clients -> Nat] /\ cpc' \in [Clients -> ClientPcs]
        /\ index'[Owner] \in Workers /\ cpc'[Owner] \in {"stop_store", "join"}
        /\ \A c \in Clients \ {Owner} : index'[c] = index[c] /\ cpc'[c] = cpc[c]
    BY <1>26, <2>1, NextWorker DEF StopSet, ClientPcs, OwnerPcs
  <2>3. \A v \in Workers :
          (\E c \in Clients : cpc[c] = "post_set" /\ index[c] = v)
            => \E c \in Clients : cpc'[c] = "post_set" /\ index'[c] = v
    BY <2>1, <2>2
  <2> QED
    BY <1>26, <2>1, <2>3 DEF StopSet
<1>27. ASSUME Join PROVE NoLostWork'
  <2>1. cpc[Owner] = "join" /\ index[Owner] \in Workers
    BY <1>27 DEF Join, OwnerPcs
  <2>2. /\ index' \in [Clients -> Nat] /\ cpc' \in [Clients -> ClientPcs]
        /\ index'[Owner] \in Workers /\ cpc'[Owner] \in {"join", "ready"}
        /\ \A c \in Clients \ {Owner} : index'[c] = index[c] /\ cpc'[c] = cpc[c]
    BY <1>27, <2>1, NextWorker DEF Join, ClientPcs, OwnerPcs
  <2>3. \A v \in Workers :
          (\E c \in Clients : cpc[c] = "post_set" /\ index[c] = v)
            => \E c \in Clients : cpc'[c] = "post_set" /\ index'[c] = v
    BY <2>1, <2>2
  <2> QED
    BY <1>27, <2>1, <2>3 DEF Join, WGoto
<1>28. CASE UNCHANGED vars
  BY <1>28 DEF vars, poolVars, jobVars, workerVars, clientVars
<1> QED
  BY <1>1, <1>2, <1>3, <1>4, <1>5, <1>6, <1>7, <1>8, <1>9, <1>10, <1>11, <1>12,
     <1>13, <1>14, <1>15, <1>16, <1>17, <1>18, <1>19, <1>20, <1>21, <1>22, <1>23,
     <1>24, <1>25, <1>26, <1>27, <1>28
  DEF Next, Worker, Post, Wait, Own

\* A worker that was told to stop is not asleep, or is about to be woken.
LEMMA NoLostStopStep == TypeOK /\ NoLostStop /\ [Next]_vars => NoLostStop'
<1> SUFFICES ASSUME TypeOK, NoLostStop, [Next]_vars PROVE NoLostStop'
  OBVIOUS
<1> USE OwnerAssumption
    DEF TypeOK, NoLostStop, poolVars, jobVars, workerVars, clientVars, PostPcs, OwnerPcs
<1>1. ASSUME NEW w \in Workers, Loop(w) PROVE NoLostStop'
  BY <1>1 DEF Loop, WGoto
<1>2. ASSUME NEW w \in Workers, PopWork(w) PROVE NoLostStop'
  BY <1>2 DEF PopWork, WGoto
<1>3. ASSUME NEW w \in Workers, Execute(w) PROVE NoLostStop'
  BY <1>3 DEF Execute, WGoto
<1>4. ASSUME NEW w \in Workers, NextStep(w) PROVE NoLostStop'
  BY <1>4 DEF NextStep, WGoto
<1>5. ASSUME NEW w \in Workers, Complete(w) PROVE NoLostStop'
  BY <1>5 DEF Complete, WGoto
<1>6. ASSUME NEW w \in Workers, CountDone(w) PROVE NoLostStop'
  BY <1>6 DEF CountDone, WGoto
<1>7. ASSUME NEW w \in Workers, Recheck(w) PROVE NoLostStop'
  BY <1>7 DEF Recheck, WGoto
<1>8. ASSUME NEW w \in Workers, NotifyIdle(w) PROVE NoLostStop'
  BY <1>8 DEF NotifyIdle, WGoto
<1>9. ASSUME NEW w \in Workers, WaitForWork(w) PROVE NoLostStop'
  BY <1>9 DEF WaitForWork, WGoto
<1>10. ASSUME NEW w \in Workers, ResetWork(w) PROVE NoLostStop'
  BY <1>10 DEF ResetWork, WGoto
<1>11. ASSUME NEW c \in Clients, PostWork(c) PROVE NoLostStop'
  BY <1>11 DEF PostWork, CGoto
<1>12. ASSUME NEW c \in Clients, PostIndex(c) PROVE NoLostStop'
  BY <1>12 DEF PostIndex, CGoto
<1>13. ASSUME NEW c \in Clients, PostWrap(c) PROVE NoLostStop'
  BY <1>13 DEF PostWrap, CGoto
<1>14. ASSUME NEW c \in Clients, PostCheck(c) PROVE NoLostStop'
  BY <1>14 DEF PostCheck, CGoto
<1>15. ASSUME NEW c \in Clients, PostPush(c) PROVE NoLostStop'
  BY <1>15 DEF PostPush, CGoto
<1>16. ASSUME NEW c \in Clients, PostSet(c) PROVE NoLostStop'
  BY <1>16 DEF PostSet, CGoto
<1>17. ASSUME NEW c \in Clients, PostCount(c) PROVE NoLostStop'
  BY <1>17 DEF PostCount, CGoto
<1>18. ASSUME NEW c \in Clients, CallWait(c) PROVE NoLostStop'
  BY <1>18 DEF CallWait, CGoto
<1>19. ASSUME NEW c \in Clients, WaitLoad(c) PROVE NoLostStop'
  BY <1>19 DEF WaitLoad, CGoto
<1>20. ASSUME NEW c \in Clients, WaitIdle(c) PROVE NoLostStop'
  BY <1>20 DEF WaitIdle, CGoto
<1>21. ASSUME NEW c \in Clients, WaitReset(c) PROVE NoLostStop'
  BY <1>21 DEF WaitReset, CGoto
<1>22. ASSUME CallStart PROVE NoLostStop'
  BY <1>22 DEF CallStart, CGoto
<1>23. ASSUME StartWorker PROVE NoLostStop'
  BY <1>23 DEF StartWorker, CGoto, WGoto, ForEachWorker
<1>24. ASSUME CallStop PROVE NoLostStop'
  BY <1>24 DEF CallStop, CGoto
<1>25. ASSUME StopStore PROVE NoLostStop'
  BY <1>25 DEF StopStore, CGoto
<1>26. ASSUME StopSet PROVE NoLostStop'
  BY <1>26 DEF StopSet, CGoto, ForEachWorker
<1>27. ASSUME Join PROVE NoLostStop'
  BY <1>27 DEF Join, CGoto, WGoto, ForEachWorker
<1>28. CASE UNCHANGED vars
  BY <1>28 DEF vars, poolVars, jobVars, workerVars, clientVars
<1> QED
  BY <1>1, <1>2, <1>3, <1>4, <1>5, <1>6, <1>7, <1>8, <1>9, <1>10, <1>11, <1>12,
     <1>13, <1>14, <1>15, <1>16, <1>17, <1>18, <1>19, <1>20, <1>21, <1>22, <1>23,
     <1>24, <1>25, <1>26, <1>27, <1>28
  DEF Next, Worker, Post, Wait, Own

----------------------------------------------------------------------------
\* The state is well typed before the first step.
LEMMA InitType == Init => TypeOK
<1> SUFFICES ASSUME Init PROVE TypeOK
  OBVIOUS
<1>1. pending \in 0..CounterMod - 1
  BY CounterAssumption DEF Init
<1>2. /\ list \in [Workers -> Seq(Jobs)]
      /\ work \in [Workers -> Jobs \cup {None}]
      /\ wpc \in [Workers -> WorkerPcs]
      /\ cpc \in [Clients -> ClientPcs]
  BY DEF Init, WorkerPcs, ClientPcs
<1> QED
  BY <1>1, <1>2 DEF Init, TypeOK, PostPcs, OwnerPcs

\* TypeOK holds in every behaviour of a pool.
THEOREM TypeCorrect == Spec => []TypeOK
BY InitType, TypeStep, PTL DEF Spec

\* No worker of a pool sleeps on work that post_work has accepted, for any
\* number of workers, clients and jobs.
THEOREM WorkIsSeen == Spec => []NoLostWork
<1>1. Init => NoLostWork
  BY DEF Init, NoLostWork
<1> QED
  BY <1>1, TypeCorrect, NoLostWorkStep, PTL DEF Spec

\* No worker of a pool sleeps through stop_workers.
THEOREM StopIsSeen == Spec => []NoLostStop
<1>1. Init => NoLostStop
  BY DEF Init, NoLostStop
<1> QED
  BY <1>1, TypeCorrect, NoLostStopStep, PTL DEF Spec

----------------------------------------------------------------------------
(* Where the work objects are *)

Handling == {"execute", "next", "complete", "count"}
Offering == {"post_index", "post_wrap", "post_check", "post_push"}

\* A client has a job in its hands while it posts, one that nobody else has and
\* that nobody posted before it pushes it.
JobsApart ==
    \A c \in Clients :
        /\ job[c] # None <=> cpc[c] \in PostPcs
        /\ cpc[c] \in Offering => \A d \in Clients : job[c] \notin posted[d]
        /\ \A d \in Clients \ {c} : job[c] # None => job[c] # job[d]

\* A worker has work in its hands while it handles it, and nobody else has it.
HandsApart ==
    \A w \in Workers :
        /\ work[w] # None <=> wpc[w] \in Handling
        /\ \A v \in Workers \ {w} : work[w] # None => work[w] # work[v]
        /\ \A i \in 1..Len(list[w]) : \A v \in Workers : work[v] # list[w][i]

\* No job is twice in the work lists.
ListsApart ==
    \A w, v \in Workers : \A i \in 1..Len(list[w]), k \in 1..Len(list[v]) :
        list[w][i] = list[v][k] => w = v /\ i = k

IsPosted(j) == \E c \in Clients : j \in posted[c]
IsQueued(j) == \E w \in Workers : \E i \in 1..Len(list[w]) : list[w][i] = j
IsHeld(j)   == \E w \in Workers : work[w] = j

\* What was accepted is somewhere, and nothing else is.
Accounted ==
    \A j \in Jobs : IsPosted(j) <=> j \in completed \/ IsQueued(j) \/ IsHeld(j)

\* How far the jobs are at each place.
Progress ==
    /\ \A j \in Jobs :
         /\ executed[j] <= Steps[j]
         /\ j \in completed => executed[j] > 0
         /\ ~IsPosted(j) => executed[j] = 0
         /\ IsQueued(j) => j \notin completed /\ executed[j] = 0
    /\ \A w \in Workers :
         /\ wpc[w] = "execute" => executed[work[w]] < Steps[work[w]] /\ work[w] \notin completed
         /\ wpc[w] \in {"next", "complete"} => executed[work[w]] > 0 /\ work[w] \notin completed
         /\ wpc[w] = "count" => work[w] \in completed

\* The workers that start_workers has yet to start have no thread.
StartsIdle ==
    cpc[Owner] = "start" => \A w \in Workers : w >= index[Owner] => wpc[w] = "none"

Places == JobsApart /\ HandsApart /\ ListsApart /\ Accounted /\ Progress

----------------------------------------------------------------------------
\* StartsIdle: no other action gives a worker a thread.
LEMMA StartsIdleStep == TypeOK /\ StartsIdle /\ [Next]_vars => StartsIdle'
<1> SUFFICES ASSUME TypeOK, StartsIdle, [Next]_vars PROVE StartsIdle'
  OBVIOUS
<1> USE OwnerAssumption, PoolAssumption
    DEF TypeOK, StartsIdle, poolVars, jobVars, workerVars, clientVars, WGoto, CGoto
<1>1. ASSUME NEW w \in Workers, Worker(w) PROVE StartsIdle'
  <2>1. wpc[w] # "none" /\ (\A v \in Workers \ {w} : wpc'[v] = wpc[v]) /\ UNCHANGED <<cpc, index>>
    BY <1>1 DEF Worker, Loop, PopWork, Execute, NextStep, Complete, CountDone, Recheck,
       NotifyIdle, WaitForWork, ResetWork
  <2> QED
    BY <2>1
<1>2. ASSUME NEW c \in Clients, PostWork(c) \/ Post(c) \/ CallWait(c) \/ Wait(c)
      PROVE  StartsIdle'
  <2>1. /\ cpc'[c] # "start" /\ cpc[c] # "start" /\ wpc' = wpc
        /\ \A d \in Clients \ {c} : cpc'[d] = cpc[d] /\ index'[d] = index[d]
    BY <1>2 DEF PostWork, Post, PostIndex, PostWrap, PostCheck, PostPush, PostSet, PostCount,
       CallWait, Wait, WaitLoad, WaitIdle, WaitReset
  <2> QED
    BY <2>1
<1>3. CASE CallStart
  BY <1>3 DEF CallStart, Joined
<1>4. CASE StartWorker
  <2>1. CASE index[Owner] + 1 < NumWorkers
    <3>1. index'[Owner] = index[Owner] + 1 /\ cpc[Owner] = "start" /\ index[Owner] \in Nat
      BY <1>4, <2>1 DEF StartWorker, ForEachWorker
    <3>2. \A v \in Workers : v # index[Owner] => wpc'[v] = wpc[v]
      BY <1>4 DEF StartWorker
    <3>3. \A v \in Workers : v >= index[Owner] + 1 => v >= index[Owner] /\ v # index[Owner]
      BY <3>1 DEF Workers
    <3> QED
      BY <3>1, <3>2, <3>3
  <2>2. CASE ~(index[Owner] + 1 < NumWorkers)
    BY <1>4, <2>2 DEF StartWorker, ForEachWorker
  <2> QED
    BY <2>1, <2>2
<1>5. CASE CallStop \/ StopStore
  BY <1>5 DEF CallStop, StopStore
<1>6. CASE StopSet
  BY <1>6 DEF StopSet, ForEachWorker
<1>7. CASE Join
  BY <1>7 DEF Join, ForEachWorker
<1>8. CASE UNCHANGED vars
  BY <1>8 DEF vars
<1> QED
  BY <1>1, <1>2, <1>3, <1>4, <1>5, <1>6, <1>7, <1>8 DEF Next, Own

----------------------------------------------------------------------------
\* A step that moves no job, and nobody across the places that matter here.
LEMMA NothingMoves ==
  ASSUME TypeOK, Places, UNCHANGED <<list, work, executed, completed, job, posted>>,
         \A w \in Workers :
            wpc'[w] = wpc[w] \/ (wpc[w] \notin Handling /\ wpc'[w] \notin Handling),
         \A c \in Clients :
            /\ cpc'[c] \in PostPcs <=> cpc[c] \in PostPcs
            /\ cpc'[c] \in Offering => cpc[c] \in Offering
  PROVE  Places'
<1>1. JobsApart'
  BY DEF Places, JobsApart
<1>2. HandsApart'
  BY DEF Places, HandsApart
<1>3. ListsApart'
  BY DEF Places, ListsApart
<1>4. Accounted'
  BY DEF Places, Accounted, IsPosted, IsQueued, IsHeld
<1>5. Progress'
  BY DEF Places, Progress, IsPosted, IsQueued, Handling
<1> QED
  BY <1>1, <1>2, <1>3, <1>4, <1>5 DEF Places

\* The other steps of a worker: turning, sleeping and ending.
LEMMA WorkerMoves ==
  ASSUME TypeOK, Places, NEW w \in Workers,
         \/ Loop(w) \/ (PopWork(w) /\ list[w] = <<>>) \/ Recheck(w) \/ NotifyIdle(w)
         \/ WaitForWork(w) \/ ResetWork(w)
  PROVE  Places'
<1>1. UNCHANGED <<list, work, executed, completed, job, posted, cpc>>
  BY DEF Loop, PopWork, Recheck, NotifyIdle, WaitForWork, ResetWork, jobVars, clientVars
<1>2. \A v \in Workers : wpc'[v] = wpc[v] \/ (wpc[v] \notin Handling /\ wpc'[v] \notin Handling)
  BY DEF Loop, PopWork, Recheck, NotifyIdle, WaitForWork, ResetWork, WGoto, TypeOK, Handling
<1> QED
  BY <1>1, <1>2, NothingMoves

\* A pop takes a job from the list into the worker's hands.
LEMMA PopMoves ==
  ASSUME TypeOK, Places, NEW w \in Workers, PopWork(w), list[w] # <<>>
  PROVE  Places'
<1> DEFINE j == Head(list[w])
<1>1. /\ work' = [work EXCEPT ![w] = j] /\ list' = [list EXCEPT ![w] = Tail(list[w])]
      /\ wpc[w] = "pop" /\ wpc' = [wpc EXCEPT ![w] = "execute"]
      /\ UNCHANGED <<jobVars, clientVars>>
  BY DEF PopWork, WGoto
<1>2. /\ list[w] \in Seq(Jobs) /\ Len(list[w]) \in Nat /\ Len(list[w]) > 0
      /\ list[w][1] = j /\ j \in Jobs
      /\ Len(Tail(list[w])) = Len(list[w]) - 1
      /\ \A i \in 1..Len(list[w]) - 1 : Tail(list[w])[i] = list[w][i + 1]
  BY DEF TypeOK
<1>3. /\ list'[w] = Tail(list[w]) /\ work'[w] = j /\ work[w] = None /\ wpc'[w] = "execute"
      /\ \A v \in Workers \ {w} : list'[v] = list[v] /\ work'[v] = work[v] /\ wpc'[v] = wpc[v]
  BY <1>1 DEF TypeOK, Places, HandsApart, Handling
<1> HIDE DEF j
\* an element of a list after the pop was one before, and is not the one taken
<1>4. ASSUME NEW v \in Workers, NEW i \in 1..Len(list'[v])
      PROVE  \E k \in 1..Len(list[v]) :
                list[v][k] = list'[v][i] /\ (v = w => k = i + 1) /\ (v # w => k = i)
  <2>1. CASE v = w
    <3>0. Len(list'[w]) = Len(list[w]) - 1
      BY <1>2, <1>3
    <3>1. i + 1 \in 1..Len(list[v]) /\ i \in 1..Len(list[w]) - 1
      <4>1. i \in 1..Len(list[w]) - 1
        BY <2>1, <3>0
      <4>2. i + 1 \in 1..Len(list[w])
        BY <1>2, <4>1
      <4> QED
        BY <2>1, <4>1, <4>2
    <3> QED
      BY <1>2, <1>3, <2>1, <3>1
  <2>2. CASE v # w
    BY <1>3, <2>2
  <2> QED
    BY <2>1, <2>2
<1>5. ASSUME NEW v \in Workers, NEW i \in 1..Len(list'[v]) PROVE list'[v][i] # j
  <2>1. PICK k \in 1..Len(list[v]) :
          list[v][k] = list'[v][i] /\ (v = w => k = i + 1) /\ (v # w => k = i)
    BY <1>4
  <2>2. 1 \in 1..Len(list[w]) /\ (v = w => k # 1)
    BY <1>2, <1>3, <2>1
  <2> QED
    BY <1>2, <2>1, <2>2 DEF Places, ListsApart
<1>6. ListsApart'
  <2> SUFFICES ASSUME NEW u \in Workers, NEW v \in Workers,
                      NEW i \in 1..Len(list'[u]), NEW k \in 1..Len(list'[v]),
                      list'[u][i] = list'[v][k]
               PROVE  u = v /\ i = k
    BY DEF ListsApart
  <2>1. PICK a \in 1..Len(list[u]) :
          list[u][a] = list'[u][i] /\ (u = w => a = i + 1) /\ (u # w => a = i)
    BY <1>4
  <2>2. PICK b \in 1..Len(list[v]) :
          list[v][b] = list'[v][k] /\ (v = w => b = k + 1) /\ (v # w => b = k)
    BY <1>4
  <2>3. u = v /\ a = b
    BY <2>1, <2>2 DEF Places, ListsApart
  <2> QED
    <3>1. i \in Nat /\ k \in Nat
      BY <1>2, <1>3 DEF TypeOK
    <3> QED
      BY <2>1, <2>2, <2>3, <3>1
<1>7. ASSUME NEW v \in Workers PROVE work[v] # j
  BY <1>2 DEF Places, HandsApart
<1>8. ASSUME NEW v \in Workers, NEW i \in 1..Len(list'[v]), NEW u \in Workers
      PROVE  work'[u] # list'[v][i]
  <2>1. PICK k \in 1..Len(list[v]) : list[v][k] = list'[v][i]
    BY <1>4
  <2> QED
    BY <1>3, <1>5, <2>1 DEF Places, HandsApart
<1>9. HandsApart'
  BY <1>2, <1>3, <1>7, <1>8, NoneAssumption DEF Places, HandsApart, Handling
<1>10. ASSUME NEW x PROVE IsQueued(x)' <=> IsQueued(x) /\ x # j
  <2>1. ASSUME IsQueued(x)' PROVE IsQueued(x) /\ x # j
    <3>1. PICK v \in Workers : \E i \in 1..Len(list'[v]) : list'[v][i] = x
      BY <2>1 DEF IsQueued
    <3>2. PICK i \in 1..Len(list'[v]) : list'[v][i] = x
      BY <3>1
    <3>3. PICK k \in 1..Len(list[v]) : list[v][k] = list'[v][i]
      BY <1>4
    <3>4. x # j
      BY <1>5, <3>2
    <3> QED
      BY <3>2, <3>3, <3>4 DEF IsQueued
  <2>2. ASSUME IsQueued(x), x # j PROVE IsQueued(x)'
    <3>0. PICK v \in Workers : \E i \in 1..Len(list[v]) : list[v][i] = x
      BY <2>2 DEF IsQueued
    <3>1. PICK i \in 1..Len(list[v]) : list[v][i] = x
      BY <3>0
    <3>2. CASE v = w
      <4>1. i # 1
        BY <1>2, <2>2, <3>1, <3>2
      <4>2. i - 1 \in 1..Len(list[w]) - 1 /\ (i - 1) + 1 = i
        BY <1>2, <3>2, <4>1
      <4>3. Tail(list[w])[i - 1] = x
        BY <1>2, <3>1, <3>2, <4>2
      <4>4. i - 1 \in 1..Len(list'[w]) /\ list'[w][i - 1] = x
        BY <1>2, <1>3, <4>2, <4>3
      <4> QED
        BY <4>4 DEF IsQueued
    <3>3. CASE v # w
      BY <1>3, <3>1, <3>3 DEF IsQueued
    <3> QED
      BY <3>2, <3>3
  <2> QED
    BY <2>1, <2>2
<1>11. ASSUME NEW x \in Jobs PROVE IsHeld(x)' <=> IsHeld(x) \/ x = j
  BY <1>3, NoneAssumption DEF IsHeld
<1>12. IsQueued(j)
  BY <1>2 DEF IsQueued
<1>13. \A x : IsPosted(x)' <=> IsPosted(x)
  BY <1>1 DEF IsPosted, clientVars
<1>14. Accounted'
  BY <1>1, <1>10, <1>11, <1>12, <1>13 DEF Places, Accounted, jobVars
<1>15. Progress'
  <2>1. executed[j] = 0 /\ j \notin completed /\ Steps[j] > 0
    BY <1>2, <1>12, StepsAssumption DEF Places, Progress
  <2> QED
    BY <1>1, <1>2, <1>3, <1>10, <1>13, <2>1 DEF Places, Progress, jobVars
<1>16. JobsApart'
  BY <1>1 DEF Places, JobsApart, clientVars
<1> QED
  BY <1>6, <1>9, <1>14, <1>15, <1>16 DEF Places

\* Executing, going on in the chain and completing leave the work where it is.
LEMMA HandlingMoves ==
  ASSUME TypeOK, Places, NEW w \in Workers, Execute(w) \/ NextStep(w) \/ Complete(w)
  PROVE  Places'
<1>1. /\ wpc[w] \in Handling /\ wpc'[w] \in Handling /\ work[w] \in Jobs
      /\ \A v \in Workers \ {w} : wpc'[v] = wpc[v]
      /\ UNCHANGED <<list, work, clientVars>>
  BY DEF Execute, NextStep, Complete, WGoto, TypeOK, Handling
<1>2. JobsApart' /\ HandsApart' /\ ListsApart'
  BY <1>1 DEF Places, JobsApart, HandsApart, ListsApart, clientVars
<1>3. /\ \A x : IsPosted(x)' <=> IsPosted(x)
      /\ \A x : IsQueued(x)' <=> IsQueued(x)
      /\ \A x : IsHeld(x)' <=> IsHeld(x)
  BY <1>1 DEF IsPosted, IsQueued, IsHeld, clientVars
<1>4. IsHeld(work[w]) /\ ~IsQueued(work[w])
  BY <1>1 DEF IsHeld, IsQueued, Places, HandsApart
<1>5. IsPosted(work[w])
  BY <1>1, <1>4 DEF Places, Accounted
<1>6. \A v \in Workers \ {w} : wpc[v] \in Handling => work[v] # work[w] /\ work[v] \in Jobs
  BY NoneAssumption DEF Places, HandsApart, TypeOK, Handling
<1>7. executed[work[w]] \in Nat /\ Steps[work[w]] \in Nat
  BY <1>1, StepsAssumption DEF TypeOK
<1>8. CASE Execute(w)
  <2>1. /\ wpc[w] = "execute" /\ wpc'[w] = "next" /\ completed' = completed
        /\ executed' = [executed EXCEPT ![work[w]] = executed[work[w]] + 1]
    BY <1>8 DEF Execute, WGoto, TypeOK
  <2>2. /\ executed'[work[w]] = executed[work[w]] + 1
        /\ \A x \in Jobs : x # work[w] => executed'[x] = executed[x]
    BY <1>1, <2>1 DEF TypeOK
  <2>3. executed[work[w]] < Steps[work[w]] /\ work[w] \notin completed
    BY <2>1 DEF Places, Progress
  <2>4. \A x \in Jobs : executed'[x] <= Steps[x] /\ (x \in completed => executed'[x] > 0)
    BY <1>7, <2>2, <2>3 DEF Places, Progress
  <2>5. \A x \in Jobs : /\ ~IsPosted(x) => executed'[x] = 0
                        /\ IsQueued(x) => x \notin completed /\ executed'[x] = 0
    BY <1>4, <1>5, <2>2 DEF Places, Progress
  <2>6. ASSUME NEW v \in Workers
        PROVE  /\ wpc'[v] = "execute"
                    => executed'[work[v]] < Steps[work[v]] /\ work[v] \notin completed
               /\ wpc'[v] \in {"next", "complete"}
                    => executed'[work[v]] > 0 /\ work[v] \notin completed
               /\ wpc'[v] = "count" => work[v] \in completed
    <3>1. CASE v = w
      BY <1>7, <2>1, <2>2, <2>3, <3>1
    <3>2. CASE v # w
      BY <1>1, <1>6, <2>2, <3>2 DEF Places, Progress, Handling
    <3> QED
      BY <3>1, <3>2
  <2>7. Progress'
    BY <1>1, <1>3, <2>1, <2>4, <2>5, <2>6 DEF Progress
  <2>8. Accounted'
    BY <1>3, <2>1 DEF Places, Accounted
  <2> QED
    BY <1>2, <2>7, <2>8 DEF Places
<1>9. CASE NextStep(w)
  <2>1. /\ wpc[w] = "next" /\ wpc'[w] \in {"execute", "complete"} /\ UNCHANGED jobVars
        /\ wpc'[w] = "execute" => executed[work[w]] < Steps[work[w]]
    BY <1>9 DEF NextStep, next, WGoto, TypeOK
  <2>2. Progress'
    BY <1>1, <1>3, <2>1 DEF Places, Progress, jobVars
  <2>3. Accounted'
    BY <1>3, <2>1 DEF Places, Accounted, jobVars
  <2> QED
    BY <1>2, <2>2, <2>3 DEF Places
<1>10. CASE Complete(w)
  <2>1. /\ wpc[w] = "complete" /\ wpc'[w] = "count" /\ executed' = executed
        /\ completed' = completed \cup {work[w]}
    BY <1>10 DEF Complete, WGoto, TypeOK
  <2>2. executed[work[w]] > 0
    BY <2>1 DEF Places, Progress
  <2>3. Accounted'
    BY <1>3, <1>4, <1>5, <2>1 DEF Places, Accounted
  <2>4. \A x \in Jobs : /\ x \in completed' => executed[x] > 0
                        /\ IsQueued(x) => x \notin completed'
    BY <1>4, <2>1, <2>2 DEF Places, Progress
  <2>5. ASSUME NEW v \in Workers
        PROVE  /\ wpc'[v] = "execute"
                    => executed[work[v]] < Steps[work[v]] /\ work[v] \notin completed'
               /\ wpc'[v] \in {"next", "complete"}
                    => executed[work[v]] > 0 /\ work[v] \notin completed'
               /\ wpc'[v] = "count" => work[v] \in completed'
    <3>1. CASE v = w
      BY <2>1, <3>1
    <3>2. CASE v # w
      BY <1>1, <1>6, <2>1, <3>2 DEF Places, Progress, Handling
    <3> QED
      BY <3>1, <3>2
  <2>6. Progress'
    BY <1>1, <1>3, <2>1, <2>4, <2>5 DEF Places, Progress
  <2> QED
    BY <1>2, <2>3, <2>6 DEF Places
<1> QED
  BY <1>8, <1>9, <1>10

\* The worker lets go of a job that is complete.
LEMMA CountMoves ==
  ASSUME TypeOK, Places, NEW w \in Workers, CountDone(w)
  PROVE  Places'
<1>1. /\ wpc[w] = "count" /\ wpc'[w] = "loop" /\ work'[w] = None
      /\ \A v \in Workers \ {w} : wpc'[v] = wpc[v] /\ work'[v] = work[v]
      /\ UNCHANGED <<jobVars, clientVars, list>>
  BY DEF CountDone, WGoto, TypeOK
<1>2. JobsApart' /\ ListsApart'
  BY <1>1 DEF Places, JobsApart, ListsApart, clientVars
<1>3. \A v \in Workers : \A i \in 1..Len(list[v]) : list[v][i] # None
  BY NoneAssumption DEF TypeOK
<1>4. HandsApart'
  BY <1>1, <1>3 DEF Places, HandsApart, Handling
<1>5. work[w] \in completed
  BY <1>1 DEF Places, Progress
<1>6. /\ \A x : IsPosted(x)' <=> IsPosted(x)
      /\ \A x : IsQueued(x)' <=> IsQueued(x)
  BY <1>1 DEF IsPosted, IsQueued, clientVars
<1>7. \A x \in Jobs : x \in completed \/ IsHeld(x)' <=> x \in completed \/ IsHeld(x)
  BY <1>1, <1>5, NoneAssumption DEF IsHeld
<1>8. Accounted'
  BY <1>1, <1>6, <1>7 DEF Places, Accounted, jobVars
<1>9. Progress'
  BY <1>1, <1>6 DEF Places, Progress, jobVars
<1> QED
  BY <1>2, <1>4, <1>8, <1>9 DEF Places

----------------------------------------------------------------------------
\* A client takes up a job that nobody posts or posted, and drops it when the
\* post is refused or done.
LEMMA PostMoves ==
  ASSUME TypeOK, Places, NEW c \in Clients,
         PostWork(c) \/ (PostCheck(c) /\ stopped[index[c]]) \/ PostCount(c)
  PROVE  Places'
<1>1. UNCHANGED <<list, work, wpc, executed, completed, posted>>
  BY DEF PostWork, PostCheck, PostCount, jobVars, workerVars
<1>2. HandsApart' /\ ListsApart' /\ Accounted' /\ Progress'
  BY <1>1 DEF Places, HandsApart, ListsApart, Accounted, Progress, IsPosted, IsQueued, IsHeld
<1>3. \A d \in Clients \ {c} : job'[d] = job[d] /\ cpc'[d] = cpc[d]
  BY DEF PostWork, PostCheck, PostCount, CGoto, TypeOK
<1>4. CASE PostWork(c)
  <2>1. PICK j \in Jobs : /\ \A d \in Clients : j \notin posted[d] /\ job[d] # j
                          /\ job' = [job EXCEPT ![c] = j]
    BY <1>4 DEF PostWork
  <2>2. job'[c] = j /\ cpc'[c] = "post_index" /\ j # None
    BY <1>4, <2>1, NoneAssumption DEF PostWork, CGoto, TypeOK
  <2> QED
    BY <1>1, <1>2, <1>3, <2>1, <2>2 DEF Places, JobsApart, PostPcs, Offering
<1>5. CASE (PostCheck(c) /\ stopped[index[c]]) \/ PostCount(c)
  <2>1. job'[c] = None /\ cpc'[c] = "ready"
    BY <1>5 DEF PostCheck, PostCount, CGoto, TypeOK
  <2> QED
    BY <1>1, <1>2, <1>3, <2>1 DEF Places, JobsApart, PostPcs, Offering
<1> QED
  BY <1>4, <1>5

\* A push moves the job from the client's hands into one list, accepted and fresh.
LEMMA PushMoves ==
  ASSUME TypeOK, Places, NEW c \in Clients, PostPush(c)
  PROVE  Places'
<1> DEFINE j == job[c]
           t == index[c]
<1>1. /\ cpc[c] = "post_push" /\ cpc' = [cpc EXCEPT ![c] = "post_set"]
      /\ list' = [list EXCEPT ![t] = <<j>> \o list[t]]
      /\ posted' = [posted EXCEPT ![c] = posted[c] \cup {j}]
      /\ UNCHANGED <<jobVars, wpc, work, index, job>>
  BY DEF PostPush, CGoto
<1>2. t \in Workers /\ j \in Jobs
  BY <1>1 DEF TypeOK, PostPcs
<1>3. /\ \A d \in Clients : j \notin posted[d]
      /\ \A d \in Clients \ {c} : job[d] # j
  BY <1>1, <1>2, NoneAssumption DEF Places, JobsApart, Offering
<1>4. ~IsPosted(j) /\ ~IsQueued(j) /\ ~IsHeld(j) /\ j \notin completed /\ executed[j] = 0
  BY <1>2, <1>3 DEF IsPosted, Places, Accounted, Progress
<1> HIDE DEF j, t
<1>5. /\ list[t] \in Seq(Jobs) /\ Len(list[t]) \in Nat
      /\ Len(<<j>> \o list[t]) = Len(list[t]) + 1
      /\ (<<j>> \o list[t])[1] = j
      /\ \A i \in 2..Len(list[t]) + 1 : (<<j>> \o list[t])[i] = list[t][i - 1]
  BY <1>2 DEF TypeOK
<1>6. /\ list'[t] = <<j>> \o list[t]
      /\ \A v \in Workers \ {t} : list'[v] = list[v]
  BY <1>1, <1>2 DEF TypeOK
\* an element of a list after the push was one before, or is the one pushed
<1>7. ASSUME NEW v \in Workers, NEW i \in 1..Len(list'[v])
      PROVE  \/ v = t /\ i = 1 /\ list'[v][i] = j
             \/ \E k \in 1..Len(list[v]) :
                  list[v][k] = list'[v][i] /\ (v = t => i = k + 1) /\ (v # t => k = i)
  <2>1. CASE v = t /\ i = 1
    BY <1>5, <1>6, <2>1
  <2>2. CASE v = t /\ i # 1
    <3>1. i - 1 \in 1..Len(list[t]) /\ i \in 2..Len(list[t]) + 1 /\ i = (i - 1) + 1
      BY <1>5, <1>6, <2>2
    <3> QED
      BY <1>5, <1>6, <2>2, <3>1
  <2>3. CASE v # t
    BY <1>6, <2>3
  <2> QED
    BY <2>1, <2>2, <2>3
<1>8. ASSUME NEW v \in Workers, NEW k \in 1..Len(list[v])
      PROVE  list[v][k] # j
  BY <1>4 DEF IsQueued
<1>9. ListsApart'
  <2> SUFFICES ASSUME NEW u \in Workers, NEW v \in Workers,
                      NEW i \in 1..Len(list'[u]), NEW k \in 1..Len(list'[v]),
                      list'[u][i] = list'[v][k]
               PROVE  u = v /\ i = k
    BY DEF ListsApart
  <2>1. CASE list'[u][i] = j
    <3>1. u = t /\ i = 1
      BY <1>7, <1>8, <2>1
    <3>2. list'[v][k] = j
      BY <2>1
    <3>3. v = t /\ k = 1
      BY <1>7, <1>8, <3>2
    <3> QED
      BY <3>1, <3>3
  <2>2. CASE list'[u][i] # j
    <3>1. PICK a \in 1..Len(list[u]) :
            list[u][a] = list'[u][i] /\ (u = t => i = a + 1) /\ (u # t => a = i)
      BY <1>7, <2>2
    <3>2. PICK b \in 1..Len(list[v]) :
            list[v][b] = list'[v][k] /\ (v = t => k = b + 1) /\ (v # t => b = k)
      BY <1>7, <2>2
    <3>3. u = v /\ a = b
      BY <3>1, <3>2 DEF Places, ListsApart
    <3> QED
      BY <3>1, <3>2, <3>3
  <2> QED
    BY <2>1, <2>2
<1>10. HandsApart'
  <2>1. ASSUME NEW v \in Workers, NEW i \in 1..Len(list'[v]), NEW u \in Workers
        PROVE  work[u] # list'[v][i]
    BY <1>4, <1>7 DEF IsHeld, Places, HandsApart
  <2> QED
    BY <1>1, <2>1 DEF Places, HandsApart
<1>11. ASSUME NEW x PROVE IsQueued(x)' <=> IsQueued(x) \/ x = j
  <2>1. ASSUME IsQueued(x)' PROVE IsQueued(x) \/ x = j
    <3>1. PICK v \in Workers : \E i \in 1..Len(list'[v]) : list'[v][i] = x
      BY <2>1 DEF IsQueued
    <3> QED
      BY <1>7, <3>1 DEF IsQueued
  <2>2. ASSUME x = j PROVE IsQueued(x)'
    <3>1. 1 \in 1..Len(list'[t]) /\ list'[t][1] = j
      BY <1>5, <1>6
    <3> QED
      BY <1>2, <2>2, <3>1 DEF IsQueued
  <2>3. ASSUME IsQueued(x) PROVE IsQueued(x)'
    <3>0. PICK v \in Workers : \E k \in 1..Len(list[v]) : list[v][k] = x
      BY <2>3 DEF IsQueued
    <3>1. PICK k \in 1..Len(list[v]) : list[v][k] = x
      BY <3>0
    <3>2. CASE v = t
      <4>1. k + 1 \in 2..Len(list[t]) + 1 /\ (k + 1) - 1 = k
        BY <1>5, <3>2
      <4>2. k + 1 \in 1..Len(list'[t]) /\ list'[t][k + 1] = x
        BY <1>5, <1>6, <3>1, <3>2, <4>1
      <4> QED
        BY <1>2, <4>2 DEF IsQueued
    <3>3. CASE v # t
      BY <1>6, <3>1, <3>3 DEF IsQueued
    <3> QED
      BY <3>2, <3>3
  <2> QED
    BY <2>1, <2>2, <2>3
<1>12. /\ posted'[c] = posted[c] \cup {j}
       /\ \A d \in Clients \ {c} : posted'[d] = posted[d]
  BY <1>1 DEF TypeOK
<1>13. /\ \A x : IsPosted(x)' <=> IsPosted(x) \/ x = j
       /\ \A x : IsHeld(x)' <=> IsHeld(x)
  BY <1>1, <1>12 DEF IsPosted, IsHeld
<1>14. Accounted'
  BY <1>1, <1>11, <1>13 DEF Places, Accounted, jobVars
<1>15. Progress'
  BY <1>1, <1>4, <1>11, <1>13 DEF Places, Progress, jobVars
<1>16. JobsApart'
  <2>1. cpc'[c] = "post_set" /\ \A d \in Clients \ {c} : cpc'[d] = cpc[d]
    BY <1>1 DEF TypeOK
  <2> QED
    BY <1>1, <1>3, <1>12, <2>1 DEF Places, JobsApart, PostPcs, Offering
<1> QED
  BY <1>9, <1>10, <1>14, <1>15, <1>16 DEF Places

\* The other steps of clients and owner.
LEMMA ClientMoves ==
  ASSUME TypeOK, Places, NEW c \in Clients,
         \/ PostIndex(c) \/ PostWrap(c) \/ (PostCheck(c) /\ ~stopped[index[c]]) \/ PostSet(c)
         \/ CallWait(c) \/ Wait(c)
  PROVE  Places'
<1>1. UNCHANGED <<list, work, executed, completed, job, posted, wpc>>
  BY DEF PostIndex, PostWrap, PostCheck, PostSet, CallWait, Wait, WaitLoad, WaitIdle, WaitReset,
     jobVars, workerVars
<1>2. \A d \in Clients :
        /\ cpc'[d] \in PostPcs <=> cpc[d] \in PostPcs
        /\ cpc'[d] \in Offering => cpc[d] \in Offering
  BY DEF PostIndex, PostWrap, PostCheck, PostSet, CallWait, Wait, WaitLoad, WaitIdle, WaitReset,
     CGoto, TypeOK, PostPcs, Offering
<1> QED
  BY <1>1, <1>2, NothingMoves

\* start_workers, stop_workers and wait_for_shutdown move no work.
LEMMA OwnerMoves ==
  ASSUME TypeOK, Places, StartsIdle, CallStart \/ CallStop \/ Own
  PROVE  Places'
<1> USE OwnerAssumption DEF TypeOK
<1>1. UNCHANGED <<list, work, executed, completed, job, posted>>
  BY DEF CallStart, CallStop, Own, StartWorker, StopStore, StopSet, Join, jobVars, workerVars
<1>2. /\ cpc[Owner] \notin PostPcs /\ cpc'[Owner] \notin PostPcs
      /\ \A d \in Clients \ {Owner} : cpc'[d] = cpc[d]
  BY DEF CallStart, CallStop, Own, StartWorker, StopStore, StopSet, Join, ForEachWorker, CGoto,
     PostPcs
<1>3. \A d \in Clients :
        /\ cpc'[d] \in PostPcs <=> cpc[d] \in PostPcs
        /\ cpc'[d] \in Offering => cpc[d] \in Offering
  BY <1>2 DEF PostPcs, Offering
<1>4. \A w \in Workers :
        wpc'[w] = wpc[w] \/ (wpc[w] \notin Handling /\ wpc'[w] \notin Handling)
  <2>1. CASE StartWorker
    <3>1. index[Owner] \in Workers /\ wpc[index[Owner]] = "none"
      BY <2>1 DEF StartWorker, StartsIdle, OwnerPcs, Workers
    <3> QED
      BY <2>1, <3>1 DEF StartWorker, WGoto, Handling
  <2>2. CASE Join
    BY <2>2 DEF Join, WGoto, Handling
  <2>3. CASE CallStart \/ CallStop \/ StopStore \/ StopSet
    BY <2>3 DEF CallStart, CallStop, StopStore, StopSet, workerVars
  <2> QED
    BY <2>1, <2>2, <2>3 DEF Own
<1> QED
  BY <1>1, <1>3, <1>4, NothingMoves

\* Every step keeps the jobs in their places.
LEMMA PlacesStep == TypeOK /\ Places /\ StartsIdle /\ [Next]_vars => Places'
<1> SUFFICES ASSUME TypeOK, Places, StartsIdle, [Next]_vars PROVE Places'
  OBVIOUS
<1>1. ASSUME NEW w \in Workers, Worker(w) PROVE Places'
  BY <1>1, WorkerMoves, PopMoves, HandlingMoves, CountMoves DEF Worker
<1>2. ASSUME NEW c \in Clients, PostWork(c) \/ Post(c) \/ CallWait(c) \/ Wait(c) PROVE Places'
  BY <1>2, PostMoves, PushMoves, ClientMoves DEF Post
<1>3. CASE CallStart \/ CallStop \/ Own
  BY <1>3, OwnerMoves
<1>4. CASE UNCHANGED vars
  <2>1. UNCHANGED <<list, work, executed, completed, job, posted, wpc, cpc>>
    BY <1>4 DEF vars, jobVars, workerVars, clientVars
  <2> QED
    BY <2>1, NothingMoves
<1> QED
  BY <1>1, <1>2, <1>3, <1>4 DEF Next

\* The inductive invariant: in every reachable state the work objects are in
\* their places.
THEOREM PlacesInvariance == Spec => [](TypeOK /\ StartsIdle /\ Places)
<1>1. Init => StartsIdle
  BY OwnerAssumption DEF Init, StartsIdle
<1>2. Init => Places
  <2> SUFFICES ASSUME Init PROVE Places
    OBVIOUS
  <2>1. \A w \in Workers : list[w] = <<>> /\ Len(list[w]) = 0 /\ work[w] = None /\ wpc[w] = "none"
    BY DEF Init
  <2>2. \A c \in Clients : cpc[c] = "ready" /\ job[c] = None /\ posted[c] = {}
    BY DEF Init
  <2>3. completed = {} /\ \A j \in Jobs : executed[j] = 0 /\ Steps[j] \in Nat
    BY StepsAssumption DEF Init
  <2>4. \A j \in Jobs : ~IsPosted(j) /\ ~IsQueued(j) /\ ~IsHeld(j)
    BY <2>1, <2>2, NoneAssumption DEF IsPosted, IsQueued, IsHeld
  <2> QED
    BY <2>1, <2>2, <2>3, <2>4 DEF Places, JobsApart, HandsApart, ListsApart, Accounted, Progress,
       PostPcs, Offering, Handling
<1> QED
  BY <1>1, <1>2, TypeCorrect, StartsIdleStep, PlacesStep, PTL DEF Spec

----------------------------------------------------------------------------
\* Jobs in their places are counted once.
LEMMA CountedOnce == TypeOK /\ Places => OnePlace
<1> SUFFICES ASSUME TypeOK, Places, NEW j \in Jobs
             PROVE  /\ Copies(j) = IF j \in Accepted /\ ~(j \in completed /\ Holders(j) = {})
                                   THEN 1 ELSE 0
                    /\ executed[j] <= Steps[j]
                    /\ j \in completed => executed[j] > 0
  BY DEF OnePlace
<1>1. executed[j] <= Steps[j] /\ (j \in completed => executed[j] > 0)
  BY DEF Places, Progress
<1>2. j \in Accepted <=> IsPosted(j)
  BY DEF Accepted, IsPosted
<1>3. ASSUME NEW q PROVE q \in Queued(j) <=>
        \E w \in Workers : \E i \in 1..Len(list[w]) : list[w][i] = j /\ q = <<w, i>>
  BY DEF Queued
<1>4. IsQueued(j) => \E q : Queued(j) = {q}
  <2> SUFFICES ASSUME IsQueued(j) PROVE \E q : Queued(j) = {q}
    OBVIOUS
  <2>0. PICK w \in Workers : \E i \in 1..Len(list[w]) : list[w][i] = j
    BY DEF IsQueued
  <2>1. PICK i \in 1..Len(list[w]) : list[w][i] = j
    BY <2>0
  <2>2. <<w, i>> \in Queued(j)
    BY <1>3, <2>1
  <2>3. ASSUME NEW q \in Queued(j) PROVE q = <<w, i>>
    BY <1>3, <2>1 DEF Places, ListsApart
  <2>4. Queued(j) = {<<w, i>>}
    BY <2>2, <2>3
  <2> QED
    BY <2>4
<1>5. ~IsQueued(j) => Queued(j) = {}
  BY <1>3 DEF IsQueued
<1>6. IsHeld(j) => \E w : Holders(j) = {w}
  BY NoneAssumption DEF IsHeld, Holders, Places, HandsApart
<1>7. ~IsHeld(j) <=> Holders(j) = {}
  BY DEF IsHeld, Holders
<1>8. ~(IsQueued(j) /\ IsHeld(j))
  BY DEF IsQueued, IsHeld, Places, HandsApart
<1>9. IsPosted(j) <=> j \in completed \/ IsQueued(j) \/ IsHeld(j)
  BY DEF Places, Accounted
<1>10. IsQueued(j) => j \notin completed
  BY DEF Places, Progress
<1>11. CASE IsQueued(j)
  <2>1. Cardinality(Queued(j)) = 1 /\ Cardinality(Holders(j)) = 0
    BY <1>4, <1>7, <1>8, <1>11, FS_Singleton, FS_EmptySet
  <2> QED
    BY <1>1, <1>2, <1>9, <1>10, <1>11, <2>1 DEF Copies
<1>12. CASE IsHeld(j)
  <2>1. Cardinality(Queued(j)) = 0 /\ Cardinality(Holders(j)) = 1
    BY <1>5, <1>6, <1>8, <1>12, FS_Singleton, FS_EmptySet
  <2> QED
    BY <1>1, <1>2, <1>7, <1>9, <1>12, <2>1 DEF Copies
<1>13. CASE ~IsQueued(j) /\ ~IsHeld(j)
  <2>1. Cardinality(Queued(j)) = 0 /\ Cardinality(Holders(j)) = 0
    BY <1>5, <1>7, <1>13, FS_EmptySet
  <2> QED
    BY <1>1, <1>2, <1>7, <1>9, <1>13, <2>1 DEF Copies
<1> QED
  BY <1>11, <1>12, <1>13

\* A job is in one work list or one worker's hands from the moment post_work
\* accepts it until it is complete, for any number of workers, clients and jobs,
\* through stops and restarts of the pool.
THEOREM JobsStayInPlace == Spec => []OnePlace
BY PlacesInvariance, CountedOnce, PTL

----------------------------------------------------------------------------
(* Counters that wrap *)

\* The one quotient and the one remainder of a division.
LEMMA Division ==
  ASSUME NEW n \in Nat
  PROVE  /\ n = CounterMod * (n \div CounterMod) + (n % CounterMod)
         /\ n \div CounterMod \in Nat /\ n % CounterMod \in 0..CounterMod - 1
BY CounterAssumption

\* A remainder is found in one way only.
LEMMA OneRemainder ==
  ASSUME NEW q \in Int, NEW p \in Int, NEW r \in 0..CounterMod - 1, NEW s \in 0..CounterMod - 1,
         CounterMod * q + r = CounterMod * p + s
  PROVE  r = s
BY CounterAssumption

\* A full turn of the counter changes nothing.
LEMMA FullTurn ==
  ASSUME NEW n \in Nat, NEW x \in Nat
  PROVE  x = n + CounterMod => x % CounterMod = n % CounterMod
<1> DEFINE q == n \div CounterMod
           r == n % CounterMod
           p == x \div CounterMod
           s == x % CounterMod
<1>1. n = CounterMod * q + r /\ q \in Int /\ r \in 0..CounterMod - 1
  BY Division
<1>2. x = CounterMod * p + s /\ p \in Int /\ s \in 0..CounterMod - 1
  BY Division
<1> HIDE DEF q, r, p, s
<1> SUFFICES ASSUME x = n + CounterMod PROVE s = r
  BY DEF r, s
<1>3. CounterMod * (q + 1) = CounterMod * q + CounterMod /\ CounterMod * q \in Int
  BY <1>1, CounterAssumption
<1>4. CounterMod * (q + 1) + r = CounterMod * p + s /\ q + 1 \in Int
  <2> DEFINE a == CounterMod * q
             b == CounterMod * (q + 1)
             c == CounterMod * p
  <2>1. n = a + r /\ x = c + s /\ b = a + CounterMod /\ a \in Int
    BY <1>1, <1>2, <1>3
  <2> HIDE DEF a, b, c
  <2>2. b + r = c + s
    BY <1>1, <1>2, <2>1, CounterAssumption
  <2> QED
    BY <1>1, <2>2 DEF b, c
<1> QED
  BY <1>1, <1>2, <1>4, OneRemainder

\* Counting one on.
LEMMA OneMore ==
  ASSUME NEW n \in Nat
  PROVE  (n + 1) % CounterMod = IF n % CounterMod = CounterMod - 1
                                THEN 0 ELSE (n % CounterMod) + 1
<1> DEFINE q == n \div CounterMod
           r == n % CounterMod
           x == n + 1
           p == x \div CounterMod
           s == x % CounterMod
           t == IF r = CounterMod - 1 THEN 0 ELSE r + 1
           v == IF r = CounterMod - 1 THEN q + 1 ELSE q
<1>1. n = CounterMod * q + r /\ q \in Int /\ r \in 0..CounterMod - 1
  BY Division
<1>2. x \in Nat /\ x = n + 1
  OBVIOUS
<1> HIDE DEF x
<1>3. x = CounterMod * p + s /\ p \in Int /\ s \in 0..CounterMod - 1
  BY <1>2, Division
<1> HIDE DEF q, r, p, s
<1>4. CounterMod * (q + 1) = CounterMod * q + CounterMod
  BY <1>1, CounterAssumption
<1>5. CounterMod * v + t = CounterMod * p + s /\ v \in Int /\ t \in 0..CounterMod - 1
  BY <1>1, <1>2, <1>3, <1>4, CounterAssumption
<1>6. s = t
  BY <1>3, <1>5, OneRemainder
<1> QED
  BY <1>6 DEF r, s, x

\* Adding one keeps equal remainders equal, and unequal ones unequal.
LEMMA OneMoreBoth ==
  ASSUME NEW n \in Nat, NEW k \in Nat
  PROVE  n % CounterMod = k % CounterMod <=> (n + 1) % CounterMod = (k + 1) % CounterMod
<1> DEFINE r == n % CounterMod
           s == k % CounterMod
           t == (n + 1) % CounterMod
           u == (k + 1) % CounterMod
<1>1. r \in 0..CounterMod - 1 /\ s \in 0..CounterMod - 1
  BY Division
<1>2. t = (IF r = CounterMod - 1 THEN 0 ELSE r + 1) /\ u = (IF s = CounterMod - 1 THEN 0 ELSE s + 1)
  BY OneMore
<1> HIDE DEF r, s, t, u
<1>3. r = s <=> t = u
  BY <1>1, <1>2, CounterAssumption
<1> QED
  BY <1>3 DEF r, s, t, u

\* Counters below CounterMod are themselves.
LEMMA Below == ASSUME NEW n \in 0..CounterMod - 1 PROVE n % CounterMod = n
BY CounterAssumption

\* What a post takes from its place and adds to pending_ leaves the sum.
LEMMA PostCounts ==
  ASSUME NEW n \in 0..CounterMod - 1, NEW u \in Nat, u > 0
  PROVE  (((n + 1) % CounterMod) + (u - 1)) % CounterMod = (n + u) % CounterMod
<1>1. CASE n = CounterMod - 1
  <2>1. (n + 1) % CounterMod = 0
    BY <1>1, Below, OneMore, CounterAssumption
  <2>2. n + u = (u - 1) + CounterMod /\ u - 1 \in Nat /\ n + u \in Nat
    BY <1>1, CounterAssumption
  <2>3. (n + u) % CounterMod = (u - 1) % CounterMod
    BY <2>2, FullTurn
  <2> QED
    BY <2>1, <2>2, <2>3
<1>2. CASE n # CounterMod - 1
  <2>1. (n + 1) % CounterMod = n + 1
    BY <1>2, Below, OneMore, CounterAssumption
  <2>2. (n + 1) + (u - 1) = n + u
    OBVIOUS
  <2> QED
    BY <2>1, <2>2
<1> QED
  BY <1>1, <1>2

\* What a worker has done it takes from pending_, below zero if need be.
LEMMA DoneCounts ==
  ASSUME NEW n \in 0..CounterMod - 1, NEW u \in Nat, NEW k \in Nat, k > 0,
         (n + u) % CounterMod = k % CounterMod
  PROVE  (minus_one(n) + u) % CounterMod = (k - 1) % CounterMod
<1>1. k - 1 \in Nat /\ (k - 1) + 1 = k /\ n + CounterMod - 1 \in Nat
  BY CounterAssumption
<1>2. CASE n = 0
  <2>1. minus_one(n) = CounterMod - 1
    BY <1>2, Below, CounterAssumption DEF minus_one
  <2>2. (minus_one(n) + u) + 1 = u + CounterMod /\ minus_one(n) + u \in Nat
        /\ u + CounterMod \in Nat /\ n + u = u
    BY <1>2, <2>1, CounterAssumption
  <2>3. ((minus_one(n) + u) + 1) % CounterMod = ((k - 1) + 1) % CounterMod
    BY <1>1, <2>2, FullTurn
  <2> QED
    BY <1>1, <2>2, <2>3, OneMoreBoth
<1>3. CASE n > 0
  <2>1. n - 1 \in 0..CounterMod - 1 /\ n + CounterMod - 1 = (n - 1) + CounterMod
    BY <1>3, CounterAssumption
  <2>2. minus_one(n) = n - 1
    <3>1. n - 1 \in Nat /\ (n - 1) % CounterMod = n - 1
      BY <2>1, Below
    <3>2. (n + CounterMod - 1) % CounterMod = (n - 1) % CounterMod
      BY <1>1, <2>1, <3>1, FullTurn
    <3> QED
      BY <3>1, <3>2 DEF minus_one
  <2>3. ((n - 1) + u) + 1 = n + u /\ (n - 1) + u \in Nat
    BY <2>1
  <2>4. (((n - 1) + u) + 1) % CounterMod = ((k - 1) + 1) % CounterMod
    BY <1>1, <2>3
  <2> QED
    BY <1>1, <2>2, <2>3, <2>4, OneMoreBoth
<1> QED
  BY <1>2, <1>3

----------------------------------------------------------------------------
(* The jobs that are on their way, and the posts that have not counted theirs *)

\* The jobs in the lists and in the workers' hands, said by what happened to them.
Alive == {j \in Jobs : IsPosted(j) /\ (j \notin completed \/ IsHeld(j))}

Uncounted == {c \in Clients : cpc[c] \in {"post_set", "post_count"}}

CountInv ==
    /\ IsFiniteSet(Uncounted) /\ IsFiniteSet(Alive)
    /\ (pending + Cardinality(Uncounted)) % CounterMod = Cardinality(Alive) % CounterMod

\* A step that moves no job across the counter's view keeps the count.
LEMMA NothingCounted ==
  ASSUME CountInv, pending' = pending, Uncounted' = Uncounted, Alive' = Alive
  PROVE  CountInv'
BY DEF CountInv

\* A job is accepted before it is counted.
LEMMA PushCounted ==
  ASSUME TypeOK, Places, CountInv, NEW c \in Clients, PostPush(c)
  PROVE  CountInv'
<1>1. /\ cpc[c] = "post_push" /\ cpc' = [cpc EXCEPT ![c] = "post_set"]
      /\ posted' = [posted EXCEPT ![c] = posted[c] \cup {job[c]}]
      /\ UNCHANGED <<completed, work, pending>>
  BY DEF PostPush, CGoto, jobVars, poolVars
<1>2. job[c] \in Jobs /\ (\A d \in Clients : job[c] \notin posted[d])
  BY <1>1 DEF TypeOK, PostPcs, Places, JobsApart, Offering
<1>3. job[c] \notin completed
  BY <1>2 DEF Places, Accounted, IsPosted
<1>4. c \notin Uncounted /\ Uncounted' = Uncounted \cup {c}
  BY <1>1 DEF Uncounted, TypeOK
<1>5. job[c] \notin Alive /\ Alive' = Alive \cup {job[c]}
  <2>1. \A x \in Jobs : IsPosted(x)' <=> IsPosted(x) \/ x = job[c]
    BY <1>1 DEF IsPosted, TypeOK
  <2>2. \A x : IsHeld(x)' <=> IsHeld(x)
    BY <1>1 DEF IsHeld
  <2>3. ~IsPosted(job[c])
    BY <1>2 DEF IsPosted
  <2> QED
    BY <1>1, <1>2, <1>3, <2>1, <2>2, <2>3 DEF Alive
<1>6. /\ IsFiniteSet(Uncounted') /\ Cardinality(Uncounted') = Cardinality(Uncounted) + 1
      /\ IsFiniteSet(Alive') /\ Cardinality(Alive') = Cardinality(Alive) + 1
      /\ Cardinality(Uncounted) \in Nat /\ Cardinality(Alive) \in Nat
  BY <1>4, <1>5, FS_AddElement, FS_CardinalityType DEF CountInv
<1>7. pending \in Nat
  BY CounterAssumption DEF TypeOK
<1>8. pending + Cardinality(Uncounted') = (pending + Cardinality(Uncounted)) + 1
      /\ pending + Cardinality(Uncounted) \in Nat
  BY <1>6, <1>7
<1>9. ((pending + Cardinality(Uncounted)) + 1) % CounterMod = (Cardinality(Alive) + 1) % CounterMod
  BY <1>6, <1>8, OneMoreBoth DEF CountInv
<1> QED
  BY <1>1, <1>6, <1>8, <1>9 DEF CountInv

\* The post counts its job, possibly after a worker has counted it off.
LEMMA CountCounted ==
  ASSUME TypeOK, CountInv, NEW c \in Clients, PostCount(c)
  PROVE  CountInv'
<1>1. /\ cpc[c] = "post_count" /\ cpc' = [cpc EXCEPT ![c] = "ready"]
      /\ pending' = (pending + 1) % CounterMod
      /\ UNCHANGED <<posted, completed, work>>
  BY DEF PostCount, CGoto, jobVars, workerVars
<1>2. c \in Uncounted /\ Uncounted' = Uncounted \ {c}
  BY <1>1 DEF Uncounted, TypeOK
<1>3. Alive' = Alive
  BY <1>1 DEF Alive, IsPosted, IsHeld
<1>4. /\ IsFiniteSet(Uncounted') /\ Cardinality(Uncounted') = Cardinality(Uncounted) - 1
      /\ Cardinality(Uncounted) \in Nat /\ Cardinality(Uncounted) # 0
  BY <1>2, FS_RemoveElement, FS_CardinalityType, FS_EmptySet DEF CountInv
<1>5. pending \in 0..CounterMod - 1 /\ Cardinality(Uncounted) > 0
  BY <1>4 DEF TypeOK
<1>6. (pending' + Cardinality(Uncounted')) % CounterMod = (pending + Cardinality(Uncounted)) % CounterMod
  BY <1>1, <1>4, <1>5, PostCounts
<1> QED
  BY <1>3, <1>4, <1>6 DEF CountInv

\* The worker counts the job off when it lets go of it.
LEMMA DoneCounted ==
  ASSUME TypeOK, Places, CountInv, NEW w \in Workers, CountDone(w)
  PROVE  CountInv'
<1>1. /\ wpc[w] = "count" /\ work' = [work EXCEPT ![w] = None] /\ pending' = minus_one(pending)
      /\ UNCHANGED <<posted, completed, cpc>>
  BY DEF CountDone, jobVars, clientVars
<1>2. work[w] \in Jobs /\ work[w] \in completed /\ IsHeld(work[w])
  BY <1>1 DEF TypeOK, Places, Progress, IsHeld
<1>3. \A v \in Workers \ {w} : work[v] # work[w]
  BY <1>2, NoneAssumption DEF Places, HandsApart
<1>4. work[w] \in Alive /\ Alive' = Alive \ {work[w]}
  <2>1. IsPosted(work[w])
    BY <1>2 DEF Places, Accounted
  <2>2. ASSUME NEW x \in Jobs PROVE IsHeld(x)' <=> IsHeld(x) /\ x # work[w]
    <3>1. work'[w] = None /\ (\A v \in Workers \ {w} : work'[v] = work[v])
      BY <1>1 DEF TypeOK
    <3>2. CASE x = work[w]
      <4>1. \A v \in Workers : work'[v] # x
        BY <1>3, <3>1, <3>2, NoneAssumption
      <4> QED
        BY <3>2, <4>1 DEF IsHeld
    <3>3. CASE x # work[w]
      <4>1. \A v \in Workers : work'[v] = x <=> work[v] = x
        BY <3>1, <3>3, NoneAssumption
      <4> QED
        BY <3>3, <4>1 DEF IsHeld
    <3> QED
      BY <3>2, <3>3
  <2> QED
    BY <1>1, <1>2, <2>1, <2>2 DEF Alive, IsPosted
<1>5. Uncounted' = Uncounted
  BY <1>1 DEF Uncounted
<1>6. /\ IsFiniteSet(Alive') /\ Cardinality(Alive') = Cardinality(Alive) - 1
      /\ Cardinality(Alive) \in Nat /\ Cardinality(Alive) # 0 /\ Cardinality(Uncounted) \in Nat
  BY <1>4, FS_RemoveElement, FS_CardinalityType, FS_EmptySet DEF CountInv
<1>7. pending \in 0..CounterMod - 1 /\ Cardinality(Alive) > 0
  BY <1>6 DEF TypeOK
<1>8. (pending' + Cardinality(Uncounted)) % CounterMod = (Cardinality(Alive) - 1) % CounterMod
  BY <1>1, <1>6, <1>7, DoneCounts DEF CountInv
<1> QED
  BY <1>5, <1>6, <1>8 DEF CountInv

\* No other step of a worker changes what is counted.
LEMMA WorkerCounted ==
  ASSUME TypeOK, Places, CountInv, NEW w \in Workers, Worker(w)
  PROVE  CountInv'
<1>1. CASE CountDone(w)
  BY <1>1, DoneCounted
<1>2. CASE PopWork(w) /\ list[w] # <<>>
  <2>1. /\ work' = [work EXCEPT ![w] = Head(list[w])] /\ wpc[w] = "pop"
        /\ UNCHANGED <<posted, completed, pending, cpc>>
    BY <1>2 DEF PopWork, poolVars, jobVars, clientVars
  <2>2. Head(list[w]) \in Jobs /\ IsQueued(Head(list[w]))
    <3>1. 1 \in 1..Len(list[w]) /\ Head(list[w]) = list[w][1] /\ Head(list[w]) \in Jobs
      BY <1>2 DEF TypeOK
    <3> QED
      BY <3>1 DEF IsQueued
  <2>3. Head(list[w]) \notin completed
    BY <2>2 DEF Places, Progress
  <2>4. work[w] = None
    BY <2>1 DEF Places, HandsApart, Handling
  <2>5. \A x \in Jobs : x # Head(list[w]) => (IsHeld(x)' <=> IsHeld(x))
    BY <2>1, <2>4, NoneAssumption DEF IsHeld, TypeOK
  <2>6. Alive' = Alive /\ Uncounted' = Uncounted
    BY <2>1, <2>3, <2>5 DEF Alive, Uncounted, IsPosted
  <2> QED
    BY <2>1, <2>6, NothingCounted
<1>3. CASE Complete(w)
  <2>1. /\ completed' = completed \cup {work[w]} /\ UNCHANGED <<posted, work, pending, cpc>>
    BY <1>3 DEF Complete, poolVars, clientVars
  <2>2. IsHeld(work[w])
    BY DEF IsHeld
  <2>3. Alive' = Alive /\ Uncounted' = Uncounted
    BY <2>1, <2>2 DEF Alive, Uncounted, IsPosted, IsHeld
  <2> QED
    BY <2>1, <2>3, NothingCounted
<1>4. CASE \/ Loop(w) \/ (PopWork(w) /\ list[w] = <<>>) \/ Execute(w) \/ NextStep(w)
           \/ Recheck(w) \/ NotifyIdle(w) \/ WaitForWork(w) \/ ResetWork(w)
  <2>1. UNCHANGED <<posted, completed, work, pending, cpc>>
    BY <1>4 DEF Loop, PopWork, Execute, NextStep, Recheck, NotifyIdle, WaitForWork, ResetWork,
       poolVars, jobVars, clientVars
  <2>2. Alive' = Alive /\ Uncounted' = Uncounted
    BY <2>1 DEF Alive, Uncounted, IsPosted, IsHeld
  <2> QED
    BY <2>1, <2>2, NothingCounted
<1> QED
  BY <1>1, <1>2, <1>3, <1>4 DEF Worker

\* Nor does any other step of a client or of the owner.
LEMMA ClientCounted ==
  ASSUME TypeOK, CountInv, NEW c \in Clients,
         \/ PostWork(c) \/ PostIndex(c) \/ PostWrap(c) \/ PostCheck(c) \/ PostSet(c)
         \/ CallWait(c) \/ Wait(c)
  PROVE  CountInv'
<1>1. /\ UNCHANGED <<posted, completed, work, pending>>
      /\ \A d \in Clients \ {c} : cpc'[d] = cpc[d]
      /\ cpc'[c] \in {"post_set", "post_count"} <=> cpc[c] \in {"post_set", "post_count"}
  BY DEF PostWork, PostIndex, PostWrap, PostCheck, PostSet, CallWait, Wait, WaitLoad, WaitIdle,
     WaitReset, CGoto, TypeOK, poolVars, jobVars, workerVars
<1>2. Alive' = Alive /\ Uncounted' = Uncounted
  BY <1>1 DEF Alive, Uncounted, IsPosted, IsHeld
<1> QED
  BY <1>1, <1>2, NothingCounted

\* The steps of the owner change nothing that is counted.
LEMMA OwnerCounted ==
  ASSUME TypeOK, CountInv, CallStart \/ CallStop \/ Own
  PROVE  CountInv'
<1> USE OwnerAssumption DEF TypeOK
<1>1. /\ UNCHANGED <<posted, completed, work, pending>>
      /\ \A d \in Clients \ {Owner} : cpc'[d] = cpc[d]
      /\ cpc[Owner] \notin {"post_set", "post_count"} /\ cpc'[Owner] \notin {"post_set", "post_count"}
  BY DEF CallStart, CallStop, Own, StartWorker, StopStore, StopSet, Join, ForEachWorker, CGoto,
     poolVars, jobVars, workerVars
<1>2. Alive' = Alive /\ Uncounted' = Uncounted
  BY <1>1 DEF Alive, Uncounted, IsPosted, IsHeld
<1> QED
  BY <1>1, <1>2, NothingCounted

\* Every step of the pool keeps the count.
LEMMA CountStep == TypeOK /\ Places /\ CountInv /\ [Next]_vars => CountInv'
<1> SUFFICES ASSUME TypeOK, Places, CountInv, [Next]_vars PROVE CountInv'
  OBVIOUS
<1>1. ASSUME NEW w \in Workers, Worker(w) PROVE CountInv'
  BY <1>1, WorkerCounted
<1>2. ASSUME NEW c \in Clients, PostWork(c) \/ Post(c) \/ CallWait(c) \/ Wait(c) PROVE CountInv'
  BY <1>2, PushCounted, CountCounted, ClientCounted DEF Post
<1>3. CASE CallStart \/ CallStop \/ Own
  BY <1>3, OwnerCounted
<1>4. CASE UNCHANGED vars
  <2>1. UNCHANGED <<posted, completed, work, pending, cpc>>
    BY <1>4 DEF vars, poolVars, jobVars, workerVars, clientVars
  <2>2. Alive' = Alive /\ Uncounted' = Uncounted
    BY <2>1 DEF Alive, Uncounted, IsPosted, IsHeld
  <2> QED
    BY <2>1, <2>2, NothingCounted
<1> QED
  BY <1>1, <1>2, <1>3, <1>4 DEF Next

\* The counter, the jobs that are alive and the posts under way agree.
LEMMA CountInvariance == Spec => []CountInv
<1>1. Init => CountInv
  <2> SUFFICES ASSUME Init PROVE CountInv
    OBVIOUS
  <2>1. Uncounted = {} /\ Alive = {} /\ pending = 0
    BY DEF Init, Uncounted, Alive, IsPosted
  <2> QED
    BY <2>1, FS_EmptySet DEF CountInv
<1> QED
  BY <1>1, PlacesInvariance, CountStep, PTL DEF Spec

\* The jobs that OnePlace counts are those that are alive.
LEMMA AliveIsOutstanding == TypeOK /\ Places => Outstanding = Cardinality(Alive)
<1> SUFFICES ASSUME TypeOK, Places PROVE {j \in Jobs : Copies(j) > 0} = Alive
  BY DEF Outstanding
<1> SUFFICES ASSUME NEW j \in Jobs PROVE Copies(j) > 0 <=> j \in Alive
  BY DEF Alive
<1>1. Copies(j) = IF j \in Accepted /\ ~(j \in completed /\ Holders(j) = {}) THEN 1 ELSE 0
  BY CountedOnce DEF OnePlace
<1>2. j \in Accepted <=> IsPosted(j)
  BY DEF Accepted, IsPosted
<1>3. Holders(j) # {} <=> IsHeld(j)
  BY DEF Holders, IsHeld
<1> QED
  BY <1>1, <1>2, <1>3 DEF Alive

\* The posts under way are those before and those after their set().
LEMMA UncountedAre ==
  IsFiniteSet(Uncounted) => Cardinality(Uncounted) = At("post_set") + At("post_count")
<1> SUFFICES ASSUME IsFiniteSet(Uncounted)
             PROVE  Cardinality(Uncounted) = At("post_set") + At("post_count")
  OBVIOUS
<1> DEFINE S == {c \in Clients : cpc[c] = "post_set"}
           T == {c \in Clients : cpc[c] = "post_count"}
<1>1. S \in SUBSET Uncounted /\ T \in SUBSET Uncounted /\ S \cup T = Uncounted /\ S \cap T = {}
  BY DEF Uncounted
<1>2. At("post_set") = Cardinality(S) /\ At("post_count") = Cardinality(T)
  BY DEF At
<1> HIDE DEF S, T
<1>3. IsFiniteSet(S) /\ IsFiniteSet(T)
  BY <1>1, FS_Subset
<1>4. Cardinality(Uncounted) = Cardinality(S) + Cardinality(T) - Cardinality({})
  BY <1>1, <1>3, FS_Union
<1>5. Cardinality(S) \in Nat /\ Cardinality(T) \in Nat /\ Cardinality({}) = 0
  BY <1>3, FS_CardinalityType, FS_EmptySet
<1> QED
  BY <1>2, <1>4, <1>5

\* pending_ is off by the posts that are between push and fetch_add and by
\* nothing else, for any number of workers, clients and jobs, wrap or no wrap.
THEOREM CounterIsExact == Spec => []PendingExact
<1>1. TypeOK /\ Places /\ CountInv => PendingExact
  <2> SUFFICES ASSUME TypeOK, Places, CountInv PROVE PendingExact
    OBVIOUS
  <2>1. Outstanding = Cardinality(Alive) /\ Cardinality(Uncounted) = At("post_set") + At("post_count")
    BY AliveIsOutstanding, UncountedAre DEF CountInv
  <2>2. /\ At("post_set") \in Nat /\ At("post_count") \in Nat /\ pending \in Nat
    <3>1. /\ {c \in Clients : cpc[c] = "post_set"} \in SUBSET Uncounted
          /\ {c \in Clients : cpc[c] = "post_count"} \in SUBSET Uncounted
      BY DEF Uncounted
    <3> QED
      BY <3>1, FS_Subset, FS_CardinalityType, CounterAssumption DEF At, CountInv, TypeOK
  <2>3. pending + At("post_set") + At("post_count") = pending + Cardinality(Uncounted)
    BY <2>1, <2>2
  <2> QED
    BY <2>1, <2>3 DEF CountInv, PendingExact
<1> QED
  BY <1>1, PlacesInvariance, CountInvariance, PTL

----------------------------------------------------------------------------
(* wait_for_idle in a pool that one thread owns, fills and waits for.  With *)
(* two threads one consumes the idle flag that was raised for the other, and *)
(* returns while the other has yet to count what it posted.                  *)

\* What is alive is in a worker's hands or in the list of one that will see it.
LEMMA AliveIsAwake ==
  ASSUME TypeOK, Places, NoLostWork, Alive # {}, \A c \in Clients : cpc[c] # "post_set"
  PROVE  \E w \in Workers : wpc[w] # "wait" \/ work_flag[w]
<1> PICK j \in Alive : TRUE
  OBVIOUS
<1>1. j \in Jobs /\ (IsHeld(j) \/ IsQueued(j))
  BY DEF Alive, Places, Accounted
<1>2. CASE IsHeld(j)
  <2> PICK w \in Workers : work[w] = j
    BY <1>2 DEF IsHeld
  <2>1. wpc[w] \in Handling
    BY <1>1, NoneAssumption DEF Places, HandsApart
  <2> QED
    BY <2>1 DEF Handling
<1>3. CASE IsQueued(j)
  <2> PICK w \in Workers : \E i \in 1..Len(list[w]) : list[w][i] = j
    BY <1>3 DEF IsQueued
  <2>1. list[w] # <<>>
    OBVIOUS
  <2> QED
    BY <2>1 DEF NoLostWork
<1> QED
  BY <1>1, <1>2, <1>3

\* Without a post under way pending_ is the number of jobs alive, up to the wrap.
LEMMA NoPostUnderWay ==
  ASSUME TypeOK, CountInv, Uncounted = {}
  PROVE  /\ pending = Cardinality(Alive) % CounterMod
         /\ Cardinality(Alive) \in Nat
<1>1. Cardinality(Uncounted) = 0 /\ Cardinality(Alive) \in Nat
  BY FS_EmptySet, FS_CardinalityType DEF CountInv
<1>2. pending \in 0..CounterMod - 1 /\ pending + 0 = pending
  BY DEF TypeOK
<1> QED
  BY <1>1, <1>2, Below DEF CountInv

\* Only the load of a zero lets wait_for_idle return.
LEMMA WaitReturnsAtZero ==
  ASSUME TypeOK, [Next]_vars, NEW c \in Clients, cpc[c] \in WaitPcs, cpc'[c] = "ready"
  PROVE  cpc[c] = "wait_load" /\ pending = 0 /\ UNCHANGED <<posted, completed>>
<1> USE OwnerAssumption DEF TypeOK, CGoto, WaitPcs
<1>1. ASSUME NEW w \in Workers, Worker(w) PROVE FALSE
  BY <1>1 DEF Worker, Loop, PopWork, Execute, NextStep, Complete, CountDone, Recheck,
     NotifyIdle, WaitForWork, ResetWork, clientVars
<1>2. ASSUME NEW d \in Clients, PostWork(d) \/ Post(d) \/ CallWait(d) PROVE FALSE
  BY <1>2 DEF PostWork, Post, PostIndex, PostWrap, PostCheck, PostPush, PostSet, PostCount,
     CallWait
<1>3. ASSUME NEW d \in Clients, Wait(d)
      PROVE  cpc[c] = "wait_load" /\ pending = 0 /\ UNCHANGED <<posted, completed>>
  <2>1. UNCHANGED <<pending, posted, completed>>
    BY <1>3 DEF Wait, WaitLoad, WaitIdle, WaitReset, poolVars, jobVars
  <2>2. d = c /\ WaitLoad(c) /\ ~(pending > 0)
    BY <1>3 DEF Wait, WaitLoad, WaitIdle, WaitReset
  <2> QED
    BY <2>1, <2>2, CounterAssumption DEF WaitLoad
<1>4. CASE CallStart \/ CallStop \/ Own
  BY <1>4 DEF CallStart, CallStop, Own, StartWorker, StopStore, StopSet, Join, ForEachWorker
<1>5. CASE UNCHANGED vars
  BY <1>5 DEF vars, clientVars
<1> QED
  BY <1>1, <1>2, <1>3, <1>4, <1>5 DEF Next

\* A thread that has a running pool to itself is not forgotten in wait_for_idle.
LEMMA WaiterStep ==
  ASSUME Clients = {Owner}, TypeOK, Places, NoLostWork, CountInv, WaiterNotForgotten, [Next]_vars
  PROVE  WaiterNotForgotten'
<1> DEFINE Awake == \E w \in Workers : wpc[w] # "wait" \/ work_flag[w]
<1> USE DEF TypeOK, WGoto, CGoto
<1>1. ASSUME NEW w \in Workers, Worker(w) PROVE idle_flag' \/ Awake'
  BY <1>1 DEF Worker, Loop, PopWork, Execute, NextStep, Complete, CountDone, Recheck,
     NotifyIdle, WaitForWork, ResetWork
<1>2. CASE PostWork(Owner) \/ Post(Owner) \/ CallWait(Owner)
  <2>1. cpc'[Owner] # "wait_idle"
    BY <1>2 DEF PostWork, Post, PostIndex, PostWrap, PostCheck, PostPush, PostSet, PostCount,
       CallWait
  <2> QED
    BY <2>1 DEF WaiterNotForgotten
<1>3. CASE WaitLoad(Owner)
  <2>1. CASE pending > 0
    <3>1. cpc[Owner] = "wait_load" /\ UNCHANGED <<wpc, work_flag>>
      BY <1>3 DEF WaitLoad, workerVars
    <3>2. Uncounted = {}
      BY <3>1 DEF Uncounted
    <3>3. pending = Cardinality(Alive) % CounterMod
      BY <3>2, NoPostUnderWay
    <3>4. Alive # {}
      <4> SUFFICES ASSUME Alive = {} PROVE FALSE
        OBVIOUS
      <4>1. Cardinality(Alive) = 0
        BY FS_EmptySet
      <4>2. 0 % CounterMod = 0
        BY Below, CounterAssumption
      <4>3. pending = 0
        BY <3>3, <4>1, <4>2
      <4> QED
        BY <2>1, <4>3
    <3>5. Awake
      BY <3>1, <3>4, AliveIsAwake
    <3> QED
      BY <3>1, <3>5 DEF WaiterNotForgotten
  <2>2. CASE ~(pending > 0)
    BY <1>3, <2>2 DEF WaitLoad, WaiterNotForgotten
  <2> QED
    BY <2>1, <2>2
<1>4. CASE WaitIdle(Owner) \/ WaitReset(Owner)
  BY <1>4 DEF WaitIdle, WaitReset, WaiterNotForgotten
<1>5. CASE CallStart \/ CallStop \/ Own
  BY <1>5 DEF CallStart, CallStop, Own, StartWorker, StopStore, StopSet, Join, ForEachWorker,
     WaiterNotForgotten
<1>6. CASE UNCHANGED vars
  <2>1. Running' = Running /\ UNCHANGED <<idle_flag, cpc, wpc, work_flag>>
    BY <1>6 DEF vars, poolVars, workerVars, clientVars, Running
  <2> QED
    BY <2>1 DEF WaiterNotForgotten
<1> QED
  BY <1>1, <1>2, <1>3, <1>4, <1>5, <1>6 DEF Next, Wait, WaiterNotForgotten

\* No wakeup of the waiter is lost: whoever is asleep in wait_for_idle is woken
\* by a worker that has still to raise the idle flag, however many workers there are.
THEOREM WaiterIsWoken ==
  ASSUME Clients = {Owner}
  PROVE  Spec => []WaiterNotForgotten
<1>1. Init => WaiterNotForgotten
  BY PoolAssumption DEF Init, WaiterNotForgotten, Running, Workers
<1>2. TypeOK /\ Places /\ NoLostWork /\ CountInv /\ WaiterNotForgotten /\ [Next]_vars
        => WaiterNotForgotten'
  BY WaiterStep
<1> QED
  BY <1>1, <1>2, PlacesInvariance, WorkIsSeen, CountInvariance, PTL DEF Spec

\* wait_for_idle returns to a thread that has the pool to itself only when all
\* it posted is complete, whatever the number of workers and of jobs, as long as
\* the counter has a value for each number of jobs.
THEOREM IdleIsDone ==
  ASSUME Clients = {Owner}, IsFiniteSet(Jobs), Cardinality(Jobs) < CounterMod
  PROVE  Spec => IdleMeansDone
<1>1. TypeOK /\ Places /\ CountInv /\ [Next]_vars
        => [\A c \in Clients : cpc[c] \in WaitPcs /\ cpc'[c] = "ready"
                                 => posted[c] \subseteq completed]_vars
  <2> SUFFICES ASSUME TypeOK, Places, CountInv, [Next]_vars, NEW c \in Clients,
                      cpc[c] \in WaitPcs, cpc'[c] = "ready"
               PROVE  posted[c] \subseteq completed
    OBVIOUS
  <2>1. cpc[c] = "wait_load" /\ pending = 0
    BY WaitReturnsAtZero
  <2>2. Uncounted = {}
    BY <2>1 DEF Uncounted
  <2>3. Cardinality(Alive) \in Nat /\ Cardinality(Alive) % CounterMod = 0
    BY <2>1, <2>2, NoPostUnderWay
  <2>4. Cardinality(Alive) <= Cardinality(Jobs) /\ Cardinality(Jobs) \in Nat
    BY FS_Subset, FS_CardinalityType DEF Alive
  <2>5. Cardinality(Alive) \in 0..CounterMod - 1
    BY <2>3, <2>4, CounterAssumption
  <2>6. Cardinality(Alive) = 0
    BY <2>3, <2>5, Below
  <2>7. Alive = {}
    BY <2>6, FS_EmptySet DEF CountInv
  <2> QED
    BY <2>7 DEF Alive, IsPosted, TypeOK
<1> QED
  BY <1>1, PlacesInvariance, CountInvariance, PTL DEF Spec, IdleMeansDone
=============================================================================
