------------------------------- MODULE ThreadPool -------------------------------
(***************************************************************************)
(* txl::thread_pool and its thread_pool_workers (threading.h).             *)
(*                                                                         *)
(* Clients post work, wait for the pool to be idle, and one of them owns   *)
(* the pool: it starts and stops the workers.  One action is one access to *)
(* state the threads share: an atomic, a work list, an awaiter.  The work  *)
(* list is an AtomicStack, which AtomicLinkedList implements; the awaiters *)
(* are Signals, which Awaiter implements: set raises the flag,             *)
(* wait_and_reset is a wait for the flag and a separate reset.             *)
(*                                                                         *)
(* A job is a thread_pool_work: a chain of Steps[j] calls of execute()     *)
(* with next() between them, then complete().                              *)
(***************************************************************************)
EXTENDS Naturals, Sequences, FiniteSets

CONSTANTS
    NumWorkers,     \* workers_.size()
    Clients, Owner,
    Jobs,
    Steps,          \* Steps[j]: the length of job j's chain
    CounterMod,     \* pending_ counts modulo this, as a size_t wraps
    MaxStarts,      \* bound on start_workers() calls
    None

Workers == 0..NumWorkers - 1

ASSUME PoolAssumption    == NumWorkers \in Nat \ {0}
ASSUME OwnerAssumption   == Owner \in Clients
ASSUME StepsAssumption   == Steps \in [Jobs -> Nat \ {0}]
ASSUME CounterAssumption == CounterMod \in Nat /\ CounterMod > 1
ASSUME NoneAssumption    == None \notin Jobs

VARIABLES
    \* thread_pool
    next_thread_index, pending, idle_flag,
    \* thread_pool_worker: stopped_, pending_, work_awaiter_, the thread, its work
    stopped, list, work_flag, wpc, work,
    \* the work objects: how often each was executed, which are complete
    executed, completed,
    \* clients: next step, worker index and job they use; the jobs they posted
    cpc, index, job, posted,
    starts

poolVars   == <<next_thread_index, pending, idle_flag>>
jobVars    == <<executed, completed>>
workerVars == <<stopped, list, work_flag, wpc, work>>
clientVars == <<cpc, index, job, posted>>
vars       == <<poolVars, jobVars, workerVars, clientVars, starts>>

WorkerPcs == {"none", "loop", "pop", "execute", "next", "complete", "count",
              "recheck", "idle", "wait", "reset", "exit", "exited"}
PostPcs   == {"post_index", "post_wrap", "post_check", "post_push", "post_set", "post_count"}
WaitPcs   == {"wait_load", "wait_idle", "wait_reset"}
OwnerPcs  == {"start", "stop_store", "stop_set", "join"}
ClientPcs == {"ready"} \cup PostPcs \cup WaitPcs \cup OwnerPcs

Init ==
    /\ next_thread_index = 0 /\ pending = 0 /\ idle_flag = FALSE
    /\ stopped   = [w \in Workers |-> FALSE]
    /\ list      = [w \in Workers |-> <<>>]
    /\ work_flag = [w \in Workers |-> FALSE]
    /\ wpc       = [w \in Workers |-> "none"]
    /\ work      = [w \in Workers |-> None]
    /\ executed  = [j \in Jobs |-> 0]
    /\ completed = {}
    /\ cpc       = [c \in Clients |-> "ready"]
    /\ index     = [c \in Clients |-> 0]
    /\ job       = [c \in Clients |-> None]
    /\ posted    = [c \in Clients |-> {}]
    /\ starts    = 0

WGoto(w, l) == wpc' = [wpc EXCEPT ![w] = l]
CGoto(c, l) == cpc' = [cpc EXCEPT ![c] = l]

----------------------------------------------------------------------------
(* thread_pool_worker::process_work, called again for as long as it returns true *)

Loop(w) ==
    /\ wpc[w] = "loop"
    /\ WGoto(w, IF stopped[w] THEN "exit" ELSE "pop")
    /\ UNCHANGED <<poolVars, jobVars, stopped, list, work_flag, work, clientVars, starts>>

PopWork(w) ==
    /\ wpc[w] = "pop"
    /\ IF list[w] = <<>>
       THEN WGoto(w, "recheck") /\ UNCHANGED <<list, work>>
       ELSE /\ work' = [work EXCEPT ![w] = Head(list[w])]
            /\ list' = [list EXCEPT ![w] = Tail(@)]
            /\ WGoto(w, "execute")
    /\ UNCHANGED <<poolVars, jobVars, stopped, work_flag, clientVars, starts>>

Execute(w) ==
    /\ wpc[w] = "execute"
    /\ executed' = [executed EXCEPT ![work[w]] = @ + 1]
    /\ WGoto(w, "next")
    /\ UNCHANGED <<poolVars, completed, stopped, list, work_flag, work, clientVars, starts>>

\* work->next(): the chain has another step
\* mutant: one step too many
one_more(w) == executed[work[w]] <= Steps[work[w]]
next(w)     == executed[work[w]] < Steps[work[w]]

\* while (not stopped_ and work->next()): a stop truncates the chain
NextStep(w) ==
    /\ wpc[w] = "next"
    /\ WGoto(w, IF ~stopped[w] /\ next(w) THEN "execute" ELSE "complete")
    /\ UNCHANGED <<poolVars, jobVars, stopped, list, work_flag, work, clientVars, starts>>

Complete(w) ==
    /\ wpc[w] = "complete"
    /\ completed' = completed \cup {work[w]}
    /\ WGoto(w, "count")
    /\ UNCHANGED <<poolVars, executed, stopped, list, work_flag, work, clientVars, starts>>

\* a size_t minus one
\* mutant: a counter that stays at zero
minus_one_or_zero(n) == IF n = 0 THEN 0 ELSE n - 1
minus_one(n)         == (n + CounterMod - 1) % CounterMod

\* job_counter_.fetch_sub(1); the work object dies with its free_guard
CountDone(w) ==
    /\ wpc[w] = "count"
    /\ pending' = minus_one(pending)
    /\ work' = [work EXCEPT ![w] = None]
    /\ WGoto(w, "loop")
    /\ UNCHANGED <<next_thread_index, idle_flag, jobVars, stopped, list, work_flag, clientVars, starts>>

Recheck(w) ==
    /\ wpc[w] = "recheck"
    /\ WGoto(w, IF stopped[w] THEN "exit" ELSE "idle")
    /\ UNCHANGED <<poolVars, jobVars, stopped, list, work_flag, work, clientVars, starts>>

\* mutant: only a worker that ends tells that it is idle
NotifyIdleAtExit(w) ==
    /\ \/ wpc[w] = "idle" /\ WGoto(w, "wait") /\ UNCHANGED idle_flag
       \/ wpc[w] = "exit" /\ WGoto(w, "exited") /\ idle_flag' = TRUE
    /\ UNCHANGED <<next_thread_index, pending, jobVars, stopped, list, work_flag, work,
                   clientVars, starts>>
\* idle_awaiter_.set(), before the wait for work and before the thread ends
NotifyIdle(w) ==
    /\ \/ wpc[w] = "idle" /\ WGoto(w, "wait")
       \/ wpc[w] = "exit" /\ WGoto(w, "exited")
    /\ idle_flag' = TRUE
    /\ UNCHANGED <<next_thread_index, pending, jobVars, stopped, list, work_flag, work,
                   clientVars, starts>>

\* work_awaiter_.wait_and_reset()
WaitForWork(w) ==
    /\ wpc[w] = "wait"
    /\ work_flag[w]
    /\ WGoto(w, "reset")
    /\ UNCHANGED <<poolVars, jobVars, stopped, list, work_flag, work, clientVars, starts>>

\* mutant: a worker that was woken does not look at its list
ResetAndSleep(w) ==
    /\ wpc[w] = "reset"
    /\ work_flag' = [work_flag EXCEPT ![w] = FALSE]
    /\ WGoto(w, "recheck")
    /\ UNCHANGED <<poolVars, jobVars, stopped, list, work, clientVars, starts>>
ResetWork(w) ==
    /\ wpc[w] = "reset"
    /\ work_flag' = [work_flag EXCEPT ![w] = FALSE]
    /\ WGoto(w, "loop")
    /\ UNCHANGED <<poolVars, jobVars, stopped, list, work, clientVars, starts>>

Worker(w) ==
    \/ Loop(w) \/ PopWork(w) \/ Execute(w) \/ NextStep(w) \/ Complete(w) \/ CountDone(w)
    \/ Recheck(w) \/ NotifyIdle(w) \/ WaitForWork(w) \/ ResetWork(w)

----------------------------------------------------------------------------
(* thread_pool::post_work and thread_pool_worker::post *)

\* a client posts a work object that nobody posted before
PostWork(c) ==
    /\ cpc[c] = "ready"
    /\ \E j \in Jobs :
         /\ \A d \in Clients : j \notin posted[d] /\ job[d] # j
         /\ job' = [job EXCEPT ![c] = j]
    /\ CGoto(c, "post_index")
    /\ UNCHANGED <<poolVars, jobVars, workerVars, index, posted, starts>>

\* index >= workers_.size()
\* mutant: off by one
past_last(i) == i > NumWorkers
past_end(i)  == i >= NumWorkers

PostIndex(c) ==
    /\ cpc[c] = "post_index"
    /\ index' = [index EXCEPT ![c] = next_thread_index]
    /\ next_thread_index' = next_thread_index + 1
    /\ CGoto(c, IF past_end(next_thread_index) THEN "post_wrap" ELSE "post_check")
    /\ UNCHANGED <<pending, idle_flag, jobVars, workerVars, job, posted, starts>>

PostWrap(c) ==
    /\ cpc[c] = "post_wrap"
    /\ next_thread_index' = 0
    /\ index' = [index EXCEPT ![c] = 0]
    /\ CGoto(c, "post_check")
    /\ UNCHANGED <<pending, idle_flag, jobVars, workerVars, job, posted, starts>>

\* a stopped worker refuses: post_work returns false and the work object dies
PostCheck(c) ==
    /\ cpc[c] = "post_check"
    /\ IF stopped[index[c]]
       THEN CGoto(c, "ready") /\ job' = [job EXCEPT ![c] = None]
       ELSE CGoto(c, "post_push") /\ UNCHANGED job
    /\ UNCHANGED <<poolVars, jobVars, workerVars, index, posted, starts>>

PostPush(c) ==
    /\ cpc[c] = "post_push"
    /\ list' = [list EXCEPT ![index[c]] = <<job[c]>> \o @]
    /\ posted' = [posted EXCEPT ![c] = @ \cup {job[c]}]
    /\ CGoto(c, "post_set")
    /\ UNCHANGED <<poolVars, jobVars, stopped, work_flag, wpc, work, index, job, starts>>

PostSet(c) ==
    /\ cpc[c] = "post_set"
    /\ work_flag' = [work_flag EXCEPT ![index[c]] = TRUE]
    /\ CGoto(c, "post_count")
    /\ UNCHANGED <<poolVars, jobVars, stopped, list, wpc, work, index, job, posted, starts>>

\* pending_.fetch_add(1): only after the worker could see the work
PostCount(c) ==
    /\ cpc[c] = "post_count"
    /\ pending' = (pending + 1) % CounterMod
    /\ job' = [job EXCEPT ![c] = None]
    /\ CGoto(c, "ready")
    /\ UNCHANGED <<next_thread_index, idle_flag, jobVars, workerVars, index, posted, starts>>

Post(c) ==
    PostIndex(c) \/ PostWrap(c) \/ PostCheck(c) \/ PostPush(c) \/ PostSet(c) \/ PostCount(c)

----------------------------------------------------------------------------
(* thread_pool::wait_for_idle *)

CallWait(c) ==
    /\ cpc[c] = "ready"
    /\ CGoto(c, "wait_load")
    /\ UNCHANGED <<poolVars, jobVars, workerVars, index, job, posted, starts>>

WaitLoad(c) ==
    /\ cpc[c] = "wait_load"
    /\ CGoto(c, IF pending > 0 THEN "wait_idle" ELSE "ready")
    /\ UNCHANGED <<poolVars, jobVars, workerVars, index, job, posted, starts>>

WaitIdle(c) ==
    /\ cpc[c] = "wait_idle"
    /\ idle_flag
    /\ CGoto(c, "wait_reset")
    /\ UNCHANGED <<poolVars, jobVars, workerVars, index, job, posted, starts>>

\* mutant: an if in place of the while
WaitOnce(c) ==
    /\ cpc[c] = "wait_reset"
    /\ idle_flag' = FALSE
    /\ CGoto(c, "ready")
    /\ UNCHANGED <<next_thread_index, pending, jobVars, workerVars, index, job, posted, starts>>
WaitReset(c) ==
    /\ cpc[c] = "wait_reset"
    /\ idle_flag' = FALSE
    /\ CGoto(c, "wait_load")
    /\ UNCHANGED <<next_thread_index, pending, jobVars, workerVars, index, job, posted, starts>>

Wait(c) == WaitLoad(c) \/ WaitIdle(c) \/ WaitReset(c)

----------------------------------------------------------------------------
(* start_workers, stop_workers *)

Joined(w) == wpc[w] = "none"

\* the threads have not been started, or were joined
CallStart ==
    /\ cpc[Owner] = "ready"
    /\ \A w \in Workers : Joined(w)
    /\ starts < MaxStarts
    /\ starts' = starts + 1
    /\ index' = [index EXCEPT ![Owner] = 0]
    /\ CGoto(Owner, "start")
    /\ UNCHANGED <<poolVars, jobVars, workerVars, job, posted>>

\* the next worker of a loop over workers_, or what follows the loop
ForEachWorker(again, then) ==
    IF index[Owner] + 1 < NumWorkers
    THEN index' = [index EXCEPT ![Owner] = @ + 1] /\ CGoto(Owner, again)
    ELSE index' = [index EXCEPT ![Owner] = 0] /\ CGoto(Owner, then)

StartWorker ==
    /\ cpc[Owner] = "start"
    /\ stopped' = [stopped EXCEPT ![index[Owner]] = FALSE]
    /\ WGoto(index[Owner], "loop")
    /\ ForEachWorker("start", "ready")
    /\ UNCHANGED <<poolVars, jobVars, list, work_flag, work, job, posted, starts>>

CallStop ==
    /\ cpc[Owner] = "ready"
    /\ index' = [index EXCEPT ![Owner] = 0]
    /\ CGoto(Owner, "stop_store")
    /\ UNCHANGED <<poolVars, jobVars, workerVars, job, posted, starts>>

StopStore ==
    /\ cpc[Owner] = "stop_store"
    /\ stopped' = [stopped EXCEPT ![index[Owner]] = TRUE]
    /\ CGoto(Owner, "stop_set")
    /\ UNCHANGED <<poolVars, jobVars, list, work_flag, wpc, work, index, job, posted, starts>>

\* mutant: stop() does not wake the worker
StopInSilence ==
    /\ cpc[Owner] = "stop_set"
    /\ ForEachWorker("stop_store", "join")
    /\ UNCHANGED <<poolVars, jobVars, workerVars, job, posted, starts>>
StopSet ==
    /\ cpc[Owner] = "stop_set"
    /\ work_flag' = [work_flag EXCEPT ![index[Owner]] = TRUE]
    /\ ForEachWorker("stop_store", "join")
    /\ UNCHANGED <<poolVars, jobVars, stopped, list, wpc, work, job, posted, starts>>

\* wait_for_shutdown: join the thread if there is one
Join ==
    /\ cpc[Owner] = "join"
    /\ wpc[index[Owner]] \in {"none", "exited"}
    /\ WGoto(index[Owner], "none")
    /\ ForEachWorker("join", "ready")
    /\ UNCHANGED <<poolVars, jobVars, stopped, list, work_flag, work, job, posted, starts>>

Own == StartWorker \/ StopStore \/ StopSet \/ Join

----------------------------------------------------------------------------
Next ==
    \/ \E w \in Workers : Worker(w)
    \/ \E c \in Clients : PostWork(c) \/ Post(c) \/ CallWait(c) \/ Wait(c)
    \/ CallStart \/ CallStop \/ Own

\* Threads that can run do run; nothing obliges a client to make a call.
Fairness ==
    /\ \A w \in Workers : WF_vars(Worker(w))
    /\ \A c \in Clients : WF_vars(Post(c)) /\ WF_vars(Wait(c))
    /\ WF_vars(Own)

Spec == Init /\ [][Next]_vars /\ Fairness

----------------------------------------------------------------------------
(* Properties *)

TypeOK ==
    /\ next_thread_index \in Nat
    /\ pending \in 0..CounterMod - 1
    /\ idle_flag \in BOOLEAN
    /\ stopped   \in [Workers -> BOOLEAN]
    /\ list      \in [Workers -> Seq(Jobs)]
    /\ work_flag \in [Workers -> BOOLEAN]
    /\ wpc       \in [Workers -> WorkerPcs]
    /\ work      \in [Workers -> Jobs \cup {None}]
    /\ executed  \in [Jobs -> Nat]
    /\ completed \subseteq Jobs
    /\ cpc       \in [Clients -> ClientPcs]
    /\ index     \in [Clients -> Nat]
    /\ job       \in [Clients -> Jobs \cup {None}]
    /\ posted    \in [Clients -> SUBSET Jobs]
    /\ starts    \in Nat
    \* workers_[index] is in range, and the steps that use a job have one
    /\ \A c \in Clients : cpc[c] \in {"post_check", "post_push", "post_set"} \cup OwnerPcs
                            => index[c] \in Workers
    /\ \A c \in Clients : cpc[c] \in PostPcs => job[c] \in Jobs
    /\ \A w \in Workers : wpc[w] \in {"execute", "next", "complete", "count"}
                            => work[w] \in Jobs

Accepted == UNION {posted[c] : c \in Clients}

Queued(j)  ==
    UNION {{<<w, i>> : i \in {k \in 1..Len(list[w]) : list[w][k] = j}} : w \in Workers}
Holders(j) == {w \in Workers : work[w] = j}
Copies(j)  == Cardinality(Queued(j)) + Cardinality(Holders(j))

\* Every work object is in one work list or in one worker's hands from the
\* moment post_work accepts it until it is complete: it is never run by two
\* workers, run again after it was deleted, or dropped while the pool lives.
OnePlace ==
    \A j \in Jobs :
        /\ Copies(j) = IF j \in Accepted /\ ~(j \in completed /\ Holders(j) = {}) THEN 1 ELSE 0
        /\ executed[j] <= Steps[j]
        /\ j \in completed => executed[j] > 0

Outstanding == Cardinality({j \in Jobs : Copies(j) > 0})
At(l) == Cardinality({c \in Clients : cpc[c] = l})

\* pending_ plus the posts that are about to count themselves is the number of
\* accepted jobs that are not done, modulo the wrap of size_t: it is exact
\* whenever no post is between its push and its fetch_add, and below zero,
\* that is huge, when a worker's fetch_sub overtakes the poster's fetch_add.
PendingExact ==
    (pending + At("post_set") + At("post_count")) % CounterMod = Outstanding % CounterMod

\* No lost work: a worker that found its list empty and is on its way to sleep
\* does not sleep on work that was pushed meanwhile.
NoLostWork ==
    \A w \in Workers :
        list[w] # <<>> /\ wpc[w] \in {"recheck", "idle", "wait"} =>
            work_flag[w] \/ \E c \in Clients : cpc[c] = "post_set" /\ index[c] = w

\* No lost stop: nor does it sleep through stop(), although a post's set() and
\* the stop's set() may be consumed by the same reset().
NoLostStop ==
    \A w \in Workers :
        stopped[w] /\ wpc[w] \in {"idle", "wait"} =>
            work_flag[w] \/ (cpc[Owner] = "stop_set" /\ index[Owner] = w)

\* wait_for_idle returns to a client only after all the work this client posted
\* is complete (what thread_pool_complete_work in test_threading.cpp relies on).
IdleMeansDone ==
    [][\A c \in Clients : cpc[c] \in WaitPcs /\ cpc'[c] = "ready" => posted[c] \subseteq completed]_vars

Running == \A w \in Workers : wpc[w] # "none" /\ ~stopped[w]

\* A client asleep in wait_for_idle on a running pool is woken: the idle flag is
\* up, or some worker has still to raise it, or a post is on its way.
WaiterNotForgotten ==
    Running /\ ~idle_flag /\ (\E c \in Clients : cpc[c] = "wait_idle") =>
        \/ \E w \in Workers : wpc[w] # "wait" \/ work_flag[w]
        \/ \E c \in Clients : cpc[c] \in PostPcs \cup {"wait_load", "wait_reset"}

\* Work accepted by a pool that keeps running is completed.
WorkDone ==
    \A j \in Jobs : (j \in Accepted /\ Running) ~> (j \in completed \/ ~Running)

\* wait_for_idle returns while the pool keeps running.
WaitReturns ==
    \A c \in Clients : (cpc[c] \in WaitPcs /\ Running) ~> (cpc[c] \notin WaitPcs \/ ~Running)

\* stop_workers returns, wherever in its loop the stop finds each worker.
StopReturns == (cpc[Owner] \in {"stop_store", "stop_set", "join"}) ~> (cpc[Owner] = "ready")
=============================================================================
