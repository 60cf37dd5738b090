--------------------------------- MODULE Tasks ---------------------------------
(***************************************************************************)
(* One txl::task (tasks.h) that its owner calls again and again on a       *)
(* thread_pool_task_runner: operator() resets the promise, posts a closure *)
(* to the pool, waits for the promise's awaiter and takes the result.      *)
(*                                                                         *)
(* The closures reach the pool's threads in the order ThreadPool allows; a *)
(* closure points into the task, so what matters here is when a worker     *)
(* still uses the promise.  The awaiter is a Signal whose set() is two     *)
(* steps, because set() uses the awaiter once more after the flag is up.   *)
(***************************************************************************)
EXTENDS Naturals

CONSTANTS
    Workers,    \* threads of the pool
    MaxChain,   \* bound on the length of the task's chain
    MaxCalls    \* bound on the number of calls

ASSUME BoundsAssumption == MaxChain \in Nat /\ MaxCalls \in Nat

VARIABLES
    void,       \* task<void>, or a task with a result
    len,        \* length of the chain; 0 is a task without a function
    res, flag,  \* the promise: res_ and its awaiter's set_
    opc, calls, accepted,
    destroyed,  \* the task object is gone
    queue,      \* the calls whose closure no worker has taken
    wpc, wcall, step,
    stopped     \* the pool was told to stop

owner  == <<opc, calls, accepted, destroyed>>
worker == <<wpc, wcall, step>>
params == <<void, len>>
vars   == <<params, res, flag, owner, queue, worker, stopped>>

Empty       == [has |-> "nothing"]
Unset       == [has |-> "false"]            \* promise<void>::reset stores false
Value(c, k) == [has |-> "value", call |-> c, step |-> k]
Error(c, k) == [has |-> "exception", call |-> c, step |-> k]

has_value     == res.has \in {"value", "false"}
has_exception == res.has = "exception"

OwnerPcs  == {"idle", "reset_flag", "run", "wait", "take"}
WorkerPcs == {"free", "execute", "next", "complete", "early_set", "early_notify",
              "test", "set", "notify"}

Init ==
    /\ void \in BOOLEAN
    /\ len \in 0..MaxChain
    /\ res = Empty
    /\ flag = FALSE
    /\ opc = "idle" /\ calls = 0 /\ accepted = FALSE /\ destroyed = FALSE
    /\ queue = {}
    /\ wpc   = [w \in Workers |-> "free"]
    /\ wcall = [w \in Workers |-> 0]
    /\ step  = [w \in Workers |-> 0]
    /\ stopped = FALSE

----------------------------------------------------------------------------
(* The owner: task::operator()(runner) *)

\* promise::reset, first half
CallReset ==
    /\ opc = "idle" /\ ~destroyed
    /\ calls < MaxCalls
    /\ calls' = calls + 1
    /\ res' = IF void THEN Unset ELSE Empty
    /\ opc' = "reset_flag"
    /\ UNCHANGED <<params, flag, accepted, destroyed, queue, worker, stopped>>

\* mutant: the awaiter keeps the flag of the call before
KeepFlag ==
    /\ opc = "reset_flag"
    /\ opc' = "run"
    /\ UNCHANGED <<params, res, flag, calls, accepted, destroyed, queue, worker, stopped>>
\* promise::reset, second half: awaiter_.reset()
ResetFlag ==
    /\ opc = "reset_flag"
    /\ flag' = FALSE
    /\ opc' = "run"
    /\ UNCHANGED <<params, res, calls, accepted, destroyed, queue, worker, stopped>>

\* runner.run drops the answer of post_work: a stopped pool refuses in silence
Run ==
    /\ opc = "run"
    /\ accepted' = ~stopped
    /\ queue' = IF stopped THEN queue ELSE queue \cup {calls}
    /\ opc' = "wait"
    /\ UNCHANGED <<params, res, flag, calls, destroyed, worker, stopped>>

Wait ==
    /\ opc = "wait"
    /\ flag
    /\ opc' = "take"
    /\ UNCHANGED <<params, res, flag, calls, accepted, destroyed, queue, worker, stopped>>

\* rethrow_if_exception, release_value
TakeResult ==
    /\ opc = "take"
    /\ opc' = "idle"
    /\ UNCHANGED <<params, res, flag, calls, accepted, destroyed, queue, worker, stopped>>

\* the task goes out of scope between calls
Destroy ==
    /\ opc = "idle" /\ ~destroyed
    /\ destroyed' = TRUE
    /\ UNCHANGED <<params, res, flag, opc, calls, accepted, queue, worker, stopped>>

----------------------------------------------------------------------------
(* A worker: task_closure::execute, next and complete as the pool calls them *)

WGoto(w, l) == wpc' = [wpc EXCEPT ![w] = l]

TakeClosure(w) ==
    /\ wpc[w] = "free" /\ ~stopped
    /\ \E c \in queue :
         /\ queue' = queue \ {c}
         /\ wcall' = [wcall EXCEPT ![w] = c]
    /\ step' = [step EXCEPT ![w] = 1]
    /\ WGoto(w, "execute")
    /\ UNCHANGED <<params, res, flag, owner, stopped>>

\* each step of the chain returns a value or throws; a task without a function
\* does neither.  The result replaces that of the step before, notifying nobody.
Execute(w) ==
    /\ wpc[w] = "execute"
    /\ \/ len = 0 /\ UNCHANGED res
       \/ len > 0 /\ res' \in {Value(wcall[w], step[w]), Error(wcall[w], step[w])}
    /\ WGoto(w, "next")
    /\ UNCHANGED <<params, flag, owner, queue, wcall, step, stopped>>

\* next: the chain has another link
next(w) == step[w] < len

NextStep(w) ==
    /\ wpc[w] = "next"
    /\ IF ~stopped /\ next(w)
       THEN step' = [step EXCEPT ![w] = @ + 1] /\ WGoto(w, "execute")
       ELSE WGoto(w, "complete") /\ UNCHANGED step
    /\ UNCHANGED <<params, res, flag, owner, queue, wcall, stopped>>

\* complete: without a result store "empty task did not return a result"
Complete(w) ==
    /\ wpc[w] = "complete"
    /\ IF ~has_value /\ ~has_exception
       THEN res' = Error(wcall[w], 0) /\ WGoto(w, "early_set")
       ELSE WGoto(w, "test") /\ UNCHANGED res
    /\ UNCHANGED <<params, flag, owner, queue, wcall, step, stopped>>

\* awaiter::set: raise the flag, and notify once the mutex is released
SetFlag(w) ==
    /\ \/ wpc[w] = "early_set" /\ WGoto(w, "early_notify")
       \/ wpc[w] = "set" /\ WGoto(w, "notify")
    /\ flag' = TRUE
    /\ UNCHANGED <<params, res, owner, queue, wcall, step, stopped>>

NotifyCond(w) ==
    /\ \/ wpc[w] = "early_notify" /\ WGoto(w, "test")
       \/ wpc[w] = "notify" /\ WGoto(w, "free")
    /\ UNCHANGED <<params, res, flag, owner, queue, wcall, step, stopped>>

\* mutant: exceptions notify nobody
NotifyValueOnly(w) ==
    /\ wpc[w] = "test"
    /\ WGoto(w, IF has_value THEN "set" ELSE "free")
    /\ UNCHANGED <<params, res, flag, owner, queue, wcall, step, stopped>>
\* promise::notify_all: notify if res_ holds anything
NotifyTest(w) ==
    /\ wpc[w] = "test"
    /\ WGoto(w, IF res = Empty THEN "free" ELSE "set")
    /\ UNCHANGED <<params, res, flag, owner, queue, wcall, step, stopped>>

Worker(w) ==
    \/ TakeClosure(w) \/ Execute(w) \/ NextStep(w) \/ Complete(w)
    \/ SetFlag(w) \/ NotifyCond(w) \/ NotifyTest(w)

\* another thread stops the pool
Stop ==
    /\ ~stopped
    /\ stopped' = TRUE
    /\ UNCHANGED <<params, res, flag, owner, queue, worker>>

Owner == ResetFlag \/ Run \/ Wait \/ TakeResult

Next == Owner \/ CallReset \/ Destroy \/ Stop \/ \E w \in Workers : Worker(w)

Spec == Init /\ [][Next]_vars /\ WF_vars(Owner) /\ \A w \in Workers : WF_vars(Worker(w))

----------------------------------------------------------------------------
TypeOK ==
    /\ void \in BOOLEAN /\ len \in 0..MaxChain
    /\ res \in {Empty, Unset} \cup
               {Value(c, k) : c \in 1..MaxCalls, k \in 1..MaxChain} \cup
               {Error(c, k) : c \in 1..MaxCalls, k \in 0..MaxChain}
    /\ flag \in BOOLEAN
    /\ opc \in OwnerPcs /\ calls \in 0..MaxCalls
    /\ accepted \in BOOLEAN /\ destroyed \in BOOLEAN
    /\ queue \subseteq 1..MaxCalls
    /\ wpc \in [Workers -> WorkerPcs]
    /\ wcall \in [Workers -> 0..MaxCalls]
    /\ step \in [Workers -> 0..MaxChain + 1]
    /\ stopped \in BOOLEAN

\* A call of a task that has a function returns the outcome of its own last
\* step: never that of the call before, of a step in the middle of the chain, or
\* of a chain still running.  Only a stopped pool may cut the chain short.
OwnResult ==
    opc = "take" /\ len > 0 =>
        /\ res.has \in {"value", "exception"}
        /\ res.call = calls
        /\ res.step = len \/ stopped

\* At most one worker writes a task's promise: the closure of a call starts
\* only when the one before has come to its last notification.
OneWriter ==
    len > 0 =>
        \A w, x \in Workers : w # x =>
            ~(wpc[w] \in {"execute", "next", "complete"} /\ wpc[x] \notin {"free", "notify"})

\* The owner may destroy the task when its call has returned, as every test
\* that calls a local task does: no worker uses the promise after that.
NotUsedAfterDestroy == destroyed /\ len > 0 => \A w \in Workers : wpc[w] = "free"

\* A call returns, unless the pool is stopped: then the closure may never run.
CallReturns == (opc = "wait" /\ accepted) ~> (opc = "idle" \/ stopped)
=============================================================================
