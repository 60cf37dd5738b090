------------------------------ MODULE SharedParts ------------------------------
(***************************************************************************)
(* The parts of the library that threads share and that do not use each    *)
(* other: awaiter, the helpers of atomic.h, lazy_atomic, the I/O reactor   *)
(* and the dispatcher.  A behaviour is one of one part, chosen at the      *)
(* start; the state of the awaiter, that this module extends, and of the   *)
(* chosen other part is kept apart.                                        *)
(***************************************************************************)
EXTENDS Awaiter

CONSTANTS
    Swappers, Chosen, NoToken,                                  \* AtomicSwap
    Addresses, Empty, Pending, MaxClears, MaxSpurious,          \* LazyAtomic
    Requests, Size, Lengths, Chunk, Io, End,                    \* IoReactor
    Dispatchers, Msgs, Observers, Shared                          \* Observer

VARIABLES which, mem, at, loc

others == <<mem, at, loc>>
allVars == <<which, vars, others>>

Swap       == INSTANCE AtomicSwap WITH Threads <- Swappers, pc <- at
Lazy       == INSTANCE LazyAtomic WITH pc <- at
Reactor    == INSTANCE IoReactor WITH pc <- at
Dispatcher == INSTANCE Observer WITH Threads <- Dispatchers, pc <- at

ASSUME PartsAssumption ==
    /\ Swap!SwapAssumption /\ Lazy!LazyAssumption
    /\ Reactor!ReactorAssumption /\ Dispatcher!ObserverAssumption

Quiet == mem = Empty /\ at = Empty /\ loc = Empty

AnyInit ==
    /\ Init
    /\ \/ which = "awaiter"    /\ Quiet
       \/ which = "swap"       /\ Swap!Init
       \/ which = "lazy"       /\ Lazy!Init
       \/ which = "reactor"    /\ Reactor!Init
       \/ which = "dispatcher" /\ Dispatcher!Init

AnyNext ==
    \/ which = "awaiter"    /\ Next            /\ UNCHANGED <<which, others>>
    \/ which = "swap"       /\ Swap!Next       /\ UNCHANGED <<which, vars>>
    \/ which = "lazy"       /\ Lazy!Next       /\ UNCHANGED <<which, vars>>
    \/ which = "reactor"    /\ Reactor!Next    /\ UNCHANGED <<which, vars>>
    \/ which = "dispatcher" /\ Dispatcher!Next /\ UNCHANGED <<which, vars>>

\* each part under the fairness of its own specification
AnySpec ==
    /\ AnyInit /\ [][AnyNext]_allVars
    /\ \A t \in Threads : WF_allVars(
          \/ which = "awaiter" /\ Step(t)      /\ UNCHANGED <<which, others>>
          \/ which = "lazy"    /\ Lazy!Step(t) /\ UNCHANGED <<which, vars>>)
    /\ WF_allVars(which = "reactor" /\ Reactor!Step /\ UNCHANGED <<which, vars>>)

----------------------------------------------------------------------------
\* Every part's state keeps its type; for the awaiter: the threads that the
\* condition variable knows are those that are blocked in it (threading.h:21-82).
SharedTypes ==
    /\ TypeOK
    /\ which = "swap"       => Swap!TypeOK
    /\ which = "lazy"       => Lazy!TypeOK
    /\ which = "reactor"    => Reactor!TypeOK
    /\ which = "dispatcher" => Dispatcher!TypeOK

\* atomic.h:16-151: whatever the interleaving of atomic_swap, its conditional form
\* and acquire_lock, each value swapped in is handed out once.  atomic.h:182-331:
\* each value of a lazy_atomic is the atomic's or one thread's, to be installed or
\* deleted once, one thread at a time makes a value, and ptr() answers with a value
\* on the heap unless a clear came between.
AtomicsExact ==
    /\ which = "swap" => Swap!Conserved
    /\ which = "lazy" => Lazy!OwnedOnce /\ Lazy!ReservedByOne /\ Lazy!GotValue

\* A factory was shown the very value that its result replaced, not one that a
\* failed attempt saw (atomic.h:43-49, 97-107).
FactorySawReplaced == [][which = "swap" => Swap!ShownReplaced]_allVars

\* io_reactor.h:105-209: the list and its iterator hold together when a request is
\* erased or a callback appends one, and each byte goes to one request, in order.
ReactorExact == which = "reactor" => Reactor!ListSound /\ Reactor!BytesOnce

\* ptr() returns although it spins while another thread makes the value
\* (atomic.h:291-326).  A read request whose file is long enough completes and its
\* waiting client returns, next to requests that never complete (io_reactor.h:38-47, 105-209).
CallsReturn ==
    LET lazy == which = "lazy"
        reactor == which = "reactor"
    IN  /\ \A t \in Threads : (lazy /\ Lazy!InPtr(t)) ~> (lazy /\ at[t] = "idle")
        /\ \A r \in Requests :
              /\ (reactor /\ Reactor!Incomplete(r)) ~> (reactor /\ Reactor!Completed(r))
              /\ (reactor /\ Reactor!Waiting(r)) ~> (reactor /\ Reactor!Woken(r))

\* observer.h:61-332: the two maps agree with each other; an observer that was given by
\* shared_ptr outlives its subscriptions, unless an add and a remove_all of it, which lock
\* twice each, crossed; a dispatch calls once each observer that it found, although it
\* erases those that answer false, beside dispatches of other types that erase theirs.  Of
\* a list that two dispatches of one type went through while one erased, nothing is said.
DispatchExact ==
    which = "dispatcher" =>
        Dispatcher!MapsAgree /\ Dispatcher!KeptAlive /\ Dispatcher!EachCalledOnce
=============================================================================
