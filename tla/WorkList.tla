-------------------------------- MODULE WorkList --------------------------------
(***************************************************************************)
(* work_list.h: a work_distributor goes round its workers, gives each the  *)
(* next unit of a work_list if it takes one, and has each execute one step.*)
(* A unit is a function that may fail and is tried again, or a chain of    *)
(* such functions; a worker holds one unit (inline_worker) or any number   *)
(* of them (work_chain).                                                   *)
(*                                                                         *)
(* `store' is the distributor in the middle of run(), with the calls made  *)
(* and the order of the chains as histories; `contents' is how often each  *)
(* function is to be called.                                               *)
(***************************************************************************)
EXTENDS Naturals, FiniteSets, SequencesExt

CONSTANTS
    Functions,  \* the functions that make up the work
    MaxFails,   \* bound: how often one fails before it succeeds
    Layouts,    \* the work lists: sequences of functions and of sequences of them
    Crews,      \* the workers: sequences of "inline" and "chain"
    Careful     \* a work_chain is only made a worker alone, and of units of one step

\* A unit that is no chain is one function; a function is in one place of a layout.
\* There is a worker: without one, run() returns at once.
WorkAssumption ==
    /\ MaxFails \in Nat /\ Careful \in BOOLEAN
    /\ \A crew \in Crews : crew \in Seq({"inline", "chain"}) /\ crew # <<>>
    /\ \A layout \in Layouts :
        /\ layout \in Seq([of : Seq(Functions), chain : BOOLEAN])
        /\ \A i \in DOMAIN layout : layout[i].chain \/ Len(layout[i].of) = 1
        /\ \A f \in Functions : \E i \in DOMAIN layout : \E k \in DOMAIN layout[i].of :
             \A j \in DOMAIN layout : \A n \in DOMAIN layout[j].of :
                layout[j].of[n] = f <=> j = i /\ n = k

VARIABLES store, contents
vars == <<store, contents>>

\* a function with the failures ahead of it and the retries it is allowed
Lambda(f, fails, retries) == [f |-> f, fails |-> fails, retries |-> retries]
\* a unit: `chain' tells a chain of one function from the function
Unit(parts, chain) == [parts |-> parts, chain |-> chain]
UnitOf(u, fails, retries) ==
    Unit([i \in DOMAIN u.of |-> Lambda(u.of[i], fails[u.of[i]], retries[u.of[i]])], u.chain)

\* the calls made of a function that fails `fails' times and is retried `retries' times
Calls(fails, retries) == Min({fails, retries}) + 1

\* the functions that come before another in its chain
Before(layout) == [g \in Functions |-> {f \in Functions :
    \E i \in DOMAIN layout : \E j, k \in DOMAIN layout[i].of :
        j < k /\ layout[i].of[j] = f /\ layout[i].of[k] = g}]

\* a list of units made of a layout, given to a distributor with idle workers
GivenTo(layout, crew, fails, retries) ==
    /\ store = [work |-> [i \in DOMAIN layout |-> UnitOf(layout[i], fails, retries)],
                workers |-> [i \in DOMAIN crew |-> [kind |-> crew[i], units |-> <<>>, busy |-> FALSE]],
                num_busy |-> 0, unit |-> <<>>, index |-> 1, at |-> "start",
                called |-> [f \in Functions |-> 0], before |-> Before(layout)]
    /\ contents = [f \in Functions |-> Calls(fails[f], retries[f])]

\* every function succeeds or gives up at its first call, and no unit has two
OneStep(layout, fails, retries) ==
    /\ \A f \in Functions : Calls(fails[f], retries[f]) = 1
    /\ \A i \in DOMAIN layout : Len(layout[i].of) <= 1

Init == \E fails, retries \in [Functions -> 0..MaxFails], layout \in Layouts, crew \in Crews :
    /\ Careful => "chain" \notin ToSet(crew) \/ (Len(crew) = 1 /\ OneStep(layout, fails, retries))
    /\ GivenTo(layout, crew, fails, retries)

----------------------------------------------------------------------------
(* What an execute() leaves of what it was called on, whether it is        *)
(* complete, and the function that it called, if it called one.            *)

Status(left, complete, ran) == [left |-> left, complete |-> complete, ran |-> ran]

\* mutant: the retry is not counted
UncountedLambda(l) ==
    Status([l EXCEPT !.fails = IF @ > 0 THEN @ - 1 ELSE @], l.fails = 0, {l.f})
ExecuteLambda(l) ==
    LET retry == l.fails > 0 /\ l.retries > 0
    IN  Status(IF retry THEN [l EXCEPT !.fails = @ - 1, !.retries = @ - 1] ELSE l, ~retry, {l.f})

\* work_chain::execute, that ends the front of the list with a status; an incomplete one
\* goes to the back
\* mutant: to the front
UnrotatedChain(list, status) ==
    IF list = <<>> THEN Status(<<>>, TRUE, {})
    ELSE LET left == (IF status.complete THEN <<>> ELSE <<status.left>>) \o Tail(list)
         IN  Status(left, left = <<>>, status.ran)
ExecuteChain(list, status) ==
    IF list = <<>> THEN Status(<<>>, TRUE, {})
    ELSE LET left == Tail(list) \o (IF status.complete THEN <<>> ELSE <<status.left>>)
         IN  Status(left, left = <<>>, status.ran)

ExecuteUnit(u) ==
    LET first  == ExecuteLambda(Head(u.parts))
        status == IF u.chain THEN ExecuteChain(u.parts, first) ELSE first
    IN  Status(IF u.chain THEN Unit(status.left, TRUE) ELSE Unit(<<status.left>>, FALSE),
               status.complete, status.ran)

ExecuteWorker(w) ==
    CASE w.kind = "chain"  -> ExecuteChain(w.units, ExecuteUnit(Head(w.units)))
      [] w.units = <<>>    -> Status(<<>>, TRUE, {})
      [] OTHER             -> LET status == ExecuteUnit(Head(w.units))
                              IN  Status(IF status.complete THEN <<>> ELSE <<status.left>>,
                                         status.complete, status.ran)

----------------------------------------------------------------------------
Start ==
    /\ store.at = "start"
    /\ store' = IF store.work = <<>> THEN [store EXCEPT !.at = "round"]
                ELSE [store EXCEPT !.unit = <<Head(store.work)>>, !.work = Tail(@), !.at = "round"]
    /\ UNCHANGED contents

\* while (unit.has_value() or num_busy_ != 0)
\* mutant: the loop ends with the list
NoUnitLeft == store.unit # <<>>
MoreToDo   == store.unit # <<>> \/ store.num_busy # 0

\* add(*unit): an inline worker takes a unit when it has none, a chain always.
\* When the list has run out, *unit is what the empty optional holds, a null
\* pointer: to an inline worker that is no unit, a chain would execute it.
Takes(w) == w.kind = "chain" \/ w.units = <<>>

Round ==
    /\ store.at = "round" /\ MoreToDo
    /\ LET w      == store.workers[store.index]
           held   == IF Takes(w) THEN w.units \o store.unit ELSE w.units
           status == ExecuteWorker([w EXCEPT !.units = held])
       IN  IF w.kind = "chain" /\ store.unit = <<>>
           THEN store' = [store EXCEPT !.at = "crashed"]
           ELSE store' = [store EXCEPT
              !.unit = IF ~Takes(w) THEN @ ELSE IF store.work = <<>> THEN <<>> ELSE <<Head(store.work)>>,
              !.work = IF Takes(w) /\ @ # <<>> THEN Tail(@) ELSE @,
              !.workers[store.index] = [w EXCEPT !.units = status.left, !.busy = ~status.complete],
              !.num_busy = IF status.complete /\ w.busy THEN @ - 1
                           ELSE IF ~status.complete /\ ~w.busy THEN @ + 1
                           ELSE @,
              !.index = IF @ = Len(store.workers) THEN 1 ELSE @ + 1,
              !.called = [f \in Functions |-> @[f] + (IF f \in status.ran THEN 1 ELSE 0)]]
    /\ UNCHANGED contents

RunEnds ==
    /\ store.at = "round" /\ ~MoreToDo
    /\ store' = [store EXCEPT !.at = "done"]
    /\ UNCHANGED contents

Next == Start \/ Round \/ RunEnds

Spec == Init /\ [][Next]_vars /\ WF_vars(Next)

----------------------------------------------------------------------------
\* The functions of a chain take turns: before one is called again, each of the others
\* has been called as often or needs no more calls.  So the next one does not wait for
\* one that failed and will be retried, and a chain goes on after one that failed for
\* good (work_list.h:74-80, 146-171).
TakeTurns == \A g \in Functions : \A f \in store.before[g] :
    /\ store.called[g] > store.called[f] => store.called[f] = contents[f]
    /\ store.called[f] > store.called[g] + 1 => store.called[g] = contents[g]

\* When run() returns, each function has been called until it succeeded or its
\* retries ran out, never more often, and no worker is left busy, through every
\* rotation of the workers and of the chains, whose functions take turns
\* (work_list.h:66-88, 146-171, 241-274).
EachTried ==
    /\ \A f \in Functions : store.called[f] <= contents[f]
    /\ store.at = "done" => store.called = contents
    /\ store.num_busy = Cardinality({i \in DOMAIN store.workers : store.workers[i].busy})
    /\ TakeTurns

\* run() returns: a unit that keeps failing does not hold it up for ever, and no
\* worker is handed the null pointer it would execute (work_list.h:248-254).
RunReturns == <>(store.at = "done")
=============================================================================
