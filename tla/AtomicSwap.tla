------------------------------- MODULE AtomicSwap -------------------------------
(***************************************************************************)
(* The compare-and-swap loops of atomic.h: atomic_swap and atomic_swap_if, *)
(* each with a new value or with a factory of one, and acquire_lock, which *)
(* tries its swap once.  Every load and every compare-and-swap is a step.  *)
(*                                                                         *)
(* The threads exchange tokens: each owns one, swaps it into the atomic    *)
(* and owns the token that it got back.  A value is a token and, when a    *)
(* factory made it, the token of the value the factory was shown.          *)
(***************************************************************************)
EXTENDS FiniteSets

CONSTANTS
    Threads,
    Chosen,     \* the tokens for which the condition of a swap_if is true
    NoToken

\* of the constants
SwapAssumption == Chosen \subseteq Threads /\ NoToken \notin Threads

VARIABLES
    mem,    \* the atomic's value
    pc,
    loc     \* a thread's token and the locals of its call

vars == <<mem, pc, loc>>

Tokens == Threads \cup {NoToken}    \* thread t starts with token t
Values == [token : Tokens, seen : Tokens]
Ops    == {"swap", "swap_factory", "swap_if", "swap_if_factory", "acquire_lock"}

Plain(k) == [token |-> k, seen |-> NoToken]

Idle(own) == [own |-> own, op |-> "swap", old |-> Plain(NoToken), new |-> Plain(NoToken)]

Init ==
    /\ mem = Plain(NoToken)
    /\ pc = [t \in Threads |-> "idle"]
    /\ loc = [t \in Threads |-> Idle(t)]

Goto(t, l) == pc' = [pc EXCEPT ![t] = l]
Return(t, own) == Goto(t, "idle") /\ loc' = [loc EXCEPT ![t] = Idle(own)]
Locals(t, old, new) == loc' = [loc EXCEPT ![t].old = old, ![t].new = new]

Call(t) ==
    /\ pc[t] = "idle"
    /\ \E op \in Ops :
          /\ loc' = [loc EXCEPT ![t].op = op]
          /\ Goto(t, IF op \in {"swap_if", "swap_if_factory"} THEN "cond" ELSE "load")
    /\ UNCHANGED mem

\* swap_if: the condition is tested on a load of its own; old_value is returned
\* as it is when the condition is false
Cond(t) ==
    /\ pc[t] = "cond"
    /\ IF mem.token \in Chosen THEN Goto(t, "load") /\ UNCHANGED loc ELSE Return(t, loc[t].own)
    /\ UNCHANGED mem

\* the acquiring load, and the factory's value, if there is a factory
NewValue(t, old) ==
    [token |-> loc[t].own,
     seen  |-> IF loc[t].op \in {"swap_factory", "swap_if_factory"} THEN old.token ELSE NoToken]

\* mutant: the factory is called once, and not again after a failed swap
LoadOnce(t) ==
    /\ pc[t] = "load"
    /\ Locals(t, mem, IF loc[t].new.token = loc[t].own THEN loc[t].new ELSE NewValue(t, mem))
    /\ Goto(t, "cas")
    /\ UNCHANGED mem
Load(t) ==
    /\ pc[t] = "load"
    /\ Locals(t, mem, NewValue(t, mem))
    /\ Goto(t, IF loc[t].op = "acquire_lock" THEN "scope" ELSE "cas")
    /\ UNCHANGED mem

\* the scope of an acquire_lock leaves its copy as it was, or changes it
Scope(t) ==
    /\ pc[t] = "scope"
    /\ \/ Goto(t, "cas") /\ UNCHANGED loc
       \/ Return(t, loc[t].own)
    /\ UNCHANGED mem

\* mutant: the swap stores without comparing
Store(t) ==
    /\ pc[t] = "cas"
    /\ mem' = loc[t].new
    /\ Return(t, loc[t].old.token)
CasSucceeds(t) ==
    /\ pc[t] = "cas"
    /\ mem = loc[t].old
    /\ mem' = loc[t].new
    /\ Return(t, loc[t].old.token)

\* a weak compare-and-swap may fail on equal values too.  The loops start over;
\* an acquire_lock drops the change, and its caller is not told
CasFails(t) ==
    /\ pc[t] = "cas"
    /\ \/ loc[t].op \in {"swap", "swap_factory"} /\ Goto(t, "load") /\ UNCHANGED loc
       \/ loc[t].op \in {"swap_if", "swap_if_factory"} /\ Goto(t, "cond") /\ UNCHANGED loc
       \/ loc[t].op = "acquire_lock" /\ Return(t, loc[t].own)
    /\ UNCHANGED mem

Next == \E t \in Threads :
    Call(t) \/ Cond(t) \/ Load(t) \/ Scope(t) \/ CasSucceeds(t) \/ CasFails(t)

Spec == Init /\ [][Next]_vars

----------------------------------------------------------------------------
TypeOK ==
    /\ mem \in Values
    /\ pc \in [Threads -> {"idle", "cond", "load", "scope", "cas"}]
    /\ loc \in [Threads -> [own : Tokens, op : Ops, old : Values, new : Values]]

\* What a swap returns is what it replaced: every token is in the atomic or
\* with one thread, however the swaps interleave (atomic.h:20-25, 43-49).
Conserved == {mem.token} \cup {loc[t].own : t \in Threads} = Tokens

\* A step that swaps installs a value that a factory made from nothing but the value
\* that it replaces, not from one that a failed attempt saw (atomic.h:43-49, 97-107).
ShownReplaced == \A t \in Threads :
    mem' # mem /\ loc'[t].own # loc[t].own => mem'.seen \in {NoToken, loc'[t].own}

FactorySawReplaced == [][ShownReplaced]_vars

\* swap_if replaces no value for which its condition is false (atomic.h:53).
\* It does: the condition is tested on one load and the swap is from another.
ConditionHonoured ==
    [][\A t \in Threads : loc'[t].own # loc[t].own /\ loc[t].op \in {"swap_if", "swap_if_factory"}
          => mem.token \in Chosen]_vars
=============================================================================
