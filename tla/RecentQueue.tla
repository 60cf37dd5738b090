------------------------------ MODULE RecentQueue ------------------------------
(***************************************************************************)
(* What txl::ring_buffer promises: a FIFO queue that keeps the Limit most  *)
(* recent values, dropping the oldest one when it is full.                 *)
(***************************************************************************)
EXTENDS Naturals, Sequences

CONSTANTS Values, Limit, None

VARIABLES queue, out    \* the values held, oldest first; the answer of the last read

vars == <<queue, out>>

Init == queue = <<>> /\ out = None

Emplace(v) ==
    /\ queue' = Append(IF Len(queue) = Limit THEN Tail(queue) ELSE queue, v)
    /\ UNCHANGED out

Read ==
    IF queue = <<>>
    THEN out' = None /\ UNCHANGED queue
    ELSE out' = Head(queue) /\ queue' = Tail(queue)

Clear == queue' = <<>> /\ UNCHANGED out

Next == (\E v \in Values : Emplace(v)) \/ Read \/ Clear

Spec == Init /\ [][Next]_vars
=============================================================================
