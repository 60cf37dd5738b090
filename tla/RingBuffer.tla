------------------------------- MODULE RingBuffer -------------------------------
(***************************************************************************)
(* txl::ring_buffer (ring_buffer.h): head and tail over an array of        *)
(* Capacity slots that lie, with head, tail and the capacity, in a mapping *)
(* that may be backed by a file.  One thread uses it, so each operation is *)
(* one action.                                                             *)
(*                                                                         *)
(* life[i] says what slot i's memory holds: no object, a constructed       *)
(* value, or the shell that read() leaves by moving the value out without  *)
(* calling its destructor.                                                 *)
(***************************************************************************)
EXTENDS Naturals, Sequences, FiniteSets

CONSTANTS
    Capacity,
    Values,
    None        \* the empty std::optional

\* a slot stays empty, and with one slot the modulus would make an empty buffer full
ASSUME CapacityAssumption == Capacity \in Nat /\ Capacity > 1

VARIABLES
    head, tail, slot, life,     \* the mapping
    mapped,                     \* whether a ring_buffer object has it open
    out                         \* the answer of the last read

vars == <<head, tail, slot, life, mapped, out>>

Slots == 0..Capacity - 1
Lives == {"raw", "live", "moved"}

Init ==
    /\ head = 0 /\ tail = 0
    /\ \E v \in Values : slot = [i \in Slots |-> v]
    /\ life = [i \in Slots |-> "raw"]
    /\ mapped = TRUE
    /\ out = None

\* ++x; if (x == capacity()) x = 0;
after(x) == IF x + 1 = Capacity THEN 0 ELSE x + 1

\* how many slots there are from head up to tail, and which
Count       == (tail + Capacity - head) % Capacity
Occupied    == {(head + k) % Capacity : k \in 0..Count - 1}

\* the oldest value's slot is destructed when the buffer is full
\* mutant: it is not
never_dropped(i) == FALSE
dropped(i) == i = head /\ head = (tail + 1) % Capacity

Emplace(v) ==
    /\ mapped
    /\ life' = [i \in Slots |->
                  IF i = tail THEN "live"
                  ELSE IF dropped(i) THEN "raw"
                  ELSE life[i]]
    /\ slot' = [slot EXCEPT ![tail] = v]
    /\ tail' = after(tail)
    /\ head' = IF head = tail' THEN after(head) ELSE head
    /\ UNCHANGED <<mapped, out>>

Read ==
    /\ mapped
    /\ \/ /\ head = tail
          /\ out' = None
          /\ UNCHANGED <<head, life>>
       \/ /\ head # tail
          /\ out' = slot[head]
          /\ life' = [life EXCEPT ![head] = "moved"]
          /\ head' = after(head)
    /\ UNCHANGED <<tail, slot, mapped>>

\* mutant: clear puts head back to the first slot
ClearedToStart == life' = [i \in Slots |-> IF i \in Occupied THEN "raw" ELSE life[i]] /\ head' = 0
\* clear: destruct from head to tail, and head catches up
Cleared ==
    /\ life' = [i \in Slots |-> IF i \in Occupied THEN "raw" ELSE life[i]]
    /\ head' = tail

Clear ==
    /\ mapped
    /\ Cleared
    /\ UNCHANGED <<tail, slot, mapped, out>>

\* the destructor, without and with preserve_values
Close ==
    /\ mapped
    /\ mapped' = FALSE
    /\ \/ Cleared
       \/ UNCHANGED <<head, life>>
    /\ UNCHANGED <<tail, slot, out>>

\* the constructor on the same file, with and without no_initialize
Reopen ==
    /\ ~mapped
    /\ mapped' = TRUE
    /\ \/ UNCHANGED <<head, tail, life>>
       \/ /\ head' = 0 /\ tail' = 0
          /\ life' = [i \in Slots |-> "raw"]
    /\ UNCHANGED <<slot, out>>

Next == (\E v \in Values : Emplace(v)) \/ Read \/ Clear \/ Close \/ Reopen

Spec == Init /\ [][Next]_vars

----------------------------------------------------------------------------
TypeOK ==
    /\ head \in Slots /\ tail \in Slots
    /\ slot \in [Slots -> Values]
    /\ life \in [Slots -> Lives]
    /\ mapped \in BOOLEAN
    /\ out \in Values \cup {None}

\* The slots that hold a constructed value are the ones between head and tail,
\* through every wrap: so a destructor runs on values only, and no value that
\* emplace() overwrites is left undestructed (values read() moved out aside).
LiveIsOccupied == \A i \in Slots : life[i] = "live" <=> i \in Occupied

queueBar == [k \in 1..Count |-> slot[(head + k - 1) % Capacity]]

Fifo == INSTANCE RecentQueue WITH queue <- queueBar, out <- out, Limit <- Capacity - 1

\* ring_buffer is a FIFO queue of the Capacity - 1 most recent values, across
\* closing with preserve_values and opening again with no_initialize.
IsRecentQueue == Fifo!Spec
=============================================================================
