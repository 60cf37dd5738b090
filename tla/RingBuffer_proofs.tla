--------------------------- MODULE RingBuffer_proofs ---------------------------
(***************************************************************************)
(* Proofs about RingBuffer, for every capacity above one and every set of  *)
(* values: the constructed values are those between head and tail, however *)
(* the two wrap, and the buffer is the queue of RecentQueue.  And about    *)
(* RingBufferFile, for every size of the map, the padding and the entries: *)
(* reads give the entries that are due, whole.                             *)
(***************************************************************************)
EXTENDS SequentialParts, FiniteSetTheorems, SequenceTheorems, TLAPS

\* What the operations preserve.
Inv == TypeOK /\ LiveIsOccupied

\* The slots in use with head at h and tail at t, without a modulus.
Between(h, t) == {i \in Slots : IF h <= t THEN h <= i /\ i < t ELSE h <= i \/ i < t}

\* A sum of two indices wraps at most once.
LEMMA Wrap ==
  ASSUME NEW a \in Nat, a < 2 * Capacity
  PROVE  a % Capacity = IF a < Capacity THEN a ELSE a - Capacity
BY CapacityAssumption, SMT

\* What the code writes as a test is a modulus.
LEMMA AfterWraps == ASSUME NEW x \in Slots PROVE (x + 1) % Capacity = after(x)
<1>1. x + 1 \in Nat /\ x + 1 < 2 * Capacity
  BY CapacityAssumption DEF Slots
<1>2. (x + 1) % Capacity = IF x + 1 < Capacity THEN x + 1 ELSE x + 1 - Capacity
  BY <1>1, Wrap, CapacityAssumption DEF Slots
<1> QED
  BY <1>2, CapacityAssumption DEF after, Slots

\* How many slots lie from h up to t.
LEMMA Distance ==
  ASSUME NEW h \in Slots, NEW t \in Slots
  PROVE  (t + Capacity - h) % Capacity = IF h <= t THEN t - h ELSE t + Capacity - h
<1>1. t + Capacity - h \in Nat /\ t + Capacity - h < 2 * Capacity
  BY CapacityAssumption DEF Slots
<1>2. (t + Capacity - h) % Capacity
        = IF t + Capacity - h < Capacity THEN t + Capacity - h
          ELSE (t + Capacity - h) - Capacity
  BY <1>1, Wrap
<1> QED
  BY <1>2, CapacityAssumption DEF Slots

\* Stepping from h by the distances below the one to t reaches the slots between.
LEMMA Reached ==
  ASSUME NEW h \in Slots, NEW t \in Slots,
         NEW n \in Nat, n = IF h <= t THEN t - h ELSE t + Capacity - h
  PROVE  {(h + k) % Capacity : k \in 0..n - 1} = Between(h, t)
<1> USE CapacityAssumption DEF Slots
<1>1. ASSUME NEW k \in 0..n - 1 PROVE (h + k) % Capacity \in Between(h, t)
  <2>1. h + k \in Nat /\ h + k < 2 * Capacity
    OBVIOUS
  <2> QED
    BY <2>1, Wrap DEF Between
<1>2. ASSUME NEW i \in Between(h, t) PROVE \E k \in 0..n - 1 : i = (h + k) % Capacity
  <2> DEFINE k == IF h <= i THEN i - h ELSE i + Capacity - h
  <2>1. k \in 0..n - 1
    BY DEF Between
  <2>2. h + k \in Nat /\ h + k < 2 * Capacity
    BY DEF Between
  <2>3. i = (h + k) % Capacity
    BY <2>2, Wrap DEF Between
  <2> QED
    BY <2>1, <2>3
<1> QED
  BY <1>1, <1>2

\* Occupied is the set of slots between head and tail, before a step and after it.
LEMMA OccupiedBetween ==
  /\ head \in Slots /\ tail \in Slots => Occupied = Between(head, tail)
  /\ head' \in Slots /\ tail' \in Slots => Occupied' = Between(head', tail')
<1>1. ASSUME NEW h \in Slots, NEW t \in Slots
      PROVE  {(h + k) % Capacity : k \in 0..((t + Capacity - h) % Capacity) - 1} = Between(h, t)
  <2> DEFINE n == (t + Capacity - h) % Capacity
  <2>1. n = IF h <= t THEN t - h ELSE t + Capacity - h
    BY Distance
  <2>2. n \in Nat
    BY <2>1, CapacityAssumption DEF Slots
  <2> HIDE DEF n
  <2>3. {(h + k) % Capacity : k \in 0..n - 1} = Between(h, t)
    BY <2>1, <2>2, Reached
  <2> QED
    BY <2>3 DEF n
<1> QED
  BY <1>1 DEF Occupied, Count

----------------------------------------------------------------------------
\* What one emplace() does to a full buffer and to one with room left.
LEMMA EmplaceKeeps == ASSUME Inv, NEW v \in Values, Emplace(v) PROVE Inv'
<1> USE CapacityAssumption DEF Inv, TypeOK, Slots
<1>1. (tail + 1) % Capacity = after(tail)
  BY AfterWraps
<1>2. TypeOK'
  BY DEF Emplace, after, Lives
<1>3. LiveIsOccupied'
  <2>1. Occupied = Between(head, tail) /\ Occupied' = Between(head', tail')
    BY <1>2, OccupiedBetween
  <2>2. ASSUME NEW i \in Slots
        PROVE  i \in Between(head', tail') <=> \/ i = tail
                                               \/ i \in Between(head, tail) /\ ~dropped(i)
    BY <1>1 DEF Between, Emplace, after, dropped
  <2>3. ASSUME NEW i \in Slots
        PROVE  life'[i] = "live" <=> \/ i = tail
                                     \/ life[i] = "live" /\ ~dropped(i)
    BY DEF Emplace
  <2> QED
    BY <2>1, <2>2, <2>3 DEF LiveIsOccupied
<1> QED
  BY <1>2, <1>3

\* read() takes the value at head out of the constructed ones and of the buffer.
LEMMA ReadKeeps == ASSUME Inv, Read PROVE Inv'
<1> USE CapacityAssumption DEF Inv, TypeOK, Slots
<1>1. TypeOK'
  BY DEF Read, after, Lives
<1>2. CASE head = tail
  BY <1>1, <1>2 DEF Read, LiveIsOccupied, Occupied, Count
<1>3. CASE head # tail
  <2>1. Occupied = Between(head, tail) /\ Occupied' = Between(head', tail')
    BY <1>1, OccupiedBetween
  <2>2. ASSUME NEW i \in Slots
        PROVE  i \in Between(head', tail') <=> i \in Between(head, tail) /\ i # head
    BY <1>3 DEF Between, Read, after
  <2>3. ASSUME NEW i \in Slots
        PROVE  life'[i] = "live" <=> life[i] = "live" /\ i # head
    BY <1>3 DEF Read
  <2> QED
    BY <1>1, <2>1, <2>2, <2>3 DEF LiveIsOccupied
<1> QED
  BY <1>2, <1>3

\* clear(), also from the destructor, leaves no constructed value and no slot in use.
LEMMA ClearedKeeps ==
  ASSUME Inv, Cleared, tail' = tail, slot' = slot, out' = out, mapped' \in BOOLEAN
  PROVE  Inv'
<1> USE CapacityAssumption DEF Inv, TypeOK, Slots
<1>1. TypeOK'
  BY DEF Cleared, Lives
<1>2. Occupied' = {}
  BY <1>1, OccupiedBetween DEF Cleared, Between
<1>3. \A i \in Slots : life'[i] # "live"
  BY DEF Cleared, LiveIsOccupied
<1> QED
  BY <1>1, <1>2, <1>3 DEF LiveIsOccupied

\* The constructor finds the buffer as it was left, or makes it empty.
LEMMA ReopenKeeps == ASSUME Inv, Reopen PROVE Inv'
<1> USE CapacityAssumption DEF Inv, TypeOK, Slots
<1>1. CASE UNCHANGED <<head, tail, life>>
  BY <1>1 DEF Reopen, LiveIsOccupied, Occupied, Count
<1>2. CASE head' = 0 /\ tail' = 0 /\ life' = [i \in Slots |-> "raw"]
  <2>1. TypeOK'
    BY <1>2 DEF Reopen, Lives
  <2>2. Occupied' = {}
    BY <1>2, <2>1, OccupiedBetween DEF Between
  <2> QED
    BY <1>2, <2>1, <2>2 DEF LiveIsOccupied
<1> QED
  BY <1>1, <1>2 DEF Reopen

\* Every step keeps the invariant.
LEMMA InvStep == Inv /\ [Next]_vars => Inv'
<1> SUFFICES ASSUME Inv, [Next]_vars PROVE Inv'
  OBVIOUS
<1>1. ASSUME NEW v \in Values, Emplace(v) PROVE Inv'
  BY <1>1, EmplaceKeeps
<1>2. CASE Read
  BY <1>2, ReadKeeps
<1>3. CASE Clear
  BY <1>3, ClearedKeeps DEF Clear, Inv, TypeOK
<1>4. CASE Close
  <2>1. CASE Cleared
    BY <1>4, <2>1, ClearedKeeps DEF Close
  <2>2. CASE UNCHANGED <<head, life>>
    BY <1>4, <2>2 DEF Close, Inv, TypeOK, LiveIsOccupied, Occupied, Count
  <2> QED
    BY <1>4, <2>1, <2>2 DEF Close
<1>5. CASE Reopen
  BY <1>5, ReopenKeeps
<1>6. CASE UNCHANGED vars
  BY <1>6 DEF vars, Inv, TypeOK, LiveIsOccupied, Occupied, Count
<1> QED
  BY <1>1, <1>2, <1>3, <1>4, <1>5, <1>6 DEF Next

\* The buffer starts empty and every operation keeps slots and indices in step.
THEOREM Invariance == Spec => []Inv
<1>1. Init => Inv
  <2> SUFFICES ASSUME Init PROVE Inv
    OBVIOUS
  <2>1. TypeOK
    BY CapacityAssumption DEF Init, TypeOK, Slots, Lives
  <2>2. Occupied = {}
    BY <2>1, OccupiedBetween DEF Init, Between, TypeOK, Slots
  <2> QED
    BY <2>1, <2>2 DEF Init, Inv, LiveIsOccupied
<1> QED
  BY <1>1, InvStep, PTL DEF Spec

\* Every destructor that emplace(), clear() and ~ring_buffer() call finds a value,
\* and emplace() overwrites none, for every capacity.
THEOREM LiveSlots == Spec => []LiveIsOccupied
BY Invariance, PTL DEF Inv

----------------------------------------------------------------------------
\* The queue, without a modulus: how many values there are, and where the k-th is.
Fill(h, t)   == IF h <= t THEN t - h ELSE t + Capacity - h
Nth(h, k)    == IF h + k - 1 < Capacity THEN h + k - 1 ELSE h + k - 1 - Capacity
Held(h, t, s) == [k \in 1..Fill(h, t) |-> s[Nth(h, k)]]

\* The queue holds fewer values than there are slots, none when the indices are
\* equal and Capacity - 1 when tail is right before head.
LEMMA FillBound ==
  ASSUME NEW h \in Slots, NEW t \in Slots
  PROVE  /\ Fill(h, t) \in 0..Capacity - 1
         /\ Fill(h, t) = 0 <=> h = t
         /\ Fill(h, t) = Capacity - 1 <=> h = after(t)
         /\ \A k \in 1..Capacity : Nth(h, k) \in Slots
BY CapacityAssumption DEF Slots, Fill, Nth, after

\* Held is a sequence of values.
LEMMA HeldSeq ==
  ASSUME NEW h \in Slots, NEW t \in Slots, NEW s \in [Slots -> Values]
  PROVE  /\ Held(h, t, s) \in Seq(Values)
         /\ Len(Held(h, t, s)) = Fill(h, t)
         /\ \A k \in 1..Fill(h, t) : Held(h, t, s)[k] = s[Nth(h, k)]
<1>1. Fill(h, t) \in Nat /\ \A k \in 1..Fill(h, t) : k \in 1..Capacity
  BY FillBound, CapacityAssumption
<1>2. \A k \in 1..Fill(h, t) : s[Nth(h, k)] \in Values
  BY <1>1, FillBound
<1> QED
  BY <1>1, <1>2 DEF Held

\* queueBar is Held of the mapping, before a step and after it.
LEMMA QueueHeld ==
  /\ head \in Slots /\ tail \in Slots => queueBar = Held(head, tail, slot)
  /\ head' \in Slots /\ tail' \in Slots => queueBar' = Held(head', tail', slot')
<1>1. ASSUME NEW h \in Slots, NEW t \in Slots
      PROVE  (t + Capacity - h) % Capacity = Fill(h, t)
  BY Distance DEF Fill
<1>2. ASSUME NEW h \in Slots, NEW t \in Slots, NEW k \in 1..Fill(h, t)
      PROVE  (h + k - 1) % Capacity = Nth(h, k)
  <2>1. h \in Nat /\ k \in Nat /\ h + k - 1 \in Nat /\ h + k - 1 < 2 * Capacity
    BY FillBound, CapacityAssumption DEF Slots
  <2> DEFINE a == h + k - 1
  <2> HIDE DEF a
  <2>2. a % Capacity = IF a < Capacity THEN a ELSE a - Capacity
    BY <2>1, Wrap DEF a
  <2> QED
    BY <2>1, <2>2, CapacityAssumption DEF Nth, a
<1> QED
  BY <1>1, <1>2 DEF queueBar, Held, Count

\* emplace() appends its value, to a full queue after its oldest value is gone.
LEMMA EmplaceAppends ==
  ASSUME Inv, Inv', NEW v \in Values, Emplace(v)
  PROVE  Fifo!Emplace(v)
<1> DEFINE q == Held(head, tail, slot)
           r == Held(head', tail', slot')
<1>1. /\ head \in Slots /\ tail \in Slots /\ slot \in [Slots -> Values]
      /\ head' \in Slots /\ tail' \in Slots /\ slot' \in [Slots -> Values]
  BY DEF Inv, TypeOK
<1>2. queueBar = q /\ queueBar' = r
  BY <1>1, QueueHeld
<1>3. /\ q \in Seq(Values) /\ Len(q) = Fill(head, tail)
      /\ \A k \in 1..Fill(head, tail) : q[k] = slot[Nth(head, k)]
      /\ r \in Seq(Values) /\ Len(r) = Fill(head', tail')
      /\ \A k \in 1..Fill(head', tail') : r[k] = slot'[Nth(head', k)]
  BY <1>1, HeldSeq
<1> HIDE DEF q, r
<1>4. CASE Len(q) = Capacity - 1
  <2>1. head = after(tail)
    BY <1>1, <1>3, <1>4, FillBound
  <2>2. q # <<>>
    BY <1>3, <1>4, CapacityAssumption
  <2>3. /\ Tail(q) \in Seq(Values) /\ Len(Tail(q)) = Len(q) - 1
        /\ \A k \in 1..Len(Tail(q)) : Tail(q)[k] = q[k + 1]
    BY <1>3, <2>2, HeadTailProperties
  <2>4. /\ Append(Tail(q), v) \in Seq(Values)
        /\ Len(Append(Tail(q), v)) = Len(q)
        /\ \A k \in 1..Len(q) - 1 : Append(Tail(q), v)[k] = q[k + 1]
        /\ Append(Tail(q), v)[Len(q)] = v
    BY <1>3, <2>3, AppendProperties
  <2>5. Fill(head', tail') = Fill(head, tail)
    BY <1>1, <1>3, <1>4, <2>1, CapacityAssumption DEF Emplace, after, Fill, Slots
  <2>6. \A k \in 1..Fill(head, tail) - 1 :
           Nth(head', k) = Nth(head, k + 1) /\ Nth(head', k) # tail
    BY <1>1, <2>1, CapacityAssumption DEF Emplace, after, Fill, Nth, Slots
  <2>7. Nth(head', Fill(head, tail)) = tail
    BY <1>1, <2>1, CapacityAssumption DEF Emplace, after, Fill, Nth, Slots
  <2>8. \A k \in 1..Fill(head, tail) - 1 : slot'[Nth(head', k)] = slot[Nth(head, k + 1)]
    <3> SUFFICES ASSUME NEW k \in 1..Fill(head, tail) - 1
                 PROVE  slot'[Nth(head', k)] = slot[Nth(head, k + 1)]
      OBVIOUS
    <3>1. Nth(head', k) \in Slots
      BY <1>1, FillBound, CapacityAssumption
    <3> QED
      BY <1>1, <2>6, <3>1 DEF Emplace
  <2>9. slot'[tail] = v
    BY <1>1 DEF Emplace
  <2>10. \A k \in 1..Len(r) : r[k] = Append(Tail(q), v)[k]
    <3> SUFFICES ASSUME NEW k \in 1..Len(r) PROVE r[k] = Append(Tail(q), v)[k]
      OBVIOUS
    <3>1. Fill(head, tail) \in Nat
      BY <1>1, FillBound, CapacityAssumption
    <3>2. CASE k = Fill(head, tail)
      BY <1>3, <2>4, <2>5, <2>7, <2>9, <3>1, <3>2
    <3>3. CASE k \in 1..Fill(head, tail) - 1
      <4>1. r[k] = slot[Nth(head, k + 1)]
        BY <1>3, <2>5, <2>8, <3>1, <3>3
      <4>2. q[k + 1] = slot[Nth(head, k + 1)]
        BY <1>3, <3>1, <3>3
      <4> QED
        BY <1>3, <2>4, <3>3, <4>1, <4>2
    <3> QED
      BY <1>3, <2>5, <3>1, <3>2, <3>3
  <2>11. r = Append(Tail(q), v)
    BY <1>3, <2>4, <2>5, <2>10, SeqEqual
  <2> QED
    BY <1>2, <1>4, <2>11 DEF Fifo!Emplace, Emplace
<1>5. CASE Len(q) # Capacity - 1
  <2>1. head # after(tail)
    BY <1>1, <1>3, <1>5, FillBound
  <2>2. head' = head /\ tail' = after(tail)
    BY <2>1 DEF Emplace
  <2>3. /\ Append(q, v) \in Seq(Values)
        /\ Len(Append(q, v)) = Len(q) + 1
        /\ \A k \in 1..Len(q) : Append(q, v)[k] = q[k]
        /\ Append(q, v)[Len(q) + 1] = v
    BY <1>3, AppendProperties
  <2>4. Fill(head', tail') = Fill(head, tail) + 1
    BY <1>1, <2>1, <2>2, CapacityAssumption DEF after, Fill, Slots
  <2>5. \A k \in 1..Fill(head, tail) : Nth(head, k) # tail
    BY <1>1, CapacityAssumption DEF Fill, Nth, Slots
  <2>6. Nth(head, Fill(head, tail) + 1) = tail
    BY <1>1, CapacityAssumption DEF Fill, Nth, Slots
  <2>7. \A k \in 1..Fill(head, tail) : slot'[Nth(head, k)] = slot[Nth(head, k)]
    <3> SUFFICES ASSUME NEW k \in 1..Fill(head, tail)
                 PROVE  slot'[Nth(head, k)] = slot[Nth(head, k)]
      OBVIOUS
    <3>1. Nth(head, k) \in Slots
      BY <1>1, FillBound, CapacityAssumption
    <3> QED
      BY <1>1, <2>5, <3>1 DEF Emplace
  <2>8. slot'[tail] = v
    BY <1>1 DEF Emplace
  <2>9. \A k \in 1..Len(r) : r[k] = Append(q, v)[k]
    <3> SUFFICES ASSUME NEW k \in 1..Len(r) PROVE r[k] = Append(q, v)[k]
      OBVIOUS
    <3>1. Fill(head, tail) \in Nat
      BY <1>1, FillBound, CapacityAssumption
    <3>2. CASE k = Fill(head, tail) + 1
      BY <1>3, <2>2, <2>3, <2>4, <2>6, <2>8, <3>1, <3>2
    <3>3. CASE k \in 1..Fill(head, tail)
      BY <1>3, <2>2, <2>3, <2>4, <2>7, <3>1, <3>3
    <3> QED
      BY <1>3, <2>4, <3>1, <3>2, <3>3
  <2>10. r = Append(q, v)
    BY <1>3, <2>3, <2>4, <2>9, SeqEqual
  <2> QED
    BY <1>2, <1>5, <2>10 DEF Fifo!Emplace, Emplace
<1> QED
  BY <1>4, <1>5

\* read() answers the oldest value and removes it, or answers that there is none.
LEMMA ReadTakes == ASSUME Inv, Inv', Read PROVE Fifo!Read
<1> DEFINE q == Held(head, tail, slot)
           r == Held(head', tail', slot')
<1>1. /\ head \in Slots /\ tail \in Slots /\ slot \in [Slots -> Values]
      /\ head' \in Slots /\ tail' = tail /\ slot' = slot
  BY DEF Inv, TypeOK, Read
<1>2. queueBar = q /\ queueBar' = r
  BY <1>1, QueueHeld
<1>3. /\ q \in Seq(Values) /\ Len(q) = Fill(head, tail)
      /\ \A k \in 1..Fill(head, tail) : q[k] = slot[Nth(head, k)]
      /\ r \in Seq(Values) /\ Len(r) = Fill(head', tail)
      /\ \A k \in 1..Fill(head', tail) : r[k] = slot[Nth(head', k)]
  BY <1>1, HeldSeq
<1>4. q = <<>> <=> head = tail
  BY <1>1, <1>3, FillBound, EmptySeq
<1>5. head' = head => r = q
  BY <1>1
<1> HIDE DEF q, r
<1>6. CASE head = tail
  BY <1>2, <1>4, <1>5, <1>6 DEF Fifo!Read, Read
<1>7. CASE head # tail
  <2>1. head' = after(head) /\ out' = slot[head]
    BY <1>7 DEF Read
  <2>2. /\ Head(q) = q[1]
        /\ Tail(q) \in Seq(Values) /\ Len(Tail(q)) = Len(q) - 1
        /\ \A k \in 1..Len(Tail(q)) : Tail(q)[k] = q[k + 1]
    BY <1>3, <1>4, <1>7, HeadTailProperties
  <2>3. Fill(head, tail) \in Nat \ {0} /\ Nth(head, 1) = head
    BY <1>1, <1>7, CapacityAssumption DEF Fill, Nth, Slots
  <2>4. Fill(head', tail) = Fill(head, tail) - 1
    BY <1>1, <1>7, <2>1, CapacityAssumption DEF after, Fill, Slots
  <2>5. \A k \in 1..Fill(head, tail) - 1 : Nth(head', k) = Nth(head, k + 1)
    BY <1>1, <2>1, CapacityAssumption DEF after, Fill, Nth, Slots
  <2>6. \A k \in 1..Len(r) : r[k] = Tail(q)[k]
    BY <1>3, <2>2, <2>3, <2>4, <2>5
  <2>7. r = Tail(q)
    BY <1>3, <2>2, <2>4, <2>6, SeqEqual
  <2>8. out' = Head(q)
    BY <1>3, <2>1, <2>2, <2>3
  <2> QED
    BY <1>2, <1>4, <1>7, <2>7, <2>8 DEF Fifo!Read
<1> QED
  BY <1>6, <1>7

\* A buffer whose head meets its tail is the empty queue.
LEMMA MeetIsEmpty ==
  /\ head \in Slots /\ head = tail => queueBar = <<>>
  /\ head' \in Slots /\ head' = tail' => queueBar' = <<>>
<1>1. ASSUME NEW h \in Slots, NEW s PROVE Held(h, h, s) = <<>>
  <2>1. Fill(h, h) = 0
    BY CapacityAssumption DEF Fill, Slots
  <2> QED
    BY <2>1 DEF Held
<1> QED
  BY <1>1, QueueHeld

\* Each operation of the buffer is one of the queue's, or leaves the queue alone.
LEMMA QueueStep == Inv /\ Inv' /\ [Next]_vars => [Fifo!Next]_(Fifo!vars)
<1> SUFFICES ASSUME Inv, Inv', [Next]_vars PROVE [Fifo!Next]_(Fifo!vars)
  OBVIOUS
<1>0. head' \in Slots /\ tail' \in Slots /\ head \in Slots /\ tail \in Slots
  BY DEF Inv, TypeOK
<1>s. ASSUME UNCHANGED <<head, tail, slot, out>> PROVE UNCHANGED Fifo!vars
  BY <1>s DEF Fifo!vars, queueBar, Count
<1>c. ASSUME head' = tail', out' = out PROVE Fifo!Clear
  BY <1>0, <1>c, MeetIsEmpty DEF Fifo!Clear
<1>1. ASSUME NEW v \in Values, Emplace(v) PROVE Fifo!Next
  BY <1>1, EmplaceAppends DEF Fifo!Next
<1>2. CASE Read
  BY <1>2, ReadTakes DEF Fifo!Next
<1>3. CASE Clear
  BY <1>3, <1>c DEF Fifo!Next, Clear, Cleared
<1>4. CASE Close
  BY <1>4, <1>c, <1>s DEF Fifo!Next, Close, Cleared
<1>5. CASE Reopen
  BY <1>5, <1>c, <1>s DEF Fifo!Next, Reopen
<1>6. CASE UNCHANGED vars
  BY <1>6, <1>s DEF vars
<1> QED
  BY <1>1, <1>2, <1>3, <1>4, <1>5, <1>6 DEF Next

\* The buffer implements the queue of the Capacity - 1 most recent values: what
\* IsRecentQueue says, for every capacity, across wraps, closing and opening.
THEOREM ImplementsQueue == Spec => IsRecentQueue
<1>1. Init => Fifo!Init
  <2> SUFFICES ASSUME Init PROVE Fifo!Init
    OBVIOUS
  <2>1. head \in Slots /\ head = tail
    BY CapacityAssumption DEF Init, Slots
  <2> QED
    BY <2>1, MeetIsEmpty DEF Init, Fifo!Init
<1> QED
  BY <1>1, QueueStep, Invariance, PTL DEF Spec, IsRecentQueue, Fifo!Spec

----------------------------------------------------------------------------
(* ring_buffer_file *)

\* What holds at 0 and passes from k to k + 1 holds up to n.
LEMMA UpTo ==
  ASSUME NEW n \in Nat, NEW S, 0 \in S, \A k \in 0..n - 1 : k \in S => k + 1 \in S
  PROVE  0..n \subseteq S
<1> SUFFICES ASSUME NEW m \in 0..n, m \notin S PROVE FALSE
  OBVIOUS
<1> DEFINE V == {k \in 0..m : k \notin S}
           U == V \ {m}
           p == [k \in V |-> k - 1]
<1>1. IsFiniteSet(V) /\ IsFiniteSet(U) /\ Cardinality(U) = Cardinality(V) - 1 /\ Cardinality(V) \in Nat
  <2>1. IsFiniteSet(0..m)
    BY FS_Interval
  <2>2. IsFiniteSet(V)
    BY <2>1, FS_Subset
  <2>3. m \in V
    OBVIOUS
  <2> QED
    BY <2>2, <2>3, FS_RemoveElement, FS_CardinalityType
<1>2. p \in [V -> U]
  <2> SUFFICES ASSUME NEW k \in V PROVE k - 1 \in U
    OBVIOUS
  <2>1. k # 0 /\ k \in 0..m
    OBVIOUS
  <2>2. k - 1 \in 0..n - 1 /\ k - 1 \in 0..m /\ k - 1 # m
    BY <2>1
  <2>3. k - 1 \notin S
    BY <2>1, <2>2
  <2> QED
    BY <2>2, <2>3
<1>3. \A x, y \in V : x # y => p[x] # p[y]
  OBVIOUS
<1> HIDE DEF V, U, p
<1>4. Cardinality(U) < Cardinality(V)
  BY <1>1
<1> QED
  BY <1>1, <1>2, <1>3, <1>4, FS_PigeonHole

Entries == [start : Nat, size : Sizes]

\* The offset behind an entry, or before the first.
EndOf(entries, e) == IF e = 0 THEN 0 ELSE entries[e].start + Header + entries[e].size

\* Each entry follows the one before it, or begins the next lap when the rest of the
\* lap is too short for it, and none is cut by the end of a lap.
LaidOut(entries) ==
    \A e \in 1..Len(entries) :
        /\ (entries[e].start % MapSize) + Header + entries[e].size <= MapSize
        /\ \/ entries[e].start = EndOf(entries, e - 1)
           \/ /\ entries[e].start = EndOf(entries, e - 1) + File!ToEnd(EndOf(entries, e - 1))
              /\ File!ToEnd(EndOf(entries, e - 1)) < Header + entries[e].size
        /\ \A d \in 1..e - 1 : EndOf(entries, d) <= entries[e].start

\* From an offset entry e is the next.
At(entries, h, e) ==
    /\ e \in 1..Len(entries) + 1
    /\ h = EndOf(entries, e - 1) \/ (e <= Len(entries) /\ h = entries[e].start)

\* The cells of an entry hold its header and its data.
Whole(cells, entries, e) ==
    LET p == entries[e].start % MapSize
        n == entries[e].size
    IN  /\ \A i \in 0..Header - 1 : cells[p + i] = File!HeaderCell(n, i)
        /\ \A i \in 0..n - 1 : cells[p + Header + i] = File!DataCell(e, i)

\* A reader skips what is left of the lap.
Marked(cells, g) ==
    Header <= File!ToEnd(g) => \A i \in 0..Header - 1 : cells[(g % MapSize) + i] = File!Zero

\* From h on the map holds the entries, and each rest of a lap that they leave is marked.
Holds(cells, entries, h) == \A e \in 1..Len(entries) :
    /\ entries[e].start >= h => Whole(cells, entries, e)
    /\ EndOf(entries, e - 1) >= h /\ entries[e].start # EndOf(entries, e - 1)
         => Marked(cells, EndOf(entries, e - 1))

FileTyped ==
    /\ store = [cells |-> store.cells, file |-> store.file, cur |-> store.cur, out |-> store.out]
    /\ contents = [entries |-> contents.entries, next |-> contents.next, out |-> contents.out]
    /\ contents.entries \in Seq(Entries)
    /\ store.file \in [head : Nat, tail : Nat]
    /\ store.cur \in [File!Objects -> [head : Int, tail : Int]]
    /\ contents.next \in [File!Objects -> Nat \ {0}]

\* What the file holds: entries of less than a lap, from a place where one begins or ends.
FileHolds ==
    /\ LaidOut(contents.entries)
    /\ store.file.tail = EndOf(contents.entries, Len(contents.entries))
    /\ \E e \in 1..Len(contents.entries) + 1 : At(contents.entries, store.file.head, e)
    /\ store.file.tail - store.file.head < MapSize
    /\ Holds(store.cells, contents.entries, store.file.head)

\* An object is before the entry that it is to read next, or those between are dropped.
CursorPlaced(x) == \E e \in 1..Len(contents.entries) + 1 :
    /\ At(contents.entries, store.cur[x].head, e)
    /\ contents.next[x] <= e
    /\ \A d \in contents.next[x]..e - 1 : contents.entries[d].start < store.file.head

CursorsPlaced ==
    /\ \A x \in File!Objects : store.cur[x] # File!NoCursor => CursorPlaced(x)
    /\ store.cur[Writer] # File!NoCursor =>
        store.cur[Writer].tail = store.file.tail /\ store.cur[Writer].head >= store.file.head

\* What the writer dropped without having read it left no room for the padding and
\* another entry.
DroppedForRoom == \A e \in 1..Len(contents.entries) :
    e >= contents.next[Writer] /\ contents.entries[e].start < store.file.head =>
        \E n \in Sizes : store.file.tail - contents.entries[e].start + Padding + Header + n > MapSize

FileInv == FileTyped /\ FileHolds /\ CursorsPlaced /\ DroppedForRoom /\ File!ReadsDue

\* A sum of which one part is at most a lap: where it is in the map.
LEMMA PlaceOf ==
  ASSUME NEW M \in Nat \ {0}, NEW a \in Nat, NEW d \in 0..M
  PROVE  /\ a % M \in 0..M - 1
         /\ (a + d) % M = IF (a % M) + d < M THEN (a % M) + d ELSE (a % M) + d - M
<1>1. \A q \in Nat, r \in 0..M - 1 : (M * q + r) % M = r
  OBVIOUS
<1>2. a = M * (a \div M) + (a % M) /\ a \div M \in Nat /\ a % M \in 0..M - 1
  OBVIOUS
<1> DEFINE q == a \div M
           r == a % M
<1>3. CASE r + d < M
  <2>1. a + d = M * q + (r + d) /\ r + d \in 0..M - 1
    BY <1>2, <1>3
  <2> HIDE DEF q, r
  <2>2. (a + d) % M = r + d
    BY <1>1, <1>2, <2>1 DEF q
  <2> QED
    BY <1>2, <1>3, <2>2 DEF r
<1>4. CASE ~(r + d < M)
  <2>1. a + d = M * (q + 1) + (r + d - M) /\ r + d - M \in 0..M - 1 /\ q + 1 \in Nat
    BY <1>2, <1>4
  <2> HIDE DEF q, r
  <2>2. (a + d) % M = r + d - M
    BY <1>1, <2>1
  <2> QED
    BY <1>2, <1>4, <2>2 DEF r
<1> QED
  BY <1>3, <1>4

\* What is left of the map, and where it leads.
LEMMA EndOfLap ==
  ASSUME File!FileAssumption, NEW a \in Nat
  PROVE  /\ a % MapSize \in 0..MapSize - 1
         /\ File!ToEnd(a) \in 1..MapSize /\ (a % MapSize) + File!ToEnd(a) = MapSize
         /\ (a + File!ToEnd(a)) % MapSize = 0
<1>1. MapSize \in Nat \ {0}
  BY DEF File!FileAssumption
<1>2. a % MapSize \in 0..MapSize - 1
  BY <1>1, PlaceOf
<1>3. File!ToEnd(a) \in 1..MapSize /\ (a % MapSize) + File!ToEnd(a) = MapSize
  BY <1>1, <1>2 DEF File!ToEnd
<1>4. (a + File!ToEnd(a)) % MapSize = 0
  <2>1. PICK d \in 0..MapSize : d = File!ToEnd(a) /\ (a % MapSize) + d = MapSize
    BY <1>1, <1>2, <1>3
  <2>2. (a + d) % MapSize = (a % MapSize) + d - MapSize
    BY <1>1, <2>1, PlaceOf
  <2> QED
    BY <1>1, <2>1, <2>2
<1> QED
  BY <1>2, <1>3, <1>4

\* Two stretches of less than a lap together, neither cut by the end of the map, lie apart in it.
LEMMA LieApart ==
  ASSUME File!FileAssumption, NEW s \in Nat, NEW l \in Nat, NEW a \in Nat, NEW m \in Nat,
         (s % MapSize) + l <= MapSize, (a % MapSize) + m <= MapSize,
         s + l <= a, a + m <= s + MapSize
  PROVE  (s % MapSize) + l <= a % MapSize \/ (a % MapSize) + m <= s % MapSize
<1>1. MapSize \in Nat \ {0}
  BY DEF File!FileAssumption
<1>2. a - s \in 0..MapSize /\ a = s + (a - s)
  BY <1>1
<1>3. s % MapSize \in 0..MapSize - 1
      /\ a % MapSize = IF (s % MapSize) + (a - s) < MapSize
                       THEN (s % MapSize) + (a - s) ELSE (s % MapSize) + (a - s) - MapSize
  BY <1>1, <1>2, PlaceOf
<1> QED
  BY <1>1, <1>2, <1>3

\* Offsets and sizes are naturals.
LEMMA EntryTyped ==
  ASSUME File!FileAssumption, NEW entries \in Seq(Entries)
  PROVE  /\ Len(entries) \in Nat /\ Header \in Nat /\ Header > 0
         /\ \A e \in 1..Len(entries) :
              /\ entries[e].start \in Nat
              /\ entries[e].size \in Sizes /\ entries[e].size \in Nat /\ entries[e].size > 0
              /\ EndOf(entries, e) \in Nat
              /\ EndOf(entries, e) = entries[e].start + Header + entries[e].size
              /\ entries[e].start < EndOf(entries, e)
         /\ \A e \in 0..Len(entries) : EndOf(entries, e) \in Nat
         /\ EndOf(entries, 0) = 0
<1>1. Len(entries) \in Nat
  BY LenProperties
<1>2. Header \in Nat /\ Header > 0 /\ \A n \in Sizes : n \in Nat /\ n > 0
  BY DEF File!FileAssumption
<1>3. ASSUME NEW e \in 1..Len(entries)
      PROVE  /\ entries[e].start \in Nat
             /\ entries[e].size \in Sizes /\ entries[e].size \in Nat /\ entries[e].size > 0
             /\ EndOf(entries, e) \in Nat
             /\ EndOf(entries, e) = entries[e].start + Header + entries[e].size
             /\ entries[e].start < EndOf(entries, e)
  <2>1. entries[e] \in Entries
    BY ElementOfSeq
  <2>2. entries[e].start \in Nat /\ entries[e].size \in Sizes
    BY <2>1 DEF Entries
  <2>3. entries[e].size \in Nat /\ entries[e].size > 0
    BY <1>2, <2>2
  <2>4. EndOf(entries, e) = entries[e].start + Header + entries[e].size
    BY <1>1 DEF EndOf
  <2> QED
    BY <1>2, <2>2, <2>3, <2>4
<1>4. EndOf(entries, 0) = 0
  BY DEF EndOf
<1>5. \A e \in 0..Len(entries) : EndOf(entries, e) \in Nat
  <2> SUFFICES ASSUME NEW e \in 0..Len(entries), e # 0 PROVE EndOf(entries, e) \in Nat
    BY <1>4
  <2>1. e \in 1..Len(entries)
    BY <1>1
  <2> QED
    BY <1>3, <2>1
<1> QED
  BY <1>1, <1>2, <1>3, <1>4, <1>5

\* In a layout the entries lie in order.
LEMMA InOrder ==
  ASSUME File!FileAssumption, NEW entries \in Seq(Entries), LaidOut(entries)
  PROVE  /\ \A d, e \in 1..Len(entries) : d < e => EndOf(entries, d) <= entries[e].start
         /\ \A e \in 1..Len(entries) : EndOf(entries, e - 1) <= entries[e].start
         /\ \A d, e \in 0..Len(entries) : d < e => EndOf(entries, d) < EndOf(entries, e)
<1>1. \A d, e \in 1..Len(entries) : d < e => EndOf(entries, d) <= entries[e].start
  BY EntryTyped DEF LaidOut
<1>2. \A e \in 1..Len(entries) : EndOf(entries, e - 1) <= entries[e].start
  <2> SUFFICES ASSUME NEW e \in 1..Len(entries) PROVE EndOf(entries, e - 1) <= entries[e].start
    OBVIOUS
  <2>1. CASE e = 1
    BY <2>1, EntryTyped
  <2>2. CASE e # 1
    <3>1. PICK d \in 1..Len(entries) : d = e - 1 /\ d < e
      BY <2>2, EntryTyped
    <3> QED
      BY <1>1, <3>1
  <2> QED
    BY <2>1, <2>2
<1>3. ASSUME NEW d \in 0..Len(entries), NEW e \in 0..Len(entries), d < e
      PROVE  EndOf(entries, d) < EndOf(entries, e)
  <2>0. e \in 1..Len(entries)
    BY <1>3, EntryTyped
  <2>1. e \in 1..Len(entries) /\ entries[e].start < EndOf(entries, e)
    BY <2>0, EntryTyped
  <2>2. CASE d = 0
    BY <2>1, <2>2, EntryTyped
  <2>3. CASE d # 0
    <3>1. d \in 1..Len(entries) /\ EndOf(entries, d) <= entries[e].start
      BY <1>1, <1>3, <2>1, <2>3
    <3> QED
      BY <2>1, <3>1, EntryTyped
  <2> QED
    BY <2>2, <2>3
<1> QED
  BY <1>1, <1>2, <1>3

\* The entries before the next one from an offset end up to there, the others begin
\* from there on.
LEMMA BeforeAndAfter ==
  ASSUME File!FileAssumption, NEW entries \in Seq(Entries), LaidOut(entries),
         NEW h, NEW e \in 1..Len(entries) + 1, At(entries, h, e)
  PROVE  /\ h \in Nat /\ h <= EndOf(entries, Len(entries))
         /\ \A d \in 1..Len(entries) : d < e => EndOf(entries, d) <= h /\ entries[d].start < h
         /\ \A d \in 1..Len(entries) : e <= d => h <= entries[d].start
         /\ \A d \in 1..Len(entries) : e < d => h < EndOf(entries, d - 1)
         /\ h = EndOf(entries, Len(entries)) <=> e = Len(entries) + 1
<1> USE EntryTyped
<1>1. /\ EndOf(entries, e - 1) \in Nat /\ e - 1 \in 0..Len(entries)
      /\ \A d \in 1..Len(entries) : entries[d].start < EndOf(entries, d)
  <2>1. e - 1 \in 0..Len(entries)
    OBVIOUS
  <2> QED
    BY <2>1
<1>2. h \in Nat /\ EndOf(entries, e - 1) <= h
  BY <1>1, InOrder DEF At
<1>3. ASSUME NEW d \in 1..Len(entries), d < e PROVE EndOf(entries, d) <= h /\ entries[d].start < h
  <2>1. PICK k \in 0..Len(entries) : k = e - 1 /\ (d = k \/ d < k)
    BY <1>1, <1>3
  <2>2. EndOf(entries, d) <= EndOf(entries, k)
    <3>1. CASE d = k
      BY <1>1, <3>1
    <3>2. CASE d < k
      BY <3>2, InOrder
    <3> QED
      BY <2>1, <3>1, <3>2
  <2>3. EndOf(entries, d) <= h /\ EndOf(entries, d) \in Nat
    BY <1>1, <1>2, <2>1, <2>2
  <2> QED
    BY <1>1, <1>2, <2>3
<1>4. ASSUME NEW d \in 1..Len(entries), e <= d PROVE h <= entries[d].start /\ h < EndOf(entries, d)
  <2>1. e \in 1..Len(entries)
    BY <1>4
  <2>2. h <= entries[e].start
    BY <2>1, InOrder DEF At
  <2>3. entries[e].start <= entries[d].start
    <3>1. CASE d = e
      BY <3>1, <2>1
    <3>2. CASE d # e
      <4>1. EndOf(entries, e) <= entries[d].start
        BY <1>4, <2>1, <3>2, InOrder
      <4> QED
        BY <1>1, <2>1, <4>1
    <3> QED
      BY <3>1, <3>2
  <2> QED
    BY <1>1, <1>2, <2>1, <2>2, <2>3
<1>5. ASSUME NEW d \in 1..Len(entries), e < d PROVE h < EndOf(entries, d - 1)
  <2>1. d - 1 \in 1..Len(entries) /\ e <= d - 1
    BY <1>5
  <2> QED
    BY <1>4, <2>1
<1>6. CASE e = Len(entries) + 1
  BY <1>2, <1>3, <1>4, <1>5, <1>6 DEF At
<1>7. CASE e # Len(entries) + 1
  <2>1. Len(entries) \in 1..Len(entries) /\ e <= Len(entries)
    BY <1>7
  <2>2. h < EndOf(entries, Len(entries))
    BY <1>4, <2>1
  <2> QED
    BY <1>2, <1>3, <1>4, <1>5, <1>7, <2>2
<1> QED
  BY <1>6, <1>7

\* The next entry is found where its size can be read, if need be after the rest of a lap.
LEMMA NextEntry ==
  ASSUME File!FileAssumption, NEW entries \in Seq(Entries), LaidOut(entries),
         NEW h, NEW e \in 1..Len(entries), At(entries, h, e), h # entries[e].start
  PROVE  /\ h \in Nat /\ h = EndOf(entries, e - 1)
         /\ entries[e].start = h + File!ToEnd(h) /\ File!ToEnd(h) < Header + entries[e].size
         /\ entries[e].start % MapSize = 0
<1>1. h = EndOf(entries, e - 1) /\ h \in Nat
  BY EntryTyped DEF At
<1>2. entries[e].start = h + File!ToEnd(h) /\ File!ToEnd(h) < Header + entries[e].size
  BY <1>1 DEF LaidOut
<1> QED
  BY <1>1, <1>2, EndOfLap

\* Where the stretches of the map that an entry and a rest take begin and end.
LEMMA Stretches ==
  ASSUME File!FileAssumption, NEW entries \in Seq(Entries), LaidOut(entries), NEW e \in 1..Len(entries)
  PROVE  /\ entries[e].start % MapSize \in 0..MapSize - 1
         /\ (entries[e].start % MapSize) + Header + entries[e].size <= MapSize
         /\ EndOf(entries, e) <= EndOf(entries, Len(entries))
         /\ EndOf(entries, e - 1) \in Nat
         /\ (EndOf(entries, e - 1) % MapSize) + File!ToEnd(EndOf(entries, e - 1)) = MapSize
         /\ EndOf(entries, e - 1) % MapSize \in 0..MapSize - 1
         /\ entries[e].start # EndOf(entries, e - 1) =>
              entries[e].start = EndOf(entries, e - 1) + File!ToEnd(EndOf(entries, e - 1))
<1>1. entries[e].start \in Nat /\ Len(entries) \in 1..Len(entries) /\ MapSize \in Nat
  BY EntryTyped DEF File!FileAssumption
<1>2. EndOf(entries, e) <= EndOf(entries, Len(entries))
  <2>1. CASE e = Len(entries)
    BY <1>1, <2>1, EntryTyped
  <2>2. CASE e # Len(entries)
    <3>1. e \in 0..Len(entries) /\ Len(entries) \in 0..Len(entries) /\ e < Len(entries)
      BY <1>1, <2>2, EntryTyped
    <3>2. EndOf(entries, e) < EndOf(entries, Len(entries))
      BY <3>1, InOrder
    <3>3. EndOf(entries, e) \in Nat /\ EndOf(entries, Len(entries)) \in Nat
      BY <1>1, EntryTyped
    <3> HIDE DEF EndOf
    <3> QED
      BY <3>2, <3>3
  <2> QED
    BY <2>1, <2>2
<1>3. EndOf(entries, e - 1) \in Nat
  <2>1. PICK d \in 0..Len(entries) : d = e - 1
    BY EntryTyped
  <2> QED
    BY <2>1, EntryTyped
<1> QED
  BY <1>1, <1>2, <1>3, EndOfLap DEF LaidOut

\* The header of an entry gives its size.
LEMMA SizeOfWhole ==
  ASSUME File!FileAssumption, NEW entries \in Seq(Entries), LaidOut(entries), NEW e \in 1..Len(entries),
         NEW cells, Whole(cells, entries, e)
  PROVE  File!SizeAt(cells, entries[e].start) = entries[e].size
<1> DEFINE s == entries[e].start
           n == entries[e].size
           p == s % MapSize
<1>1. /\ s \in Nat /\ n \in Nat /\ Header \in Nat /\ Header > 0 /\ p \in Nat
      /\ ~(File!ToEnd(s) < Header)
  <2>1. s \in Nat /\ n \in Nat /\ Header \in Nat /\ Header > 0
    BY EntryTyped
  <2>2. MapSize \in Nat /\ p \in 0..MapSize - 1 /\ p + Header + n <= MapSize
    BY Stretches DEF File!FileAssumption
  <2> HIDE DEF p, n
  <2> QED
    BY <2>1, <2>2 DEF p, File!ToEnd
<1>2. 0 \in 0..Header - 1 /\ p + 0 = p
  BY <1>1
<1>3. cells[p + 0] = File!HeaderCell(n, 0)
  BY <1>2 DEF Whole
<1>4. cells[p] = File!HeaderCell(n, 0)
  BY <1>2, <1>3
<1>5. File!HeaderCell(n, 0) # File!Zero /\ File!HeaderCell(n, 0)[2] = n
  BY DEF File!HeaderCell, File!Zero
<1>6. ~\A i \in 0..Header - 1 : cells[p + i] = File!Zero
  BY <1>2, <1>3, <1>5
<1> QED
  BY <1>1, <1>4, <1>5, <1>6 DEF File!SizeAt

\* A rest has no size.
LEMMA SizeOfMark ==
  ASSUME File!FileAssumption, NEW g \in Nat, NEW cells, Marked(cells, g)
  PROVE  File!SizeAt(cells, g) = 0
<1>1. Header \in Nat /\ File!ToEnd(g) \in Nat
  BY EndOfLap DEF File!FileAssumption
<1> QED
  BY <1>1 DEF Marked, File!SizeAt

\* Where an entry lies whole, it is found, and no other.
LEMMA OnlyEntry ==
  ASSUME File!FileAssumption, contents.entries \in Seq(Entries), LaidOut(contents.entries),
         NEW e \in 1..Len(contents.entries), NEW cells, Whole(cells, contents.entries, e)
  PROVE  File!EntryAt(cells, contents.entries[e].start) = {e}
<1> DEFINE s == contents.entries[e].start
           n == contents.entries[e].size
           p == s % MapSize
           intact(d) ==
              /\ n = contents.entries[d].size /\ p + Header + n <= MapSize
              /\ \A i \in 0..Header - 1 : cells[p + i] = File!HeaderCell(n, i)
              /\ \A i \in 0..n - 1 : cells[p + Header + i] = File!DataCell(d, i)
<1>1. File!SizeAt(cells, s) = n
  BY SizeOfWhole
<1>2. DOMAIN contents.entries = 1..Len(contents.entries)
  BY LenProperties
<1>3. intact(e)
  BY Stretches DEF Whole
<1>4. ASSUME NEW d \in DOMAIN contents.entries, intact(d) PROVE d = e
  <2>1. 0 \in 0..n - 1
    BY EntryTyped
  <2>2. cells[p + Header + 0] = File!DataCell(d, 0) /\ cells[p + Header + 0] = File!DataCell(e, 0)
    BY <1>3, <1>4, <2>1
  <2> HIDE DEF p, n
  <2>3. File!DataCell(d, 0) = File!DataCell(e, 0)
    BY <2>2
  <2> QED
    BY <2>3 DEF File!DataCell
<1>5. File!EntryAt(cells, s) = {d \in DOMAIN contents.entries : intact(d)}
  BY <1>1 DEF File!EntryAt
<1> HIDE DEF intact, s
<1> QED
  BY <1>2, <1>3, <1>4, <1>5 DEF s

\* What was not written to stays as it was.
LEMMA WholeStays ==
  ASSUME File!FileAssumption, NEW entries \in Seq(Entries), LaidOut(entries), NEW e \in 1..Len(entries),
         NEW c, NEW d, Whole(c, entries, e),
         \A p \in File!Places : entries[e].start % MapSize <= p
            /\ p < (entries[e].start % MapSize) + Header + entries[e].size => d[p] = c[p]
  PROVE  Whole(d, entries, e)
<1> DEFINE n == entries[e].size
           p == entries[e].start % MapSize
<1>1. /\ n \in Nat /\ Header \in Nat /\ MapSize \in Nat
      /\ p \in 0..MapSize - 1 /\ p + Header + n <= MapSize
  BY EntryTyped, Stretches DEF File!FileAssumption
<1> HIDE DEF n, p
<1>2. \A i \in 0..Header - 1 : d[p + i] = c[p + i]
  <2> SUFFICES ASSUME NEW i \in 0..Header - 1 PROVE d[p + i] = c[p + i]
    OBVIOUS
  <2>1. p + i \in File!Places /\ p <= p + i /\ p + i < p + Header + n
    BY <1>1 DEF File!Places
  <2> QED
    BY <2>1 DEF n, p
<1>3. \A i \in 0..n - 1 : d[p + Header + i] = c[p + Header + i]
  <2> SUFFICES ASSUME NEW i \in 0..n - 1 PROVE d[p + Header + i] = c[p + Header + i]
    OBVIOUS
  <2>1. p + Header + i \in File!Places /\ p <= p + Header + i /\ p + Header + i < p + Header + n
    BY <1>1 DEF File!Places
  <2> QED
    BY <2>1 DEF n, p
<1> QED
  BY <1>2, <1>3 DEF Whole, n, p

LEMMA MarkStays ==
  ASSUME File!FileAssumption, NEW g \in Nat, NEW c, NEW d, Marked(c, g),
         Header <= File!ToEnd(g) =>
            \A p \in File!Places : g % MapSize <= p /\ p < (g % MapSize) + Header => d[p] = c[p]
  PROVE  Marked(d, g)
<1> SUFFICES ASSUME Header <= File!ToEnd(g), NEW i \in 0..Header - 1
             PROVE  d[(g % MapSize) + i] = File!Zero
  BY DEF Marked
<1>1. /\ Header \in Nat /\ MapSize \in Nat /\ g % MapSize \in 0..MapSize - 1
      /\ (g % MapSize) + Header <= MapSize
  BY EndOfLap DEF File!FileAssumption, File!ToEnd
<1> DEFINE q == (g % MapSize) + i
<1>2. q \in File!Places /\ g % MapSize <= q /\ q < (g % MapSize) + Header
  BY <1>1 DEF File!Places
<1>3. c[q] = File!Zero
  BY DEF Marked
<1> HIDE DEF q
<1>4. d[q] = c[q]
  BY <1>2
<1> QED
  BY <1>3, <1>4 DEF q

\* A stretch of the map is written that was given up before h, or is free behind the
\* last entry: the map still holds what it held from h on.
LEMMA HoldsStays ==
  ASSUME File!FileAssumption, NEW entries \in Seq(Entries), LaidOut(entries),
         NEW c, NEW d, NEW k \in Nat, NEW h \in Nat, k <= h, Holds(c, entries, k),
         NEW a \in Nat, NEW m \in Nat, (a % MapSize) + m <= MapSize,
         \/ a + m <= h /\ EndOf(entries, Len(entries)) <= a + MapSize
         \/ EndOf(entries, Len(entries)) <= a /\ a + m <= h + MapSize,
         \A p \in File!Places : p < a % MapSize \/ (a % MapSize) + m <= p => d[p] = c[p]
  PROVE  Holds(d, entries, h)
<1>1. MapSize \in Nat /\ a % MapSize \in 0..MapSize - 1 /\ Header \in Nat
  BY EndOfLap DEF File!FileAssumption
<1>0. EndOf(entries, Len(entries)) \in Nat
  BY EntryTyped
<1>2. ASSUME NEW s \in Nat, NEW l \in Nat, h <= s, s + l <= EndOf(entries, Len(entries)),
             (s % MapSize) + l <= MapSize, NEW p \in File!Places, s % MapSize <= p, p < (s % MapSize) + l
      PROVE  d[p] = c[p]
  <2>1. s % MapSize \in 0..MapSize - 1 /\ p \in Nat
    <3>1. s % MapSize \in 0..MapSize - 1
      BY <1>2, EndOfLap
    <3> QED
      BY <1>1, <1>2, <3>1 DEF File!Places
  <2>2. CASE a + m <= h /\ EndOf(entries, Len(entries)) <= a + MapSize
    <3>1. a + m <= s /\ s + l <= a + MapSize
      BY <1>0, <1>1, <1>2, <2>2
    <3>2. (a % MapSize) + m <= s % MapSize \/ (s % MapSize) + l <= a % MapSize
      BY <1>2, <3>1, LieApart
    <3>3. p < a % MapSize \/ (a % MapSize) + m <= p
      BY <1>1, <1>2, <2>1, <3>2
    <3> QED
      BY <1>2, <3>3
  <2>3. CASE EndOf(entries, Len(entries)) <= a /\ a + m <= h + MapSize
    <3>1. s + l <= a /\ a + m <= s + MapSize
      <4> DEFINE last == EndOf(entries, Len(entries))
      <4>1. last \in Nat /\ last <= a /\ s + l <= last /\ a + m <= h + MapSize /\ h <= s
        BY <1>0, <1>2, <2>3
      <4> HIDE DEF last
      <4> QED
        BY <1>1, <1>2, <4>1
    <3>2. (a % MapSize) + m <= s % MapSize \/ (s % MapSize) + l <= a % MapSize
      BY <1>2, <3>1, LieApart
    <3>3. p < a % MapSize \/ (a % MapSize) + m <= p
      BY <1>1, <1>2, <2>1, <3>2
    <3> QED
      BY <1>2, <3>3
  <2> QED
    BY <2>2, <2>3
<1>3. ASSUME NEW e \in 1..Len(entries), entries[e].start >= h PROVE Whole(d, entries, e)
  <2> DEFINE s == entries[e].start
             l == Header + entries[e].size
  <2>1. /\ s \in Nat /\ l \in Nat /\ h <= s /\ s + l <= EndOf(entries, Len(entries))
        /\ (s % MapSize) + l <= MapSize /\ s % MapSize \in 0..MapSize - 1
        /\ (s % MapSize) + l = (s % MapSize) + Header + entries[e].size
    <3>1. /\ s \in Nat /\ entries[e].size \in Nat /\ EndOf(entries, e) \in Nat
          /\ EndOf(entries, e) = s + Header + entries[e].size
      BY EntryTyped
    <3>2. /\ s % MapSize \in 0..MapSize - 1 /\ (s % MapSize) + Header + entries[e].size <= MapSize
          /\ EndOf(entries, e) <= EndOf(entries, Len(entries))
      BY Stretches
    <3> HIDE DEF s
    <3>3. /\ l \in Nat /\ s + l = EndOf(entries, e)
          /\ (s % MapSize) + l = (s % MapSize) + Header + entries[e].size
      <4> DEFINE n == entries[e].size
                 q == s % MapSize
      <4>1. l = Header + n /\ n \in Nat /\ q \in Nat /\ EndOf(entries, e) = s + Header + n
        BY <1>1, <3>1, <3>2
      <4> HIDE DEF l, n, q
      <4>2. l \in Nat /\ s + l = s + Header + n /\ q + l = q + Header + n
        BY <1>1, <3>1, <4>1
      <4> QED
        BY <4>1, <4>2 DEF n, q
    <3> QED
      BY <1>0, <1>1, <1>3, <3>1, <3>2, <3>3 DEF s
  <2>2. Whole(c, entries, e)
    BY <1>3, <2>1 DEF Holds
  <2> HIDE DEF l, s
  <2>3. \A p \in File!Places : s % MapSize <= p /\ p < (s % MapSize) + l => d[p] = c[p]
    BY <1>2, <2>1
  <2> QED
    BY <2>1, <2>2, <2>3, WholeStays DEF s
<1>4. ASSUME NEW e \in 1..Len(entries), EndOf(entries, e - 1) >= h, entries[e].start # EndOf(entries, e - 1)
      PROVE  Marked(d, EndOf(entries, e - 1))
  <2> DEFINE g == EndOf(entries, e - 1)
  <2>1. /\ g \in Nat /\ (g % MapSize) + File!ToEnd(g) = MapSize /\ g % MapSize \in 0..MapSize - 1
        /\ entries[e].start = g + File!ToEnd(g) /\ entries[e].start <= EndOf(entries, Len(entries))
    <3>1. /\ g \in Nat /\ (g % MapSize) + File!ToEnd(g) = MapSize /\ g % MapSize \in 0..MapSize - 1
          /\ entries[e].start = g + File!ToEnd(g) /\ EndOf(entries, e) <= EndOf(entries, Len(entries))
      BY <1>4, Stretches
    <3>2. entries[e].start \in Nat /\ EndOf(entries, e) \in Nat /\ entries[e].start < EndOf(entries, e)
      BY EntryTyped
    <3> HIDE DEF g
    <3> QED
      BY <1>0, <3>1, <3>2
  <2>2. Marked(c, g)
    BY <1>4, <2>1 DEF Holds
  <2> HIDE DEF g
  <2>3. ASSUME Header <= File!ToEnd(g)
        PROVE  \A p \in File!Places : g % MapSize <= p /\ p < (g % MapSize) + Header => d[p] = c[p]
    <3>1. PICK r \in Nat : r = File!ToEnd(g)
      BY <2>1, EndOfLap
    <3>2. h <= g
      BY <1>4 DEF g
    <3>3. g + Header <= EndOf(entries, Len(entries)) /\ (g % MapSize) + Header <= MapSize
      <4> DEFINE last == EndOf(entries, Len(entries))
      <4>1. last \in Nat /\ g + r <= last /\ (g % MapSize) + r = MapSize /\ Header <= r
        BY <1>0, <2>1, <2>3, <3>1
      <4> HIDE DEF last
      <4>2. g + Header <= last /\ (g % MapSize) + Header <= MapSize
        BY <1>1, <2>1, <3>1, <4>1
      <4> QED
        BY <4>2 DEF last
    <3> QED
      BY <1>1, <1>2, <2>1, <3>2, <3>3
  <2> QED
    BY <2>1, <2>2, <2>3, MarkStays DEF g
<1> QED
  BY <1>3, <1>4 DEF Holds

\* A stamp leaves the rest of the map alone.
LEMMA StampElsewhere ==
  ASSUME File!FileAssumption, NEW cells, NEW offset \in Nat, NEW n, NEW p \in File!Places,
         p < offset % MapSize \/ (offset % MapSize) + Header <= p
  PROVE  File!Stamp(cells, offset, n)[p] = cells[p]
<1>1. offset % MapSize \in 0..MapSize - 1 /\ Header \in Nat /\ MapSize \in Nat
  BY EndOfLap DEF File!FileAssumption
<1>2. p - (offset % MapSize) \notin 0..Header - 1
  BY <1>1 DEF File!Places
<1> QED
  BY <1>2 DEF File!Stamp

\* So does a fill.
LEMMA FillElsewhere ==
  ASSUME File!FileAssumption, NEW cells, NEW offset \in Nat, NEW p \in File!Places, p < offset % MapSize
  PROVE  File!Fill(cells, offset)[p] = cells[p]
<1>1. offset % MapSize \in 0..MapSize - 1 /\ MapSize \in Nat
  BY EndOfLap DEF File!FileAssumption
<1> QED
  BY <1>1 DEF File!Fill, File!Places

\* The state of the loop that makes room: head is where an entry begins or ends, what
\* lies from there on is whole, and each entry dropped since `from' had to go.
MakingRoom(t, entries, from, needed) ==
    /\ \E e \in 1..Len(entries) + 1 : At(entries, t.head, e)
    /\ from <= t.head
    /\ Holds(t.cells, entries, t.head)
    /\ \A e \in 1..Len(entries) : from <= entries[e].start /\ entries[e].start < t.head =>
          \E n \in Sizes :
              EndOf(entries, Len(entries)) + needed - entries[e].start + Padding + Header + n > MapSize

\* One turn drops one entry.
LEMMA DropsOne ==
  ASSUME File!FileAssumption, NEW entries \in Seq(Entries), LaidOut(entries), NEW from \in Nat,
         NEW needed \in Nat, Padding + needed < MapSize, NEW t, MakingRoom(t, entries, from, needed),
         EndOf(entries, Len(entries)) - t.head < MapSize,
         EndOf(entries, Len(entries)) - t.head + needed + Padding >= MapSize
  PROVE  /\ MakingRoom(File!Dropped(t), entries, from, needed)
         /\ t.head < File!Dropped(t).head
         /\ File!Dropped(t).head \in Nat
<1> DEFINE last == EndOf(entries, Len(entries))
           h == t.head
           skip == File!SizeAt(t.cells, h) = 0
           cells == IF skip THEN File!Fill(t.cells, h) ELSE t.cells
<1>1. /\ MapSize \in Nat /\ Header \in Nat /\ Header > 0 /\ Padding \in Nat /\ last \in Nat
  BY EntryTyped DEF File!FileAssumption
<1>2. PICK e \in 1..Len(entries) + 1 : At(entries, h, e)
  BY DEF MakingRoom
<1>3. h \in Nat /\ h <= last /\ e # Len(entries) + 1
  <2>1. h \in Nat /\ h <= last /\ (h = last <=> e = Len(entries) + 1)
    BY <1>2, BeforeAndAfter
  <2> QED
    BY <1>1, <2>1
<1>4. e \in 1..Len(entries)
  BY <1>3, EntryTyped
<1> DEFINE s == entries[e].start
           n == entries[e].size
<1>5. /\ s \in Nat /\ n \in Nat /\ n > 0 /\ n \in Sizes /\ EndOf(entries, e) \in Nat
      /\ EndOf(entries, e) = s + Header + n
  BY <1>4, EntryTyped
<1>6. /\ s % MapSize \in 0..MapSize - 1 /\ (s % MapSize) + Header + n <= MapSize
      /\ EndOf(entries, e) <= last
  BY <1>4, Stretches
<1>7. /\ h <= s /\ s < h + Header + n
      /\ s = IF skip THEN h + File!ToEnd(h) ELSE h
      /\ Holds(cells, entries, s)
  <2>1. CASE h = s
    <3>1. Whole(t.cells, entries, e)
      BY <1>4, <1>5, <2>1 DEF MakingRoom, Holds
    <3>2. ~skip
      BY <1>4, <1>5, <2>1, <3>1, SizeOfWhole
    <3>3. cells = t.cells /\ Holds(t.cells, entries, s)
      BY <2>1, <3>2 DEF MakingRoom
    <3>4. h <= s /\ s < h + Header + n
      <4> HIDE DEF s, h, n
      <4> QED
        BY <1>1, <1>5, <2>1
    <3> QED
      BY <2>1, <3>2, <3>3, <3>4
  <2>2. CASE h # s
    <3>1. h = EndOf(entries, e - 1) /\ s = h + File!ToEnd(h) /\ File!ToEnd(h) < Header + n
      BY <1>2, <1>4, <2>2, NextEntry
    <3>2. Marked(t.cells, h)
      BY <1>3, <1>4, <2>2, <3>1 DEF MakingRoom, Holds
    <3>3. skip
      BY <1>3, <3>2, SizeOfMark
    <3>4. /\ File!ToEnd(h) \in 1..MapSize /\ (h % MapSize) + File!ToEnd(h) = MapSize
          /\ h % MapSize \in 0..MapSize - 1
      BY <1>3, EndOfLap
    <3>5. PICK m \in 1..MapSize : m = File!ToEnd(h)
      BY <3>4
    <3>6. h <= s /\ s < h + Header + n
      <4>1. h + m = s /\ m < Header + n
        BY <3>1, <3>5
      <4> HIDE DEF s, h, n
      <4> QED
        BY <1>1, <1>3, <1>5, <4>1
    <3>7. \A p \in File!Places : p < h % MapSize \/ (h % MapSize) + m <= p => cells[p] = t.cells[p]
      <4>1. \A p \in File!Places : ~((h % MapSize) + m <= p)
        BY <1>1, <3>4, <3>5 DEF File!Places
      <4> QED
        BY <1>3, <3>3, <4>1, FillElsewhere
    <3>8. m \in Nat /\ (h % MapSize) + m <= MapSize /\ h + m <= s /\ last <= h + MapSize
      <4>1. h + m = s /\ (h % MapSize) + m = MapSize
        BY <3>1, <3>4, <3>5
      <4>2. last - h < MapSize
        OBVIOUS
      <4> HIDE DEF last, s, h
      <4>3. last <= h + MapSize
        BY <1>1, <1>3, <4>2
      <4> QED
        BY <1>1, <1>3, <1>5, <4>1, <4>3
    <3>9. Holds(cells, entries, s)
      <4>1. Holds(t.cells, entries, h)
        BY DEF MakingRoom
      <4> HIDE DEF cells, h, s
      <4> QED
        BY <1>3, <1>5, <3>6, <3>7, <3>8, <4>1, HoldsStays
    <3> QED
      BY <3>1, <3>3, <3>6, <3>9
  <2> QED
    BY <2>1, <2>2
<1>8. Whole(cells, entries, e) /\ File!SizeAt(cells, s) = n
  <2>1. Whole(cells, entries, e)
    BY <1>4, <1>5, <1>7 DEF Holds
  <2> QED
    BY <1>4, <2>1, SizeOfWhole
<1>9. File!Dropped(t) = [cells |-> File!Stamp(cells, s, 0), head |-> EndOf(entries, e)]
  BY <1>5, <1>7, <1>8 DEF File!Dropped
<1>10. Holds(File!Stamp(cells, s, 0), entries, EndOf(entries, e))
  <2>1. \A p \in File!Places : p < s % MapSize \/ (s % MapSize) + Header <= p
          => File!Stamp(cells, s, 0)[p] = cells[p]
    <3> SUFFICES ASSUME NEW p \in File!Places, p < s % MapSize \/ (s % MapSize) + Header <= p
                 PROVE  File!Stamp(cells, s, 0)[p] = cells[p]
      OBVIOUS
    <3> HIDE DEF cells, s
    <3> QED
      BY <1>5, StampElsewhere
  <2>2. /\ (s % MapSize) + Header <= MapSize /\ s + Header <= EndOf(entries, e)
        /\ s <= EndOf(entries, e) /\ last <= s + MapSize
    <3>1. last - h < MapSize /\ h <= s
      BY <1>7
    <3> DEFINE q == s % MapSize
    <3>2. q \in Nat /\ q + Header + n <= MapSize
      BY <1>1, <1>6
    <3> HIDE DEF last, s, n, h, q
    <3>3. last <= s + MapSize
      BY <1>1, <1>3, <1>5, <3>1
    <3>4. q + Header <= MapSize /\ s + Header <= EndOf(entries, e) /\ s <= EndOf(entries, e)
      BY <1>1, <1>5, <3>2
    <3> QED
      BY <3>3, <3>4 DEF q
  <2>3. Holds(cells, entries, s) /\ last <= s + MapSize
    BY <1>7, <2>2
  <2> DEFINE stamped == File!Stamp(cells, s, 0)
             next == EndOf(entries, e)
  <2> HIDE DEF cells, s, n, stamped, next
  <2>4. \A p \in File!Places : p < s % MapSize \/ (s % MapSize) + Header <= p => stamped[p] = cells[p]
    BY <2>1 DEF stamped
  <2>5. /\ s \in Nat /\ next \in Nat /\ s <= next /\ Header \in Nat
        /\ (s % MapSize) + Header <= MapSize
        /\ s + Header <= next /\ EndOf(entries, Len(entries)) <= s + MapSize
    BY <1>1, <1>5, <2>2, <2>3 DEF next
  <2>6. Holds(stamped, entries, next)
    BY <2>3, <2>4, <2>5, HoldsStays
  <2> QED
    BY <2>6 DEF stamped, next
<1>11. \E d \in 1..Len(entries) + 1 : At(entries, EndOf(entries, e), d)
  <2>1. e + 1 \in 1..Len(entries) + 1 /\ (e + 1) - 1 = e
    BY <1>4, EntryTyped
  <2> QED
    BY <2>1 DEF At
<1>12. ASSUME NEW d \in 1..Len(entries), from <= entries[d].start, entries[d].start < EndOf(entries, e)
       PROVE  \E k \in Sizes : last + needed - entries[d].start + Padding + Header + k > MapSize
  <2>1. CASE d < e
    <3>1. entries[d].start < h
      BY <1>2, <2>1, BeforeAndAfter
    <3> QED
      BY <1>12, <3>1 DEF MakingRoom
  <2>2. CASE d = e
    <3>1. last + needed - s + Padding + Header + n > MapSize
      <4>1. last - h + needed + Padding >= MapSize /\ s < h + Header + n
        BY <1>7
      <4> HIDE DEF last, s, n, h
      <4> QED
        BY <1>1, <1>3, <1>5, <4>1
    <3> QED
      BY <1>5, <2>2, <3>1
  <2>3. CASE e < d
    <3>1. EndOf(entries, e) <= entries[d].start
      BY <1>4, <2>3, InOrder
    <3>2. entries[d].start \in Nat
      BY EntryTyped
    <3> QED
      BY <1>5, <1>12, <3>1, <3>2
  <2> QED
    BY <1>4, <2>1, <2>2, <2>3
<1>13. from <= EndOf(entries, e) /\ h < EndOf(entries, e)
  <2>1. from <= h /\ h <= s
    BY <1>7 DEF MakingRoom
  <2> HIDE DEF s, n, h
  <2> QED
    BY <1>1, <1>3, <1>5, <2>1
<1> HIDE DEF cells, s
<1> QED
  BY <1>5, <1>9, <1>10, <1>11, <1>12, <1>13 DEF MakingRoom

\* A turn of the loop.
RoomTurn(t, tail_, needed) ==
    IF tail_ - t.head + needed + Padding >= MapSize THEN File!Dropped(t) ELSE t

\* The states after up to n turns.
RoomTurns(f, n, start, tail_, needed) ==
    f = [k \in 0..n |-> IF k = 0 THEN start ELSE RoomTurn(f[k - 1], tail_, needed)]

\* There are states after any number of turns.
LEMMA TurnsMade ==
  ASSUME NEW n \in Nat, NEW start, NEW tail_, NEW needed
  PROVE  \E f : RoomTurns(f, n, start, tail_, needed)
<1> DEFINE turn(t) == RoomTurn(t, tail_, needed)
           made(f, m) == f = [k \in 0..m |-> IF k = 0 THEN start ELSE turn(f[k - 1])]
           S == {m \in 0..n : \E f : made(f, m)}
<1>1. 0 \in S
  <2> DEFINE g == [k \in 0..0 |-> start]
  <2>1. \A k \in 0..0 : k = 0
    OBVIOUS
  <2>2. g = [k \in 0..0 |-> IF k = 0 THEN start ELSE turn(g[k - 1])]
    BY <2>1
  <2>3. made(g, 0) /\ 0 \in 0..n
    BY <2>2
  <2> HIDE DEF made
  <2> QED
    BY <2>3
<1>2. \A m \in 0..n - 1 : m \in S => m + 1 \in S
  <2> SUFFICES ASSUME NEW m \in 0..n - 1, NEW f, made(f, m) PROVE \E g : made(g, m + 1)
    OBVIOUS
  <2> DEFINE g == [k \in 0..m + 1 |-> IF k = m + 1 THEN turn(f[m]) ELSE f[k]]
  <2>1. ASSUME NEW k \in 0..m + 1 PROVE g[k] = IF k = 0 THEN start ELSE turn(g[k - 1])
    <3>1. CASE k = m + 1
      <4>1. k - 1 = m /\ k # 0 /\ m \in 0..m + 1 /\ m # m + 1
        BY <3>1
      <4>2. g[m] = f[m] /\ g[k] = turn(f[m])
        BY <3>1, <4>1
      <4> QED
        BY <4>1, <4>2
    <3>2. CASE k # m + 1 /\ k # 0
      <4>1. k \in 0..m /\ k - 1 \in 0..m + 1 /\ k - 1 # m + 1
        BY <3>2
      <4>2. g[k] = f[k] /\ g[k - 1] = f[k - 1]
        BY <3>2, <4>1
      <4>3. f[k] = turn(f[k - 1])
        BY <3>2, <4>1
      <4> QED
        BY <3>2, <4>2, <4>3
    <3>3. CASE k = 0
      <4>1. k \in 0..m /\ k # m + 1
        BY <3>3
      <4>2. g[k] = f[k] /\ f[k] = start
        BY <3>3, <4>1
      <4> QED
        BY <3>3, <4>2
    <3> QED
      BY <3>1, <3>2, <3>3
  <2>2. g = [k \in 0..m + 1 |-> g[k]]
    OBVIOUS
  <2>3. made(g, m + 1)
    <3> HIDE DEF g
    <3> QED
      BY <2>1, <2>2
  <2> QED
    BY <2>3
<1> HIDE DEF S
<1>3. 0..n \subseteq S
  BY <1>1, <1>2, UpTo
<1>4. n \in S
  BY <1>3
<1> QED
  BY <1>4 DEF S, RoomTurns

\* When room is made, the padding and what is needed are free, from a place where an
\* entry begins or ends, what lies from there on is whole, and each entry dropped had to go.
LEMMA RoomIsMade ==
  ASSUME File!FileAssumption, NEW entries \in Seq(Entries), LaidOut(entries), NEW from \in Nat,
         NEW needed \in Nat, Padding + needed < MapSize, NEW s, s.head = from,
         MakingRoom(s, entries, from, needed), EndOf(entries, Len(entries)) - from < MapSize,
         NEW room, room = File!MakeRoom(s, EndOf(entries, Len(entries)), needed)
  PROVE  /\ MakingRoom(room, entries, from, needed)
         /\ EndOf(entries, Len(entries)) - room.head + needed + Padding < MapSize
<1> DEFINE last == EndOf(entries, Len(entries))
           turn(t) == RoomTurn(t, last, needed)
           done == CHOOSE f : RoomTurns(f, MapSize, s, last, needed)
           good(t) == /\ MakingRoom(t, entries, from, needed)
                      /\ t.head \in Nat /\ last - t.head < MapSize
           S == {k \in 0..MapSize : /\ good(done[k])
                                    /\ \/ last - done[k].head + needed + Padding < MapSize
                                       \/ last - done[k].head < MapSize - k}
<1>1. MapSize \in Nat /\ Padding \in Nat /\ last \in Nat
  BY EntryTyped DEF File!FileAssumption
<1>2. done = [k \in 0..MapSize |-> IF k = 0 THEN s ELSE turn(done[k - 1])]
  <2>1. \E f : RoomTurns(f, MapSize, s, last, needed)
    <3> HIDE DEF last
    <3> QED
      BY <1>1, TurnsMade
  <2>2. RoomTurns(done, MapSize, s, last, needed)
    BY <2>1
  <2> HIDE DEF done
  <2> QED
    BY <2>2 DEF RoomTurns
<1>3. room = done[MapSize]
  BY DEF File!MakeRoom, RoomTurn, RoomTurns
<1> HIDE DEF done
<1>4. 0 \in S
  <2>1. done[0] = s
    BY <1>1, <1>2
  <2> HIDE DEF last
  <2> QED
    BY <1>1, <2>1 DEF last
<1>5. \A k \in 0..MapSize - 1 : k \in S => k + 1 \in S
  <2> SUFFICES ASSUME NEW k \in 0..MapSize - 1, k \in S PROVE k + 1 \in S
    OBVIOUS
  <2> DEFINE t == done[k]
             u == done[k + 1]
  <2>1. k + 1 \in 0..MapSize /\ u = turn(t)
    <3>1. k + 1 \in 0..MapSize /\ k + 1 # 0 /\ (k + 1) - 1 = k
      BY <1>1
    <3> QED
      BY <1>2, <3>1
  <2>2. good(t) /\ (last - t.head + needed + Padding < MapSize \/ last - t.head < MapSize - k)
    OBVIOUS
  <2> HIDE DEF t, u
  <2>3. CASE last - t.head + needed + Padding >= MapSize
    <3>1. u = File!Dropped(t)
      BY <2>1, <2>3 DEF RoomTurn
    <3>2. MakingRoom(u, entries, from, needed) /\ t.head < u.head /\ u.head \in Nat
      BY <2>2, <2>3, <3>1, DropsOne
    <3> HIDE DEF last
    <3>3. last - t.head < MapSize - k
      BY <1>1, <2>2, <2>3
    <3>4. last - u.head < MapSize - (k + 1) /\ last - u.head < MapSize
      <4>1. t.head \in Nat /\ t.head < u.head /\ u.head \in Nat /\ last - t.head < MapSize
        BY <2>2, <3>2
      <4> QED
        BY <1>1, <3>3, <4>1
    <3> QED
      BY <2>1, <3>2, <3>4 DEF u
  <2>4. CASE ~(last - t.head + needed + Padding >= MapSize)
    <3>1. u = t
      BY <2>1, <2>4 DEF RoomTurn
    <3> HIDE DEF last
    <3>2. last - t.head + needed + Padding < MapSize
      BY <1>1, <2>2, <2>4
    <3> QED
      BY <2>1, <2>2, <3>1, <3>2 DEF u
  <2> QED
    BY <2>3, <2>4
<1> HIDE DEF S
<1>6. 0..MapSize \subseteq S
  BY <1>1, <1>4, <1>5, UpTo
<1>7. MapSize \in S
  BY <1>1, <1>6
<1>8. good(room) /\ (last - room.head + needed + Padding < MapSize \/ last - room.head < MapSize - MapSize)
  BY <1>3, <1>7 DEF S
<1>9. room.head <= last
  <2>1. PICK e \in 1..Len(entries) + 1 : At(entries, room.head, e)
    BY <1>8 DEF MakingRoom
  <2> QED
    BY <2>1, BeforeAndAfter
<1> HIDE DEF last
<1>10. ~(last - room.head < MapSize - MapSize)
  BY <1>1, <1>8, <1>9
<1> QED
  BY <1>8, <1>10 DEF last

\* One more entry.
LEMMA OneMore ==
  ASSUME File!FileAssumption, NEW entries \in Seq(Entries), LaidOut(entries), NEW x \in Entries,
         NEW last, last = EndOf(entries, Len(entries)),
         (x.start % MapSize) + Header + x.size <= MapSize,
         \/ x.start = last
         \/ x.start = last + File!ToEnd(last) /\ File!ToEnd(last) < Header + x.size,
         NEW more, more = Append(entries, x)
  PROVE  /\ more \in Seq(Entries) /\ Len(more) = Len(entries) + 1
         /\ \A e \in 1..Len(entries) : more[e] = entries[e]
         /\ more[Len(entries) + 1] = x
         /\ \A e \in 0..Len(entries) : EndOf(more, e) = EndOf(entries, e)
         /\ EndOf(more, Len(entries) + 1) = x.start + Header + x.size
         /\ LaidOut(more)
         /\ \A h : \A e \in 1..Len(entries) + 1 : At(entries, h, e) => At(more, h, e)
<1>1. /\ more \in Seq(Entries) /\ Len(more) = Len(entries) + 1
      /\ \A e \in 1..Len(entries) : more[e] = entries[e]
      /\ more[Len(entries) + 1] = x
  BY AppendProperties
<1>2. Len(entries) \in Nat /\ last \in Nat /\ x.start \in Nat /\ x.size \in Sizes
  <2>1. Len(entries) \in Nat /\ Len(entries) \in 0..Len(entries)
    BY EntryTyped
  <2>2. last \in Nat
    BY <2>1, EntryTyped
  <2> QED
    BY <2>1, <2>2 DEF Entries
<1>3. \A e \in 0..Len(entries) : EndOf(more, e) = EndOf(entries, e)
  <2> SUFFICES ASSUME NEW e \in 0..Len(entries), e # 0 PROVE EndOf(more, e) = EndOf(entries, e)
    BY DEF EndOf
  <2>1. e \in 1..Len(entries)
    BY <1>2
  <2> QED
    BY <1>1, <2>1 DEF EndOf
<1>4. EndOf(more, Len(entries) + 1) = x.start + Header + x.size
  BY <1>1, <1>2 DEF EndOf
<1>5. last <= x.start
  <2>1. PICK m \in Nat : m = File!ToEnd(last)
    BY <1>2, EndOfLap
  <2> QED
    BY <1>2, <2>1
<1>6. LaidOut(more)
  <2> SUFFICES ASSUME NEW e \in 1..Len(entries) + 1
               PROVE  /\ (more[e].start % MapSize) + Header + more[e].size <= MapSize
                      /\ \/ more[e].start = EndOf(more, e - 1)
                         \/ /\ more[e].start = EndOf(more, e - 1) + File!ToEnd(EndOf(more, e - 1))
                            /\ File!ToEnd(EndOf(more, e - 1)) < Header + more[e].size
                      /\ \A d \in 1..e - 1 : EndOf(more, d) <= more[e].start
    BY <1>1 DEF LaidOut
  <2>1. CASE e \in 1..Len(entries)
    <3>1. PICK k \in 0..Len(entries) : k = e - 1
      BY <1>2, <2>1
    <3>2. EndOf(more, e - 1) = EndOf(entries, e - 1) /\ more[e] = entries[e]
      BY <1>1, <1>3, <2>1, <3>1
    <3>3. \A d \in 1..e - 1 : d \in 0..Len(entries) /\ EndOf(more, d) = EndOf(entries, d)
      BY <1>2, <1>3, <2>1
    <3> QED
      BY <2>1, <3>2, <3>3 DEF LaidOut
  <2>2. CASE e \notin 1..Len(entries)
    <3>1. e = Len(entries) + 1 /\ e - 1 = Len(entries) /\ Len(entries) \in 0..Len(entries)
      BY <1>2, <2>2
    <3>2. more[e] = x /\ EndOf(more, e - 1) = last
      BY <1>1, <1>3, <3>1
    <3>3. ASSUME NEW d \in 1..e - 1 PROVE EndOf(more, d) <= more[e].start
      <4>1. d \in 1..Len(entries) /\ d \in 0..Len(entries)
        BY <1>2, <3>1
      <4>2. EndOf(entries, d) <= last /\ EndOf(entries, d) \in Nat
        BY <4>1, Stretches, EntryTyped
      <4> QED
        BY <1>2, <1>3, <1>5, <3>2, <4>1, <4>2
    <3> QED
      BY <3>2, <3>3
  <2> QED
    BY <2>1, <2>2
<1>7. ASSUME NEW h, NEW e \in 1..Len(entries) + 1, At(entries, h, e) PROVE At(more, h, e)
  <2>1. PICK k \in 0..Len(entries) : k = e - 1
    BY <1>2
  <2>2. EndOf(more, e - 1) = EndOf(entries, e - 1)
    BY <1>3, <2>1
  <2>3. e <= Len(entries) => more[e] = entries[e] /\ e <= Len(more)
    BY <1>1, <1>2
  <2>4. e \in 1..Len(more) + 1
    BY <1>1, <1>2
  <2> QED
    BY <1>7, <2>2, <2>3, <2>4 DEF At
<1> QED
  BY <1>1, <1>3, <1>4, <1>6, <1>7

\* The cells after an entry was written.
Lapped(cells, tail_, lap) ==
    IF lap /\ File!Stamped(File!ToEnd(tail_)) THEN File!Stamp(cells, tail_, 0) ELSE cells
Filled(cells, start, n, e) ==
    [p \in File!Places |-> LET i == p - (start % MapSize) - Header
                           IN  IF i \in 0..n - 1 THEN File!DataCell(e, i) ELSE cells[p]]
EntryPut(cells, start, n, e) == File!Stamp(Filled(cells, start, n, e), start, n)

\* An entry lies in the cells, that are as they were everywhere else.
Lies(c, cells, start, n, e) ==
    /\ \A i \in 0..Header - 1 : c[(start % MapSize) + i] = File!HeaderCell(n, i)
    /\ \A i \in 0..n - 1 : c[(start % MapSize) + Header + i] = File!DataCell(e, i)
    /\ \A p \in File!Places : p < start % MapSize \/ (start % MapSize) + (Header + n) <= p => c[p] = cells[p]

\* The header and the data are where they were written, and nothing else is.
LEMMA EntryLies ==
  ASSUME File!FileAssumption, NEW cells, NEW start \in Nat, NEW n \in Nat, n > 0, NEW e,
         (start % MapSize) + Header + n <= MapSize
  PROVE  Lies(EntryPut(cells, start, n, e), cells, start, n, e)
<1> DEFINE q == start % MapSize
           c == EntryPut(cells, start, n, e)
<1>1. q \in 0..MapSize - 1 /\ MapSize \in Nat /\ Header \in Nat /\ q + Header + n <= MapSize
  BY EndOfLap DEF File!FileAssumption
<1>2. c = [p \in File!Places |-> LET i == p - q
                                 IN  IF i \in 0..Header - 1 THEN File!HeaderCell(n, i)
                                     ELSE Filled(cells, start, n, e)[p]]
  BY DEF File!Stamp, EntryPut
<1>3. Filled(cells, start, n, e) =
        [p \in File!Places |-> LET i == p - q - Header
                               IN  IF i \in 0..n - 1 THEN File!DataCell(e, i) ELSE cells[p]]
  BY DEF Filled
<1> HIDE DEF q, c
<1>4. ASSUME NEW i \in 0..Header - 1 PROVE c[q + i] = File!HeaderCell(n, i)
  <2>1. q + i \in File!Places /\ (q + i) - q = i
    BY <1>1 DEF File!Places
  <2> QED
    BY <1>2, <2>1
<1>5. ASSUME NEW i \in 0..n - 1 PROVE c[q + Header + i] = File!DataCell(e, i)
  <2>1. /\ q + Header + i \in File!Places /\ (q + Header + i) - q \notin 0..Header - 1
        /\ (q + Header + i) - q - Header = i
    BY <1>1 DEF File!Places
  <2> QED
    BY <1>2, <1>3, <2>1
<1>6. ASSUME NEW p \in File!Places, p < q \/ q + (Header + n) <= p PROVE c[p] = cells[p]
  <2>1. p - q \notin 0..Header - 1 /\ p - q - Header \notin 0..n - 1
    BY <1>1, <1>6 DEF File!Places
  <2> QED
    BY <1>2, <1>3, <2>1
<1> QED
  BY <1>4, <1>5, <1>6 DEF q, c, Lies

\* What is whole, marked or held does not depend on entries that come later.
LEMMA HoldsMore ==
  ASSUME NEW entries, NEW more, NEW cells, NEW h, Len(entries) \in Nat, Len(more) = Len(entries) + 1,
         \A e \in 1..Len(entries) : more[e] = entries[e],
         \A e \in 0..Len(entries) : EndOf(more, e) = EndOf(entries, e),
         Holds(cells, entries, h),
         Whole(cells, more, Len(more)),
         more[Len(more)].start # EndOf(entries, Len(entries)) => Marked(cells, EndOf(entries, Len(entries)))
  PROVE  Holds(cells, more, h)
<1> SUFFICES ASSUME NEW e \in 1..Len(more)
             PROVE  /\ more[e].start >= h => Whole(cells, more, e)
                    /\ EndOf(more, e - 1) >= h /\ more[e].start # EndOf(more, e - 1)
                         => Marked(cells, EndOf(more, e - 1))
  BY DEF Holds
<1>1. PICK k \in 0..Len(entries) : k = e - 1
  OBVIOUS
<1>2. EndOf(more, e - 1) = EndOf(entries, e - 1)
  BY <1>1
<1>3. CASE e = Len(more)
  <2>1. e - 1 = Len(entries)
    BY <1>3
  <2> QED
    BY <1>2, <1>3, <2>1
<1>4. CASE e # Len(more)
  <2>1. e \in 1..Len(entries) /\ more[e] = entries[e]
    BY <1>4
  <2>2. Whole(cells, entries, e) => Whole(cells, more, e)
    BY <2>1 DEF Whole
  <2> QED
    BY <1>2, <2>1, <2>2 DEF Holds
<1> QED
  BY <1>3, <1>4

\* From a later offset on less is held.
LEMMA HoldsLess ==
  ASSUME File!FileAssumption, NEW entries \in Seq(Entries), NEW cells, NEW h \in Nat, NEW k \in Nat, h <= k,
         Holds(cells, entries, h)
  PROVE  Holds(cells, entries, k)
<1> SUFFICES ASSUME NEW e \in 1..Len(entries)
             PROVE  /\ entries[e].start >= k => Whole(cells, entries, e)
                    /\ EndOf(entries, e - 1) >= k /\ entries[e].start # EndOf(entries, e - 1)
                         => Marked(cells, EndOf(entries, e - 1))
  BY DEF Holds
<1>1. PICK d \in 0..Len(entries) : d = e - 1
  BY EntryTyped
<1>2. EndOf(entries, e - 1) \in Nat /\ entries[e].start \in Nat
  BY <1>1, EntryTyped
<1>3. /\ entries[e].start >= k => entries[e].start >= h
      /\ EndOf(entries, e - 1) >= k => EndOf(entries, e - 1) >= h
  BY <1>2
<1> QED
  BY <1>3 DEF Holds

\* Where the next entry will begin, and the cells after it was written.
StartOf(entries, n) ==
    LET last == EndOf(entries, Len(entries))
    IN  IF File!ToEnd(last) >= Header + n THEN last ELSE last + File!ToEnd(last)
Written(cells, entries, n) ==
    LET last == EndOf(entries, Len(entries))
    IN  EntryPut(Lapped(cells, last, ~(File!ToEnd(last) >= Header + n)),
                 StartOf(entries, n), n, Len(entries) + 1)

\* An entry begins behind the last, or on the next lap, and is not cut by the end of one.
LEMMA StartPlaced ==
  ASSUME File!FileAssumption, NEW entries \in Seq(Entries), NEW n \in Sizes,
         NEW last, last = EndOf(entries, Len(entries)),
         NEW start, start = StartOf(entries, n)
  PROVE  /\ MapSize \in Nat /\ Header \in Nat /\ Header > 0 /\ n \in Nat /\ n > 0 /\ Header + n <= MapSize
         /\ Len(entries) \in Nat /\ last \in Nat /\ start \in Nat /\ last <= start
         /\ last % MapSize \in Nat /\ File!ToEnd(last) \in Nat /\ File!ToEnd(last) > 0
         /\ (last % MapSize) + File!ToEnd(last) = MapSize
         /\ start % MapSize \in Nat /\ (start % MapSize) + Header + n <= MapSize
         /\ \/ start = last /\ File!ToEnd(last) >= Header + n
            \/ /\ start = last + File!ToEnd(last) /\ File!ToEnd(last) < Header + n
               /\ start % MapSize = 0
<1>1. /\ MapSize \in Nat /\ Header \in Nat /\ Header > 0 /\ n \in Nat /\ n > 0 /\ Header + n <= MapSize
  <2>1. Padding \in Nat /\ MapSize \in Nat /\ Header \in Nat /\ Header > 0 /\ n \in Nat /\ n > 0
    BY DEF File!FileAssumption
  <2>2. Padding + 2 * (Header + n) <= MapSize
    BY DEF File!FileAssumption
  <2> QED
    BY <2>1, <2>2
<1>2. Len(entries) \in Nat /\ last \in Nat
  <2>1. Len(entries) \in Nat /\ Len(entries) \in 0..Len(entries)
    BY EntryTyped
  <2> QED
    BY <2>1, EntryTyped
<1>3. PICK rest \in Nat, q \in Nat :
        /\ rest = File!ToEnd(last) /\ q = last % MapSize /\ rest > 0 /\ q + rest = MapSize
        /\ (last + rest) % MapSize = 0
  <2>1. /\ last % MapSize \in 0..MapSize - 1 /\ File!ToEnd(last) \in 1..MapSize
        /\ (last % MapSize) + File!ToEnd(last) = MapSize /\ (last + File!ToEnd(last)) % MapSize = 0
    BY <1>2, EndOfLap
  <2>2. last % MapSize \in Nat /\ File!ToEnd(last) \in Nat /\ File!ToEnd(last) > 0
    BY <1>1, <2>1
  <2> QED
    BY <2>1, <2>2
<1>4. \/ start = last /\ rest >= Header + n
      \/ start = last + rest /\ rest < Header + n
  BY <1>1, <1>3 DEF StartOf
<1>8. q + rest = MapSize /\ rest > 0
  BY <1>3
<1>5. CASE start = last /\ rest >= Header + n
  <2>1. q + Header + n <= MapSize /\ last <= start /\ start \in Nat
    BY <1>1, <1>2, <1>5, <1>8
  <2>2. start % MapSize = q
    BY <1>3, <1>5
  <2> QED
    BY <1>1, <1>2, <1>3, <1>5, <2>1, <2>2
<1>6. CASE start = last + rest /\ rest < Header + n
  <2>1. start \in Nat /\ last <= start /\ 0 + Header + n <= MapSize
    BY <1>1, <1>2, <1>6, <1>8
  <2>2. start % MapSize = 0
    BY <1>3, <1>6
  <2>3. start % MapSize \in Nat /\ (start % MapSize) + Header + n <= MapSize
    BY <2>1, <2>2
  <2>4. /\ last % MapSize \in Nat /\ File!ToEnd(last) \in Nat /\ File!ToEnd(last) > 0
        /\ (last % MapSize) + File!ToEnd(last) = MapSize
        /\ start = last + File!ToEnd(last) /\ File!ToEnd(last) < Header + n
    BY <1>3, <1>6
  <2> QED
    BY <1>1, <1>2, <2>1, <2>2, <2>3, <2>4
<1> QED
  BY <1>4, <1>5, <1>6

\* The rest of the lap is marked, and the entry behind it leaves the mark as it is.
LEMMA RestMarked ==
  ASSUME File!FileAssumption, NEW entries \in Seq(Entries), NEW n \in Sizes, NEW cells,
         NEW last, last = EndOf(entries, Len(entries)),
         NEW start, start = StartOf(entries, n), start # last,
         start + Header + n <= last + MapSize
  PROVE  Marked(Written(cells, entries, n), last)
<1>1. PICK q \in Nat, rest \in Nat :
        /\ q = last % MapSize /\ rest = File!ToEnd(last)
        /\ MapSize \in Nat /\ Header \in Nat /\ Header > 0 /\ n \in Nat /\ n > 0 /\ Header + n <= MapSize
        /\ Len(entries) \in Nat /\ last \in Nat /\ start \in Nat /\ last <= start
        /\ rest > 0 /\ q + rest = MapSize
        /\ start = last + rest /\ rest < Header + n /\ start % MapSize = 0
  <2>1. /\ MapSize \in Nat /\ Header \in Nat /\ Header > 0 /\ n \in Nat /\ n > 0 /\ Header + n <= MapSize
        /\ Len(entries) \in Nat /\ last \in Nat /\ start \in Nat /\ last <= start
        /\ last % MapSize \in Nat /\ File!ToEnd(last) \in Nat /\ File!ToEnd(last) > 0
        /\ (last % MapSize) + File!ToEnd(last) = MapSize
        /\ \/ start = last /\ File!ToEnd(last) >= Header + n
           \/ start = last + File!ToEnd(last) /\ File!ToEnd(last) < Header + n /\ start % MapSize = 0
    BY StartPlaced
  <2> QED
    BY <2>1
<1>8. /\ Header > 0 /\ n > 0 /\ q + rest = MapSize /\ start = last + rest
      /\ MapSize \in Nat /\ Header \in Nat /\ n \in Nat /\ last \in Nat
  BY <1>1
<1> SUFFICES ASSUME Header <= rest, NEW i \in 0..Header - 1
             PROVE  Written(cells, entries, n)[q + i] = File!Zero
  BY <1>1 DEF Marked
<1> DEFINE lapped == Lapped(cells, last, ~(File!ToEnd(last) >= Header + n))
           c == EntryPut(lapped, start, n, Len(entries) + 1)
<1>2. Written(cells, entries, n) = c
  BY DEF Written
<1>3. PICK p : p = q + i
  OBVIOUS
<1>4. p \in 0..MapSize - 1 /\ p - q = i
  BY <1>3, <1>8
<1>5. lapped[p] = File!Zero
  <2>1. lapped = [r \in File!Places |-> LET j == r - q
                   IN  IF j \in 0..Header - 1 THEN File!Zero ELSE cells[r]]
    BY <1>1 DEF Lapped, File!Stamped, File!Stamp
  <2>2. p \in File!Places
    BY <1>4 DEF File!Places
  <2> HIDE DEF lapped
  <2> QED
    BY <1>4, <2>1, <2>2
<1>6. Header + n <= p
  BY <1>3, <1>8
<1>7. c[p] = lapped[p]
  <2>3. p \in File!Places /\ 0 + (Header + n) <= p /\ 0 + Header + n <= MapSize
    BY <1>4, <1>6, <1>8 DEF File!Places
  <2>1. p \in File!Places /\ (start % MapSize) + (Header + n) <= p /\ (start % MapSize) + Header + n <= MapSize
    BY <1>1, <2>3
  <2>2. start \in Nat /\ n \in Nat /\ n > 0
    BY <1>1
  <2> HIDE DEF lapped
  <2> QED
    BY <2>1, <2>2, EntryLies DEF Lies
<1> QED
  BY <1>2, <1>3, <1>5, <1>7

\* The same, with a name for each place.
LEMMA StartNamed ==
  ASSUME File!FileAssumption, NEW entries \in Seq(Entries), NEW n \in Sizes
  PROVE  \E last \in Nat, q \in Nat, rest \in Nat, start \in Nat, s \in Nat :
        /\ last = EndOf(entries, Len(entries)) /\ start = StartOf(entries, n)
        /\ q = last % MapSize /\ rest = File!ToEnd(last) /\ s = start % MapSize
        /\ MapSize \in Nat /\ Header \in Nat /\ Header > 0 /\ n \in Nat /\ n > 0 /\ Header + n <= MapSize
        /\ Len(entries) \in Nat /\ last <= start
        /\ rest > 0 /\ q + rest = MapSize /\ s + Header + n <= MapSize
        /\ \/ start = last /\ rest >= Header + n
           \/ start = last + rest /\ rest < Header + n /\ s = 0
<1>1. PICK last, start : last = EndOf(entries, Len(entries)) /\ start = StartOf(entries, n)
  OBVIOUS
<1>2. /\ MapSize \in Nat /\ Header \in Nat /\ Header > 0 /\ n \in Nat /\ n > 0 /\ Header + n <= MapSize
      /\ Len(entries) \in Nat /\ last \in Nat /\ start \in Nat /\ last <= start
  BY <1>1, StartPlaced
<1>3. /\ last % MapSize \in Nat /\ File!ToEnd(last) \in Nat /\ File!ToEnd(last) > 0
      /\ (last % MapSize) + File!ToEnd(last) = MapSize
  BY <1>1, StartPlaced
<1>4. start % MapSize \in Nat /\ (start % MapSize) + Header + n <= MapSize
  BY <1>1, StartPlaced
<1>5. \/ start = last /\ File!ToEnd(last) >= Header + n
      \/ start = last + File!ToEnd(last) /\ File!ToEnd(last) < Header + n /\ start % MapSize = 0
  <2>1. CASE start = last /\ File!ToEnd(last) >= Header + n
    BY <2>1
  <2>2. CASE ~(start = last /\ File!ToEnd(last) >= Header + n)
    <3>1. start = last + File!ToEnd(last)
      BY <1>1, <2>2, StartPlaced
    <3>2. File!ToEnd(last) < Header + n
      BY <1>1, <2>2, StartPlaced
    <3>3. start % MapSize = 0
      BY <1>1, <2>2, StartPlaced
    <3> QED
      BY <3>1, <3>2, <3>3
  <2> QED
    BY <2>1, <2>2
<1> QED
  BY <1>1, <1>2, <1>3, <1>4, <1>5

\* What is written is an entry behind the mark.
LEMMA EntryWhole ==
  ASSUME File!FileAssumption, NEW entries \in Seq(Entries), NEW n \in Sizes, NEW cells
  PROVE  Lies(Written(cells, entries, n),
              Lapped(cells, EndOf(entries, Len(entries)),
                     ~(File!ToEnd(EndOf(entries, Len(entries))) >= Header + n)),
              StartOf(entries, n), n, Len(entries) + 1)
<1>1. PICK start, lapped, e :
        /\ start = StartOf(entries, n) /\ e = Len(entries) + 1
        /\ lapped = Lapped(cells, EndOf(entries, Len(entries)),
                           ~(File!ToEnd(EndOf(entries, Len(entries))) >= Header + n))
  OBVIOUS
<1>2. Written(cells, entries, n) = EntryPut(lapped, start, n, e)
  BY <1>1 DEF Written
<1>3. start \in Nat /\ n \in Nat /\ n > 0 /\ (start % MapSize) + Header + n <= MapSize
  BY <1>1, StartPlaced
<1>4. Lies(EntryPut(lapped, start, n, e), lapped, start, n, e)
  BY <1>3, EntryLies
<1> QED
  BY <1>1, <1>2, <1>4

\* Names for what write() computes.
LastOf(entries) == EndOf(entries, Len(entries))
TotalFor(entries, n) == Header + n + File!Extra(File!ToEnd(LastOf(entries)), Header + n)
RoomFor(cells, k, entries, n) ==
    File!MakeRoom([cells |-> cells, head |-> k], LastOf(entries), TotalFor(entries, n))
EntryFor(entries, n) == [start |-> StartOf(entries, n), size |-> n]

\* One more entry is laid out and held.
Added(c, entries, more, n, h) ==
    /\ more \in Seq(Entries) /\ LaidOut(more) /\ Holds(c, more, h)
    /\ Len(more) = Len(entries) + 1
    /\ \A i \in 1..Len(entries) : more[i] = entries[i]
    /\ more[Len(entries) + 1] = EntryFor(entries, n)
    /\ LastOf(more) = StartOf(entries, n) + Header + n
    /\ \A g : \A i \in 1..Len(entries) + 1 : At(entries, g, i) => At(more, g, i)

\* The map after an entry was written, with room enough before it.
LEMMA MapWritten ==
  ASSUME File!FileAssumption, NEW entries \in Seq(Entries), LaidOut(entries), NEW n \in Sizes,
         NEW cells, NEW h \in Nat, h <= EndOf(entries, Len(entries)), Holds(cells, entries, h),
         NEW start, start = StartOf(entries, n), start + Header + n < h + MapSize,
         NEW c, c = Written(cells, entries, n),
         NEW more, more = Append(entries, [start |-> start, size |-> n])
  PROVE  Added(c, entries, more, n, h)
<1>1. PICK last \in Nat, q \in Nat, rest \in Nat, start_ \in Nat, s \in Nat :
        /\ last = EndOf(entries, Len(entries)) /\ start_ = StartOf(entries, n)
        /\ q = last % MapSize /\ rest = File!ToEnd(last) /\ s = start_ % MapSize
        /\ MapSize \in Nat /\ Header \in Nat /\ Header > 0 /\ n \in Nat /\ n > 0 /\ Header + n <= MapSize
        /\ Len(entries) \in Nat /\ last <= start_
        /\ rest > 0 /\ q + rest = MapSize /\ s + Header + n <= MapSize
        /\ \/ start_ = last /\ rest >= Header + n
           \/ start_ = last + rest /\ rest < Header + n /\ s = 0
  BY StartNamed
<1>0. start_ = start
  BY <1>1
<1>12. /\ last \in Nat /\ rest \in Nat /\ rest > 0 /\ q + rest = MapSize /\ s + Header + n <= MapSize
       /\ start \in Nat /\ last <= start /\ h <= last /\ start + Header + n < h + MapSize
       /\ \/ start = last /\ rest >= Header + n
          \/ start = last + rest /\ rest < Header + n
       /\ MapSize \in Nat /\ Header \in Nat /\ n \in Nat
  BY <1>0, <1>1
<1> DEFINE lapped == Lapped(cells, last, ~(rest >= Header + n))
           e == Len(entries) + 1
<1>3. PICK x \in Entries : x = [start |-> start, size |-> n]
  BY <1>0, <1>1 DEF Entries
<1>4. /\ more \in Seq(Entries) /\ Len(more) = Len(entries) + 1
      /\ \A d \in 1..Len(entries) : more[d] = entries[d]
      /\ more[Len(entries) + 1] = x
      /\ \A d \in 0..Len(entries) : EndOf(more, d) = EndOf(entries, d)
      /\ EndOf(more, Len(entries) + 1) = x.start + Header + x.size
      /\ LaidOut(more)
      /\ \A k : \A d \in 1..Len(entries) + 1 : At(entries, k, d) => At(more, k, d)
  <2>1. x.start = start /\ x.size = n /\ more = Append(entries, x)
    BY <1>3
  <2>2. (x.start % MapSize) + Header + x.size <= MapSize
    BY <1>0, <1>1, <2>1
  <2>3. \/ x.start = last
        \/ x.start = last + File!ToEnd(last) /\ File!ToEnd(last) < Header + x.size
    BY <1>0, <1>1, <2>1
  <2>4. last = EndOf(entries, Len(entries))
    BY <1>0, <1>1
  <2> QED
    BY <2>1, <2>2, <2>3, <2>4, OneMore
<1>5. Lies(c, lapped, start, n, e)
  <2>1. Lies(Written(cells, entries, n), Lapped(cells, last, ~(rest >= Header + n)), start, n, Len(entries) + 1)
    BY <1>0, <1>1, EntryWhole
  <2> QED
    BY <2>1
<1>6. Whole(c, more, Len(more))
  <2>1. more[Len(more)].start = start /\ more[Len(more)].size = n /\ e = Len(more)
    BY <1>3, <1>4
  <2> HIDE DEF e
  <2> QED
    BY <1>5, <2>1 DEF Whole, Lies
<1>7. Holds(lapped, entries, h)
  <2>1. CASE lapped = cells
    BY <2>1
  <2>2. CASE lapped # cells
    <3>1. lapped = File!Stamp(cells, last, 0) /\ ~(rest >= Header + n) /\ rest >= Header
      BY <1>0, <1>1, <2>2 DEF Lapped, File!Stamped
    <3>2. q + Header <= MapSize /\ last + Header <= h + MapSize
      BY <1>12, <3>1
    <3>3. \A p \in File!Places : p < last % MapSize \/ (last % MapSize) + Header <= p => lapped[p] = cells[p]
      <4> SUFFICES ASSUME NEW p \in File!Places, p < last % MapSize \/ (last % MapSize) + Header <= p
                   PROVE  File!Stamp(cells, last, 0)[p] = cells[p]
        BY <3>1
      <4>1. last \in Nat
        BY <1>0, <1>1
      <4> QED
        BY <4>1, StampElsewhere
    <3>4. /\ h <= h /\ last \in Nat /\ Header \in Nat /\ (last % MapSize) + Header <= MapSize
          /\ last + Header <= h + MapSize /\ EndOf(entries, Len(entries)) <= last
      BY <1>0, <1>1, <3>2
    <3> HIDE DEF lapped
    <3> QED
      BY <3>3, <3>4, HoldsStays
  <2> QED
    BY <2>1, <2>2
<1>8. Holds(c, entries, h)
  <2>1. PICK m \in Nat : m = Header + n
    BY <1>0, <1>1
  <2>4. s + m <= MapSize /\ start + m <= h + MapSize
    BY <1>12, <2>1
  <2>2. /\ h <= h /\ start \in Nat /\ (start % MapSize) + m <= MapSize
        /\ EndOf(entries, Len(entries)) <= start /\ start + m <= h + MapSize
    BY <1>0, <1>1, <2>4
  <2>3. \A p \in File!Places : p < start % MapSize \/ (start % MapSize) + m <= p => c[p] = lapped[p]
    BY <1>5, <2>1 DEF Lies
  <2> HIDE DEF lapped
  <2> QED
    BY <1>7, <2>2, <2>3, HoldsStays
<1>9. more[Len(more)].start # EndOf(entries, Len(entries)) => Marked(c, EndOf(entries, Len(entries)))
  <2>1. more[Len(more)].start = start
    BY <1>3, <1>4
  <2>2. start + Header + n <= last + MapSize
    BY <1>12
  <2> QED
    BY <1>0, <1>1, <2>1, <2>2, RestMarked
<1>10. Holds(c, more, h)
  BY <1>0, <1>1, <1>4, <1>6, <1>8, <1>9, HoldsMore
<1>11. EndOf(more, Len(more)) = start + Header + n
  <2>1. x.start = start /\ x.size = n
    BY <1>3
  <2> QED
    BY <1>4, <2>1
<1> QED
  BY <1>3, <1>4, <1>10, <1>11 DEF Added, EntryFor, LastOf

\* write() adds an entry when there is room for it.
LEMMA WriteAdds ==
  ASSUME File!FileAssumption, NEW entries \in Seq(Entries), LaidOut(entries), NEW n \in Sizes,
         NEW cells, NEW h \in Nat, h <= LastOf(entries), Holds(cells, entries, h),
         StartOf(entries, n) + Header + n < h + MapSize
  PROVE  Added(Written(cells, entries, n), entries, Append(entries, EntryFor(entries, n)), n, h)
<1>1. PICK start, c, more :
        /\ start = StartOf(entries, n) /\ c = Written(cells, entries, n)
        /\ more = Append(entries, [start |-> start, size |-> n])
  OBVIOUS
<1>2. h <= EndOf(entries, Len(entries)) /\ start + Header + n < h + MapSize
  BY <1>1 DEF LastOf
<1>3. Added(c, entries, more, n, h)
  BY <1>1, <1>2, MapWritten
<1> QED
  BY <1>1, <1>3 DEF EntryFor

\* What is between two offsets is in the order of the entries.
LEMMA AtOrdered ==
  ASSUME File!FileAssumption, NEW entries \in Seq(Entries), LaidOut(entries),
         NEW h, NEW d \in 1..Len(entries) + 1, At(entries, h, d),
         NEW k, NEW e \in 1..Len(entries) + 1, At(entries, k, e), h <= k
  PROVE  d <= e
<1>1. h \in Nat /\ k \in Nat /\ Len(entries) \in Nat
  BY BeforeAndAfter, EntryTyped
<1> SUFFICES ASSUME e < d PROVE FALSE
  BY <1>1
<1>2. e \in 1..Len(entries)
  BY <1>1
<1>3. EndOf(entries, e) <= h
  BY <1>2, BeforeAndAfter
<1>4. k <= entries[e].start
  BY <1>1, <1>2, BeforeAndAfter
<1>5. entries[e].start < EndOf(entries, e) /\ entries[e].start \in Nat /\ EndOf(entries, e) \in Nat
  BY <1>2, EntryTyped
<1> QED
  BY <1>1, <1>3, <1>4, <1>5

\* With the rest of the lap an entry takes less than two, that is, less than the map.
LEMMA RoomNeeded ==
  ASSUME File!FileAssumption, NEW entries \in Seq(Entries), NEW n \in Sizes,
         NEW last, last = EndOf(entries, Len(entries))
  PROVE  LET total == Header + n + File!Extra(File!ToEnd(last), Header + n)
         IN  /\ total \in Nat /\ last \in Nat /\ Padding \in Nat /\ MapSize \in Nat
             /\ Padding + total < MapSize
             /\ StartOf(entries, n) + Header + n = last + total
<1>1. PICK l \in Nat, rest \in Nat, start \in Nat :
        /\ l = last /\ start = StartOf(entries, n) /\ rest = File!ToEnd(last)
        /\ MapSize \in Nat /\ Header \in Nat /\ Header > 0 /\ n \in Nat /\ n > 0
        /\ \/ start = l /\ rest >= Header + n
           \/ start = l + rest /\ rest < Header + n
  BY StartNamed
<1>2. Padding \in Nat /\ Padding + 2 * (Header + n) <= MapSize
  BY DEF File!FileAssumption
<1>3. PICK extra \in Nat : /\ extra = File!Extra(rest, Header + n)
                           /\ start = l + extra /\ extra < Header + n
  <2>1. CASE start = l /\ rest >= Header + n
    <3>1. File!Extra(rest, Header + n) = 0
      BY <1>1, <2>1 DEF File!Extra
    <3> QED
      BY <1>1, <2>1, <3>1
  <2>2. CASE start = l + rest /\ rest < Header + n
    <3>1. File!Extra(rest, Header + n) = rest
      BY <1>1, <2>2 DEF File!Extra
    <3> QED
      BY <1>1, <2>2, <3>1
  <2> QED
    BY <1>1, <2>1, <2>2
<1>5. /\ l \in Nat /\ extra \in Nat /\ Header \in Nat /\ n \in Nat /\ MapSize \in Nat
      /\ start = l + extra /\ extra < Header + n
  BY <1>1, <1>3
<1>6. PICK m \in Nat : m = Header + n
  BY <1>5
<1>7. Padding + m + extra < MapSize
  BY <1>2, <1>5, <1>6
<1>4. /\ Header + n + extra \in Nat /\ Padding + (Header + n + extra) < MapSize
      /\ start + Header + n = l + (Header + n + extra)
  BY <1>2, <1>5, <1>6, <1>7
<1> QED
  BY <1>1, <1>2, <1>3, <1>4

\* Room is made from a cursor on, and no more than is needed.
LEMMA RoomFound ==
  ASSUME File!FileAssumption, NEW entries \in Seq(Entries), LaidOut(entries), NEW n \in Sizes,
         NEW cells, NEW h \in Nat, NEW k \in Nat, h <= k, NEW d \in 1..Len(entries) + 1, At(entries, k, d),
         LastOf(entries) - h < MapSize, Holds(cells, entries, h)
  PROVE  LET room == RoomFor(cells, k, entries, n)
         IN  /\ MakingRoom(room, entries, k, TotalFor(entries, n))
             /\ LastOf(entries) - room.head + TotalFor(entries, n) + Padding < MapSize
<1>1. PICK last, total, room, s :
        /\ last = LastOf(entries) /\ total = TotalFor(entries, n)
        /\ room = RoomFor(cells, k, entries, n) /\ s = [cells |-> cells, head |-> k]
  OBVIOUS
<1>2. total \in Nat /\ last \in Nat /\ MapSize \in Nat /\ Padding + total < MapSize
  BY <1>1, RoomNeeded DEF LastOf, TotalFor
<1>3. s.cells = cells /\ s.head = k
  BY <1>1
<1>4. Holds(cells, entries, k)
  BY HoldsLess
<1>6. MakingRoom(s, entries, k, total)
  <2>1. \A e \in 1..Len(entries) : ~(k <= entries[e].start /\ entries[e].start < k)
    BY EntryTyped
  <2> QED
    BY <1>3, <1>4, <2>1 DEF MakingRoom
<1>7. last - k < MapSize
  BY <1>1, <1>2
<1>8. EndOf(entries, Len(entries)) - k < MapSize /\ room = File!MakeRoom(s, EndOf(entries, Len(entries)), total)
  BY <1>1, <1>7 DEF LastOf, RoomFor
<1>9. /\ MakingRoom(room, entries, k, total)
      /\ EndOf(entries, Len(entries)) - room.head + total + Padding < MapSize
  BY <1>2, <1>3, <1>6, <1>8, RoomIsMade
<1> QED
  BY <1>1, <1>9 DEF LastOf

\* The numbers of a write: where room ends, where the entry begins and ends.
LEMMA RoomPlaced ==
  ASSUME File!FileAssumption, NEW entries \in Seq(Entries), LaidOut(entries), NEW n \in Sizes,
         NEW room, NEW k, MakingRoom(room, entries, k, TotalFor(entries, n)),
         LastOf(entries) - room.head + TotalFor(entries, n) + Padding < MapSize
  PROVE  \E last \in Nat, head_ \in Nat, start \in Nat, end \in Nat :
           /\ last = LastOf(entries) /\ head_ = room.head /\ start = StartOf(entries, n)
           /\ end = start + Header + n /\ end = last + TotalFor(entries, n)
           /\ head_ <= last /\ last <= start /\ last <= end /\ end < head_ + MapSize
           /\ end - head_ < MapSize /\ MapSize \in Nat
<1>1. PICK last, total, start :
        last = LastOf(entries) /\ total = TotalFor(entries, n) /\ start = StartOf(entries, n)
  OBVIOUS
<1>2. /\ total \in Nat /\ last \in Nat /\ MapSize \in Nat /\ Padding \in Nat
      /\ start + Header + n = last + total
  BY <1>1, RoomNeeded DEF LastOf, TotalFor
<1>3. PICK e \in 1..Len(entries) + 1 : At(entries, room.head, e)
  BY DEF MakingRoom
<1>4. room.head \in Nat /\ room.head <= last
  BY <1>1, <1>3, BeforeAndAfter DEF LastOf
<1>5. PICK head_ \in Nat : head_ = room.head
  BY <1>4
<1>6. head_ <= last /\ last - head_ + total + Padding < MapSize
  BY <1>1, <1>4, <1>5
<1>7. PICK end \in Nat : end = last + total
  BY <1>2
<1>8. last <= end /\ end < head_ + MapSize /\ end - head_ < MapSize
  BY <1>2, <1>6, <1>7
<1>9. start \in Nat /\ last <= start
  BY <1>1, StartPlaced DEF LastOf
<1>10. end = start + Header + n /\ end = last + TotalFor(entries, n)
  BY <1>1, <1>2, <1>7
<1> QED
  BY <1>1, <1>2, <1>4, <1>5, <1>6, <1>7, <1>8, <1>9, <1>10

\* The state after write().
LEMMA WriteStep ==
  ASSUME File!FileAssumption, FileTyped, NEW n \in Sizes, File!Write(n),
         store.cur[Writer].tail = LastOf(contents.entries)
  PROVE  LET entries == contents.entries
             room == RoomFor(store.cells, store.cur[Writer].head, entries, n)
             new == File!Cursor(room.head, StartOf(entries, n) + Header + n)
         IN  /\ store' = [cells |-> Written(room.cells, entries, n), file |-> new,
                          cur |-> [store.cur EXCEPT ![Writer] = new], out |-> NoBuffer]
             /\ contents' = [entries |-> Append(entries, EntryFor(entries, n)),
                             next |-> contents.next, out |-> NoBuffer]
<1> DEFINE entries == contents.entries
           tail_ == store.cur[Writer].tail
           rest == File!ToEnd(tail_)
           needed == Header + n
           fits == rest >= needed
           room == File!MakeRoom([cells |-> store.cells, head |-> store.cur[Writer].head], tail_,
                                 needed + File!Extra(rest, needed))
           start == IF fits THEN tail_ ELSE tail_ + rest
           lapped == IF ~fits /\ File!Stamped(rest) THEN File!Stamp(room.cells, tail_, 0) ELSE room.cells
           e == Len(entries) + 1
           data == [p \in File!Places |->
                        LET i == p - (start % MapSize) - Header
                        IN  IF i \in 0..n - 1 THEN File!DataCell(e, i) ELSE lapped[p]]
           new == File!Cursor(room.head, start + needed)
<1>1. /\ store' = [store EXCEPT !.cells = File!Stamp(data, start, n),
                                !.cur[Writer] = new, !.file = new, !.out = NoBuffer]
      /\ contents' = [contents EXCEPT
                !.entries = Append(@, [start |-> start, size |-> n]), !.out = NoBuffer]
  BY DEF File!Write
<1>2. tail_ = EndOf(entries, Len(entries))
  BY DEF LastOf
<1>3. start = StartOf(entries, n)
  BY <1>2 DEF StartOf
<1>4. room = RoomFor(store.cells, store.cur[Writer].head, entries, n)
  BY <1>2 DEF RoomFor, TotalFor, LastOf
<1>5. lapped = Lapped(room.cells, EndOf(entries, Len(entries)),
                      ~(File!ToEnd(EndOf(entries, Len(entries))) >= Header + n))
  BY <1>2 DEF Lapped
<1>6. data = Filled(lapped, start, n, e)
  BY DEF Filled
<1>7. File!Stamp(data, start, n) = EntryPut(lapped, start, n, e)
  BY <1>6 DEF EntryPut
<1> HIDE DEF data, lapped, room, start, new
<1>8. File!Stamp(data, start, n) = Written(room.cells, entries, n)
  BY <1>3, <1>5, <1>7 DEF Written
<1>9. new = File!Cursor(room.head, start + Header + n)
  <2>1. start + (Header + n) = start + Header + n
    <3>1. start \in Nat /\ Header \in Nat /\ n \in Nat
      BY <1>3, StartPlaced DEF FileTyped
    <3> QED
      BY <3>1
  <2> QED
    BY <2>1 DEF new
<1>10. store = [cells |-> store.cells, file |-> store.file, cur |-> store.cur, out |-> store.out]
  BY DEF FileTyped
<1>11. contents = [entries |-> contents.entries, next |-> contents.next, out |-> contents.out]
  BY DEF FileTyped
<1>12. store' = [cells |-> File!Stamp(data, start, n), file |-> new,
                 cur |-> [store.cur EXCEPT ![Writer] = new], out |-> NoBuffer]
  BY <1>1, <1>10
<1>13. contents' = [entries |-> Append(contents.entries, [start |-> start, size |-> n]),
                    next |-> contents.next, out |-> NoBuffer]
  BY <1>1, <1>11
<1> QED
  BY <1>3, <1>4, <1>8, <1>9, <1>12, <1>13 DEF EntryFor

\* A step that writes keeps what the file holds.
LEMMA WriteKeeps ==
  ASSUME File!FileAssumption, FileInv, store.cur[Writer] # File!NoCursor, NEW n \in Sizes, File!Write(n)
  PROVE  FileInv'
<1>1. PICK entries, cells, h, k, tail_ :
        /\ entries = contents.entries /\ cells = store.cells /\ h = store.file.head
        /\ k = store.cur[Writer].head /\ tail_ = store.file.tail
  OBVIOUS
<1>2. /\ entries \in Seq(Entries) /\ h \in Nat /\ Len(entries) \in Nat /\ Writer \in File!Objects
      /\ store.cur \in [File!Objects -> [head : Int, tail : Int]]
      /\ contents.next \in [File!Objects -> Nat \ {0}]
  BY <1>1, EntryTyped DEF FileInv, FileTyped, File!Objects
<1>3. /\ LaidOut(entries) /\ tail_ = LastOf(entries) /\ tail_ - h < MapSize /\ Holds(cells, entries, h)
  BY <1>1 DEF FileInv, FileHolds, LastOf
<1>4. store.cur[Writer].tail = tail_ /\ k >= h
  BY <1>1 DEF FileInv, CursorsPlaced
<1>5. PICK d \in 1..Len(entries) + 1 :
        /\ At(entries, k, d) /\ contents.next[Writer] <= d
        /\ \A i \in contents.next[Writer]..d - 1 : entries[i].start < h
  BY <1>1, <1>2 DEF FileInv, CursorsPlaced, CursorPlaced
<1>6. k \in Nat /\ h <= k
  BY <1>2, <1>3, <1>4, <1>5, BeforeAndAfter
<1>7. PICK room : room = RoomFor(cells, k, entries, n)
  OBVIOUS
<1>8. /\ MakingRoom(room, entries, k, TotalFor(entries, n))
      /\ LastOf(entries) - room.head + TotalFor(entries, n) + Padding < MapSize
  BY <1>2, <1>3, <1>5, <1>6, <1>7, RoomFound
<1>9. PICK last \in Nat, new \in Nat, start \in Nat, end \in Nat :
           /\ last = LastOf(entries) /\ new = room.head /\ start = StartOf(entries, n)
           /\ end = start + Header + n /\ end = last + TotalFor(entries, n)
           /\ new <= last /\ last <= start /\ last <= end /\ end < new + MapSize
           /\ end - new < MapSize /\ MapSize \in Nat
  BY <1>2, <1>3, <1>8, RoomPlaced
<1>10. /\ Holds(room.cells, entries, new) /\ k <= new
       /\ \A i \in 1..Len(entries) : k <= entries[i].start /\ entries[i].start < new =>
            \E m \in Sizes : end - entries[i].start + Padding + Header + m > MapSize
  <2>1. EndOf(entries, Len(entries)) + TotalFor(entries, n) = end /\ room.head = new
    BY <1>9 DEF LastOf
  <2>2. Holds(room.cells, entries, new) /\ k <= new
    BY <1>8, <2>1 DEF MakingRoom
  <2>3. ASSUME NEW i \in 1..Len(entries), k <= entries[i].start, entries[i].start < new
        PROVE  \E m \in Sizes : end - entries[i].start + Padding + Header + m > MapSize
    <3>1. PICK m \in Sizes : EndOf(entries, Len(entries)) + TotalFor(entries, n) - entries[i].start
                               + Padding + Header + m > MapSize
      BY <1>8, <2>1, <2>3 DEF MakingRoom
    <3>3. PICK t : t = TotalFor(entries, n)
      OBVIOUS
    <3>4. last + t - entries[i].start + Padding + Header + m > MapSize /\ end = last + t
      BY <1>9, <3>1, <3>3 DEF LastOf
    <3>5. /\ Padding \in Nat /\ Header \in Nat /\ m \in Nat /\ last \in Nat /\ entries[i].start \in Nat
          /\ t \in Nat
      <4>1. t \in Nat
        BY <1>2, <3>3, RoomNeeded DEF TotalFor, LastOf
      <4>2. entries[i].start \in Nat
        BY <1>2, EntryTyped
      <4> QED
        BY <1>9, <4>1, <4>2 DEF File!FileAssumption
    <3>2. end - entries[i].start + Padding + Header + m > MapSize
      BY <3>4, <3>5
    <3> QED
      BY <3>2
  <2> QED
    BY <2>2, <2>3
<1>11. PICK b \in 1..Len(entries) + 1 : At(entries, new, b)
  BY <1>8, <1>9 DEF MakingRoom
<1>12. PICK c, more : c = Written(room.cells, entries, n) /\ more = Append(entries, EntryFor(entries, n))
  OBVIOUS
<1>13. Added(c, entries, more, n, new)
  <2>1. new <= LastOf(entries) /\ StartOf(entries, n) + Header + n < new + MapSize
    BY <1>9
  <2>2. PICK r : r = room.cells
    OBVIOUS
  <2>3. Holds(r, entries, new) /\ c = Written(r, entries, n)
    BY <1>10, <1>12, <2>2
  <2> QED
    BY <1>2, <1>3, <1>12, <2>1, <2>3, WriteAdds
<1>14. /\ store' = [cells |-> c, file |-> File!Cursor(new, end),
                    cur |-> [store.cur EXCEPT ![Writer] = File!Cursor(new, end)], out |-> NoBuffer]
       /\ contents' = [entries |-> more, next |-> contents.next, out |-> NoBuffer]
  <2>1. store.cur[Writer].tail = LastOf(contents.entries)
    BY <1>1, <1>3, <1>4
  <2>2. FileTyped
    BY DEF FileInv
  <2> QED
    BY <1>1, <1>7, <1>9, <1>12, <2>1, <2>2, WriteStep
<1>15. /\ store'.cells = c /\ store'.file = [head |-> new, tail |-> end] /\ store'.out = NoBuffer
       /\ store'.cur = [store.cur EXCEPT ![Writer] = [head |-> new, tail |-> end]]
       /\ contents'.entries = more /\ contents'.next = contents.next /\ contents'.out = NoBuffer
  BY <1>14 DEF File!Cursor
<1>16. /\ more \in Seq(Entries) /\ LaidOut(more) /\ Holds(c, more, new) /\ Len(more) = Len(entries) + 1
       /\ \A i \in 1..Len(entries) : more[i] = entries[i]
       /\ more[Len(entries) + 1].start = start
       /\ EndOf(more, Len(more)) = end
       /\ \A g : \A i \in 1..Len(entries) + 1 : At(entries, g, i) => At(more, g, i)
  BY <1>9, <1>13 DEF Added, EntryFor, LastOf
<1>17. FileTyped'
  <2>1. [head |-> new, tail |-> end] \in [head : Nat, tail : Nat]
    BY <1>9
  <2>2. [head |-> new, tail |-> end] \in [head : Int, tail : Int]
    BY <1>9
  <2> QED
    BY <1>2, <1>14, <1>15, <1>16, <2>1, <2>2 DEF FileTyped
<1>18. FileHolds'
  <2>1. \E i \in 1..Len(more) + 1 : At(more, new, i)
    BY <1>2, <1>11, <1>16
  <2>2. end - new < MapSize /\ store'.file.head = new /\ store'.file.tail = end
    BY <1>9, <1>15
  <2> QED
    BY <1>15, <1>16, <2>1, <2>2 DEF FileHolds
<1>19. d <= b
  BY <1>2, <1>3, <1>5, <1>10, <1>11, AtOrdered
<1>20. h <= new
  BY <1>2, <1>6, <1>9, <1>10
<1>21. \A i \in 1..Len(entries) : entries[i].start \in Nat
  BY <1>2, EntryTyped
<1>22. CursorsPlaced'
  <2>1. CursorPlaced(Writer)'
    <3>1. At(more, new, b) /\ b \in 1..Len(more) + 1
      BY <1>2, <1>11, <1>16
    <3>2. contents.next[Writer] <= b /\ contents.next[Writer] \in Nat \ {0}
      BY <1>2, <1>5, <1>19
    <3>3. ASSUME NEW i \in contents.next[Writer]..b - 1 PROVE more[i].start < new
      <4>1. i \in 1..Len(entries) /\ i < b
        BY <1>2, <3>2
      <4>2. entries[i].start < new
        BY <1>2, <1>3, <1>11, <4>1, BeforeAndAfter
      <4> QED
        BY <1>16, <4>1, <4>2
    <3>4. store'.cur[Writer].head = new /\ store'.file.head = new
      BY <1>2, <1>15
    <3> QED
      BY <1>15, <3>1, <3>2, <3>3, <3>4 DEF CursorPlaced
  <2>2. ASSUME NEW x \in File!Objects, x # Writer, store'.cur[x] # File!NoCursor PROVE CursorPlaced(x)'
    <3>1. store'.cur[x] = store.cur[x]
      BY <1>2, <1>15, <2>2
    <3>2. PICK i \in 1..Len(entries) + 1 :
            /\ At(entries, store.cur[x].head, i) /\ contents.next[x] <= i
            /\ \A j \in contents.next[x]..i - 1 : entries[j].start < h
      BY <1>1, <2>2, <3>1 DEF FileInv, CursorsPlaced, CursorPlaced
    <3>3. At(more, store.cur[x].head, i) /\ i \in 1..Len(more) + 1
      BY <1>2, <1>16, <3>2
    <3>4. ASSUME NEW j \in contents.next[x]..i - 1 PROVE more[j].start < new
      <4>1. j \in 1..Len(entries)
        <5>1. contents.next[x] \in Nat \ {0}
          BY <1>2
        <5> QED
          BY <1>2, <3>2, <5>1
      <4>2. entries[j].start < h /\ entries[j].start \in Nat
        BY <1>21, <3>2, <4>1
      <4>4. h \in Nat /\ new \in Nat
        BY <1>2, <1>9
      <4>3. entries[j].start < new
        BY <1>20, <4>2, <4>4
      <4> QED
        BY <1>16, <4>1, <4>3
    <3>5. store'.file.head = new
      BY <1>15
    <3> QED
      BY <1>15, <3>1, <3>2, <3>3, <3>4, <3>5 DEF CursorPlaced
  <2>3. store'.cur[Writer].tail = store'.file.tail /\ store'.cur[Writer].head >= store'.file.head
    BY <1>2, <1>9, <1>15
  <2> QED
    BY <2>1, <2>2, <2>3 DEF CursorsPlaced
<1>23. DroppedForRoom'
  <2>1. ASSUME NEW e \in 1..Len(more), e >= contents.next[Writer], more[e].start < new
        PROVE  \E m \in Sizes : end - more[e].start + Padding + Header + m > MapSize
    <3>1. e # Len(entries) + 1
      <4>1. ~(start < new)
        BY <1>9
      <4> QED
        BY <1>16, <2>1, <4>1
    <3>2. e \in 1..Len(entries) /\ more[e] = entries[e]
      BY <1>2, <1>16, <3>1
    <3>3. PICK s \in Nat : s = entries[e].start
      BY <1>21, <3>2
    <3>4. CASE s < h
      <4>1. PICK m \in Sizes : tail_ - s + Padding + Header + m > MapSize
        BY <1>1, <2>1, <3>2, <3>3, <3>4 DEF FileInv, DroppedForRoom
      <4>2. Padding \in Nat /\ Header \in Nat /\ m \in Nat /\ tail_ = last /\ tail_ \in Nat
        BY <1>3, <1>9 DEF File!FileAssumption
      <4>3. last <= end /\ MapSize \in Nat
        BY <1>9
      <4>4. end - s + Padding + Header + m > MapSize
        BY <4>1, <4>2, <4>3
      <4> QED
        BY <3>2, <3>3, <4>4
    <3>5. CASE h <= s /\ s < k
      <4>1. e < d
        <5>1. ~(d <= e)
          <6> SUFFICES ASSUME d <= e PROVE FALSE
            OBVIOUS
          <6>1. k <= entries[e].start
            BY <1>2, <1>3, <1>5, <3>2, BeforeAndAfter
          <6> QED
            BY <1>6, <3>3, <3>5, <6>1
        <5> QED
          BY <1>2, <3>2, <5>1
      <4>2. e \in contents.next[Writer]..d - 1
        BY <1>2, <2>1, <3>2, <4>1
      <4> QED
        BY <1>2, <1>5, <3>3, <3>5, <4>2
    <3>6. CASE k <= s
      BY <1>10, <2>1, <3>2, <3>3, <3>6
    <3> QED
      BY <1>2, <1>6, <3>4, <3>5, <3>6
  <2>2. store'.file.head = new /\ store'.file.tail = end
    BY <1>15
  <2> QED
    BY <1>15, <2>1, <2>2 DEF DroppedForRoom
<1>24. File!ReadsDue'
  BY <1>15 DEF File!ReadsDue
<1> QED
  BY <1>17, <1>18, <1>22, <1>23, <1>24 DEF FileInv

\* A step that moves one object's cursor and leaves the file alone.
LEMMA ObjectMoves ==
  ASSUME File!FileAssumption, FileInv, NEW x \in File!Objects,
         NEW c \in [head : Int, tail : Int], NEW m \in Nat \ {0}, NEW o,
         store' = [store EXCEPT !.cur[x] = c, !.out = o],
         contents' = [contents EXCEPT !.next[x] = m, !.out = o],
         c # File!NoCursor => \E e \in 1..Len(contents.entries) + 1 :
            /\ At(contents.entries, c.head, e) /\ m <= e
            /\ \A d \in m..e - 1 : contents.entries[d].start < store.file.head,
         x = Writer => contents.next[x] <= m,
         x = Writer /\ c # File!NoCursor => c.tail = store.file.tail /\ c.head >= store.file.head
  PROVE  FileInv'
<1>1. /\ store = [cells |-> store.cells, file |-> store.file, cur |-> store.cur, out |-> store.out]
      /\ contents = [entries |-> contents.entries, next |-> contents.next, out |-> contents.out]
      /\ store.cur \in [File!Objects -> [head : Int, tail : Int]]
      /\ contents.next \in [File!Objects -> Nat \ {0}]
  BY DEF FileInv, FileTyped
<1>2. /\ store' = [cells |-> store.cells, file |-> store.file, cur |-> [store.cur EXCEPT ![x] = c], out |-> o]
      /\ contents' = [entries |-> contents.entries, next |-> [contents.next EXCEPT ![x] = m], out |-> o]
  BY <1>1
<1>3. /\ store'.cells = store.cells /\ store'.file = store.file /\ store'.out = o
      /\ store'.cur = [store.cur EXCEPT ![x] = c]
      /\ contents'.entries = contents.entries /\ contents'.out = o
      /\ contents'.next = [contents.next EXCEPT ![x] = m]
  BY <1>2
<1>4. FileTyped'
  <2>1. /\ store'.cur \in [File!Objects -> [head : Int, tail : Int]]
        /\ contents'.next \in [File!Objects -> Nat \ {0}]
    BY <1>1, <1>3
  <2>2. store' = [cells |-> store'.cells, file |-> store'.file, cur |-> store'.cur, out |-> store'.out]
    BY <1>2
  <2>3. contents' = [entries |-> contents'.entries, next |-> contents'.next, out |-> contents'.out]
    BY <1>2
  <2>4. contents'.entries \in Seq(Entries) /\ store'.file \in [head : Nat, tail : Nat]
    BY <1>3 DEF FileInv, FileTyped
  <2> QED
    BY <2>1, <2>2, <2>3, <2>4 DEF FileTyped
<1>5. FileHolds'
  BY <1>3 DEF FileInv, FileHolds
<1>6. CursorsPlaced'
  <2>1. ASSUME NEW y \in File!Objects, store'.cur[y] # File!NoCursor PROVE CursorPlaced(y)'
    <3>1. CASE y = x
      <4>1. store'.cur[y] = c /\ contents'.next[y] = m
        BY <1>1, <1>3, <3>1
      <4> QED
        BY <1>3, <2>1, <4>1 DEF CursorPlaced
    <3>2. CASE y # x
      <4>1. store'.cur[y] = store.cur[y] /\ contents'.next[y] = contents.next[y]
        BY <1>1, <1>3, <3>2
      <4>2. CursorPlaced(y)
        BY <2>1, <4>1 DEF FileInv, CursorsPlaced
      <4> QED
        BY <1>3, <4>1, <4>2 DEF CursorPlaced
    <3> QED
      BY <3>1, <3>2
  <2>2. ASSUME store'.cur[Writer] # File!NoCursor
        PROVE  store'.cur[Writer].tail = store'.file.tail /\ store'.cur[Writer].head >= store'.file.head
    <3>1. CASE x = Writer
      <4>1. store'.cur[Writer] = c
        BY <1>1, <1>3, <3>1
      <4> QED
        BY <1>3, <2>2, <3>1, <4>1
    <3>2. CASE x # Writer
      <4>1. store'.cur[Writer] = store.cur[Writer]
        BY <1>1, <1>3, <3>2
      <4> QED
        BY <1>3, <2>2, <4>1 DEF FileInv, CursorsPlaced
    <3> QED
      BY <3>1, <3>2
  <2> QED
    BY <2>1, <2>2 DEF CursorsPlaced
<1>7. DroppedForRoom'
  <2>1. Writer \in File!Objects
    BY DEF File!Objects
  <2>2. ASSUME NEW e \in 1..Len(contents.entries), e >= contents'.next[Writer] PROVE e >= contents.next[Writer]
    <3>1. contents.next[Writer] <= contents'.next[Writer] /\ contents.next[Writer] \in Nat
          /\ contents'.next[Writer] \in Nat
      BY <1>1, <1>3, <2>1
    <3>2. e \in Nat
      BY EntryTyped DEF FileInv, FileTyped
    <3> QED
      BY <2>2, <3>1, <3>2
  <2> QED
    BY <1>3, <2>2 DEF FileInv, DroppedForRoom
<1>8. File!ReadsDue'
  BY <1>3 DEF File!ReadsDue
<1> QED
  BY <1>4, <1>5, <1>6, <1>7, <1>8 DEF FileInv

\* What is due is the entry that the cursor is at, once it is up to date.
LEMMA EntryDue ==
  ASSUME File!FileAssumption, FileInv, NEW x \in File!Objects, store.cur[x] # File!NoCursor,
         NEW cur, cur = File!UpToDate(x)
  PROVE  \E e \in 1..Len(contents.entries) + 1 :
           /\ At(contents.entries, cur.head, e) /\ contents.next[x] <= e
           /\ \A d \in contents.next[x]..e - 1 : contents.entries[d].start < store.file.head
           /\ store.file.head <= cur.head
           /\ cur \in [head : Int, tail : Int]
           /\ x = Writer => cur.tail = store.file.tail
           /\ File!Due(x) = IF e <= Len(contents.entries) THEN {e} ELSE {}
<1>1. PICK entries, h, next_ :
        entries = contents.entries /\ h = store.file.head /\ next_ = contents.next[x]
  OBVIOUS
<1>2. /\ entries \in Seq(Entries) /\ LaidOut(entries) /\ h \in Nat /\ next_ \in Nat \ {0}
      /\ Len(entries) \in Nat /\ store.cur[x] \in [head : Int, tail : Int]
      /\ store.file \in [head : Nat, tail : Nat]
  BY <1>1, EntryTyped DEF FileInv, FileTyped, FileHolds
<1>3. PICK e \in 1..Len(entries) + 1 :
        /\ At(entries, cur.head, e) /\ next_ <= e
        /\ \A d \in next_..e - 1 : entries[d].start < h
        /\ h <= cur.head /\ cur \in [head : Int, tail : Int]
        /\ x = Writer => cur.tail = store.file.tail
  <2>1. PICK d \in 1..Len(entries) + 1 :
          /\ At(entries, store.cur[x].head, d) /\ next_ <= d
          /\ \A i \in next_..d - 1 : entries[i].start < h
    BY <1>1 DEF FileInv, CursorsPlaced, CursorPlaced
  <2>2. CASE h > store.cur[x].head
    <3>1. cur = store.file
      BY <1>1, <2>2 DEF File!UpToDate
    <3>2. PICK e \in 1..Len(entries) + 1 : At(entries, h, e)
      BY <1>1 DEF FileInv, FileHolds
    <3>3. store.cur[x].head \in Nat /\ store.cur[x].head <= h
      <4>1. store.cur[x].head \in Nat
        BY <1>2, <2>1, BeforeAndAfter
      <4> QED
        BY <1>2, <2>2, <4>1
    <3>4. d <= e
      BY <1>2, <2>1, <3>2, <3>3, AtOrdered
    <3>5. next_ <= e
      BY <1>2, <2>1, <3>4
    <3>6. ASSUME NEW i \in next_..e - 1 PROVE entries[i].start < h
      <4>1. i \in 1..Len(entries) /\ i < e
        BY <1>2
      <4> QED
        BY <1>2, <3>2, <4>1, BeforeAndAfter
    <3>7. h <= cur.head /\ cur \in [head : Int, tail : Int] /\ cur.head = h /\ cur.tail = store.file.tail
      BY <1>1, <1>2, <3>1
    <3> QED
      BY <3>2, <3>5, <3>6, <3>7
  <2>3. CASE ~(h > store.cur[x].head)
    <3>1. cur = store.cur[x]
      BY <1>1, <2>3 DEF File!UpToDate
    <3>2. h <= cur.head
      BY <1>2, <2>3, <3>1
    <3>3. x = Writer => cur.tail = store.file.tail
      BY <3>1 DEF FileInv, CursorsPlaced
    <3> QED
      BY <1>2, <2>1, <3>1, <3>2, <3>3
  <2> QED
    BY <2>2, <2>3
<1>4. ASSUME e <= Len(entries) PROVE e \in 1..Len(entries) /\ entries[e].start >= h
  <2>1. e \in 1..Len(entries)
    BY <1>2, <1>4
  <2>2. cur.head <= entries[e].start /\ cur.head \in Nat /\ entries[e].start \in Nat
    BY <1>2, <1>3, <2>1, BeforeAndAfter, EntryTyped
  <2> QED
    BY <1>2, <1>3, <2>1, <2>2
<1>5. ASSUME NEW f \in 1..Len(entries), f >= next_, entries[f].start >= h,
             \A d \in next_..f - 1 : entries[d].start < h
      PROVE  f = e
  <2>1. \A d \in 1..Len(entries) : entries[d].start \in Nat
    BY <1>2, EntryTyped
  <2>2. ~(f < e)
    <3> SUFFICES ASSUME f < e PROVE FALSE
      OBVIOUS
    <3>1. f \in next_..e - 1
      BY <1>2, <1>5
    <3> QED
      BY <1>2, <1>3, <1>5, <2>1, <3>1
  <2>3. ~(e < f)
    <3> SUFFICES ASSUME e < f PROVE FALSE
      OBVIOUS
    <3>1. e \in next_..f - 1 /\ e <= Len(entries) /\ e \in 1..Len(entries)
      BY <1>2, <1>3
    <3> QED
      BY <1>2, <1>4, <1>5, <2>1, <3>1
  <2> QED
    BY <1>2, <2>2, <2>3
<1>6. DOMAIN entries = 1..Len(entries)
  BY <1>2
<1>7. File!Due(x) = IF e <= Len(entries) THEN {e} ELSE {}
  <2>1. File!Due(x) = {f \in 1..Len(entries) : /\ f >= next_ /\ entries[f].start >= h
                                               /\ \A d \in next_..f - 1 : entries[d].start < h}
    BY <1>1, <1>6 DEF File!Due
  <2>2. e >= next_
    BY <1>2, <1>3
  <2>3. CASE e <= Len(entries)
    BY <1>3, <1>4, <1>5, <2>1, <2>2, <2>3
  <2>4. CASE ~(e <= Len(entries))
    <3>1. \A f \in 1..Len(entries) : f # e
      BY <1>2, <2>4
    <3> QED
      BY <1>5, <2>1, <2>4, <3>1
  <2> QED
    BY <2>3, <2>4
<1> QED
  BY <1>1, <1>3, <1>7

\* What read() does with an up to date cursor that is at an entry, or behind the last.
ReadMoves(x, cur, e) ==
    \/ /\ store' = [store EXCEPT !.cur[x] = cur, !.out = NoBuffer]
       /\ contents' = [contents EXCEPT !.out = NoBuffer]
    \/ /\ e <= Len(contents.entries)
       /\ store' = [store EXCEPT !.cur[x] = [cur EXCEPT !.head = EndOf(contents.entries, e)], !.out = {e}]
       /\ contents' = [contents EXCEPT !.out = {e}, !.next[x] = e + 1]

\* A read gives the entry that is due, or nothing when there is none, and goes behind it.
LEMMA ReadStep ==
  ASSUME File!FileAssumption, FileInv, NEW x \in File!Objects, File!Read(x),
         NEW cur, cur = File!UpToDate(x), NEW e \in 1..Len(contents.entries) + 1,
         At(contents.entries, cur.head, e), store.file.head <= cur.head,
         File!Due(x) = IF e <= Len(contents.entries) THEN {e} ELSE {}
  PROVE  ReadMoves(x, cur, e)
<1>1. PICK entries, cells, h, tail_, k :
        /\ entries = contents.entries /\ cells = store.cells /\ h = store.file.head
        /\ tail_ = store.file.tail /\ k = cur.head
  OBVIOUS
<1>2. /\ entries \in Seq(Entries) /\ LaidOut(entries) /\ h \in Nat /\ Len(entries) \in Nat
      /\ Holds(cells, entries, h) /\ tail_ = EndOf(entries, Len(entries)) /\ tail_ \in Nat
  <2>1. entries \in Seq(Entries) /\ h \in Nat
    BY <1>1 DEF FileInv, FileTyped
  <2>2. Len(entries) \in Nat /\ Len(entries) \in 0..Len(entries)
    BY <2>1, EntryTyped
  <2>3. EndOf(entries, Len(entries)) \in Nat
    BY <2>1, <2>2, EntryTyped
  <2> QED
    BY <1>1, <2>1, <2>2, <2>3 DEF FileInv, FileHolds
<1>3. At(entries, k, e) /\ h <= k /\ e \in 1..Len(entries) + 1
  BY <1>1
<1>4. k \in Nat /\ k <= tail_ /\ (k = tail_ <=> e = Len(entries) + 1)
  BY <1>2, <1>3, BeforeAndAfter
<1>5. CASE e = Len(entries) + 1
  <2>1. cur.head >= store.file.tail
    BY <1>1, <1>4, <1>5
  <2>2. File!Due(x) = {}
    BY <1>1, <1>2, <1>5
  <2>3. store' = [store EXCEPT !.cur[x] = cur, !.out = NoBuffer]
    BY <2>1 DEF File!Read
  <2>4. contents' = [contents EXCEPT !.out = NoBuffer]
    BY <2>2 DEF File!Read
  <2> QED
    BY <2>3, <2>4 DEF ReadMoves
<1>6. CASE e # Len(entries) + 1
  <2>1. e \in 1..Len(entries) /\ e <= Len(contents.entries) /\ e \in Nat
    BY <1>1, <1>2, <1>3, <1>6
  <2>2. PICK s \in Nat, n \in Nat, end \in Nat :
          /\ s = entries[e].start /\ n = entries[e].size /\ end = EndOf(entries, e)
          /\ n > 0 /\ end = s + Header + n /\ s < end /\ entries[e].start \in Nat
    BY <1>2, <2>1, EntryTyped
  <2>3. k <= s /\ h <= s /\ end <= tail_ /\ s < tail_ /\ k < tail_
    <3>1. k <= s
      BY <1>2, <1>3, <2>1, <2>2, BeforeAndAfter
    <3>2. end <= tail_
      BY <1>2, <2>1, <2>2, Stretches
    <3> QED
      BY <1>2, <1>3, <1>4, <2>2, <3>1, <3>2
  <2>4. Whole(cells, entries, e)
    BY <1>2, <2>1, <2>2, <2>3 DEF Holds
  <2>5. File!SizeAt(cells, s) = n
    BY <1>2, <2>1, <2>2, <2>4, SizeOfWhole
  <2>6. (IF File!SizeAt(cells, k) = 0 THEN k + File!ToEnd(k) ELSE k) = s
    <3>1. CASE k = s
      BY <2>2, <2>5, <3>1
    <3>2. CASE k # s
      <4>1. k = EndOf(entries, e - 1) /\ s = k + File!ToEnd(k)
        BY <1>2, <1>3, <2>1, <2>2, <3>2, NextEntry
      <4>2. Marked(cells, k)
        <5>1. EndOf(entries, e - 1) >= h /\ entries[e].start # EndOf(entries, e - 1)
          BY <1>2, <1>3, <1>4, <2>2, <3>2, <4>1
        <5> QED
          BY <1>2, <2>1, <4>1, <5>1 DEF Holds
      <4>3. File!SizeAt(cells, k) = 0
        BY <1>4, <4>2, SizeOfMark
      <4> QED
        BY <4>1, <4>3
    <3> QED
      BY <3>1, <3>2
  <2>7. File!EntryAt(cells, s) = {e}
    <3>1. contents.entries \in Seq(Entries) /\ LaidOut(contents.entries) /\ e \in 1..Len(contents.entries)
          /\ Whole(cells, contents.entries, e) /\ s = contents.entries[e].start
      BY <1>1, <1>2, <2>1, <2>2, <2>4
    <3> QED
      BY <3>1, OnlyEntry
  <2>8. ~(cur.head >= store.file.tail) /\ ~(s >= store.file.tail)
    BY <1>1, <1>2, <1>4, <2>2, <2>3
  <2>9. store' = [store EXCEPT !.cur[x] = [cur EXCEPT !.head = s + Header + n], !.out = {e}]
    <3> DEFINE hd == IF File!SizeAt(store.cells, cur.head) = 0 THEN cur.head + File!ToEnd(cur.head)
                     ELSE cur.head
    <3>1. hd = s
      BY <1>1, <2>6
    <3>2. File!SizeAt(store.cells, hd) = n /\ File!EntryAt(store.cells, hd) = {e}
      BY <1>1, <2>5, <2>7, <3>1
    <3>3. ~(hd >= store.file.tail)
      BY <2>8, <3>1
    <3>4. store' = [store EXCEPT !.cur[x] = [cur EXCEPT !.head = hd + Header + File!SizeAt(store.cells, hd)],
                                 !.out = File!EntryAt(store.cells, hd)]
      BY <2>8, <3>3 DEF File!Read
    <3> HIDE DEF hd
    <3> QED
      BY <3>1, <3>2, <3>4
  <2>10. s + Header + n = EndOf(contents.entries, e)
    BY <1>1, <2>2
  <2>11. contents' = [contents EXCEPT !.out = {e}, !.next[x] = e + 1]
    <3>1. File!Due(x) = {e} /\ {e} # {}
      BY <2>1
    <3>2. (CHOOSE d \in {e} : TRUE) = e
      OBVIOUS
    <3>3. contents' = [contents EXCEPT !.out = File!Due(x), !.next[x] = (CHOOSE d \in File!Due(x) : TRUE) + 1]
      BY <3>1 DEF File!Read
    <3> QED
      BY <3>1, <3>2, <3>3
  <2> QED
    BY <2>1, <2>9, <2>10, <2>11 DEF ReadMoves
<1> QED
  BY <1>5, <1>6

\* A step that reads keeps what the file holds.
LEMMA FileReadKeeps ==
  ASSUME File!FileAssumption, FileInv, NEW x \in File!Objects, File!Read(x)
  PROVE  FileInv'
<1>1. store.cur[x] # File!NoCursor
  BY DEF File!Read
<1>2. PICK cur : cur = File!UpToDate(x)
  OBVIOUS
<1>3. PICK e \in 1..Len(contents.entries) + 1 :
           /\ At(contents.entries, cur.head, e) /\ contents.next[x] <= e
           /\ \A d \in contents.next[x]..e - 1 : contents.entries[d].start < store.file.head
           /\ store.file.head <= cur.head
           /\ cur \in [head : Int, tail : Int]
           /\ x = Writer => cur.tail = store.file.tail
           /\ File!Due(x) = IF e <= Len(contents.entries) THEN {e} ELSE {}
  BY <1>1, <1>2, EntryDue
<1>4. /\ contents.entries \in Seq(Entries) /\ Len(contents.entries) \in Nat /\ LaidOut(contents.entries)
      /\ contents.next \in [File!Objects -> Nat \ {0}] /\ store.file.head \in Nat
      /\ contents = [entries |-> contents.entries, next |-> contents.next, out |-> contents.out]
  BY EntryTyped DEF FileInv, FileTyped, FileHolds
<1>5. CASE /\ store' = [store EXCEPT !.cur[x] = cur, !.out = NoBuffer]
           /\ contents' = [contents EXCEPT !.out = NoBuffer]
  <2>1. PICK m \in Nat \ {0} : m = contents.next[x]
    BY <1>4
  <2>2. contents' = [contents EXCEPT !.next[x] = m, !.out = NoBuffer]
    <3>1. [contents.next EXCEPT ![x] = m] = contents.next
      BY <1>4, <2>1
    <3> QED
      BY <1>4, <1>5, <3>1
  <2>3. store.file.head <= cur.head => cur.head >= store.file.head
    BY <1>3, <1>4
  <2>4. \E i \in 1..Len(contents.entries) + 1 :
            /\ At(contents.entries, cur.head, i) /\ m <= i
            /\ \A d \in m..i - 1 : contents.entries[d].start < store.file.head
    BY <1>3, <2>1
  <2>5. x = Writer => contents.next[x] <= m
    BY <2>1
  <2> QED
    BY <1>3, <1>5, <2>2, <2>3, <2>4, <2>5, ObjectMoves
<1>6. CASE /\ e <= Len(contents.entries)
           /\ store' = [store EXCEPT !.cur[x] = [cur EXCEPT !.head = EndOf(contents.entries, e)], !.out = {e}]
           /\ contents' = [contents EXCEPT !.out = {e}, !.next[x] = e + 1]
  <2>1. e \in 1..Len(contents.entries) /\ e + 1 \in 1..Len(contents.entries) + 1 /\ e + 1 \in Nat \ {0}
        /\ e \in Nat
    BY <1>4, <1>6
  <2>2. PICK c : c = [cur EXCEPT !.head = EndOf(contents.entries, e)]
    OBVIOUS
  <2>3. EndOf(contents.entries, e) \in Nat
    BY <1>4, <2>1, EntryTyped
  <2>4. c.head = EndOf(contents.entries, e) /\ c.tail = cur.tail /\ c \in [head : Int, tail : Int]
    BY <1>3, <2>2, <2>3
  <2>5. At(contents.entries, c.head, e + 1)
    BY <2>1, <2>4 DEF At
  <2>6. \A d \in e + 1..(e + 1) - 1 : contents.entries[d].start < store.file.head
    BY <2>1
  <2>7. c.head >= store.file.head
    <3>1. cur.head \in Nat /\ cur.head <= contents.entries[e].start
      BY <1>3, <1>4, <2>1, BeforeAndAfter
    <3>2. contents.entries[e].start < EndOf(contents.entries, e) /\ contents.entries[e].start \in Nat
      BY <1>4, <2>1, EntryTyped
    <3> QED
      BY <1>3, <1>4, <2>3, <2>4, <3>1, <3>2
  <2>8. contents.next[x] <= e + 1
    BY <1>3, <1>4, <2>1
  <2>9. /\ store' = [store EXCEPT !.cur[x] = c, !.out = {e}]
        /\ contents' = [contents EXCEPT !.next[x] = e + 1, !.out = {e}]
    BY <1>4, <1>6, <2>2
  <2>10. \E i \in 1..Len(contents.entries) + 1 :
            /\ At(contents.entries, c.head, i) /\ e + 1 <= i
            /\ \A d \in e + 1..i - 1 : contents.entries[d].start < store.file.head
    BY <2>1, <2>5, <2>6
  <2>11. x = Writer => c.tail = store.file.tail
    BY <1>3, <2>4
  <2> QED
    BY <2>1, <2>4, <2>7, <2>8, <2>9, <2>10, <2>11, ObjectMoves
<1>7. ReadMoves(x, cur, e)
  BY <1>2, <1>3, ReadStep
<1> QED
  BY <1>5, <1>6, <1>7 DEF ReadMoves

\* An empty file.
LEMMA NoEntries ==
  ASSUME File!FileAssumption, NEW cells
  PROVE  /\ <<>> \in Seq(Entries) /\ Len(<<>>) = 0 /\ LaidOut(<<>>) /\ EndOf(<<>>, Len(<<>>)) = 0
         /\ At(<<>>, 0, 1) /\ 1 \in 1..Len(<<>>) + 1 /\ Holds(cells, <<>>, 0)
         /\ MapSize \in Nat /\ 0 < MapSize
BY DEF LaidOut, EndOf, At, Holds, File!FileAssumption

\* A file that is opened for writing is empty.
LEMMA FileStarts ==
  ASSUME File!FileAssumption, File!Init
  PROVE  FileInv
<1>1. /\ store = [cells |-> store.cells, file |-> store.file, cur |-> store.cur, out |-> store.out]
      /\ contents = [entries |-> contents.entries, next |-> contents.next, out |-> contents.out]
      /\ store.file = [head |-> 0, tail |-> 0]
      /\ store.cur = [x \in File!Objects |-> IF x = Writer THEN [head |-> 0, tail |-> 0]
                                             ELSE [head |-> -1, tail |-> -1]]
      /\ store.out = NoBuffer /\ contents.out = NoBuffer
      /\ contents.entries = <<>> /\ contents.next = [x \in File!Objects |-> 1]
  BY DEF File!Init, File!Cursor, File!NoCursor
<1>2. FileTyped
  <2>1. [head |-> 0, tail |-> 0] \in [head : Nat, tail : Nat]
        /\ [head |-> 0, tail |-> 0] \in [head : Int, tail : Int]
        /\ [head |-> -1, tail |-> -1] \in [head : Int, tail : Int] /\ 1 \in Nat \ {0}
    OBVIOUS
  <2>2. /\ store.cur \in [File!Objects -> [head : Int, tail : Int]]
        /\ contents.next \in [File!Objects -> Nat \ {0}]
    BY <1>1, <2>1
  <2>3. contents.entries \in Seq(Entries) /\ store.file \in [head : Nat, tail : Nat]
    BY <1>1, <2>1, NoEntries
  <2> QED
    BY <1>1, <2>2, <2>3 DEF FileTyped
<1>3. FileHolds
  <2>1. store.file.head = 0 /\ store.file.tail = 0 /\ 0 - 0 < MapSize
    BY <1>1, NoEntries
  <2> QED
    BY <1>1, <2>1, NoEntries DEF FileHolds
<1>4. CursorsPlaced
  <2>1. ASSUME NEW x \in File!Objects, store.cur[x] # File!NoCursor PROVE CursorPlaced(x)
    <3>1. store.cur[x] = [head |-> 0, tail |-> 0] /\ contents.next[x] = 1
      BY <1>1, <2>1 DEF File!NoCursor, File!Cursor
    <3>2. \A d \in contents.next[x]..1 - 1 : FALSE
      BY <3>1
    <3>3. At(contents.entries, store.cur[x].head, 1) /\ 1 \in 1..Len(contents.entries) + 1
          /\ contents.next[x] <= 1
      BY <1>1, <3>1, NoEntries
    <3> QED
      BY <3>2, <3>3 DEF CursorPlaced
  <2>2. store.cur[Writer].tail = store.file.tail /\ store.cur[Writer].head >= store.file.head
    <3>1. store.cur[Writer] = [head |-> 0, tail |-> 0]
      BY <1>1 DEF File!Objects
    <3> QED
      BY <1>1, <3>1
  <2> QED
    BY <2>1, <2>2 DEF CursorsPlaced
<1>5. DroppedForRoom
  BY <1>1, NoEntries DEF DroppedForRoom
<1>6. File!ReadsDue
  BY <1>1 DEF File!ReadsDue
<1> QED
  BY <1>2, <1>3, <1>4, <1>5, <1>6 DEF FileInv

\* Opening the file for writing empties it.
LEMMA OpenWriterKeeps ==
  ASSUME File!FileAssumption, FileInv, File!OpenWriter
  PROVE  FileInv'
<1>1. /\ store' = [cells |-> store'.cells, file |-> store'.file, cur |-> store'.cur, out |-> store'.out]
      /\ contents' = [entries |-> contents'.entries, next |-> contents'.next, out |-> contents'.out]
      /\ store'.file = [head |-> 0, tail |-> 0]
      /\ store'.cur = [store.cur EXCEPT ![Writer] = [head |-> 0, tail |-> 0]]
      /\ store'.out = NoBuffer /\ contents'.out = NoBuffer
      /\ contents'.entries = <<>> /\ contents'.next = [x \in File!Objects |-> 1]
  <2>1. store = [cells |-> store.cells, file |-> store.file, cur |-> store.cur, out |-> store.out]
    BY DEF FileInv, FileTyped
  <2>2. store' = [cells |-> File!Zeros, file |-> [head |-> 0, tail |-> 0],
                  cur |-> [store.cur EXCEPT ![Writer] = [head |-> 0, tail |-> 0]], out |-> NoBuffer]
    BY <2>1 DEF File!OpenWriter, File!Cursor
  <2>3. contents' = [entries |-> <<>>, next |-> [x \in File!Objects |-> 1], out |-> NoBuffer]
    BY DEF File!OpenWriter
  <2> QED
    BY <2>2, <2>3
<1>7. /\ store.cur \in [File!Objects -> [head : Int, tail : Int]] /\ Writer \in File!Objects
      /\ \A x \in File!Objects : store.cur[x] = File!NoCursor
  BY DEF FileInv, FileTyped, File!Objects, File!OpenWriter
<1>2. FileTyped'
  <2>1. [head |-> 0, tail |-> 0] \in [head : Nat, tail : Nat]
        /\ [head |-> 0, tail |-> 0] \in [head : Int, tail : Int]
        /\ 1 \in Nat \ {0}
    OBVIOUS
  <2>2. /\ store'.cur \in [File!Objects -> [head : Int, tail : Int]]
        /\ contents'.next \in [File!Objects -> Nat \ {0}]
    BY <1>1, <1>7, <2>1
  <2>3. contents'.entries \in Seq(Entries) /\ store'.file \in [head : Nat, tail : Nat]
    BY <1>1, <2>1, NoEntries
  <2> QED
    BY <1>1, <2>2, <2>3 DEF FileTyped
<1>3. FileHolds'
  <2>1. store'.file.head = 0 /\ store'.file.tail = 0 /\ 0 - 0 < MapSize
    BY <1>1, NoEntries
  <2> QED
    BY <1>1, <2>1, NoEntries DEF FileHolds
<1>4. CursorsPlaced'
  <2>1. ASSUME NEW x \in File!Objects, store'.cur[x] # File!NoCursor PROVE CursorPlaced(x)'
    <3>1. store'.cur[x] = [head |-> 0, tail |-> 0] /\ contents'.next[x] = 1
      BY <1>1, <1>7, <2>1
    <3>2. \A d \in contents'.next[x]..1 - 1 : FALSE
      BY <3>1
    <3>3. At(contents'.entries, store'.cur[x].head, 1) /\ 1 \in 1..Len(contents'.entries) + 1
          /\ contents'.next[x] <= 1
      BY <1>1, <3>1, NoEntries
    <3> QED
      BY <3>2, <3>3 DEF CursorPlaced
  <2>2. store'.cur[Writer].tail = store'.file.tail /\ store'.cur[Writer].head >= store'.file.head
    <3>1. store'.cur[Writer] = [head |-> 0, tail |-> 0]
      BY <1>1, <1>7
    <3> QED
      BY <1>1, <3>1
  <2> QED
    BY <2>1, <2>2 DEF CursorsPlaced
<1>5. DroppedForRoom'
  BY <1>1, NoEntries DEF DroppedForRoom
<1>6. File!ReadsDue'
  BY <1>1 DEF File!ReadsDue
<1> QED
  BY <1>2, <1>3, <1>4, <1>5, <1>6 DEF FileInv

\* A reader that opens the file begins at the oldest entry, and one that closes it forgets.
LEMMA OpenKeeps ==
  ASSUME File!FileAssumption, FileInv, NEW x \in File!Objects, File!Open(x) \/ File!Close(x)
  PROVE  FileInv'
<1>1. /\ contents.entries \in Seq(Entries) /\ LaidOut(contents.entries) /\ Len(contents.entries) \in Nat
      /\ contents.next \in [File!Objects -> Nat \ {0}] /\ store.file \in [head : Nat, tail : Nat]
      /\ contents = [entries |-> contents.entries, next |-> contents.next, out |-> contents.out]
  BY EntryTyped DEF FileInv, FileTyped, FileHolds
<1>2. CASE File!Open(x)
  <2>1. x # Writer
    BY <1>2 DEF File!Open, File!FileAssumption
  <2>2. PICK e \in 1..Len(contents.entries) + 1 : At(contents.entries, store.file.head, e)
    BY DEF FileInv, FileHolds
  <2>3. ASSUME NEW d \in 1..e - 1 PROVE contents.entries[d].start < store.file.head
    <3>1. d \in 1..Len(contents.entries) /\ d < e
      BY <1>1
    <3> QED
      BY <1>1, <2>2, <3>1, BeforeAndAfter
  <2>4. store.file \in [head : Int, tail : Int] /\ 1 \in Nat \ {0} /\ 1 <= e
    BY <1>1
  <2>5. /\ store' = [store EXCEPT !.cur[x] = store.file, !.out = NoBuffer]
        /\ contents' = [contents EXCEPT !.next[x] = 1, !.out = NoBuffer]
    BY <1>2 DEF File!Open
  <2>6. \E i \in 1..Len(contents.entries) + 1 :
            /\ At(contents.entries, store.file.head, i) /\ 1 <= i
            /\ \A d \in 1..i - 1 : contents.entries[d].start < store.file.head
    BY <2>2, <2>3, <2>4
  <2> QED
    BY <2>1, <2>4, <2>5, <2>6, ObjectMoves
<1>3. CASE File!Close(x)
  <2>1. PICK m \in Nat \ {0} : m = contents.next[x]
    BY <1>1
  <2>2. File!NoCursor \in [head : Int, tail : Int]
    BY DEF File!NoCursor, File!Cursor
  <2>3. contents' = [contents EXCEPT !.next[x] = m, !.out = NoBuffer]
    <3>1. [contents.next EXCEPT ![x] = m] = contents.next
      BY <1>1, <2>1
    <3>2. contents' = [contents EXCEPT !.out = NoBuffer]
      BY <1>3 DEF File!Close
    <3> QED
      BY <1>1, <3>1, <3>2
  <2>4. store' = [store EXCEPT !.cur[x] = File!NoCursor, !.out = NoBuffer]
    BY <1>3 DEF File!Close
  <2>5. contents.next[x] <= m
    BY <2>1
  <2> QED
    BY <2>2, <2>3, <2>4, <2>5, ObjectMoves
<1> QED
  BY <1>2, <1>3

\* Every step keeps what the file holds.
LEMMA FileKeeps ==
  ASSUME File!FileAssumption, FileInv, [File!Next]_others
  PROVE  FileInv'
<1>1. ASSUME NEW n \in Sizes, store.cur[Writer] # File!NoCursor, File!Write(n) PROVE FileInv'
  BY <1>1, WriteKeeps
<1>2. ASSUME NEW x \in File!Objects, File!Read(x) PROVE FileInv'
  BY <1>2, FileReadKeeps
<1>3. ASSUME NEW x \in File!Objects, File!Open(x) \/ File!Close(x) PROVE FileInv'
  BY <1>3, OpenKeeps
<1>4. CASE File!OpenWriter
  BY <1>4, OpenWriterKeeps
<1>5. CASE UNCHANGED others
  <2>1. store' = store /\ contents' = contents
    BY <1>5 DEF others
  <2> QED
    BY <2>1 DEF FileInv, FileTyped, FileHolds, CursorsPlaced, CursorPlaced, DroppedForRoom, File!ReadsDue
<1> QED
  BY <1>1, <1>2, <1>3, <1>4, <1>5 DEF File!Next

\* No size is above the largest.
LEMMA LargestSize ==
  ASSUME File!FileAssumption, NEW n \in Sizes
  PROVE  File!Max(Sizes) \in Sizes /\ n <= File!Max(Sizes)
<1>1. MapSize \in Nat /\ \A y \in Sizes : y \in Nat /\ y > 0 /\ y <= MapSize
  <2> SUFFICES ASSUME NEW y \in Sizes PROVE MapSize \in Nat /\ y \in Nat /\ y > 0 /\ y <= MapSize
    BY DEF File!FileAssumption
  <2>1. Padding \in Nat /\ MapSize \in Nat /\ Header \in Nat /\ y \in Nat /\ y > 0
    BY DEF File!FileAssumption
  <2>2. Padding + 2 * (Header + y) <= MapSize
    BY DEF File!FileAssumption
  <2> QED
    BY <2>1, <2>2
<1> DEFINE S == {k \in Nat : \E x \in Sizes : \A y \in Sizes : y <= k => y <= x}
<1>2. 0 \in S
  <2>1. \A y \in Sizes : ~(y <= 0)
    BY <1>1
  <2> QED
    BY <2>1
<1>3. ASSUME NEW k \in 0..MapSize - 1, k \in S PROVE k + 1 \in S
  <2>1. PICK x \in Sizes : \A y \in Sizes : y <= k => y <= x
    BY <1>3
  <2>2. k \in Nat /\ k + 1 \in Nat /\ \A y \in Sizes : y <= k + 1 => y <= k \/ y = k + 1
    BY <1>1
  <2>3. CASE k + 1 \in Sizes
    <3>1. \A y \in Sizes : y <= k + 1 => y <= k + 1
      OBVIOUS
    <3> QED
      BY <2>2, <2>3, <3>1
  <2>4. CASE k + 1 \notin Sizes
    <3>1. \A y \in Sizes : y <= k + 1 => y <= x
      BY <2>1, <2>2, <2>4
    <3> QED
      BY <2>2, <3>1
  <2> QED
    BY <2>3, <2>4
<1>4. 0..MapSize \subseteq S
  <2> HIDE DEF S
  <2> QED
    BY <1>1, <1>2, <1>3, UpTo
<1>5. MapSize \in S
  BY <1>1, <1>4
<1>6. PICK x \in Sizes : \A y \in Sizes : x >= y
  BY <1>1, <1>5
<1>7. File!Max(Sizes) \in Sizes /\ \A y \in Sizes : File!Max(Sizes) >= y
  BY <1>6 DEF File!Max
<1> QED
  BY <1>1, <1>7

\* What the reads give and what the writer keeps follows.
LEMMA FileExact ==
  ASSUME File!FileAssumption, FileInv
  PROVE  File!ReadsDue /\ File!KeptWhole
<1>1. File!ReadsDue
  BY DEF FileInv
<1>2. PICK entries, cells, h, tail_ :
        /\ entries = contents.entries /\ cells = store.cells /\ h = store.file.head
        /\ tail_ = store.file.tail
  OBVIOUS
<1>3. /\ entries \in Seq(Entries) /\ LaidOut(entries) /\ Holds(cells, entries, h) /\ tail_ \in Nat
      /\ h \in Nat /\ DOMAIN entries = 1..Len(entries)
  BY <1>2 DEF FileInv, FileTyped, FileHolds
<1>4. ASSUME NEW e \in 1..Len(entries), entries[e].start >= h
      PROVE  e \in File!EntryAt(cells, entries[e].start)
  <2>1. Whole(cells, entries, e)
    BY <1>3, <1>4 DEF Holds
  <2>2. contents.entries \in Seq(Entries) /\ LaidOut(contents.entries) /\ e \in 1..Len(contents.entries)
        /\ Whole(cells, contents.entries, e)
    BY <1>2, <1>3, <2>1
  <2>3. File!EntryAt(cells, contents.entries[e].start) = {e}
    BY <2>2, OnlyEntry
  <2> QED
    BY <1>2, <2>3
<1>5. ASSUME NEW e \in 1..Len(entries), e >= contents.next[Writer],
             tail_ - entries[e].start <= MapSize - Padding - Header - File!Max(Sizes)
      PROVE  entries[e].start >= h
  <2>1. PICK s \in Nat : s = entries[e].start
    BY <1>3, EntryTyped
  <2> SUFFICES ASSUME s < h PROVE FALSE
    BY <1>3, <2>1
  <2>2. PICK n \in Sizes : tail_ - s + Padding + Header + n > MapSize
    BY <1>2, <1>5, <2>1 DEF FileInv, DroppedForRoom
  <2>3. PICK m \in Nat : m = File!Max(Sizes) /\ n <= m /\ n \in Nat
    BY LargestSize DEF File!FileAssumption
  <2>4. tail_ - s <= MapSize - Padding - Header - m
    BY <1>5, <2>1, <2>3
  <2>5. Padding \in Nat /\ Header \in Nat /\ MapSize \in Nat
    BY DEF File!FileAssumption
  <2> QED
    BY <1>3, <2>2, <2>3, <2>4, <2>5
<1>6. File!KeptWhole
  BY <1>2, <1>3, <1>4, <1>5 DEF File!KeptWhole
<1> QED
  BY <1>1, <1>6

FileStays == which = "file" => FileInv

\* What the ring file holds stays so throughout.
LEMMA FileInvariance == AnySpec => []FileStays
<1>1. AnyInit => FileStays
  BY PartsAssumption, FileStarts DEF AnyInit, FileStays
<1>2. ASSUME FileStays, [AnyNext]_allVars PROVE FileStays'
  <2>1. which' = which /\ (which = "file" => [File!Next]_others)
    BY <1>2 DEF AnyNext, allVars, others
  <2>2. ASSUME which = "file" PROVE FileInv'
    BY <1>2, <2>1, <2>2, FileKeeps, PartsAssumption DEF FileStays
  <2> QED
    BY <2>1, <2>2 DEF FileStays
<1> QED
  BY <1>1, <1>2, PTL DEF AnySpec

\* For maps and entries of any sizes, any padding and any number of readers: each read
\* gives the entry that is due, whole, and what the writer still counts as kept lies
\* whole in the file.
THEOREM RingFileIsExact == AnySpec => []RingFileExact
<1>1. FileStays => RingFileExact
  BY FileExact, PartsAssumption DEF FileStays, RingFileExact
<1> QED
  BY <1>1, FileInvariance, PTL
=============================================================================
