------------------------ MODULE SequentialParts_proofs ------------------------
(***************************************************************************)
(* The parts that one thread uses, for every value of the constants: pools *)
(* and handles of any number, vectors of any capacity, results and unions  *)
(* of any payloads, copies of any length, work of any layout.              *)
(***************************************************************************)
EXTENDS RingBuffer_proofs, FunctionTheorems

----------------------------------------------------------------------------
(* resource_pool *)

\* A function that is injective on a finite set has as many values there.
LEMMA InjectiveImage ==
  ASSUME NEW S, IsFiniteSet(S), NEW f, \A x, y \in S : f[x] = f[y] => x = y
  PROVE  IsFiniteSet({f[x] : x \in S}) /\ Cardinality({f[x] : x \in S}) = Cardinality(S)
<1> DEFINE T == {f[x] : x \in S}
           g == [x \in S |-> f[x]]
<1>1. g \in Bijection(S, T)
  BY DEF Bijection, Injection, Surjection, IsInjective
<1> QED
  BY <1>1, FS_Bijection DEF ExistsBijection

Has(s, r) == \E i \in 1..Len(s) : r = s[i]

\* What is in a sequence without its head, and with one appended.
LEMMA TailHas ==
  ASSUME NEW S, NEW s \in Seq(S), s # <<>>
  PROVE  /\ Len(s) \in Nat \ {0} /\ Head(s) = s[1] /\ s[1] \in S
         /\ Tail(s) \in Seq(S) /\ Len(Tail(s)) = Len(s) - 1
         /\ \A i \in 1..Len(s) - 1 : Tail(s)[i] = s[i + 1]
         /\ \A r : Has(s, r) <=> r = s[1] \/ Has(Tail(s), r)
<1>1. /\ Len(s) \in Nat \ {0} /\ Head(s) = s[1] /\ s[1] \in S
      /\ Tail(s) \in Seq(S) /\ Len(Tail(s)) = Len(s) - 1
      /\ \A i \in 1..Len(s) - 1 : Tail(s)[i] = s[i + 1]
  BY HeadTailProperties, LenProperties, EmptySeq
<1>2. \A i \in 2..Len(s) : i - 1 \in 1..Len(s) - 1 /\ Tail(s)[i - 1] = s[i]
  BY <1>1
<1>3. \A i \in 1..Len(s) - 1 : i + 1 \in 1..Len(s)
  BY <1>1
<1>4. 1 \in 1..Len(s) /\ \A i \in 1..Len(s) : i = 1 \/ i \in 2..Len(s)
  BY <1>1
<1> QED
  BY <1>1, <1>2, <1>3, <1>4 DEF Has

\* What is in a sequence to which an element is appended.
LEMMA AppendHas ==
  ASSUME NEW S, NEW s \in Seq(S), NEW e \in S
  PROVE  /\ Append(s, e) \in Seq(S) /\ Len(Append(s, e)) = Len(s) + 1 /\ Len(s) \in Nat
         /\ \A i \in 1..Len(s) : Append(s, e)[i] = s[i]
         /\ Append(s, e)[Len(s) + 1] = e
         /\ \A r : Has(Append(s, e), r) <=> r = e \/ Has(s, r)
<1>1. /\ Append(s, e) \in Seq(S) /\ Len(Append(s, e)) = Len(s) + 1 /\ Len(s) \in Nat
      /\ \A i \in 1..Len(s) : Append(s, e)[i] = s[i]
      /\ Append(s, e)[Len(s) + 1] = e
  BY AppendProperties, LenProperties
<1>2. \A i \in 1..Len(s) + 1 : i = Len(s) + 1 \/ i \in 1..Len(s)
  BY <1>1
<1>3. Len(s) + 1 \in 1..Len(s) + 1 /\ \A i \in 1..Len(s) : i \in 1..Len(s) + 1
  BY <1>1
<1> QED
  BY <1>1, <1>2, <1>3 DEF Has

\* The pool's own copies of the operators on finite sets are those of the theorems.
LEMMA PoolFinite ==
  ASSUME NEW S PROVE Pool!Cardinality(S) = Cardinality(S) /\ (Pool!IsFiniteSet(S) => IsFiniteSet(S))
BY DEF Pool!Cardinality, Cardinality, Pool!IsFiniteSet, IsFiniteSet

PoolHeld == {h \in Handles : store.handle[h] # Null}

PoolTyped ==
    /\ store \in [ready : Seq(1..MaxMade), handle : [Handles -> 1..MaxMade \cup {Null}], made : 0..MaxMade]
    /\ \A i \in 1..Len(store.ready) : store.ready[i] <= store.made
    /\ \A h \in PoolHeld : store.handle[h] <= store.made

\* No resource is in two places.
PoolApart ==
    /\ \A i, j \in 1..Len(store.ready) : store.ready[i] = store.ready[j] => i = j
    /\ \A g, h \in PoolHeld : store.handle[g] = store.handle[h] => g = h
    /\ \A h \in PoolHeld, i \in 1..Len(store.ready) : store.handle[h] # store.ready[i]

PoolAlive == \A r : r \in contents <=> Has(store.ready, r) \/ \E h \in PoolHeld : r = store.handle[h]

PoolInv == PoolTyped /\ PoolApart /\ PoolAlive

\* The constructor's resources are alive, and each is in the queue once.
LEMMA PoolStarts ==
  ASSUME Pool!PoolAssumption, Pool!Init PROVE PoolInv
<1>1. /\ store.ready = [i \in 1..InitSize |-> i] /\ store.handle = [h \in Handles |-> Null]
      /\ store = [ready |-> store.ready, handle |-> store.handle, made |-> InitSize]
      /\ contents = 1..InitSize /\ PoolHeld = {}
  BY DEF Pool!Init, PoolHeld
<1>2. store.ready \in Seq(1..MaxMade) /\ Len(store.ready) = InitSize
  BY <1>1 DEF Pool!PoolAssumption
<1>3. store.handle \in [Handles -> 1..MaxMade \cup {Null}] /\ InitSize \in 0..MaxMade
  BY <1>1 DEF Pool!PoolAssumption
<1>4. PoolTyped
  BY <1>1, <1>2, <1>3 DEF PoolTyped
<1>5. PoolApart
  BY <1>1, <1>2 DEF PoolApart
<1>6. PoolAlive
  <2>1. \A r : Has(store.ready, r) <=> \E i \in 1..InitSize : r = i
    BY <1>1, <1>2 DEF Has
  <2> QED
    BY <1>1, <2>1 DEF PoolAlive
<1> QED
  BY <1>4, <1>5, <1>6 DEF PoolInv

\* get takes the first that is ready; what the caller had is dropped.
LEMMA PoolGivesReady ==
  ASSUME Pool!PoolAssumption, PoolInv, NEW h \in Handles, Pool!GetReady(h)
  PROVE  PoolInv'
<1>1. /\ store.ready \in Seq(1..MaxMade) /\ store.handle \in [Handles -> 1..MaxMade \cup {Null}]
      /\ store.made \in 0..MaxMade /\ Null \notin 1..MaxMade /\ store.ready # <<>> /\ MaxMade \in Nat
  BY DEF PoolInv, PoolTyped, Pool!PoolAssumption, Pool!GetReady
<1>2. /\ store'.ready = Tail(store.ready) /\ store'.handle = [store.handle EXCEPT ![h] = Head(store.ready)]
      /\ store'.made = store.made
      /\ store' = [ready |-> store'.ready, handle |-> store'.handle, made |-> store'.made]
      /\ contents' = contents \ ({store.handle[h]} \ {Null})
  BY DEF Pool!GetReady, Pool!Dropped, PoolInv, PoolTyped
<1> DEFINE n == Len(store.ready)
<1>3. /\ store'.ready \in Seq(1..MaxMade) /\ Len(store'.ready) = n - 1 /\ n \in Nat \ {0}
      /\ \A i \in 1..n - 1 : store'.ready[i] = store.ready[i + 1]
      /\ Head(store.ready) = store.ready[1] /\ store.ready[1] \in 1..MaxMade
      /\ \A r : Has(store.ready, r) <=> r = store.ready[1] \/ Has(store'.ready, r)
  <2>1. /\ n \in Nat \ {0} /\ Head(store.ready) = store.ready[1] /\ store.ready[1] \in 1..MaxMade
        /\ Tail(store.ready) \in Seq(1..MaxMade) /\ Len(Tail(store.ready)) = n - 1
        /\ \A i \in 1..n - 1 : Tail(store.ready)[i] = store.ready[i + 1]
        /\ \A r : Has(store.ready, r) <=> r = store.ready[1] \/ Has(Tail(store.ready), r)
    BY <1>1, TailHas
  <2> QED
    BY <1>2, <2>1
<1>4. /\ store'.handle[h] = store.ready[1] /\ PoolHeld' = PoolHeld \cup {h}
      /\ \A g \in Handles \ {h} : store'.handle[g] = store.handle[g]
      /\ \A g \in PoolHeld : g \in Handles
  BY <1>1, <1>2, <1>3 DEF PoolHeld
<1> HIDE DEF n
<1>5. n = Len(store.ready)
  BY DEF n
<1>6. PoolTyped'
  <2>1. store'.handle \in [Handles -> 1..MaxMade \cup {Null}]
    BY <1>1, <1>2, <1>3
  <2>2. \A i \in 1..n - 1 : i + 1 \in 1..n
    BY <1>3
  <2>3. /\ \A i \in 1..Len(store'.ready) : store'.ready[i] <= store'.made
        /\ \A g \in PoolHeld' : store'.handle[g] <= store'.made
    BY <1>2, <1>3, <1>4, <1>5, <2>2 DEF PoolTyped, PoolInv
  <2> QED
    BY <1>1, <1>2, <1>3, <2>1, <2>3 DEF PoolTyped
<1>7. PoolApart'
  BY <1>3, <1>4, <1>5 DEF PoolApart, PoolInv
<1>8. PoolAlive'
  <2> SUFFICES ASSUME NEW r
               PROVE  r \in contents' <=> Has(store'.ready, r) \/ \E g \in PoolHeld' : r = store'.handle[g]
    BY DEF PoolAlive
  <2>1. (\E g \in PoolHeld' : r = store'.handle[g])
          <=> r = store.ready[1] \/ \E g \in PoolHeld \ {h} : r = store.handle[g]
    BY <1>4
  <2>2. r \in contents' <=> r \in contents /\ ~(h \in PoolHeld /\ r = store.handle[h])
    BY <1>2 DEF PoolHeld
  <2>3. r \in contents <=> Has(store.ready, r) \/ \E g \in PoolHeld : r = store.handle[g]
    BY DEF PoolInv, PoolAlive
  <2>4. h \in PoolHeld => /\ ~Has(store'.ready, store.handle[h]) /\ store.handle[h] # store.ready[1]
                           /\ \A g \in PoolHeld \ {h} : store.handle[g] # store.handle[h]
    BY <1>3, <1>5 DEF PoolInv, PoolApart, Has
  <2>5. ~Has(store'.ready, store.ready[1])
    BY <1>3, <1>5 DEF PoolInv, PoolApart, Has
  <2> QED
    BY <2>5, <2>1, <2>2, <2>3, <2>4, <1>3
<1> QED
  BY <1>6, <1>7, <1>8 DEF PoolInv

\* get of an empty queue has the factory make one, or leaves the caller with none.
LEMMA PoolMakes ==
  ASSUME Pool!PoolAssumption, PoolInv, NEW h \in Handles, Pool!GetMade(h)
  PROVE  PoolInv'
<1>1. /\ store.ready = <<>> /\ store.handle \in [Handles -> 1..MaxMade \cup {Null}]
      /\ store.made \in 0..MaxMade /\ Null \notin 1..MaxMade /\ MaxMade \in Nat /\ Len(store.ready) = 0
  BY DEF PoolInv, PoolTyped, Pool!PoolAssumption, Pool!GetMade
<1> DEFINE made == store.made + 1
<1>2. CASE store.made = MaxMade
  <2>1. /\ store'.ready = <<>> /\ store'.handle = [store.handle EXCEPT ![h] = Null] /\ store'.made = store.made
        /\ store' = [ready |-> store'.ready, handle |-> store'.handle, made |-> store'.made]
    BY <1>1, <1>2 DEF Pool!GetMade, PoolInv, PoolTyped
  <2>2. contents' = contents \ ({store.handle[h]} \ {Null})
    BY <1>1, <2>1 DEF Pool!GetMade, Pool!Dropped
  <2>3. PoolHeld' = PoolHeld \ {h} /\ \A g \in PoolHeld \ {h} : store'.handle[g] = store.handle[g]
    BY <1>1, <2>1 DEF PoolHeld
  <2>4. PoolTyped' /\ PoolApart'
    BY <1>1, <2>1, <2>3 DEF PoolInv, PoolTyped, PoolApart
  <2>5. PoolAlive'
    <3>1. \A r : r \in contents' <=> r \in contents /\ ~(h \in PoolHeld /\ r = store.handle[h])
      BY <2>2 DEF PoolHeld
    <3>2. \A r : ~Has(store.ready, r)
      BY <1>1 DEF Has
    <3> QED
      BY <1>1, <2>1, <2>3, <3>1, <3>2 DEF PoolInv, PoolAlive, PoolApart
  <2> QED
    BY <2>4, <2>5 DEF PoolInv
<1>3. CASE store.made # MaxMade
  <2>1. /\ store'.ready = <<>> /\ store'.handle = [store.handle EXCEPT ![h] = made] /\ store'.made = made
        /\ store' = [ready |-> store'.ready, handle |-> store'.handle, made |-> store'.made]
        /\ made \in 1..MaxMade /\ made # Null
    <3>1. made \in 1..MaxMade /\ made # Null
      BY <1>1, <1>3
    <3> QED
      BY <1>1, <1>3, <3>1 DEF Pool!GetMade, PoolInv, PoolTyped
  <2>2. contents' = (contents \ ({store.handle[h]} \ {Null})) \cup {made}
    <3>1. 1..store'.made \ 1..store.made = {made}
      BY <1>1, <2>1
    <3> QED
      BY <3>1 DEF Pool!GetMade, Pool!Dropped
  <2>3. PoolHeld' = PoolHeld \cup {h} /\ store'.handle[h] = made
        /\ \A g \in PoolHeld \ {h} : store'.handle[g] = store.handle[g]
    BY <1>1, <2>1 DEF PoolHeld
  <2>4. \A g \in PoolHeld : store.handle[g] # made /\ store.handle[g] <= made
    BY <1>1 DEF PoolInv, PoolTyped, PoolHeld
  <2>5. PoolTyped' /\ PoolApart'
    BY <1>1, <2>1, <2>3, <2>4 DEF PoolInv, PoolTyped, PoolApart
  <2>6. PoolAlive'
    <3>1. \A r : r \in contents' <=> (r \in contents /\ ~(h \in PoolHeld /\ r = store.handle[h])) \/ r = made
      BY <2>2 DEF PoolHeld
    <3>2. \A r : ~Has(store.ready, r)
      BY <1>1 DEF Has
    <3> QED
      BY <1>1, <2>1, <2>3, <2>4, <3>1, <3>2 DEF PoolInv, PoolAlive, PoolApart
  <2> QED
    BY <2>5, <2>6 DEF PoolInv
<1> QED
  BY <1>2, <1>3

\* put queues what the caller had; a handle that is dropped takes it along.
LEMMA PoolGoesBack ==
  ASSUME Pool!PoolAssumption, PoolInv, NEW h \in Handles, Pool!Put(h) \/ Pool!Drop(h)
  PROVE  PoolInv'
<1>1. /\ store.ready \in Seq(1..MaxMade) /\ store.handle \in [Handles -> 1..MaxMade \cup {Null}]
      /\ store.made \in 0..MaxMade /\ Null \notin 1..MaxMade /\ MaxMade \in Nat
      /\ Len(store.ready) \in Nat
  BY LenProperties DEF PoolInv, PoolTyped, Pool!PoolAssumption
<1>2. /\ store'.handle = [store.handle EXCEPT ![h] = Null] /\ store'.made = store.made
      /\ store' = [ready |-> store'.ready, handle |-> store'.handle, made |-> store'.made]
  BY DEF Pool!Put, Pool!Drop, PoolInv, PoolTyped
<1>3. PoolHeld' = PoolHeld \ {h} /\ \A g \in PoolHeld \ {h} : store'.handle[g] = store.handle[g]
  BY <1>1, <1>2 DEF PoolHeld
<1>4. store'.handle \in [Handles -> 1..MaxMade \cup {Null}]
  BY <1>1, <1>2
<1>5. CASE store'.ready = store.ready
  <2>0. PoolTyped'
    BY <1>1, <1>2, <1>3, <1>4, <1>5 DEF PoolInv, PoolTyped
  <2>1. PoolApart'
    BY <1>3, <1>5 DEF PoolInv, PoolApart
  <2>2. contents' = contents \ ({store.handle[h]} \ {Null})
    <3>1. CASE Pool!Drop(h)
      BY <3>1 DEF Pool!Drop, Pool!Dropped
    <3>2. CASE Pool!Put(h)
      <4>1. store.handle[h] = Null
        <5> SUFFICES ASSUME store.handle[h] # Null PROVE FALSE
          OBVIOUS
        <5>1. store.handle[h] \in 1..MaxMade /\ store'.ready = Append(store.ready, store.handle[h])
          BY <1>1, <3>2 DEF Pool!Put, Pool!Returned, PoolInv, PoolTyped
        <5> QED
          BY <1>1, <1>5, <5>1, AppendHas
      <4> QED
        BY <3>2, <4>1 DEF Pool!Put
    <3> QED
      BY <3>1, <3>2
  <2>3. PoolAlive'
    <3>1. \A r : r \in contents' <=> r \in contents /\ ~(h \in PoolHeld /\ r = store.handle[h])
      BY <2>2 DEF PoolHeld
    <3>2. h \in PoolHeld => ~Has(store.ready, store.handle[h])
      BY DEF PoolInv, PoolApart, Has
    <3> QED
      BY <1>3, <1>5, <3>1, <3>2 DEF PoolInv, PoolAlive, PoolApart
  <2> QED
    BY <2>0, <2>1, <2>3 DEF PoolInv
<1>6. CASE store'.ready # store.ready
  <2>1. /\ store.handle[h] \in 1..MaxMade /\ h \in PoolHeld /\ contents' = contents
        /\ store'.ready = Append(store.ready, store.handle[h])
    BY <1>1, <1>6 DEF Pool!Put, Pool!Drop, Pool!Returned, PoolInv, PoolTyped, PoolHeld
  <2> DEFINE n == Len(store.ready)
  <2>2. /\ store'.ready \in Seq(1..MaxMade) /\ Len(store'.ready) = n + 1
        /\ \A i \in 1..n : store'.ready[i] = store.ready[i]
        /\ store'.ready[n + 1] = store.handle[h]
        /\ \A r : Has(store'.ready, r) <=> r = store.handle[h] \/ Has(store.ready, r)
    <3>1. \A e \in 1..MaxMade : LET s == Append(store.ready, e) IN
            /\ s \in Seq(1..MaxMade) /\ Len(s) = n + 1
            /\ \A i \in 1..n : s[i] = store.ready[i]
            /\ s[n + 1] = e /\ \A r : Has(s, r) <=> r = e \/ Has(store.ready, r)
      BY <1>1, AppendHas
    <3> QED
      BY <2>1, <3>1
  <2>3. \A i \in 1..n + 1 : i = n + 1 \/ i \in 1..n
    BY <1>1
  <2>4. PoolTyped'
    BY <1>1, <1>2, <1>3, <1>4, <2>1, <2>2, <2>3 DEF PoolInv, PoolTyped
  <2>5. PoolApart'
    BY <1>3, <2>1, <2>2, <2>3 DEF PoolInv, PoolApart
  <2>6. PoolAlive'
    BY <1>3, <2>1, <2>2 DEF PoolInv, PoolAlive
  <2> QED
    BY <2>4, <2>5, <2>6 DEF PoolInv
<1> QED
  BY <1>5, <1>6

\* Every step of the pool keeps its invariant.
LEMMA PoolStep ==
  ASSUME Pool!PoolAssumption, PoolInv, Pool!Next PROVE PoolInv'
BY PoolGivesReady, PoolMakes, PoolGoesBack DEF Pool!Next

\* Each resource alive is in the queue or with one handle, and there are as many as that.
LEMMA PoolOnePlace ==
  ASSUME Pool!PoolAssumption, PoolInv PROVE Pool!OnePlace
<1> DEFINE n == Len(store.ready)
           queued == {store.ready[i] : i \in 1..n}
           inHand == {store.handle[h] : h \in PoolHeld}
<1>1. store.ready \in Seq(1..MaxMade) /\ n \in Nat /\ DOMAIN store.ready = 1..n
  BY LenProperties DEF PoolInv, PoolTyped
<1>2. IsFiniteSet(queued) /\ Cardinality(queued) = n
  <2>1. IsFiniteSet(1..n) /\ Cardinality(1..n) = n
    <3>1. 1 \in Int /\ n \in Int /\ (IF 1 > n THEN 0 ELSE n - 1 + 1) = n
      BY <1>1
    <3> QED
      BY <3>1, FS_Interval, Zenon
  <2>2. \A i, j \in 1..n : store.ready[i] = store.ready[j] => i = j
    BY DEF PoolInv, PoolApart
  <2> QED
    BY <2>1, <2>2, InjectiveImage
<1>3. IsFiniteSet(PoolHeld)
  <2>1. PoolHeld \in SUBSET Handles /\ IsFiniteSet(Handles)
    BY PoolFinite DEF PoolHeld, Pool!PoolAssumption
  <2> QED
    BY <2>1, FS_Subset
<1>4. IsFiniteSet(inHand) /\ Cardinality(inHand) = Cardinality(PoolHeld)
  BY <1>3, InjectiveImage DEF PoolInv, PoolApart
<1>5. queued \cap inHand = {}
  BY DEF PoolInv, PoolApart
<1>6. contents = queued \cup inHand
  BY DEF PoolInv, PoolAlive, Has
<1>7. Cardinality(contents) = n + Cardinality(PoolHeld)
  <2>1. Cardinality(queued \cap inHand) = 0
    BY <1>5, FS_EmptySet
  <2> HIDE DEF queued, inHand
  <2>2. Cardinality(PoolHeld) \in Nat
    BY <1>3, FS_CardinalityType
  <2>3. Cardinality(queued \cup inHand) = Cardinality(queued) + Cardinality(inHand) - Cardinality(queued \cap inHand)
    BY <1>2, <1>4, FS_Union
  <2> QED
    BY <1>1, <1>2, <1>4, <1>6, <2>1, <2>2, <2>3
<1>8. Pool!ToSet(store.ready) = queued
  BY <1>1 DEF Pool!ToSet
<1> QED
  BY <1>6, <1>7, <1>8, PoolFinite DEF Pool!OnePlace, PoolHeld

----------------------------------------------------------------------------
(* The owners of descriptors and mappings *)

\* So are those of the owners of descriptors and mappings.
LEMMA HandleFinite ==
  ASSUME NEW S PROVE Handle!Cardinality(S) = Cardinality(S) /\ (Handle!IsFiniteSet(S) => IsFiniteSet(S))
BY DEF Handle!Cardinality, Cardinality, Handle!IsFiniteSet, IsFiniteSet

\* A set of naturals that is not empty has a least one.
LEMMA HasLeast ==
  ASSUME NEW n \in Nat, NEW T \in SUBSET (0..n), T # {}
  PROVE  \E x \in T : \A y \in T : x =< y
<1> SUFFICES ASSUME \A x \in T : \E y \in T : y < x PROVE FALSE
  OBVIOUS
<1> DEFINE S == {k \in 0..n : \A j \in 0..k : j \notin T}
<1>1. 0 \in S
  OBVIOUS
<1>2. \A k \in 0..n - 1 : k \in S => k + 1 \in S
  OBVIOUS
<1> HIDE DEF S
<1>3. 0..n \subseteq S
  BY <1>1, <1>2, UpTo
<1>4. n \in S
  BY <1>3
<1>5. \A j \in 0..n : j \notin T
  BY <1>4 DEF S
<1> QED
  BY <1>5

Open(f) == store.fd[f] # -1
Mapped(m) == store.map[m].size # 0

\* What the kernel knows, when nothing was closed that was not the closer's.
Kernel == [fds : SUBSET (0..MaxFds - 1), mapped : SUBSET Addresses, stray : {FALSE}]

HandleTyped ==
    /\ store = [fd |-> store.fd, map |-> store.map]
    /\ contents \in Kernel

\* A descriptor that was given out is one object's.
FdsOwned ==
    /\ store.fd \in [Handle!Descriptors -> -1..MaxFds - 1]
    /\ \A n \in 0..MaxFds - 1 : n \in contents.fds <=> \E f \in Handle!Descriptors : store.fd[f] = n
    /\ \A f, g \in Handle!Descriptors : store.fd[f] = store.fd[g] /\ Open(f) => f = g

\* So is a mapping; one that has a size has an address.
MapsOwned ==
    /\ store.map \in [Maps -> [map : Addresses \cup {Null, MAP_FAILED}, size : 0..1]]
    /\ \A m \in Maps : Mapped(m) => store.map[m].map \in contents.mapped
    /\ \A a \in contents.mapped : \E m \in Maps : Mapped(m) /\ store.map[m].map = a
    /\ \A m, n \in Maps : Mapped(m) /\ Mapped(n) /\ store.map[m].map = store.map[n].map => m = n

HandleInv == HandleTyped /\ FdsOwned /\ MapsOwned

\* At the start nobody owns anything.
LEMMA HandleStarts ==
  ASSUME Handle!HandlesAssumption, Handle!Init PROVE HandleInv
<1>1. /\ store.fd = [f \in Handle!Descriptors |-> -1]
      /\ store.map = [m \in Maps |-> [map |-> Null, size |-> 0]]
      /\ store = [fd |-> store.fd, map |-> store.map]
      /\ contents = [fds |-> {}, mapped |-> {}, stray |-> FALSE]
  BY DEF Handle!Init, Handle!NoMap, Handle!Mapping
<1>2. MaxFds \in Nat \ {0}
  BY DEF Handle!HandlesAssumption
<1>3. FdsOwned
  BY <1>1, <1>2 DEF FdsOwned, Open
<1>4. MapsOwned
  BY <1>1 DEF MapsOwned, Mapped
<1> QED
  BY <1>1, <1>3, <1>4 DEF HandleInv, HandleTyped, Kernel

\* The mappings are as they were.
MapsStay == /\ store' = [fd |-> store'.fd, map |-> store.map]
            /\ contents' \in Kernel /\ contents'.mapped = contents.mapped

\* A step that leaves the mappings alone and keeps the descriptors owned keeps the invariant.
LEMMA HandleFds ==
  ASSUME HandleInv, MapsStay, FdsOwned' PROVE HandleInv'
<1>1. HandleTyped' /\ store'.map = store.map /\ contents'.mapped = contents.mapped
  <2>1. store'.map = store.map
    BY DEF MapsStay
  <2> QED
    BY <2>1 DEF MapsStay, HandleTyped, Kernel
<1>2. MapsOwned'
  BY <1>1 DEF HandleInv, MapsOwned, Mapped
<1> QED
  BY <1>1, <1>2 DEF HandleInv

\* open gives an object that has none the least descriptor that is free, or none.
LEMMA HandleOpens ==
  ASSUME Handle!HandlesAssumption, HandleInv, NEW f \in Files, Handle!Open(f)
  PROVE  HandleInv'
<1>1. CASE UNCHANGED <<store, contents>>
  BY <1>1 DEF HandleInv, HandleTyped, Kernel, FdsOwned, MapsOwned, Open, Mapped
<1>2. CASE ~UNCHANGED <<store, contents>>
  <2> DEFINE n == Handle!Min(Handle!Free)
  <2>1. f \in Handle!Descriptors /\ MaxFds \in Nat \ {0}
    BY DEF Handle!Descriptors, Handle!HandlesAssumption
  <2>2. /\ store' = [store EXCEPT !.fd[f] = n] /\ contents' = [contents EXCEPT !.fds = @ \cup {n}]
        /\ Handle!Free # {} /\ store.fd[f] = -1
    BY <1>2 DEF Handle!Open, Handle!Openable, Handle!is_open, Handle!vars
  <2>3. n \in 0..MaxFds - 1 /\ n \notin contents.fds
    <3>1. Handle!Free \in SUBSET (0..MaxFds - 1) /\ MaxFds - 1 \in Nat
      BY <2>1 DEF Handle!Free
    <3>2. \E x \in Handle!Free : \A y \in Handle!Free : x =< y
      BY <2>2, <3>1, HasLeast
    <3>3. n \in Handle!Free
      BY <3>2 DEF Handle!Min
    <3> QED
      BY <3>3 DEF Handle!Free
  <2> HIDE DEF n
  <2>4. MapsStay /\ store'.fd = [store.fd EXCEPT ![f] = n] /\ contents'.fds = contents.fds \cup {n}
    <3>1. store' = [fd |-> [store.fd EXCEPT ![f] = n], map |-> store.map]
      BY <2>2 DEF HandleInv, HandleTyped
    <3>2. contents' \in Kernel /\ contents'.mapped = contents.mapped /\ contents'.fds = contents.fds \cup {n}
      BY <2>2, <2>3 DEF HandleInv, HandleTyped, Kernel
    <3> QED
      BY <3>1, <3>2 DEF MapsStay
  <2>5. FdsOwned'
    <3>1. /\ store.fd \in [Handle!Descriptors -> -1..MaxFds - 1]
          /\ contents.fds \in SUBSET (0..MaxFds - 1)
          /\ store'.fd[f] = n /\ \A g \in Handle!Descriptors \ {f} : store'.fd[g] = store.fd[g]
      BY <2>1, <2>4 DEF HandleInv, HandleTyped, Kernel, FdsOwned
    <3>2. store'.fd \in [Handle!Descriptors -> -1..MaxFds - 1] /\ contents'.fds \in SUBSET (0..MaxFds - 1)
      BY <2>1, <2>3, <2>4, <3>1
    <3>3. \A g \in Handle!Descriptors \ {f} : store.fd[g] # n
      BY <2>3 DEF HandleInv, HandleTyped, Kernel, FdsOwned
    <3> QED
      BY <2>1, <2>2, <2>3, <2>4, <3>1, <3>2, <3>3 DEF HandleInv, HandleTyped, Kernel, FdsOwned, Open
  <2> QED
    BY <2>4, <2>5, HandleFds
<1> QED
  BY <1>1, <1>2

\* A pipe's two ends are given two descriptors that are free.
LEMMA HandlePipes ==
  ASSUME Handle!HandlesAssumption, HandleInv, Handle!OpenPipe
  PROVE  HandleInv'
<1>1. /\ IsFiniteSet(Ends) /\ Cardinality(Ends) = 2 /\ Ends \subseteq Handle!Descriptors
      /\ MaxFds \in Nat \ {0}
  BY HandleFinite DEF Handle!Descriptors, Handle!HandlesAssumption
<1>2. PICK fds \in [Ends -> Handle!Free] :
        /\ Handle!Cardinality({fds[e] : e \in Ends}) = 2
        /\ store' = [store EXCEPT !.fd = [f \in Handle!Descriptors |-> IF f \in Ends THEN fds[f] ELSE @[f]]]
        /\ contents' = [contents EXCEPT !.fds = @ \cup {fds[e] : e \in Ends}]
  BY DEF Handle!OpenPipe
<1> DEFINE T == {fds[e] : e \in Ends}
<1>3. \A d, e \in Ends : fds[d] = fds[e] => d = e
  <2>1. fds \in Surjection(Ends, T)
    BY DEF Surjection
  <2>2. Cardinality(T) = Cardinality(Ends)
    BY <1>1, <1>2, HandleFinite
  <2>3. fds \in Injection(Ends, T)
    BY <1>1, <2>1, <2>2, FS_Surjection
  <2> QED
    BY <2>3 DEF Injection, IsInjective
<1>4. \A e \in Ends : fds[e] \in 0..MaxFds - 1 /\ fds[e] \notin contents.fds
  BY DEF Handle!Free
<1>5. /\ MapsStay /\ contents'.fds = contents.fds \cup T
      /\ store'.fd = [f \in Handle!Descriptors |-> IF f \in Ends THEN fds[f] ELSE store.fd[f]]
  <2>1. store' = [fd |-> [f \in Handle!Descriptors |-> IF f \in Ends THEN fds[f] ELSE store.fd[f]],
                  map |-> store.map]
    BY <1>2 DEF HandleInv, HandleTyped
  <2>2. contents' \in Kernel /\ contents'.mapped = contents.mapped /\ contents'.fds = contents.fds \cup T
    <3>1. T \in SUBSET (0..MaxFds - 1)
      BY <1>4
    <3> QED
      BY <1>2, <3>1 DEF HandleInv, HandleTyped, Kernel
  <2> QED
    BY <2>1, <2>2 DEF MapsStay
<1>6. \A e \in Ends : store.fd[e] = -1
  BY DEF Handle!OpenPipe, Handle!is_open
<1>7. FdsOwned'
  <2>1. /\ store.fd \in [Handle!Descriptors -> -1..MaxFds - 1]
        /\ contents.fds \in SUBSET (0..MaxFds - 1)
        /\ \A e \in Ends : store'.fd[e] = fds[e]
        /\ \A g \in Handle!Descriptors \ Ends : store'.fd[g] = store.fd[g]
    BY <1>1, <1>5 DEF HandleInv, HandleTyped, Kernel, FdsOwned
  <2>2. store'.fd \in [Handle!Descriptors -> -1..MaxFds - 1] /\ contents'.fds \in SUBSET (0..MaxFds - 1)
    BY <1>1, <1>4, <1>5, <2>1
  <2>3. \A g \in Handle!Descriptors \ Ends, e \in Ends : store.fd[g] # fds[e]
    BY <1>4 DEF HandleInv, HandleTyped, Kernel, FdsOwned
  <2>4. \A n \in 0..MaxFds - 1 : n \in contents'.fds <=> \E f \in Handle!Descriptors : store'.fd[f] = n
    BY <1>1, <1>5, <1>6, <2>1 DEF HandleInv, HandleTyped, Kernel, FdsOwned
  <2>5. \A f, g \in Handle!Descriptors : store'.fd[f] = store'.fd[g] /\ store'.fd[f] # -1 => f = g
    BY <1>1, <1>3, <2>1, <2>3 DEF HandleInv, HandleTyped, Kernel, FdsOwned, Open
  <2> QED
    BY <2>2, <2>4, <2>5 DEF FdsOwned, Open
<1> QED
  BY <1>5, <1>7, HandleFds

\* What closing the descriptor of an object does.
LEMMA HandleClosed ==
  ASSUME Handle!HandlesAssumption, HandleInv, NEW f \in Handle!Descriptors, contents' = Handle!Closed(store.fd[f])
  PROVE  /\ contents' \in Kernel /\ contents'.mapped = contents.mapped
         /\ contents'.fds = contents.fds \ {store.fd[f]}
         /\ store.fd[f] \in -1..MaxFds - 1 /\ MaxFds \in Nat \ {0}
<1>1. /\ store.fd[f] \in -1..MaxFds - 1 /\ MaxFds \in Nat \ {0} /\ contents \in Kernel
      /\ store.fd[f] # -1 => store.fd[f] \in contents.fds
  <2>1. MaxFds \in Nat \ {0} /\ contents \in Kernel
    BY DEF HandleInv, HandleTyped, Handle!HandlesAssumption
  <2>2. store.fd[f] \in -1..MaxFds - 1
    BY DEF HandleInv, FdsOwned
  <2>3. store.fd[f] # -1 => store.fd[f] \in contents.fds
    BY <2>1, <2>2 DEF HandleInv, FdsOwned
  <2> QED
    BY <2>1, <2>2, <2>3
<1>2. CASE store.fd[f] = -1
  <2>1. contents' = contents
    BY <1>2 DEF Handle!Closed
  <2>2. -1 \notin contents.fds
    BY <1>1 DEF Kernel
  <2> QED
    BY <1>1, <1>2, <2>1, <2>2
<1>3. CASE store.fd[f] # -1
  <2>1. contents' = [contents EXCEPT !.fds = @ \ {store.fd[f]}, !.stray = @ \/ store.fd[f] \notin contents.fds]
    BY <1>3 DEF Handle!Closed
  <2>2. contents.stray \/ store.fd[f] \notin contents.fds <=> FALSE
    BY <1>1, <1>3 DEF Kernel
  <2> QED
    BY <1>1, <2>1, <2>2 DEF Kernel
<1> QED
  BY <1>1, <1>2, <1>3

\* close closes the object's descriptor, and no other.
LEMMA HandleCloses ==
  ASSUME Handle!HandlesAssumption, HandleInv, NEW f \in Handle!Descriptors, Handle!Close(f)
  PROVE  HandleInv'
<1>1. /\ contents' \in Kernel /\ contents'.mapped = contents.mapped
      /\ contents'.fds = contents.fds \ {store.fd[f]}
      /\ store.fd[f] \in -1..MaxFds - 1 /\ MaxFds \in Nat \ {0}
  BY HandleClosed DEF Handle!Close
<1>2. MapsStay /\ store'.fd = [store.fd EXCEPT ![f] = -1]
  BY <1>1 DEF Handle!Close, MapsStay, HandleInv, HandleTyped
<1>3. FdsOwned'
  <2>1. /\ store.fd \in [Handle!Descriptors -> -1..MaxFds - 1] /\ contents.fds \in SUBSET (0..MaxFds - 1)
        /\ store'.fd[f] = -1 /\ \A g \in Handle!Descriptors \ {f} : store'.fd[g] = store.fd[g]
    BY <1>2 DEF HandleInv, HandleTyped, Kernel, FdsOwned
  <2>2. store'.fd \in [Handle!Descriptors -> -1..MaxFds - 1] /\ contents'.fds \in SUBSET (0..MaxFds - 1)
    BY <1>1, <1>2, <2>1
  <2> QED
    BY <1>1, <2>1, <2>2 DEF HandleInv, HandleTyped, Kernel, FdsOwned, Open
<1> QED
  BY <1>2, <1>3, HandleFds

\* A move hands the descriptor over, and the one that the target had is closed.
LEMMA HandleMoves ==
  ASSUME Handle!HandlesAssumption, HandleInv, NEW f \in Handle!Descriptors, NEW g \in Handle!Descriptors,
         Handle!Move(f, g)
  PROVE  HandleInv'
<1>1. /\ contents' \in Kernel /\ contents'.mapped = contents.mapped
      /\ contents'.fds = contents.fds \ {store.fd[f]}
      /\ store.fd[f] \in -1..MaxFds - 1 /\ MaxFds \in Nat \ {0}
  BY HandleClosed DEF Handle!Move
<1>2. MapsStay /\ store'.fd = [store.fd EXCEPT ![f] = store.fd[g], ![g] = -1] /\ f # g
  BY <1>1 DEF Handle!Move, MapsStay, HandleInv, HandleTyped
<1>3. FdsOwned'
  <2>1. /\ store.fd \in [Handle!Descriptors -> -1..MaxFds - 1] /\ contents.fds \in SUBSET (0..MaxFds - 1)
        /\ store'.fd[f] = store.fd[g] /\ store'.fd[g] = -1
        /\ \A h \in Handle!Descriptors \ {f, g} : store'.fd[h] = store.fd[h]
    BY <1>2 DEF HandleInv, HandleTyped, Kernel, FdsOwned
  <2>2. store'.fd \in [Handle!Descriptors -> -1..MaxFds - 1] /\ contents'.fds \in SUBSET (0..MaxFds - 1)
    BY <1>1, <1>2, <2>1
  <2>3. \A n \in 0..MaxFds - 1 : n \in contents'.fds <=> \E h \in Handle!Descriptors : store'.fd[h] = n
    BY <1>1, <1>2, <2>1 DEF HandleInv, HandleTyped, Kernel, FdsOwned, Open
  <2>4. \A h, i \in Handle!Descriptors : store'.fd[h] = store'.fd[i] /\ store'.fd[h] # -1 => h = i
    BY <1>2, <2>1 DEF HandleInv, HandleTyped, Kernel, FdsOwned, Open
  <2> QED
    BY <2>2, <2>3, <2>4 DEF FdsOwned, Open
<1> QED
  BY <1>2, <1>3, HandleFds

\* The descriptors are as they were.
FdsStay == /\ store' = [fd |-> store.fd, map |-> store'.map]
           /\ contents' \in Kernel /\ contents'.fds = contents.fds

\* A step that leaves the descriptors alone and keeps the mappings owned keeps the invariant.
LEMMA HandleMaps ==
  ASSUME HandleInv, FdsStay, MapsOwned' PROVE HandleInv'
<1>1. HandleTyped' /\ store'.fd = store.fd /\ contents'.fds = contents.fds
  <2>1. store'.fd = store.fd
    BY DEF FdsStay
  <2> QED
    BY <2>1 DEF FdsStay, HandleTyped, Kernel
<1>2. FdsOwned'
  <2>1. Handle!Descriptors' = Handle!Descriptors
    BY DEF Handle!Descriptors
  <2> QED
    BY <1>1, <2>1 DEF HandleInv, FdsOwned, Open
<1> QED
  BY <1>1, <1>2 DEF HandleInv

MapRecords == [map : Addresses \cup {Null, MAP_FAILED}, size : 0..1]

\* The record of a mapping has the fields that it is made of.
LEMMA MapRecord ==
  ASSUME NEW a \in Addresses \cup {Null, MAP_FAILED}, NEW size \in 0..1
  PROVE  Handle!Mapping(a, size) \in MapRecords /\ Handle!Mapping(a, size).map = a
         /\ Handle!Mapping(a, size).size = size
BY DEF Handle!Mapping, MapRecords

\* What can be read off the invariant of one map.
LEMMA MapFacts ==
  ASSUME Handle!HandlesAssumption, HandleInv
  PROVE  /\ store.map \in [Maps -> MapRecords] /\ contents \in Kernel
         /\ Null \notin Addresses /\ MAP_FAILED \notin Addresses
         /\ \A m \in Maps : /\ store.map[m] \in MapRecords
                            /\ Mapped(m) => store.map[m].map \in contents.mapped /\ store.map[m].map # Null
                            /\ Handle!is_mapped(store.map[m]) <=> Mapped(m)
<1>1. /\ store.map \in [Maps -> MapRecords] /\ contents \in Kernel
      /\ Null \notin Addresses /\ MAP_FAILED \notin Addresses
  BY DEF HandleInv, HandleTyped, MapsOwned, MapRecords, Handle!HandlesAssumption
<1>2. \A m \in Maps : Mapped(m) => store.map[m].map \in contents.mapped /\ store.map[m].map # Null
  BY <1>1 DEF HandleInv, MapsOwned, Kernel
<1>3. \A m \in Maps : Handle!is_mapped(store.map[m]) <=> Mapped(m)
  BY <1>2 DEF Handle!is_mapped, Mapped
<1> QED
  BY <1>1, <1>2, <1>3

\* open gives an object that has none a mapping that is free, or none.
LEMMA HandleOpensMap ==
  ASSUME Handle!HandlesAssumption, HandleInv, NEW m \in Maps, NEW size \in 0..1, Handle!OpenMap(m, size)
  PROVE  HandleInv'
<1>1. /\ store.map \in [Maps -> MapRecords] /\ contents \in Kernel
      /\ Null \notin Addresses /\ MAP_FAILED \notin Addresses /\ ~Mapped(m) /\ store.map[m] \in MapRecords
  BY MapFacts DEF Handle!OpenMap
<1>2. ASSUME NEW a \in Addresses \ contents.mapped, size > 0,
             store' = [store EXCEPT !.map[m] = Handle!Mapping(a, size)],
             contents' = [contents EXCEPT !.mapped = @ \cup {a}]
      PROVE  HandleInv'
  <2> DEFINE r == Handle!Mapping(a, size)
  <2>1. r \in MapRecords /\ r.map = a /\ r.size = size /\ size # 0
    BY <1>2, MapRecord
  <2> HIDE DEF r
  <2>2. store' = [store EXCEPT !.map[m] = r]
    BY <1>2 DEF r
  <2>3. FdsStay /\ store'.map = [store.map EXCEPT ![m] = r] /\ contents'.mapped = contents.mapped \cup {a}
    <3>1. store' = [fd |-> store.fd, map |-> [store.map EXCEPT ![m] = r]]
      BY <2>2 DEF HandleInv, HandleTyped
    <3>2. contents' \in Kernel /\ contents'.fds = contents.fds /\ contents'.mapped = contents.mapped \cup {a}
      BY <1>1, <1>2 DEF Kernel
    <3> QED
      BY <3>1, <3>2 DEF FdsStay
  <2>4. MapsOwned'
    <3>1. /\ store'.map \in [Maps -> MapRecords] /\ store'.map[m] = r
          /\ \A n \in Maps \ {m} : store'.map[n] = store.map[n]
      BY <1>1, <2>1, <2>3
    <3>2. Mapped(m)' /\ \A n \in Maps \ {m} : Mapped(n)' <=> Mapped(n)
      BY <2>1, <3>1 DEF Mapped
    <3>3. /\ \A n \in Maps : Mapped(n) => store.map[n].map \in contents.mapped /\ store.map[n].map # a
          /\ \A b \in contents.mapped : \E n \in Maps : Mapped(n) /\ store.map[n].map = b
          /\ \A n, k \in Maps : Mapped(n) /\ Mapped(k) /\ store.map[n].map = store.map[k].map => n = k
      BY <1>2 DEF HandleInv, MapsOwned
    <3>4. /\ \A n \in Maps : Mapped(n)' => store'.map[n].map \in contents'.mapped
          /\ \A b \in contents'.mapped : \E n \in Maps : Mapped(n)' /\ store'.map[n].map = b
      BY <1>1, <2>1, <2>3, <3>1, <3>2, <3>3
    <3>5. \A n, k \in Maps : Mapped(n)' /\ Mapped(k)' /\ store'.map[n].map = store'.map[k].map => n = k
      BY <2>1, <3>1, <3>2, <3>3
    <3> QED
      BY <3>1, <3>4, <3>5 DEF MapsOwned, MapRecords
  <2> QED
    BY <2>3, <2>4, HandleMaps
<1>3. ASSUME store' = [store EXCEPT !.map[m].map = MAP_FAILED], contents' = contents
      PROVE  HandleInv'
  <2>1. store' = [fd |-> store.fd, map |-> [store.map EXCEPT ![m] = [@ EXCEPT !.map = MAP_FAILED]]]
    BY <1>3 DEF HandleInv, HandleTyped
  <2>2. /\ store'.map \in [Maps -> MapRecords] /\ store'.map[m].size = store.map[m].size
        /\ \A n \in Maps \ {m} : store'.map[n] = store.map[n]
    BY <1>1, <2>1 DEF MapRecords
  <2>3. \A n \in Maps : (Mapped(n)' <=> Mapped(n)) /\ (Mapped(n) => n # m)
    BY <1>1, <2>2 DEF Mapped
  <2>4. MapsOwned'
    BY <1>3, <2>2, <2>3 DEF HandleInv, MapsOwned, MapRecords
  <2>5. FdsStay
    BY <1>1, <1>3, <2>1 DEF FdsStay
  <2> QED
    BY <2>4, <2>5, HandleMaps
<1> QED
  BY <1>2, <1>3 DEF Handle!OpenMap

\* What unmapping an object's mapping does.
LEMMA HandleUnmapped ==
  ASSUME Handle!HandlesAssumption, HandleInv, NEW m \in Maps, Mapped(m),
         contents' = Handle!Unmapped(store.map[m])
  PROVE  /\ contents' \in Kernel /\ contents'.fds = contents.fds
         /\ contents'.mapped = contents.mapped \ {store.map[m].map}
<1>1. contents \in Kernel /\ store.map[m].map \in contents.mapped
  BY MapFacts
<1>2. contents' = [contents EXCEPT !.mapped = @ \ {store.map[m].map},
                                   !.stray = @ \/ store.map[m].map \notin contents.mapped]
  BY DEF Handle!Unmapped
<1>3. contents.stray \/ store.map[m].map \notin contents.mapped <=> FALSE
  BY <1>1 DEF Kernel
<1> QED
  BY <1>1, <1>2, <1>3 DEF Kernel

\* close unmaps the object's mapping, and no other.
LEMMA HandleClosesMap ==
  ASSUME Handle!HandlesAssumption, HandleInv, NEW m \in Maps, Handle!CloseMap(m)
  PROVE  HandleInv'
<1>1. /\ store.map \in [Maps -> MapRecords] /\ contents \in Kernel /\ Mapped(m)
      /\ Handle!NoMap \in MapRecords /\ Handle!NoMap.size = 0
  BY MapFacts, MapRecord DEF Handle!CloseMap, Mapped, Handle!NoMap
<1>2. /\ contents' \in Kernel /\ contents'.fds = contents.fds
      /\ contents'.mapped = contents.mapped \ {store.map[m].map}
  BY <1>1, HandleUnmapped DEF Handle!CloseMap
<1>3. store' = [fd |-> store.fd, map |-> [store.map EXCEPT ![m] = Handle!NoMap]]
  BY DEF Handle!CloseMap, HandleInv, HandleTyped
<1>4. /\ store'.map \in [Maps -> MapRecords] /\ ~Mapped(m)'
      /\ \A n \in Maps \ {m} : store'.map[n] = store.map[n] /\ (Mapped(n)' <=> Mapped(n))
  BY <1>1, <1>3 DEF Mapped
<1>5. /\ \A n \in Maps : Mapped(n) => store.map[n].map \in contents.mapped
      /\ \A b \in contents.mapped : \E n \in Maps : Mapped(n) /\ store.map[n].map = b
      /\ \A n, k \in Maps : Mapped(n) /\ Mapped(k) /\ store.map[n].map = store.map[k].map => n = k
  BY DEF HandleInv, MapsOwned
<1>6. MapsOwned'
  <2>1. /\ \A n \in Maps : Mapped(n)' => store'.map[n].map \in contents'.mapped
        /\ \A n, k \in Maps : Mapped(n)' /\ Mapped(k)' /\ store'.map[n].map = store'.map[k].map => n = k
    BY <1>1, <1>2, <1>4, <1>5
  <2>2. \A b \in contents'.mapped : \E n \in Maps : Mapped(n)' /\ store'.map[n].map = b
    BY <1>1, <1>2, <1>4, <1>5
  <2> QED
    BY <1>4, <2>1, <2>2 DEF MapsOwned, MapRecords
<1>7. FdsStay
  BY <1>2, <1>3 DEF FdsStay
<1> QED
  BY <1>6, <1>7, HandleMaps

\* An assignment swaps two mappings, a construction takes one over.
LEMMA HandleMovesMap ==
  ASSUME Handle!HandlesAssumption, HandleInv, NEW m \in Maps, NEW n \in Maps,
         Handle!AssignMap(m, n) \/ Handle!ConstructMap(m, n)
  PROVE  HandleInv'
<1>1. /\ store.map \in [Maps -> MapRecords] /\ contents \in Kernel /\ m # n
      /\ Handle!NoMap \in MapRecords /\ Handle!NoMap.size = 0
      /\ \A k \in Maps : store.map[k] \in MapRecords /\ (Handle!is_mapped(store.map[k]) <=> Mapped(k))
  BY MapFacts, MapRecord DEF Handle!AssignMap, Handle!ConstructMap, Handle!NoMap
<1>2. /\ \A k \in Maps : Mapped(k) => store.map[k].map \in contents.mapped
      /\ \A b \in contents.mapped : \E k \in Maps : Mapped(k) /\ store.map[k].map = b
      /\ \A i, k \in Maps : Mapped(i) /\ Mapped(k) /\ store.map[i].map = store.map[k].map => i = k
  BY DEF HandleInv, MapsOwned
<1>3. CASE Handle!AssignMap(m, n)
  <2>1. store' = [fd |-> store.fd, map |-> [store.map EXCEPT ![m] = store.map[n], ![n] = store.map[m]]]
    BY <1>3 DEF Handle!AssignMap, HandleInv, HandleTyped
  <2>2. /\ store'.map \in [Maps -> MapRecords] /\ store'.map[m] = store.map[n] /\ store'.map[n] = store.map[m]
        /\ \A k \in Maps \ {m, n} : store'.map[k] = store.map[k]
    BY <1>1, <2>1
  <2>3. /\ (Mapped(m)' <=> Mapped(n)) /\ (Mapped(n)' <=> Mapped(m))
        /\ \A k \in Maps \ {m, n} : Mapped(k)' <=> Mapped(k)
    BY <2>2 DEF Mapped
  <2>4. contents' = contents
    BY <1>3 DEF Handle!AssignMap
  <2>5. \A k \in Maps : Mapped(k)' => store'.map[k].map \in contents'.mapped
    BY <1>2, <2>2, <2>3, <2>4
  <2>6. \A b \in contents'.mapped : \E k \in Maps : Mapped(k)' /\ store'.map[k].map = b
    BY <1>2, <2>2, <2>3, <2>4
  <2>7. \A i, k \in Maps : Mapped(i)' /\ Mapped(k)' /\ store'.map[i].map = store'.map[k].map => i = k
    BY <1>2, <2>2, <2>3
  <2>8. MapsOwned'
    BY <2>2, <2>5, <2>6, <2>7 DEF MapsOwned, MapRecords
  <2> QED
    BY <1>1, <2>1, <2>4, <2>8, HandleMaps DEF FdsStay
<1>4. CASE Handle!ConstructMap(m, n)
  <2>1. store' = [fd |-> store.fd, map |-> [store.map EXCEPT ![m] = store.map[n], ![n] = Handle!NoMap]]
    BY <1>4 DEF Handle!ConstructMap, HandleInv, HandleTyped
  <2>2. /\ store'.map \in [Maps -> MapRecords] /\ store'.map[m] = store.map[n] /\ store'.map[n] = Handle!NoMap
        /\ \A k \in Maps \ {m, n} : store'.map[k] = store.map[k]
    BY <1>1, <2>1
  <2>3. /\ (Mapped(m)' <=> Mapped(n)) /\ ~Mapped(n)'
        /\ \A k \in Maps \ {m, n} : Mapped(k)' <=> Mapped(k)
    BY <1>1, <2>2 DEF Mapped
  <2>4. /\ contents' \in Kernel /\ contents'.fds = contents.fds
        /\ contents'.mapped = IF Mapped(m) THEN contents.mapped \ {store.map[m].map} ELSE contents.mapped
    <3>1. CASE Mapped(m)
      BY <1>1, <1>4, <3>1, HandleUnmapped DEF Handle!ConstructMap
    <3>2. CASE ~Mapped(m)
      BY <1>1, <1>4, <3>2 DEF Handle!ConstructMap
    <3> QED
      BY <3>1, <3>2
  <2>5. \A k \in Maps : Mapped(k)' => store'.map[k].map \in contents'.mapped
    BY <1>1, <1>2, <2>2, <2>3, <2>4
  <2>6. \A b \in contents'.mapped : \E k \in Maps : Mapped(k)' /\ store'.map[k].map = b
    BY <1>1, <1>2, <2>2, <2>3, <2>4
  <2>7. \A i, k \in Maps : Mapped(i)' /\ Mapped(k)' /\ store'.map[i].map = store'.map[k].map => i = k
    BY <1>1, <1>2, <2>2, <2>3
  <2>8. MapsOwned'
    BY <2>2, <2>5, <2>6, <2>7 DEF MapsOwned, MapRecords
  <2> QED
    BY <1>1, <2>1, <2>4, <2>8, HandleMaps DEF FdsStay
<1> QED
  BY <1>3, <1>4

\* Every step of the owners keeps their invariant.
LEMMA HandleStep ==
  ASSUME Handle!HandlesAssumption, HandleInv, Handle!Next PROVE HandleInv'
<1>1. Files \subseteq Handle!Descriptors /\ Ends \subseteq Handle!Descriptors
  BY DEF Handle!Descriptors
<1>2. CASE \/ \E f \in Files : Handle!Open(f)
           \/ Handle!OpenPipe
           \/ \E f \in Handle!Descriptors : Handle!Close(f)
           \/ \E f, g \in Handle!Descriptors : Handle!Move(f, g)
  BY <1>2, HandleOpens, HandlePipes, HandleCloses, HandleMoves
<1>3. CASE \/ \E m \in Maps : Handle!CloseMap(m) \/ \E size \in 0..1 : Handle!OpenMap(m, size)
           \/ \E m, n \in Maps : Handle!AssignMap(m, n) \/ Handle!ConstructMap(m, n)
  BY <1>3, HandleOpensMap, HandleClosesMap, HandleMovesMap
<1> QED
  BY <1>1, <1>2, <1>3 DEF Handle!Next

\* Each descriptor and mapping that is open has one owner, and nothing stray was closed.
LEMMA HandleOwnedOnce ==
  ASSUME Handle!HandlesAssumption, HandleInv PROVE Handle!OwnedOnce
<1> DEFINE open   == {f \in Handle!Descriptors : Handle!is_open(f)}
           inUse == {m \in Maps : Handle!is_mapped(store.map[m])}
           address == [m \in Maps |-> store.map[m].map]
<1>1. IsFiniteSet(open) /\ IsFiniteSet(inUse)
  <2>1. IsFiniteSet(Files) /\ IsFiniteSet(Ends) /\ IsFiniteSet(Maps)
    BY HandleFinite DEF Handle!HandlesAssumption
  <2>2. IsFiniteSet(Handle!Descriptors)
    BY <2>1, FS_Union DEF Handle!Descriptors
  <2>3. open \in SUBSET Handle!Descriptors /\ inUse \in SUBSET Maps
    OBVIOUS
  <2> QED
    BY <2>1, <2>2, <2>3, FS_Subset
<1>2. {store.fd[f] : f \in open} = contents.fds /\ Cardinality(open) = Cardinality(contents.fds)
  <2>1. {store.fd[f] : f \in open} = contents.fds
    BY DEF HandleInv, HandleTyped, Kernel, FdsOwned, Handle!is_open
  <2>2. \A f, g \in open : store.fd[f] = store.fd[g] => f = g
    BY DEF HandleInv, FdsOwned, Open, Handle!is_open
  <2> QED
    BY <1>1, <2>1, <2>2, InjectiveImage
<1>3. {store.map[m].map : m \in inUse} = contents.mapped /\ Cardinality(inUse) = Cardinality(contents.mapped)
  <2>1. /\ \A m \in inUse : m \in Maps /\ Mapped(m) /\ address[m] = store.map[m].map
        /\ \A m \in Maps : Mapped(m) => m \in inUse
    BY MapFacts
  <2>2. {address[m] : m \in inUse} = contents.mapped
    BY <2>1 DEF HandleInv, MapsOwned
  <2>3. \A m, n \in inUse : address[m] = address[n] => m = n
    BY <2>1 DEF HandleInv, MapsOwned
  <2>4. {address[m] : m \in inUse} = {store.map[m].map : m \in inUse}
    BY <2>1
  <2> HIDE DEF address
  <2> QED
    BY <1>1, <2>2, <2>3, <2>4, InjectiveImage
<1>4. ~contents.stray
  BY DEF HandleInv, HandleTyped, Kernel
<1> QED
  BY <1>2, <1>3, <1>4, HandleFinite DEF Handle!OwnedOnce

----------------------------------------------------------------------------
(* result *)

ResultObjects == [kind : {"none", "value", "error", "moved"}, data : Payloads \cup Codes \cup {Shell}]
ResultRecords == [assigned : BOOLEAN, error : BOOLEAN, object : ResultObjects]

\* A result that should hold an object.
ResultHolds(r, object) ==
    /\ ~Result!Confuses(r)
    /\ object.kind = "none" => object = Result!Nothing
    /\ object # Result!Unspecified =>
          Result!Believed(r) = object.kind /\ (object # Result!Nothing => r.object = object)
    /\ r.object.data \in Payloads => Result!Believed(r) = "value"

ResultsApart(r, v) == r.object.data \in Payloads => r.object.data # v.object.data

ResultInv ==
    /\ store \in [x : ResultRecords, y : ResultRecords, confused : {FALSE}]
    /\ contents \in [Result!Names -> ResultObjects]
    /\ \A x \in Result!Names : ResultHolds(store[x], contents[x])
    /\ \A x, y \in Result!Names : x # y => ResultsApart(store[x], store[y])

\* Of an object, and of nothing.
LEMMA ResultOf ==
  ASSUME Result!ResultAssumption, NEW object \in ResultObjects, object.kind # "moved",
         object.kind = "none" => object = Result!Nothing,
         object.kind \in {"none", "error"} => object.data \notin Payloads
  PROVE  Result!Of(object) \in ResultRecords /\ ResultHolds(Result!Of(object), object)
         /\ Result!Of(object).object = object /\ Result!Believed(Result!Of(object)) = object.kind
<1>1. Result!Of(object) = [assigned |-> object.kind # "none", error |-> object.kind = "error", object |-> object]
  BY DEF Result!Of, Result!Result
<1>2. Result!Of(object) \in ResultRecords /\ Result!Of(object).object = object
  BY <1>1 DEF ResultRecords
<1>3. Result!Believed(Result!Of(object)) = object.kind
  <2>1. (Result!Of(object).assigned <=> object.kind # "none") /\ (Result!Of(object).error <=> object.kind = "error")
    BY DEF Result!Of, Result!Result
  <2>2. object.kind \in {"none", "value", "error"}
    BY DEF ResultObjects
  <2> QED
    BY <2>1, <2>2 DEF Result!Believed
<1> QED
  BY <1>2, <1>3 DEF ResultHolds, Result!Confuses, ResultObjects

\* The objects that stand for nothing, for what a move leaves, and for a value that is gone.
LEMMA ResultNothing ==
  ASSUME Result!ResultAssumption
  PROVE  /\ Result!Nothing \in ResultObjects /\ Result!Nothing.kind = "none" /\ Result!Nothing.data = Shell
         /\ Result!Unspecified \in ResultObjects /\ Result!Unspecified.kind = "moved"
         /\ Result!Object("value", Shell) \in ResultObjects
         /\ Result!Object("value", Shell).kind = "value" /\ Result!Object("value", Shell).data = Shell
         /\ Shell \notin Payloads
BY DEF Result!Nothing, Result!Unspecified, Result!Object, ResultObjects, Result!ResultAssumption

\* Both results start empty.
LEMMA ResultStarts ==
  ASSUME Result!ResultAssumption, Result!Init PROVE ResultInv
<1> DEFINE r == Result!Of(Result!Nothing)
<1>1. r \in ResultRecords /\ ResultHolds(r, Result!Nothing) /\ r.object.data \notin Payloads
  BY ResultOf, ResultNothing
<1>2. store = [x |-> r, y |-> r, confused |-> FALSE] /\ contents = [x \in Result!Names |-> Result!Nothing]
  BY DEF Result!Init
<1> HIDE DEF r
<1> QED
  BY <1>1, <1>2, ResultNothing DEF ResultInv, Result!Names, ResultsApart

\* What the two results hold after a step.
LEMMA ResultPut ==
  ASSUME NEW x \in Result!Names, NEW y \in Result!Names, x # y,
         NEW r \in ResultRecords, NEW v \in ResultRecords,
         NEW c \in ResultObjects, NEW d \in ResultObjects,
         store' \in [x : ResultRecords, y : ResultRecords, confused : {FALSE}],
         store'[x] = r, store'[y] = v,
         contents' \in [Result!Names -> ResultObjects], contents'[x] = c, contents'[y] = d,
         ResultHolds(r, c), ResultHolds(v, d), ResultsApart(r, v), ResultsApart(v, r)
  PROVE  ResultInv'
<1>1. \A z \in Result!Names : z = x \/ z = y
  BY DEF Result!Names
<1>2. /\ ResultRecords' = ResultRecords /\ ResultObjects' = ResultObjects /\ Result!Names' = Result!Names
  BY DEF ResultRecords, ResultObjects, Result!Names
<1>3. \A z \in Result!Names : ResultHolds(store'[z], contents'[z])
  BY <1>1
<1>4. \A z, w \in Result!Names : z # w => ResultsApart(store'[z], store'[w])
  BY <1>1
<1> QED
  BY <1>2, <1>3, <1>4 DEF ResultInv, ResultHolds, ResultsApart, Result!Confuses, Result!Believed,
     Result!Unspecified, Result!Nothing, Result!Object

\* What is known of two results.
LEMMA ResultFacts ==
  ASSUME Result!ResultAssumption, ResultInv, NEW x \in Result!Names, NEW y \in Result!Names, x # y
  PROVE  /\ store[x] \in ResultRecords /\ store[x].object \in ResultObjects
         /\ contents[x] \in ResultObjects /\ ResultHolds(store[x], contents[x])
         /\ ResultsApart(store[x], store[y])
         /\ Result!Believed(store[x]) \in {"none", "value", "error"}
<1>1. store[x] \in ResultRecords
  BY DEF ResultInv, Result!Names
<1>2. store[x].object \in ResultObjects
  BY <1>1 DEF ResultRecords
<1> QED
  BY <1>1, <1>2 DEF ResultInv, Result!Believed

\* One result is put in order, the other is left alone.
LEMMA ResultSet ==
  ASSUME Result!ResultAssumption, ResultInv, NEW x \in Result!Names, NEW r \in ResultRecords,
         NEW c \in ResultObjects, NEW confused, ~confused,
         store' = [store EXCEPT ![x] = r, !.confused = @ \/ confused],
         contents' = [contents EXCEPT ![x] = c],
         ResultHolds(r, c),
         r.object.data \in Payloads =>
           \A y \in Result!Names \ {x} : store[y].object.data # r.object.data
  PROVE  ResultInv'
<1>1. PICK y \in Result!Names : y # x
  BY DEF Result!Names
<1>2. /\ store[y] \in ResultRecords /\ contents[y] \in ResultObjects /\ ResultHolds(store[y], contents[y])
  BY <1>1, ResultFacts
<1>3. /\ store' \in [x : ResultRecords, y : ResultRecords, confused : {FALSE}]
      /\ store'[x] = r /\ store'[y] = store[y]
  BY <1>1 DEF ResultInv, Result!Names
<1>4. contents' \in [Result!Names -> ResultObjects] /\ contents'[x] = c /\ contents'[y] = contents[y]
  BY <1>1 DEF ResultInv
<1>5. ResultsApart(r, store[y]) /\ ResultsApart(store[y], r)
  BY <1>1 DEF ResultsApart
<1> QED
  BY <1>1, <1>2, <1>3, <1>4, <1>5, ResultPut

\* The payload of a fresh object is in neither result.
LEMMA ResultFresh ==
  ASSUME Result!ResultAssumption, NEW object \in Result!Fresh
  PROVE  /\ object \in ResultObjects /\ object.kind \in {"none", "value", "error"}
         /\ object.kind = "none" => object = Result!Nothing
         /\ object.kind \in {"none", "error"} => object.data \notin Payloads
         /\ object.data \in Payloads => \A y \in Result!Names : store[y].object.data # object.data
<1>1. CASE object = Result!Nothing
  BY <1>1, ResultNothing
<1>2. CASE \E p \in Payloads \ Result!InUse : object = Result!Object("value", p)
  BY <1>2 DEF Result!Object, ResultObjects, Result!InUse
<1>3. CASE \E c \in Codes : object = Result!Object("error", c)
  BY <1>3 DEF Result!Object, ResultObjects, Result!ResultAssumption
<1> QED
  BY <1>1, <1>2, <1>3 DEF Result!Fresh

\* A new result of a value, of an error or of nothing.
LEMMA ResultConstructs ==
  ASSUME Result!ResultAssumption, ResultInv, NEW x \in Result!Names, Result!Construct(x)
  PROVE  ResultInv'
<1>1. PICK object \in Result!Fresh : Result!Set(x, Result!Of(object), object)
  BY DEF Result!Construct
<1>2. /\ object \in ResultObjects /\ object.kind \in {"none", "value", "error"}
      /\ object.kind = "none" => object = Result!Nothing
      /\ object.kind \in {"none", "error"} => object.data \notin Payloads
      /\ object.data \in Payloads => \A y \in Result!Names : store[y].object.data # object.data
  BY ResultFresh
<1>3. /\ Result!Of(object) \in ResultRecords /\ ResultHolds(Result!Of(object), object)
      /\ Result!Of(object).object = object
  BY <1>2, ResultOf
<1>4. ~Result!Confuses(store[x])
  BY DEF ResultInv, ResultHolds
<1> QED
  BY <1>1, <1>2, <1>3, <1>4, ResultSet DEF Result!Set

\* A new result that is a copy of the other.
LEMMA ResultCopies ==
  ASSUME Result!ResultAssumption, ResultInv, NEW x \in Result!Names, NEW y \in Result!Names,
         Result!CopyConstruct(x, y)
  PROVE  ResultInv'
<1> DEFINE object == contents[y]
<1>1. /\ Result!Set(x, Result!Of(object), object) /\ x # y
      /\ Result!Believed(store[y]) # "value" /\ object # Result!Unspecified
  BY DEF Result!CopyConstruct
<1>2. /\ object \in ResultObjects /\ ResultHolds(store[y], object)
      /\ Result!Believed(store[y]) \in {"none", "value", "error"}
  BY <1>1, ResultFacts
<1>3. /\ object.kind \in {"none", "error"} /\ object.data \notin Payloads
      /\ object.kind = "none" => object = Result!Nothing
  BY <1>1, <1>2, ResultNothing DEF ResultHolds
<1>4. /\ Result!Of(object) \in ResultRecords /\ ResultHolds(Result!Of(object), object)
      /\ Result!Of(object).object = object
  BY <1>2, <1>3, ResultOf
<1>5. ~Result!Confuses(store[x])
  BY DEF ResultInv, ResultHolds
<1> QED
  BY <1>1, <1>2, <1>3, <1>4, <1>5, ResultSet DEF Result!Set

\* The caller moves the value out.
LEMMA ResultReleases ==
  ASSUME Result!ResultAssumption, ResultInv, NEW x \in Result!Names, Result!Release(x)
  PROVE  ResultInv'
<1> DEFINE r == [store[x] EXCEPT !.assigned = FALSE, !.object = Result!Object("value", Shell)]
<1>1. store[x] \in ResultRecords
  BY DEF ResultInv, Result!Names
<1>2. r \in ResultRecords /\ ~r.assigned /\ r.object.data \notin Payloads
  BY <1>1, ResultNothing DEF ResultRecords
<1>3. store' = [store EXCEPT ![x] = r] /\ contents' = [contents EXCEPT ![x] = Result!Nothing]
  BY DEF Result!Release, Result!StillAssigned
<1> HIDE DEF r
<1>4. store' = [store EXCEPT ![x] = r, !.confused = @ \/ FALSE]
  BY <1>2, <1>3 DEF ResultInv, Result!Names
<1>5. ResultHolds(r, Result!Nothing)
  BY <1>2, ResultNothing DEF ResultHolds, Result!Confuses, Result!Believed
<1> QED
  BY <1>2, <1>3, <1>4, <1>5, ResultNothing, ResultSet

\* What a move leaves on both sides, when the flags that are exchanged name no object
\* here, or one of the same type.
LEMMA ResultMoved ==
  ASSUME Result!ResultAssumption, NEW r \in ResultRecords, NEW v \in ResultRecords,
         NEW c \in ResultObjects, NEW d \in ResultObjects,
         ResultHolds(r, c), ResultHolds(v, d), ResultsApart(r, v), ResultsApart(v, r),
         Result!Believed(r) \in {"none", Result!Believed(v)}
  PROVE  LET moved == Result!move_from(r, v) IN
         /\ moved.to \in ResultRecords /\ moved.from \in ResultRecords
         /\ ResultHolds(moved.to, d)
         /\ ~Result!Confuses(moved.from) /\ moved.from.object.data \notin Payloads
         /\ Result!Believed(moved.from) = Result!Believed(r)
         /\ moved.to.object.data \in Payloads => moved.to.object = v.object
<1> DEFINE moved == Result!move_from(r, v)
           to    == Result!Result(v.assigned, v.error, IF v.assigned THEN v.object ELSE Result!Nothing)
           shell == IF v.assigned /\ v.object.kind = "value" THEN Result!Object("value", Shell) ELSE v.object
           from  == Result!Result(r.assigned, r.error, shell)
<1>1. moved.to = to /\ moved.from = from
  BY DEF Result!move_from
<1>2. /\ v.object \in ResultObjects /\ v.assigned \in BOOLEAN /\ v.error \in BOOLEAN
      /\ r.assigned \in BOOLEAN /\ r.error \in BOOLEAN
  BY DEF ResultRecords
<1>3. /\ to \in ResultRecords /\ (to.assigned <=> v.assigned) /\ (to.error <=> v.error)
      /\ to.object = IF v.assigned THEN v.object ELSE Result!Nothing
  BY <1>2, ResultNothing DEF Result!Result, ResultRecords
<1>4. /\ from \in ResultRecords /\ (from.assigned <=> r.assigned) /\ (from.error <=> r.error)
      /\ from.object = shell /\ shell \in ResultObjects
  BY <1>2, ResultNothing DEF Result!Result, ResultRecords
<1>5. Result!Believed(to) = Result!Believed(v) /\ Result!Believed(from) = Result!Believed(r)
  BY <1>3, <1>4 DEF Result!Believed
<1>6. Result!Believed(v) # "none" => v.assigned /\ v.object.kind = Result!Believed(v)
  BY DEF Result!Believed, ResultHolds, Result!Confuses
<1> HIDE DEF to, from, shell
<1>7. ResultHolds(to, d)
  BY <1>3, <1>5, <1>6, ResultNothing DEF ResultHolds, Result!Confuses, Result!Believed
<1>8. shell.data \notin Payloads /\ (Result!Believed(v) # "none" => shell.kind = Result!Believed(v))
  BY <1>6, ResultNothing DEF shell, ResultHolds, Result!Believed
<1>9. ~Result!Confuses(from)
  BY <1>4, <1>5, <1>8 DEF Result!Confuses
<1> QED
  BY <1>1, <1>3, <1>4, <1>5, <1>7, <1>8, <1>9, ResultNothing

\* A move assignment, between results whose flags can be exchanged.
LEMMA ResultMoves ==
  ASSUME Result!ResultAssumption, Careful, ResultInv, NEW x \in Result!Names, NEW y \in Result!Names,
         Result!MoveAssign(x, y)
  PROVE  ResultInv'
<1> DEFINE moved == Result!move_from(store[x], store[y])
<1>1. /\ x # y /\ store' = [store EXCEPT ![x] = moved.to, ![y] = moved.from]
      /\ contents' = [contents EXCEPT ![x] = contents[y], ![y] = Result!Unspecified]
      /\ Result!Believed(store[x]) \in {"none", Result!Believed(store[y])}
  BY DEF Result!MoveAssign, Result!Assignable
<1>2. /\ store[x] \in ResultRecords /\ store[y] \in ResultRecords
      /\ contents[x] \in ResultObjects /\ contents[y] \in ResultObjects
      /\ ResultHolds(store[x], contents[x]) /\ ResultHolds(store[y], contents[y])
      /\ ResultsApart(store[x], store[y]) /\ ResultsApart(store[y], store[x])
  BY <1>1, ResultFacts
<1>3. /\ moved.to \in ResultRecords /\ moved.from \in ResultRecords
      /\ ResultHolds(moved.to, contents[y])
      /\ ~Result!Confuses(moved.from) /\ moved.from.object.data \notin Payloads
  BY <1>1, <1>2, ResultMoved
<1> HIDE DEF moved
<1>4. /\ store' \in [x : ResultRecords, y : ResultRecords, confused : {FALSE}]
      /\ store'[x] = moved.to /\ store'[y] = moved.from
  BY <1>1, <1>3 DEF ResultInv, Result!Names
<1>5. /\ contents' \in [Result!Names -> ResultObjects] /\ contents'[x] = contents[y]
      /\ contents'[y] = Result!Unspecified
  BY <1>1, <1>2, ResultNothing DEF ResultInv
<1>6. ResultHolds(moved.from, Result!Unspecified)
  BY <1>3, ResultNothing DEF ResultHolds
<1>7. ResultsApart(moved.to, moved.from) /\ ResultsApart(moved.from, moved.to)
  BY <1>3 DEF ResultsApart
<1> QED
  BY <1>1, <1>2, <1>3, <1>4, <1>5, <1>6, <1>7, ResultNothing, ResultPut

\* A move construction is an assignment to a result of nothing.
LEMMA ResultMoveConstructs ==
  ASSUME Result!ResultAssumption, ResultInv, NEW x \in Result!Names, NEW y \in Result!Names,
         Result!MoveConstruct(x, y)
  PROVE  ResultInv'
<1> DEFINE none  == Result!Of(Result!Nothing)
           moved == Result!move_from(none, store[y])
           left  == IF contents[y] = Result!Unspecified THEN contents[y] ELSE Result!Nothing
<1>1. /\ x # y
      /\ store' = [store EXCEPT ![x] = moved.to, ![y] = moved.from, !.confused = @ \/ Result!Confuses(store[x])]
      /\ contents' = [contents EXCEPT ![x] = contents[y], ![y] = left]
  BY DEF Result!MoveConstruct
<1>2. /\ store[x] \in ResultRecords /\ store[y] \in ResultRecords
      /\ contents[x] \in ResultObjects /\ contents[y] \in ResultObjects
      /\ ResultHolds(store[x], contents[x]) /\ ResultHolds(store[y], contents[y])
  BY <1>1, ResultFacts
<1>3. /\ none \in ResultRecords /\ ResultHolds(none, Result!Nothing) /\ none.object = Result!Nothing
      /\ Result!Believed(none) = "none"
  BY ResultOf, ResultNothing
<1>4. ResultsApart(none, store[y]) /\ ResultsApart(store[y], none)
  BY <1>3, ResultNothing DEF ResultsApart
<1> HIDE DEF none
<1>5. /\ moved.to \in ResultRecords /\ moved.from \in ResultRecords
      /\ ResultHolds(moved.to, contents[y])
      /\ ~Result!Confuses(moved.from) /\ moved.from.object.data \notin Payloads
      /\ Result!Believed(moved.from) = "none"
  BY <1>2, <1>3, <1>4, ResultNothing, ResultMoved
<1> HIDE DEF moved
<1>6. /\ store' \in [x : ResultRecords, y : ResultRecords, confused : {FALSE}]
      /\ store'[x] = moved.to /\ store'[y] = moved.from
  <2>1. store.confused \/ Result!Confuses(store[x]) <=> FALSE
    BY <1>2 DEF ResultInv, ResultHolds
  <2> QED
    BY <1>1, <1>5, <2>1 DEF ResultInv, Result!Names
<1>7. contents' \in [Result!Names -> ResultObjects] /\ contents'[x] = contents[y] /\ contents'[y] = left
      /\ left \in ResultObjects
  BY <1>1, <1>2, ResultNothing DEF ResultInv
<1>8. ResultHolds(moved.from, left)
  BY <1>5, ResultNothing DEF ResultHolds
<1>9. ResultsApart(moved.to, moved.from) /\ ResultsApart(moved.from, moved.to)
  BY <1>5 DEF ResultsApart
<1> HIDE DEF left
<1> QED
  BY <1>1, <1>2, <1>5, <1>6, <1>7, <1>8, <1>9, ResultPut

\* then assigns what the continuation returned.
LEMMA ResultContinues ==
  ASSUME Result!ResultAssumption, Careful, ResultInv, NEW x \in Result!Names, Result!Then(x)
  PROVE  ResultInv'
<1>1. PICK object \in Result!Fresh :
        LET moved == Result!move_from(store[x], Result!Of(object))
        IN  /\ Result!Believed(store[x]) = "value"
            /\ Result!Assignable(store[x], Result!Of(object))
            /\ store' = [store EXCEPT ![x] = moved.to, !.confused = @ \/ Result!Confuses(moved.from)]
            /\ contents' = [contents EXCEPT ![x] = object]
  BY DEF Result!Then
<1> DEFINE v == Result!Of(object)
           moved == Result!move_from(store[x], v)
<1>2. /\ object \in ResultObjects /\ object.kind \in {"none", "value", "error"}
      /\ object.kind = "none" => object = Result!Nothing
      /\ object.kind \in {"none", "error"} => object.data \notin Payloads
      /\ object.data \in Payloads => \A y \in Result!Names : store[y].object.data # object.data
  BY ResultFresh
<1>3. v \in ResultRecords /\ ResultHolds(v, object) /\ v.object = object
  BY <1>2, ResultOf
<1>4. store[x] \in ResultRecords /\ contents[x] \in ResultObjects /\ ResultHolds(store[x], contents[x])
  BY DEF ResultInv, Result!Names
<1>5. ResultsApart(store[x], v) /\ ResultsApart(v, store[x])
  BY <1>2, <1>3 DEF ResultsApart
<1>6. Result!Believed(store[x]) \in {"none", Result!Believed(v)}
  BY <1>1 DEF Result!Assignable
<1> HIDE DEF v
<1>7. /\ moved.to \in ResultRecords /\ ResultHolds(moved.to, object) /\ ~Result!Confuses(moved.from)
      /\ moved.to.object.data \in Payloads => moved.to.object = object
  BY <1>2, <1>3, <1>4, <1>5, <1>6, ResultMoved
<1>8. store' = [store EXCEPT ![x] = moved.to, !.confused = @ \/ Result!Confuses(moved.from)]
  BY <1>1 DEF v
<1> HIDE DEF moved
<1> QED
  BY <1>1, <1>2, <1>7, <1>8, ResultSet

\* Every step of careful clients keeps the results in order.
LEMMA ResultStep ==
  ASSUME Result!ResultAssumption, Careful, ResultInv, Result!Next PROVE ResultInv'
BY ResultConstructs, ResultReleases, ResultContinues, ResultCopies, ResultMoves, ResultMoveConstructs
   DEF Result!Next

\* A result in order holds what it was last given, and its flags tell what it is.
LEMMA ResultExact ==
  ASSUME ResultInv PROVE Result!HoldsLast /\ Result!NeverConfused
<1>1. \A x \in Result!Names : ResultHolds(store[x], contents[x])
  BY DEF ResultInv
<1>2. \A x, y \in Result!Names : x # y => ResultsApart(store[x], store[y])
  BY DEF ResultInv
<1>3. Result!HoldsLast
  BY <1>1, <1>2 DEF Result!HoldsLast, ResultHolds, ResultsApart
<1>4. Result!NeverConfused
  BY <1>1 DEF Result!NeverConfused, ResultHolds, ResultInv
<1> QED
  BY <1>3, <1>4

----------------------------------------------------------------------------
(* storage_union *)

UnionObjects == [type : 0..NumTypes, data : Payloads \cup {Shell}]
UnionRecords == [occupied : 0..NumTypes, object : UnionObjects]
UnionStores  == [x : UnionRecords, y : UnionRecords, lost : {{}}, misread : {FALSE}]

\* A union that should hold an object.
UnionHolds(u, object) ==
    /\ u.occupied = object.type
    /\ u.occupied # NumTypes => u.object = object
    /\ u.object.data \in Payloads => u.occupied # NumTypes

UnionsApart(u, v) == u.object.data \in Payloads => u.object.data # v.object.data

UnionInv ==
    /\ store \in UnionStores
    /\ contents \in [Union!Names -> UnionObjects]
    /\ \A x \in Union!Names : UnionHolds(store[x], contents[x])
    /\ \A x, y \in Union!Names : x # y => UnionsApart(store[x], store[y])

\* A union with and without an object has the fields that it is made of.
LEMMA UnionShapes ==
  ASSUME Union!UnionAssumption
  PROVE  /\ NumTypes \in Nat \ {0} /\ Shell \notin Payloads /\ Union!Empty = NumTypes
         /\ \A t \in 0..NumTypes, d \in Payloads \cup {Shell} :
              Union!Object(t, d) \in UnionObjects /\ Union!Object(t, d).type = t /\ Union!Object(t, d).data = d
         /\ \A t \in 0..NumTypes, o \in UnionObjects :
              Union!Union(t, o) \in UnionRecords /\ Union!Union(t, o).occupied = t /\ Union!Union(t, o).object = o
         /\ Union!NoObject = Union!Object(NumTypes, Shell)
<1>1. NumTypes \in Nat \ {0} /\ Shell \notin Payloads
  BY DEF Union!UnionAssumption
<1>2. \A t \in 0..NumTypes, d \in Payloads \cup {Shell} :
        Union!Object(t, d) \in UnionObjects /\ Union!Object(t, d).type = t /\ Union!Object(t, d).data = d
  BY DEF Union!Object, UnionObjects
<1>3. \A t \in 0..NumTypes, o \in UnionObjects :
        Union!Union(t, o) \in UnionRecords /\ Union!Union(t, o).occupied = t /\ Union!Union(t, o).object = o
  BY DEF Union!Union, UnionRecords
<1> QED
  BY <1>1, <1>2, <1>3 DEF Union!Empty, Union!NoObject

\* Both unions start empty.
LEMMA UnionStarts ==
  ASSUME Union!UnionAssumption, Union!Init PROVE UnionInv
<1> DEFINE u == Union!Union(NumTypes, Union!NoObject)
<1>1. /\ u \in UnionRecords /\ UnionHolds(u, Union!NoObject) /\ u.object.data = Shell /\ Shell \notin Payloads
      /\ Union!NoObject \in UnionObjects
  BY UnionShapes DEF UnionHolds
<1>2. store = [x |-> u, y |-> u, lost |-> {}, misread |-> FALSE]
      /\ contents = [x \in Union!Names |-> Union!NoObject]
  BY UnionShapes DEF Union!Init
<1> HIDE DEF u
<1> QED
  BY <1>1, <1>2 DEF UnionInv, UnionStores, Union!Names, UnionsApart

\* What is known of one union.
LEMMA UnionFacts ==
  ASSUME Union!UnionAssumption, UnionInv, NEW x \in Union!Names
  PROVE  /\ store[x] \in UnionRecords /\ store[x].object \in UnionObjects /\ store[x].occupied \in 0..NumTypes
         /\ store[x].object.type \in 0..NumTypes /\ store[x].object.data \in Payloads \cup {Shell}
         /\ contents[x] \in UnionObjects /\ UnionHolds(store[x], contents[x])
         /\ ~Union!Misread(store[x])
         /\ Union!Payload(Union!Deleted(store[x])) = {}
<1>1. store[x] \in UnionRecords /\ contents[x] \in UnionObjects /\ UnionHolds(store[x], contents[x])
  BY DEF UnionInv, UnionStores, Union!Names
<1>2. /\ store[x].object \in UnionObjects /\ store[x].occupied \in 0..NumTypes
      /\ store[x].object.type \in 0..NumTypes /\ store[x].object.data \in Payloads \cup {Shell}
  BY <1>1 DEF UnionRecords, UnionObjects
<1>3. ~Union!Misread(store[x])
  BY <1>1 DEF UnionHolds, Union!Misread, Union!Empty
<1>4. Union!Payload(Union!Deleted(store[x])) = {}
  <2>1. Union!Deleted(store[x]).data = Shell
    BY <1>1, <1>2, UnionShapes DEF Union!Deleted, UnionHolds
  <2> QED
    BY <2>1 DEF Union!Payload
<1> QED
  BY <1>1, <1>2, <1>3, <1>4

\* What the two unions hold after a step.
LEMMA UnionPut ==
  ASSUME NEW x \in Union!Names, NEW y \in Union!Names, x # y,
         store' \in UnionStores, contents' \in [Union!Names -> UnionObjects],
         UnionHolds(store'[x], contents'[x]), UnionHolds(store'[y], contents'[y]),
         UnionsApart(store'[x], store'[y]), UnionsApart(store'[y], store'[x])
  PROVE  UnionInv'
<1>1. \A z \in Union!Names : z = x \/ z = y
  BY DEF Union!Names
<1>2. UnionStores' = UnionStores /\ UnionObjects' = UnionObjects /\ Union!Names' = Union!Names
  BY DEF UnionStores, UnionRecords, UnionObjects, Union!Names
<1>3. \A z \in Union!Names : UnionHolds(store'[z], contents'[z])
  BY <1>1
<1>4. \A z, w \in Union!Names : z # w => UnionsApart(store'[z], store'[w])
  BY <1>1
<1> QED
  BY <1>2, <1>3, <1>4 DEF UnionInv, UnionHolds, UnionsApart

\* One union is put in order, the other is left alone.
LEMMA UnionSet ==
  ASSUME Union!UnionAssumption, UnionInv, NEW x \in Union!Names, NEW u \in UnionRecords, NEW c \in UnionObjects,
         store' \in UnionStores, store'[x] = u, \A y \in Union!Names \ {x} : store'[y] = store[y],
         contents' = [contents EXCEPT ![x] = c], UnionHolds(u, c),
         u.object.data \in Payloads => \A y \in Union!Names \ {x} : store[y].object.data # u.object.data
  PROVE  UnionInv'
<1>1. PICK y \in Union!Names : y # x
  BY DEF Union!Names
<1>2. UnionHolds(store[y], contents[y])
  BY UnionFacts
<1>3. contents' \in [Union!Names -> UnionObjects] /\ contents'[x] = c /\ contents'[y] = contents[y]
  BY <1>1 DEF UnionInv
<1>4. UnionsApart(u, store[y]) /\ UnionsApart(store[y], u)
  BY <1>1 DEF UnionsApart
<1> QED
  BY <1>1, <1>2, <1>3, <1>4, UnionPut

\* The step of a union that is deleted and put in order, which loses nothing and reads
\* nothing wrongly.
LEMMA UnionReplaced ==
  ASSUME Union!UnionAssumption, UnionInv, NEW x \in Union!Names, NEW u \in UnionRecords,
         \/ store' = [store EXCEPT ![x] = u, !.lost = @ \cup Union!Payload(Union!Deleted(store[x])),
                                   !.misread = @ \/ Union!Misread(store[x])]
         \/ store' = [store EXCEPT ![x] = u, !.misread = @ \/ Union!Misread(store[x])]
         \/ store' = [store EXCEPT ![x] = u]
  PROVE  store' \in UnionStores /\ store'[x] = u /\ \A y \in Union!Names \ {x} : store'[y] = store[y]
<1>1. Union!Payload(Union!Deleted(store[x])) = {} /\ ~Union!Misread(store[x]) /\ store \in UnionStores
  BY UnionFacts DEF UnionInv
<1>2. (store.misread \/ Union!Misread(store[x]) <=> FALSE)
      /\ store.lost \cup Union!Payload(Union!Deleted(store[x])) = {}
  BY <1>1 DEF UnionStores
<1>3. CASE store' = [store EXCEPT ![x] = u, !.lost = @ \cup Union!Payload(Union!Deleted(store[x])),
                                   !.misread = @ \/ Union!Misread(store[x])]
  BY <1>1, <1>2, <1>3 DEF UnionStores, Union!Names
<1>4. CASE store' = [store EXCEPT ![x] = u, !.misread = @ \/ Union!Misread(store[x])]
  BY <1>1, <1>2, <1>4 DEF UnionStores, Union!Names
<1>5. CASE store' = [store EXCEPT ![x] = u]
  BY <1>1, <1>2, <1>5 DEF UnionStores, Union!Names
<1> QED
  BY <1>3, <1>4, <1>5

\* A union is set to a fresh object.
LEMMA UnionSets ==
  ASSUME Union!UnionAssumption, UnionInv, NEW x \in Union!Names, NEW object \in Union!Fresh,
         Union!Set(x, object)
  PROVE  UnionInv'
<1>1. /\ object \in UnionObjects /\ object.type \in 0..NumTypes - 1
      /\ \A y \in Union!Names : store[y].object.data # object.data
  BY UnionShapes DEF Union!Fresh
<1> DEFINE u == Union!assign(store[x], object)
<1>2. u \in UnionRecords /\ u.occupied = object.type /\ u.object = object
  BY <1>1, UnionShapes DEF Union!assign
<1>3. store' = [store EXCEPT ![x] = u, !.lost = @ \cup Union!Payload(Union!Deleted(store[x])),
                                   !.misread = @ \/ Union!Misread(store[x])]
  BY DEF Union!Set
<1> HIDE DEF u
<1>4. store' \in UnionStores /\ store'[x] = u /\ \A y \in Union!Names \ {x} : store'[y] = store[y]
  BY <1>2, <1>3, UnionReplaced
<1>5. UnionHolds(u, object)
  BY <1>1, <1>2, UnionShapes DEF UnionHolds
<1> QED
  BY <1>1, <1>2, <1>4, <1>5, UnionSet DEF Union!Set

\* The steps after which a union has no payload.
LEMMA UnionEmptied ==
  ASSUME Union!UnionAssumption, UnionInv, NEW x \in Union!Names,
         Union!Renew(x) \/ Union!Take(x) \/ Union!Release(x) \/ Union!Reset(x)
  PROVE  UnionInv'
<1>1. /\ store[x] \in UnionRecords /\ store[x].object \in UnionObjects /\ store[x].occupied \in 0..NumTypes
      /\ store[x].object.type \in 0..NumTypes /\ contents[x] \in UnionObjects /\ UnionHolds(store[x], contents[x])
  BY UnionFacts
<1>2. /\ NumTypes \in Nat \ {0} /\ Shell \notin Payloads /\ Union!Empty = NumTypes
      /\ Union!NoObject \in UnionObjects /\ Union!NoObject.type = NumTypes /\ Union!NoObject.data = Shell
      /\ \A t \in 0..NumTypes : /\ Union!Object(t, Shell) \in UnionObjects
                                /\ Union!Object(t, Shell).type = t /\ Union!Object(t, Shell).data = Shell
      /\ \A t \in 0..NumTypes, o \in UnionObjects :
           Union!Union(t, o) \in UnionRecords /\ Union!Union(t, o).occupied = t /\ Union!Union(t, o).object = o
  BY UnionShapes
<1>3. CASE Union!Renew(x)
  <2> DEFINE u == Union!Union(NumTypes, Union!NoObject)
  <2>1. u \in UnionRecords /\ UnionHolds(u, Union!NoObject) /\ u.object.data \notin Payloads
    BY <1>2 DEF UnionHolds
  <2>2. store' = [store EXCEPT ![x] = u, !.lost = @ \cup Union!Payload(Union!Deleted(store[x])),
                               !.misread = @ \/ Union!Misread(store[x])]
    BY <1>2, <1>3 DEF Union!Renew
  <2> HIDE DEF u
  <2>3. store' \in UnionStores /\ store'[x] = u /\ \A y \in Union!Names \ {x} : store'[y] = store[y]
    BY <2>1, <2>2, UnionReplaced
  <2> QED
    BY <1>2, <1>3, <2>1, <2>3, UnionSet DEF Union!Renew
<1>4. CASE Union!Take(x)
  <2> DEFINE u == [store[x] EXCEPT !.object = [@ EXCEPT !.data = Shell]]
             c == [contents[x] EXCEPT !.data = Shell]
  <2>1. u \in UnionRecords /\ u.occupied = store[x].occupied /\ u.object = [store[x].object EXCEPT !.data = Shell]
        /\ u.object.data = Shell /\ c \in UnionObjects /\ c.type = contents[x].type
    BY <1>1 DEF UnionRecords, UnionObjects
  <2>2. UnionHolds(u, c)
    BY <1>1, <1>2, <2>1 DEF UnionHolds
  <2>3. store' = [store EXCEPT ![x] = u, !.misread = @ \/ Union!Misread(store[x])]
        /\ contents' = [contents EXCEPT ![x] = c]
    BY <1>4 DEF Union!Take
  <2> HIDE DEF u, c
  <2>4. store' \in UnionStores /\ store'[x] = u /\ \A y \in Union!Names \ {x} : store'[y] = store[y]
    BY <2>1, <2>3, UnionReplaced
  <2>5. u.object.data \notin Payloads
    BY <1>2, <2>1
  <2> QED
    BY <2>1, <2>2, <2>3, <2>4, <2>5, UnionSet
<1>5. CASE Union!Release(x)
  <2> DEFINE u == Union!Union(NumTypes, Union!Object(store[x].object.type, Shell))
  <2>1. u \in UnionRecords /\ u.occupied = NumTypes /\ u.object.data = Shell
    BY <1>1, <1>2
  <2>2. store' = [store EXCEPT ![x] = u, !.misread = @ \/ Union!Misread(store[x])]
    BY <1>2, <1>5 DEF Union!Release
  <2> HIDE DEF u
  <2>3. store' \in UnionStores /\ store'[x] = u /\ \A y \in Union!Names \ {x} : store'[y] = store[y]
    BY <2>1, <2>2, UnionReplaced
  <2>4. UnionHolds(u, Union!NoObject)
    BY <1>2, <2>1 DEF UnionHolds
  <2>5. /\ u.object.data \notin Payloads /\ Union!NoObject \in UnionObjects
        /\ contents' = [contents EXCEPT ![x] = Union!NoObject]
    BY <1>2, <1>5, <2>1 DEF Union!Release
  <2> QED
    BY <2>1, <2>3, <2>4, <2>5, UnionSet
<1>6. CASE Union!Reset(x)
  <2> DEFINE u == [store[x] EXCEPT !.occupied = NumTypes]
  <2>1. u \in UnionRecords /\ u.occupied = NumTypes /\ u.object.data = Shell
    BY <1>1, <1>2, <1>6 DEF UnionRecords, Union!Reset
  <2>2. store' = [store EXCEPT ![x] = u]
    BY <1>2, <1>6 DEF Union!Reset
  <2> HIDE DEF u
  <2>3. store' \in UnionStores /\ store'[x] = u /\ \A y \in Union!Names \ {x} : store'[y] = store[y]
    BY <2>1, <2>2, UnionReplaced
  <2>4. UnionHolds(u, Union!NoObject)
    BY <1>2, <2>1 DEF UnionHolds
  <2>5. /\ u.object.data \notin Payloads /\ Union!NoObject \in UnionObjects
        /\ contents' = [contents EXCEPT ![x] = Union!NoObject]
    BY <1>2, <1>6, <2>1 DEF Union!Reset
  <2> QED
    BY <2>1, <2>3, <2>4, <2>5, UnionSet
<1> QED
  BY <1>3, <1>4, <1>5, <1>6

\* swap of two unions that both have an object, or both have none.
LEMMA UnionSwaps ==
  ASSUME Union!UnionAssumption, Careful, UnionInv, Union!Swap
  PROVE  UnionInv'
<1> DEFINE u == store["x"]
           v == store["y"]
           swapped == Union!Swapped(u, v)
<1>1. /\ "x" \in Union!Names /\ "y" \in Union!Names /\ "x" # "y"
      /\ \A z \in Union!Names : z = "x" \/ z = "y"
  BY DEF Union!Names
<1>2. /\ u.occupied = NumTypes <=> v.occupied = NumTypes
      /\ store' = [store EXCEPT !.x = swapped.x, !.y = swapped.y,
                                !.misread = @ \/ Union!Misread(u) \/ Union!Misread(v)]
      /\ contents' = [x |-> contents["y"], y |-> contents["x"]]
  BY DEF Union!Swap, Union!Empty
<1>3. /\ u \in UnionRecords /\ u.object \in UnionObjects /\ u.object.type \in 0..NumTypes
      /\ contents["x"] \in UnionObjects /\ UnionHolds(u, contents["x"]) /\ ~Union!Misread(u)
  BY <1>1, UnionFacts
<1>4. /\ v \in UnionRecords /\ v.object \in UnionObjects /\ v.object.type \in 0..NumTypes
      /\ contents["y"] \in UnionObjects /\ UnionHolds(v, contents["y"]) /\ ~Union!Misread(v)
  BY <1>1, UnionFacts
<1>5. UnionsApart(u, v) /\ UnionsApart(v, u) /\ store \in UnionStores
  BY <1>1 DEF UnionInv
<1>6. /\ swapped.x \in UnionRecords /\ swapped.y \in UnionRecords
      /\ UnionHolds(swapped.x, contents["y"]) /\ UnionHolds(swapped.y, contents["x"])
      /\ UnionsApart(swapped.x, swapped.y) /\ UnionsApart(swapped.y, swapped.x)
  <2>1. CASE u.occupied = NumTypes
    <3>1. swapped.x = u /\ swapped.y = v
      BY <1>2, <2>1, UnionShapes DEF Union!Swapped
    <3>2. /\ contents["x"].type = contents["y"].type /\ v.occupied = NumTypes
      BY <1>2, <1>3, <1>4, <2>1 DEF UnionHolds
    <3> HIDE DEF u, v
    <3>3. UnionHolds(u, contents["y"]) /\ UnionHolds(v, contents["x"])
      BY <1>3, <1>4, <2>1, <3>2 DEF UnionHolds
    <3> QED
      BY <1>3, <1>4, <1>5, <3>1, <3>3
  <2>2. CASE u.occupied # NumTypes
    <3>1. /\ swapped.x = Union!Union(v.object.type, v.object)
          /\ swapped.y = Union!Union(u.object.type, u.object)
      BY <1>2, <2>2, UnionShapes DEF Union!Swapped, Union!assign
    <3> HIDE DEF u, v, swapped
    <3>2. /\ swapped.x \in UnionRecords /\ swapped.x.occupied = v.object.type /\ swapped.x.object = v.object
          /\ swapped.y \in UnionRecords /\ swapped.y.occupied = u.object.type /\ swapped.y.object = u.object
      BY <1>3, <1>4, <3>1, UnionShapes
    <3>3. u.object = contents["x"] /\ v.object = contents["y"]
          /\ contents["x"].type # NumTypes /\ contents["y"].type # NumTypes
      BY <1>2, <1>3, <1>4, <2>2 DEF UnionHolds
    <3> QED
      BY <1>5, <3>2, <3>3 DEF UnionHolds, UnionsApart
  <2> QED
    BY <2>1, <2>2
<1> HIDE DEF swapped
<1>7. store' \in UnionStores /\ store'["x"] = swapped.x /\ store'["y"] = swapped.y
  <2>1. store.misread \/ Union!Misread(u) \/ Union!Misread(v) <=> FALSE
    BY <1>3, <1>4, <1>5 DEF UnionStores
  <2> HIDE DEF u, v
  <2> QED
    BY <1>2, <1>5, <1>6, <2>1 DEF UnionStores
<1>8. /\ contents' \in [Union!Names -> UnionObjects]
      /\ contents'["x"] = contents["y"] /\ contents'["y"] = contents["x"]
  BY <1>2, <1>3, <1>4 DEF Union!Names
<1> HIDE DEF u, v
<1> QED
  BY <1>1, <1>6, <1>7, <1>8, UnionPut

\* Every step of careful clients keeps the unions in order.
LEMMA UnionStep ==
  ASSUME Union!UnionAssumption, Careful, UnionInv, Union!Next PROVE UnionInv'
BY UnionSets, UnionEmptied, UnionSwaps DEF Union!Next

\* A union in order holds what it was last given, and no payload was lost or misread.
LEMMA UnionIsExact ==
  ASSUME UnionInv PROVE Union!UnionExact
<1>1. \A x \in Union!Names : UnionHolds(store[x], contents[x])
  BY DEF UnionInv
<1>2. UnionsApart(store["x"], store["y"])
  BY DEF UnionInv, Union!Names
<1>3. store.lost = {} /\ ~store.misread
  BY DEF UnionInv, UnionStores
<1> QED
  BY <1>1, <1>2, <1>3 DEF Union!UnionExact, UnionHolds, UnionsApart, Union!Empty

----------------------------------------------------------------------------
(* fixed_vector *)

VecHeld == Values \cup {Raw, Shell}

\* What move_backward has done of a move by s after k steps.
Shifted(data, last, s, k) ==
    [i \in Vector!Slots |-> IF i \in last + s - k..last + s - 1 THEN data[i - s]
                            ELSE IF i \in last - k..last - 1 THEN Shell
                            ELSE data[i]]

\* One more step.
LEMMA ShiftedStep ==
  ASSUME Capacity \in Nat, NEW data, NEW first \in 0..Capacity, NEW last \in first..Capacity, NEW s \in Int,
         0 =< first + s, last + s =< Capacity, s >= 0 \/ last + s =< first, NEW k \in 0..last - first - 1
  PROVE  Vector!assign(Shifted(data, last, s, k), last - (k + 1), last + s - (k + 1)) = Shifted(data, last, s, k + 1)
<1> DEFINE a == Shifted(data, last, s, k)
           b == Shifted(data, last, s, k + 1)
           from == last - (k + 1)
           to == last + s - (k + 1)
<1>1. from \in Vector!Slots /\ to \in Vector!Slots /\ from + s = to /\ (from = to <=> s = 0)
  BY DEF Vector!Slots
<1>2. /\ a[from] = data[from] /\ b[to] = data[from]
      /\ s # 0 => b[from] = Shell
      /\ \A i \in Vector!Slots \ {from, to} : a[i] = b[i]
      /\ s = 0 => a[to] = b[to]
  BY <1>1 DEF Shifted, Vector!Slots
<1>3. DOMAIN a = Vector!Slots /\ DOMAIN b = Vector!Slots
      /\ a = [i \in Vector!Slots |-> a[i]] /\ b = [i \in Vector!Slots |-> b[i]]
  BY DEF Shifted
<1> HIDE DEF a, b, from, to
<1>4. Vector!assign(a, from, to) = b
  BY <1>1, <1>2, <1>3 DEF Vector!assign
<1> QED
  BY <1>4 DEF a, b, from, to

\* move_backward moves the slots from one place up to another, when they go up or do not overlap.
LEMMA MoveBackward ==
  ASSUME Capacity \in Nat, NEW data, NEW first \in 0..Capacity, NEW last \in first..Capacity, NEW d_last \in 0..Capacity,
         data = [i \in Vector!Slots |-> data[i]],
         0 =< first + (d_last - last), d_last >= last \/ d_last =< first
  PROVE  Vector!move_backward(data, first, last, d_last) = Shifted(data, last, d_last - last, last - first)
<1> DEFINE n == last - first
           s == d_last - last
           turn(f, k) == IF k = 0 THEN data ELSE Vector!assign(f[k - 1], last - k, d_last - k)
           moved == CHOOSE f : f = [k \in 0..n |-> turn(f, k)]
           G == [k \in 0..n |-> Shifted(data, last, s, k)]
<1>0. n \in Nat /\ s \in Int /\ last + s = d_last
  OBVIOUS
<1>1. Shifted(data, last, s, 0) = data
  <2>1. \A i \in Vector!Slots : i \notin last + s - 0..last + s - 1 /\ i \notin last - 0..last - 1
    BY <1>0 DEF Vector!Slots
  <2> QED
    BY <2>1 DEF Shifted
<1>2. G = [k \in 0..n |-> turn(G, k)]
  <2>1. \A k \in 0..n : turn(G, k) = Shifted(data, last, s, k)
    <3> TAKE k \in 0..n
    <3>1. CASE k = 0
      BY <1>1, <3>1
    <3>2. CASE k # 0
      <4>1. k - 1 \in 0..last - first - 1 /\ k - 1 \in 0..n /\ (k - 1) + 1 = k
        BY <3>2
      <4>2. Vector!assign(Shifted(data, last, s, k - 1), last - k, last + s - k) = Shifted(data, last, s, k)
        <5> DEFINE j == k - 1
        <5>1. j \in 0..last - first - 1 /\ j + 1 = k
          BY <4>1
        <5> HIDE DEF j
        <5>2. 0 =< first + s /\ last + s =< Capacity /\ (s >= 0 \/ last + s =< first)
          BY <1>0
        <5> HIDE DEF s
        <5>3. Vector!assign(Shifted(data, last, s, j), last - (j + 1), last + s - (j + 1)) = Shifted(data, last, s, j + 1)
          BY <1>0, <5>1, <5>2, ShiftedStep
        <5> QED
          BY <5>1, <5>3 DEF j
      <4> QED
        BY <1>0, <3>2, <4>1, <4>2
    <3> QED
      BY <3>1, <3>2
  <2> QED
    BY <2>1
<1>3. moved = [k \in 0..n |-> turn(moved, k)]
  BY <1>2
<1>4. Vector!move_backward(data, first, last, d_last) = moved[n]
  BY DEF Vector!move_backward
<1> HIDE DEF moved, G
<1>5. moved[n] = G[n]
  <2> DEFINE S == {k \in 0..n : moved[k] = G[k]}
  <2>1. 0 \in S
    BY <1>0, <1>2, <1>3
  <2>2. \A k \in 0..n - 1 : k \in S => k + 1 \in S
    <3> SUFFICES ASSUME NEW k \in 0..n - 1, moved[k] = G[k] PROVE moved[k + 1] = G[k + 1]
      BY <1>0
    <3>1. k + 1 \in 0..n /\ k + 1 # 0 /\ (k + 1) - 1 = k
      BY <1>0
    <3>2. turn(moved, k + 1) = turn(G, k + 1)
      BY <3>1
    <3> QED
      BY <1>2, <1>3, <3>1, <3>2
  <2> HIDE DEF S
  <2>3. 0..n \subseteq S
    BY <1>0, <2>1, <2>2, UpTo
  <2>4. n \in S
    BY <1>0, <2>3
  <2> QED
    BY <2>4 DEF S
<1>6. G[n] = Shifted(data, last, s, n)
  BY <1>0 DEF G
<1> QED
  BY <1>4, <1>5, <1>6

VecRecords == [data : [Vector!Slots -> VecHeld], count : 0..Capacity]

\* A vector that should hold a sequence.
VecHolds(vec, seq) ==
    /\ vec \in VecRecords /\ seq \in Seq(Values) /\ Len(seq) = vec.count
    /\ \A i \in Vector!Slots : IF i < vec.count THEN vec.data[i] = seq[i + 1] ELSE vec.data[i] \in {Raw, Shell}

VecInv ==
    /\ store = [x \in Vector!Names |-> store[x]] /\ contents = [x \in Vector!Names |-> contents[x]]
    /\ \A x \in Vector!Names : VecHolds(store[x], contents[x])

\* A vector of slots that hold a sequence and are raw behind it is in order.
LEMMA VecMade ==
  ASSUME NEW data \in [Vector!Slots -> VecHeld], NEW count \in 0..Capacity, NEW seq \in Seq(Values), Len(seq) = count,
         \A i \in Vector!Slots : IF i < count THEN data[i] = seq[i + 1] ELSE data[i] \in {Raw, Shell}
  PROVE  VecHolds(Vector!Vector(data, count), seq)
BY DEF VecHolds, VecRecords, Vector!Vector

\* What is known of a vector that is in order.
LEMMA VecFacts ==
  ASSUME Vector!VectorAssumption, NEW vec, NEW seq, VecHolds(vec, seq)
  PROVE  /\ vec.data \in [Vector!Slots -> VecHeld] /\ vec.count \in 0..Capacity /\ Capacity \in Nat \ {0}
         /\ seq \in Seq(Values) /\ Len(seq) = vec.count
         /\ \A i \in 1..vec.count : seq[i] \in Values /\ i - 1 \in Vector!Slots /\ vec.data[i - 1] = seq[i]
         /\ \A i \in Vector!Slots : IF i < vec.count THEN vec.data[i] = seq[i + 1] ELSE vec.data[i] \in {Raw, Shell}
         /\ Raw \notin Values /\ Shell \notin Values /\ Vector!Slots = 0..Capacity - 1
<1>1. vec.data \in [Vector!Slots -> VecHeld] /\ vec.count \in 0..Capacity /\ Capacity \in Nat \ {0}
      /\ seq \in Seq(Values) /\ Len(seq) = vec.count /\ Raw \notin Values /\ Shell \notin Values
  BY DEF VecHolds, VecRecords, Vector!VectorAssumption
<1>2. \A i \in Vector!Slots : IF i < vec.count THEN vec.data[i] = seq[i + 1] ELSE vec.data[i] \in {Raw, Shell}
  BY DEF VecHolds
<1>3. \A i \in 1..vec.count : i - 1 \in Vector!Slots /\ i - 1 < vec.count /\ (i - 1) + 1 = i
  BY <1>1 DEF Vector!Slots
<1>4. \A i \in 1..vec.count : vec.data[i - 1] = seq[i]
  BY <1>2, <1>3
<1>5. \A i \in 1..vec.count : seq[i] \in Values
  BY <1>1, ElementOfSeq
<1> QED
  BY <1>1, <1>2, <1>3, <1>4, <1>5 DEF Vector!Slots

\* A vector is put in order.
LEMMA VecSet ==
  ASSUME VecInv, NEW x \in Vector!Names, NEW vec, NEW seq, VecHolds(vec, seq), Vector!Set(x, vec, seq)
  PROVE  VecInv'
<1>1. store' = [store EXCEPT ![x] = vec] /\ contents' = [contents EXCEPT ![x] = seq]
  BY DEF Vector!Set
<1>2. \A y \in Vector!Names : VecHolds(store'[y], contents'[y])
  BY <1>1 DEF VecInv
<1> QED
  BY <1>1, <1>2 DEF VecInv, VecHolds, VecRecords, VecHeld, Vector!Slots, Vector!Names

\* Nothing changes when no vector does.
LEMMA VecStays ==
  ASSUME VecInv, UNCHANGED Vector!vars
  PROVE  VecInv'
BY DEF VecInv, VecHolds, VecRecords, VecHeld, Vector!Slots, Vector!Names, Vector!vars

\* Both vectors start empty.
LEMMA VecStarts ==
  ASSUME Vector!VectorAssumption, Vector!Init PROVE VecInv
<1> DEFINE data == [i \in Vector!Slots |-> Raw]
<1>1. VecHolds(Vector!Vector(data, 0), <<>>)
  <2>1. /\ data \in [Vector!Slots -> VecHeld] /\ 0 \in 0..Capacity /\ <<>> \in Seq(Values) /\ Len(<<>>) = 0
        /\ \A i \in Vector!Slots : IF i < 0 THEN data[i] = <<>>[i + 1] ELSE data[i] \in {Raw, Shell}
    BY DEF VecHeld, Vector!VectorAssumption, Vector!Slots
  <2> HIDE DEF data
  <2> QED
    BY <2>1, VecMade
<1>2. store = [x \in Vector!Names |-> Vector!Vector(data, 0)] /\ contents = [x \in Vector!Names |-> <<>>]
  BY DEF Vector!Init, Vector!EmptyVector
<1> HIDE DEF data
<1> QED
  BY <1>1, <1>2 DEF VecInv

\* push_back and emplace_back fill the first raw slot.
LEMMA VecPushes ==
  ASSUME Vector!VectorAssumption, VecInv, NEW x \in Vector!Names, NEW v \in Values, Vector!PushBack(x, v)
  PROVE  VecInv'
<1> DEFINE vec == store[x]
           seq == contents[x]
           data == [vec.data EXCEPT ![vec.count] = v]
<1>1. VecHolds(vec, seq)
  BY DEF VecInv
<1>2. /\ vec.data \in [Vector!Slots -> VecHeld] /\ vec.count \in 0..Capacity /\ Capacity \in Nat \ {0}
      /\ seq \in Seq(Values) /\ Len(seq) = vec.count
      /\ \A i \in Vector!Slots : IF i < vec.count THEN vec.data[i] = seq[i + 1] ELSE vec.data[i] \in {Raw, Shell}
      /\ Vector!Slots = 0..Capacity - 1
  BY <1>1, VecFacts
<1>3. CASE vec.count = Capacity
  BY <1>3, VecStays DEF Vector!PushBack
<1>4. CASE vec.count # Capacity
  <2>1. Vector!Set(x, Vector!Vector(data, vec.count + 1), Append(seq, v))
    BY <1>4 DEF Vector!PushBack, Vector!emplace
  <2>2. /\ Append(seq, v) \in Seq(Values) /\ Len(Append(seq, v)) = vec.count + 1
        /\ \A i \in 1..vec.count : Append(seq, v)[i] = seq[i]
        /\ Append(seq, v)[vec.count + 1] = v
    BY <1>2, AppendProperties
  <2>3. data \in [Vector!Slots -> VecHeld] /\ vec.count + 1 \in 0..Capacity
    BY <1>2, <1>4 DEF VecHeld
  <2>4. \A i \in Vector!Slots :
           IF i < vec.count + 1 THEN data[i] = Append(seq, v)[i + 1] ELSE data[i] \in {Raw, Shell}
    <3> TAKE i \in Vector!Slots
    <3>1. CASE i < vec.count
      BY <1>2, <1>4, <2>2, <3>1
    <3>2. CASE i = vec.count
      BY <1>2, <1>4, <2>2, <3>2
    <3>3. CASE i > vec.count
      BY <1>2, <1>4, <3>3
    <3> QED
      BY <1>2, <3>1, <3>2, <3>3
  <2> HIDE DEF data, vec, seq
  <2>5. VecHolds(Vector!Vector(data, vec.count + 1), Append(seq, v))
    BY <2>2, <2>3, <2>4, VecMade
  <2> QED
    BY <2>1, <2>5, VecSet
<1> QED
  BY <1>3, <1>4

\* pop_back destroys the last element.
LEMMA VecPops ==
  ASSUME Vector!VectorAssumption, VecInv, NEW x \in Vector!Names, Vector!PopBack(x)
  PROVE  VecInv'
<1> DEFINE vec == store[x]
           seq == contents[x]
           data == [vec.data EXCEPT ![vec.count - 1] = Raw]
           rest == SubSeq(seq, 1, Len(seq) - 1)
<1>1. VecHolds(vec, seq)
  BY DEF VecInv
<1>2. /\ vec.data \in [Vector!Slots -> VecHeld] /\ vec.count \in 0..Capacity /\ Capacity \in Nat \ {0}
      /\ seq \in Seq(Values) /\ Len(seq) = vec.count
      /\ \A i \in 1..vec.count : seq[i] \in Values
      /\ \A i \in Vector!Slots : IF i < vec.count THEN vec.data[i] = seq[i + 1] ELSE vec.data[i] \in {Raw, Shell}
      /\ Vector!Slots = 0..Capacity - 1
  BY <1>1, VecFacts
<1>3. vec.count > 0 /\ Vector!Set(x, Vector!Vector(data, vec.count - 1), rest)
  BY DEF Vector!PopBack, Vector!erase, Vector!Front
<1>4. /\ rest \in Seq(Values) /\ Len(rest) = vec.count - 1
      /\ \A i \in 1..vec.count - 1 : rest[i] = seq[i]
  BY <1>2, <1>3, SubSeqProperties
<1>5. data \in [Vector!Slots -> VecHeld] /\ vec.count - 1 \in 0..Capacity
  BY <1>2, <1>3 DEF VecHeld
<1>6. \A i \in Vector!Slots : IF i < vec.count - 1 THEN data[i] = rest[i + 1] ELSE data[i] \in {Raw, Shell}
  <2> TAKE i \in Vector!Slots
  <2>1. CASE i < vec.count - 1
    <3>1. i + 1 \in 1..vec.count - 1 /\ i < vec.count /\ data[i] = vec.data[i]
      BY <1>2, <2>1
    <3>2. rest[i + 1] = seq[i + 1]
      BY <1>4, <3>1
    <3> HIDE DEF data, rest, vec, seq
    <3> QED
      BY <1>2, <2>1, <3>1, <3>2
  <2>2. CASE i = vec.count - 1
    BY <1>2, <1>3, <2>2
  <2>3. CASE i > vec.count - 1
    BY <1>2, <1>3, <2>3
  <2> QED
    BY <1>2, <2>1, <2>2, <2>3
<1> HIDE DEF data, vec, seq, rest
<1>7. VecHolds(Vector!Vector(data, vec.count - 1), rest)
  BY <1>4, <1>5, <1>6, VecMade
<1> QED
  BY <1>3, <1>7, VecSet

\* A sequence into which another is put.
Spliced(seq, at, vs) == SubSeq(seq, 1, at) \o vs \o SubSeq(seq, at + 1, Len(seq))

\* What is in it.
LEMMA Inserted ==
  ASSUME NEW S, NEW seq \in Seq(S), NEW at \in 0..Len(seq), NEW vs \in Seq(S)
  PROVE  /\ Spliced(seq, at, vs) \in Seq(S) /\ Len(Spliced(seq, at, vs)) = Len(seq) + Len(vs)
         /\ \A i \in 1..at : Spliced(seq, at, vs)[i] = seq[i]
         /\ \A i \in at + 1..at + Len(vs) : Spliced(seq, at, vs)[i] = vs[i - at]
         /\ \A i \in at + Len(vs) + 1..Len(seq) + Len(vs) : Spliced(seq, at, vs)[i] = seq[i - Len(vs)]
<1> DEFINE a == SubSeq(seq, 1, at)
           b == SubSeq(seq, at + 1, Len(seq))
<1>1. Len(seq) \in Nat /\ Len(vs) \in Nat /\ \A i \in 1..Len(seq) : seq[i] \in S
  BY LenProperties, ElementOfSeq
<1>2. a \in Seq(S) /\ Len(a) = at /\ \A i \in 1..at : a[i] = seq[i]
  BY <1>1, SubSeqProperties
<1>3. b \in Seq(S) /\ Len(b) = Len(seq) - at /\ \A i \in 1..Len(seq) - at : b[i] = seq[at + i]
  BY <1>1, SubSeqProperties
<1> HIDE DEF a, b
<1>4. /\ a \o vs \in Seq(S) /\ Len(a \o vs) = at + Len(vs)
      /\ \A i \in 1..at + Len(vs) : (a \o vs)[i] = IF i <= at THEN a[i] ELSE vs[i - at]
  BY <1>1, <1>2, ConcatProperties
<1> DEFINE c == a \o vs
           new == c \o b
<1>5. c \in Seq(S) /\ Len(c) = at + Len(vs)
  BY <1>4
<1> HIDE DEF c
<1>6. /\ new \in Seq(S) /\ Len(new) = at + Len(vs) + (Len(seq) - at)
      /\ \A i \in 1..at + Len(vs) + (Len(seq) - at) : new[i] = IF i <= at + Len(vs) THEN c[i] ELSE b[i - (at + Len(vs))]
  <2>1. /\ c \o b \in Seq(S) /\ Len(c \o b) = Len(c) + Len(b)
        /\ \A i \in 1..Len(c) + Len(b) : (c \o b)[i] = IF i <= Len(c) THEN c[i] ELSE b[i - Len(c)]
    BY <1>3, <1>5, ConcatProperties
  <2> QED
    BY <1>3, <1>5, <2>1
<1> HIDE DEF new
<1>7. \A i \in 1..at : new[i] = seq[i]
  BY <1>1, <1>2, <1>4, <1>6 DEF c
<1>8. \A i \in at + 1..at + Len(vs) : new[i] = vs[i - at]
  BY <1>1, <1>4, <1>6 DEF c
<1>9. \A i \in at + Len(vs) + 1..Len(seq) + Len(vs) : new[i] = seq[i - Len(vs)]
  <2> TAKE i \in at + Len(vs) + 1..Len(seq) + Len(vs)
  <2>1. new[i] = b[i - (at + Len(vs))] /\ i - (at + Len(vs)) \in 1..Len(seq) - at
    BY <1>1, <1>6
  <2>2. b[i - (at + Len(vs))] = seq[at + (i - (at + Len(vs)))]
    BY <1>3, <2>1
  <2>3. at + (i - (at + Len(vs))) = i - Len(vs)
    BY <1>1
  <2> QED
    BY <2>1, <2>2, <2>3
<1>10. new \in Seq(S) /\ Len(new) = Len(seq) + Len(vs)
  BY <1>1, <1>6
<1>11. new = Spliced(seq, at, vs)
  BY DEF Spliced, new, c, a, b
<1> QED
  BY <1>7, <1>8, <1>9, <1>10, <1>11

\* Room is made in the slots and filled.
LEMMA VecOpened ==
  ASSUME Vector!VectorAssumption, NEW vec, NEW seq, VecHolds(vec, seq), NEW at \in 0..vec.count,
         NEW vs \in Seq(Values), vec.count + Len(vs) =< Capacity
  PROVE  VecHolds(Vector!Vector(Vector!emplace_all(Vector!opened(vec, at, Len(vs)), at, vs), vec.count + Len(vs)),
                  Spliced(seq, at, vs))
<1> DEFINE n == Len(vs)
           count == vec.count
           old == vec.data
           new == Spliced(seq, at, vs)
           data == Vector!emplace_all(Vector!opened(vec, at, n), at, vs)
<1>1. /\ old \in [Vector!Slots -> VecHeld] /\ count \in 0..Capacity /\ Capacity \in Nat \ {0}
      /\ seq \in Seq(Values) /\ Len(seq) = count
      /\ \A i \in Vector!Slots : IF i < count THEN old[i] = seq[i + 1] ELSE old[i] \in {Raw, Shell}
      /\ Vector!Slots = 0..Capacity - 1
  BY VecFacts
<1>2. n \in Nat /\ \A i \in 1..n : vs[i] \in Values
  BY LenProperties, ElementOfSeq
<1>3. /\ new \in Seq(Values) /\ Len(new) = count + n
      /\ \A i \in 1..at : new[i] = seq[i]
      /\ \A i \in at + 1..at + n : new[i] = vs[i - at]
      /\ \A i \in at + n + 1..count + n : new[i] = seq[i - n]
  <2>1. at \in 0..Len(seq)
    BY <1>1
  <2>2. /\ new \in Seq(Values) /\ Len(new) = Len(seq) + n
        /\ \A i \in 1..at : new[i] = seq[i]
        /\ \A i \in at + 1..at + n : new[i] = vs[i - at]
        /\ \A i \in at + n + 1..Len(seq) + n : new[i] = seq[i - n]
    <3>1. seq \in Seq(Values) /\ vs \in Seq(Values)
      BY <1>1
    <3> HIDE DEF n, new
    <3>2. Spliced(seq, at, vs) \in Seq(Values) /\ Len(Spliced(seq, at, vs)) = Len(seq) + Len(vs)
      BY <2>1, <3>1, Inserted
    <3>3. \A i \in 1..at : Spliced(seq, at, vs)[i] = seq[i]
      BY <2>1, <3>1, Inserted
    <3>4. \A i \in at + 1..at + Len(vs) : Spliced(seq, at, vs)[i] = vs[i - at]
      BY <2>1, <3>1, Inserted
    <3>5. \A i \in at + Len(vs) + 1..Len(seq) + Len(vs) : Spliced(seq, at, vs)[i] = seq[i - Len(vs)]
      BY <2>1, <3>1, Inserted
    <3> QED
      BY <3>2, <3>3, <3>4, <3>5 DEF n, new
  <2> QED
    BY <1>1, <2>2
<1>4. Vector!opened(vec, at, n) = Shifted(old, count, n, count - at)
  <2>1. /\ Capacity \in Nat /\ at \in 0..Capacity /\ count \in at..Capacity /\ count + n \in 0..Capacity
        /\ old = [i \in Vector!Slots |-> old[i]] /\ 0 =< at + ((count + n) - count) /\ count + n >= count
        /\ (count + n) - count = n
    <3> HIDE DEF old, n
    <3>1. count + n =< Capacity /\ at \in 0..count
      BY DEF n
    <3> HIDE DEF count
    <3>2. old = [i \in Vector!Slots |-> old[i]]
      BY <1>1
    <3> QED
      BY <1>1, <1>2, <3>1, <3>2
  <2> HIDE DEF n, count, old
  <2>2. Vector!move_backward(old, at, count, count + n) = Shifted(old, count, (count + n) - count, count - at)
    BY <2>1, MoveBackward
  <2> QED
    BY <2>1, <2>2 DEF Vector!opened, count, old
<1>5. data = [i \in Vector!Slots |-> IF i \in at..at + n - 1 THEN vs[i - at + 1]
                                     ELSE Shifted(old, count, n, count - at)[i]]
  BY <1>4 DEF Vector!emplace_all
<1> HIDE DEF n, count, old, new, data
<1>6. \A i \in Vector!Slots : IF i < count + n THEN data[i] = new[i + 1] ELSE data[i] \in {Raw, Shell}
  <2> TAKE i \in Vector!Slots
  <2>1. CASE i < at
    <3>1. data[i] = old[i]
      BY <1>1, <1>2, <1>5, <2>1 DEF Shifted, count
    <3>2. i + 1 \in 1..at /\ i < count
      BY <1>1, <2>1 DEF count
    <3> QED
      BY <1>1, <1>2, <1>3, <3>1, <3>2
  <2>2. CASE i \in at..at + n - 1
    <3>1. data[i] = vs[i - at + 1] /\ i + 1 \in at + 1..at + n /\ i < count + n /\ (i + 1) - at = i - at + 1
      BY <1>1, <1>2, <1>5, <2>2 DEF count
    <3> QED
      BY <1>3, <3>1
  <2>3. CASE i \in at + n..count + n - 1
    <3>1. data[i] = old[i - n] /\ i - n \in Vector!Slots /\ i - n < count
      <4>1. i \notin at..at + n - 1 /\ i \in count + n - (count - at)..count + n - 1
        BY <1>1, <1>2, <2>3 DEF count
      <4>2. data[i] = old[i - n]
        BY <1>5, <4>1 DEF Shifted
      <4>3. i - n \in Vector!Slots /\ i - n < count
        BY <1>1, <1>2, <2>3 DEF count
      <4> QED
        BY <4>2, <4>3
    <3>2. i + 1 \in at + n + 1..count + n /\ (i + 1) - n = (i - n) + 1
      BY <1>1, <1>2, <2>3 DEF count
    <3>3. i + 1 \in at + n + 1..Len(seq) + n
      BY <1>1, <3>2
    <3>4. new[i + 1] = seq[(i - n) + 1]
      BY <1>3, <3>2, <3>3
    <3>5. old[i - n] = seq[(i - n) + 1]
      BY <1>1, <3>1
    <3>6. i < count + n
      BY <1>1, <1>2, <2>3 DEF count
    <3> QED
      BY <3>1, <3>4, <3>5, <3>6
  <2>4. CASE i >= count + n
    <3>1. data[i] = old[i]
      BY <1>1, <1>2, <1>5, <2>4 DEF Shifted, count
    <3> QED
      BY <1>1, <1>2, <2>4, <3>1
  <2> QED
    BY <1>1, <1>2, <2>1, <2>2, <2>3, <2>4 DEF count
<1>7. data \in [Vector!Slots -> VecHeld]
  <2>1. data = [i \in Vector!Slots |-> data[i]]
    BY <1>5
  <2>2. \A i \in Vector!Slots : data[i] \in VecHeld
    <3> TAKE i \in Vector!Slots
    <3>1. i < count + n => i + 1 \in 1..Len(new)
      BY <1>1, <1>2, <1>3
    <3>2. i < count + n => new[i + 1] \in Values
      BY <1>3, <3>1, ElementOfSeq
    <3> QED
      BY <1>6, <3>2 DEF VecHeld
  <2> QED
    BY <2>1, <2>2
<1>8. count + n \in 0..Capacity
  BY <1>1, <1>2 DEF count, n
<1>9. VecHolds(Vector!Vector(data, count + n), new)
  BY <1>3, <1>6, <1>7, <1>8, VecMade
<1> QED
  BY <1>9 DEF data, count, n, new

\* insert of copies of a value, and emplace.
LEMMA VecInserts ==
  ASSUME Vector!VectorAssumption, VecInv, NEW x \in Vector!Names, NEW at \in Vector!Slots, NEW n \in 0..2,
         NEW v \in Values, Vector!Insert(x, at, n, v)
  PROVE  VecInv'
<1> DEFINE vs == [k \in 1..n |-> v]
<1>1. VecHolds(store[x], contents[x]) /\ at \in 0..store[x].count
  BY DEF VecInv, Vector!Insert
<1>2. vs \in Seq(Values) /\ Len(vs) = n
  OBVIOUS
<1>3. CASE store[x].count + n > Capacity
  BY <1>3, VecStays DEF Vector!Insert
<1>4. CASE ~(store[x].count + n > Capacity)
  <2>1. Vector!Set(x, Vector!Vector(Vector!emplace_all(Vector!opened(store[x], at, n), at, vs), store[x].count + n),
                   Spliced(contents[x], at, vs))
    BY <1>4 DEF Vector!Insert, Spliced
  <2>2. store[x].count + n =< Capacity
    BY <1>1, <1>4, VecFacts
  <2> HIDE DEF vs
  <2>3. VecHolds(Vector!Vector(Vector!emplace_all(Vector!opened(store[x], at, n), at, vs), store[x].count + n),
                 Spliced(contents[x], at, vs))
    BY <1>1, <1>2, <2>2, VecOpened
  <2> QED
    BY <2>1, <2>3, VecSet
<1> QED
  BY <1>3, <1>4

\* The insertion of an empty range.
LEMMA VecInsertsRange ==
  ASSUME Vector!VectorAssumption, Careful, VecInv, NEW x \in Vector!Names, NEW at \in Vector!Slots, NEW vs,
         Vector!InsertRange(x, at, vs)
  PROVE  VecInv'
<1>1. VecHolds(store[x], contents[x]) /\ at \in 0..store[x].count /\ vs = <<>>
  BY DEF VecInv, Vector!InsertRange
<1>2. vs \in Seq(Values) /\ Len(vs) = 0
  BY <1>1
<1>3. store[x].count \in 0..Capacity /\ Capacity \in Nat
  BY <1>1, VecFacts
<1>4. Vector!Set(x, Vector!Vector(Vector!emplace_all(Vector!opened(store[x], at, Len(vs)), at, vs), store[x].count + Len(vs)),
                 Spliced(contents[x], at, vs))
  BY <1>2, <1>3 DEF Vector!InsertRange, Spliced
<1>5. VecHolds(Vector!Vector(Vector!emplace_all(Vector!opened(store[x], at, Len(vs)), at, vs), store[x].count + Len(vs)),
               Spliced(contents[x], at, vs))
  <2>1. store[x].count + Len(vs) =< Capacity
    BY <1>2, <1>3
  <2> QED
    BY <1>1, <1>2, <2>1, VecOpened
<1> QED
  BY <1>4, <1>5, VecSet

\* A sequence without the elements from a place up to another.
Cut(seq, first, last) == SubSeq(seq, 1, first) \o SubSeq(seq, last + 1, Len(seq))

\* What is in it.
LEMMA Erased ==
  ASSUME NEW S, NEW seq \in Seq(S), NEW last \in 0..Len(seq), NEW first \in 0..last
  PROVE  /\ Cut(seq, first, last) \in Seq(S) /\ Len(Cut(seq, first, last)) = Len(seq) - (last - first)
         /\ \A i \in 1..first : Cut(seq, first, last)[i] = seq[i]
         /\ \A i \in first + 1..Len(seq) - (last - first) : Cut(seq, first, last)[i] = seq[i + (last - first)]
<1> DEFINE a == SubSeq(seq, 1, first)
           b == SubSeq(seq, last + 1, Len(seq))
<1>1. Len(seq) \in Nat /\ \A i \in 1..Len(seq) : seq[i] \in S
  BY LenProperties, ElementOfSeq
<1>2. a \in Seq(S) /\ Len(a) = first /\ \A i \in 1..first : a[i] = seq[i]
  BY <1>1, SubSeqProperties
<1>3. b \in Seq(S) /\ Len(b) = Len(seq) - last /\ \A i \in 1..Len(seq) - last : b[i] = seq[last + i]
  BY <1>1, SubSeqProperties
<1> HIDE DEF a, b
<1>4. /\ a \o b \in Seq(S) /\ Len(a \o b) = Len(a) + Len(b)
      /\ \A i \in 1..Len(a) + Len(b) : (a \o b)[i] = IF i <= Len(a) THEN a[i] ELSE b[i - Len(a)]
  BY <1>2, <1>3, ConcatProperties
<1> DEFINE new == a \o b
<1>5. new \in Seq(S) /\ Len(new) = Len(seq) - (last - first)
  BY <1>1, <1>2, <1>3, <1>4
<1>6. \A i \in 1..first : new[i] = seq[i]
  BY <1>1, <1>2, <1>3, <1>4
<1>7. \A i \in first + 1..Len(seq) - (last - first) : new[i] = seq[i + (last - first)]
  <2> TAKE i \in first + 1..Len(seq) - (last - first)
  <2>3. i \in 1..Len(a) + Len(b) /\ ~(i <= Len(a)) /\ i - first \in 1..Len(seq) - last
    BY <1>1, <1>2, <1>3
  <2>1. new[i] = b[i - first] /\ i - first \in 1..Len(seq) - last
    BY <1>2, <1>4, <2>3
  <2>2. b[i - first] = seq[last + (i - first)] /\ last + (i - first) = i + (last - first)
    BY <1>3, <2>1
  <2> QED
    BY <2>1, <2>2
<1>8. new = Cut(seq, first, last)
  BY DEF Cut, a, b
<1> QED
  BY <1>5, <1>6, <1>7, <1>8

\* erase, when the elements behind the gap are no more than the gap.
LEMMA VecErases ==
  ASSUME Vector!VectorAssumption, Careful, VecInv, NEW x \in Vector!Names,
         NEW first \in Vector!Slots, NEW last \in 1..Capacity, Vector!Erase(x, first, last)
  PROVE  VecInv'
<1> DEFINE vec == store[x]
           count == vec.count
           old == vec.data
           seq == contents[x]
           n == last - first
           gap == Vector!cleared_gap(old, first, last)
           data == Vector!move_backward(gap, last, count, count - n)
           new == Cut(seq, first, last)
<1>1. VecHolds(vec, seq)
  BY DEF VecInv
<1>2. /\ old \in [Vector!Slots -> VecHeld] /\ count \in 0..Capacity /\ Capacity \in Nat \ {0}
      /\ seq \in Seq(Values) /\ Len(seq) = count
      /\ \A i \in Vector!Slots : IF i < count THEN old[i] = seq[i + 1] ELSE old[i] \in {Raw, Shell}
      /\ Vector!Slots = 0..Capacity - 1
  BY <1>1, VecFacts
<1>3. 0 =< first /\ first < last /\ last =< count /\ count - last =< n /\ Vector!Set(x, Vector!Vector(data, count - n), new)
  BY DEF Vector!Erase, Cut
<1> HIDE DEF vec, count, old, seq
<1>4. first \in 0..last /\ last \in 0..Len(seq) /\ n \in Nat /\ count - n \in 0..Capacity
  BY <1>2, <1>3
<1> HIDE DEF n, new
<1>17. seq \in Seq(Values) /\ last \in 0..Len(seq) /\ first \in 0..last
  BY <1>2, <1>4
<1>5. Cut(seq, first, last) \in Seq(Values) /\ Len(Cut(seq, first, last)) = Len(seq) - (last - first)
  BY <1>17, Erased
<1>6. \A i \in 1..first : Cut(seq, first, last)[i] = seq[i]
  BY <1>17, Erased
<1>14. \A i \in first + 1..Len(seq) - (last - first) : Cut(seq, first, last)[i] = seq[i + (last - first)]
  BY <1>17, Erased
<1>15. new \in Seq(Values) /\ Len(new) = count - n /\ \A i \in 1..first : new[i] = seq[i]
  BY <1>2, <1>5, <1>6 DEF n, new
<1>16. \A i \in first + 1..count - n : new[i] = seq[i + n]
  BY <1>2, <1>14 DEF n, new
<1>7. data = Shifted(gap, count, (count - n) - count, count - last)
  <2>1. gap = [i \in Vector!Slots |-> gap[i]]
    BY DEF Vector!cleared_gap
  <2>2. /\ Capacity \in Nat /\ last \in 0..Capacity /\ count \in last..Capacity /\ count - n \in 0..Capacity
        /\ 0 =< last + ((count - n) - count) /\ count - n =< last
    BY <1>2, <1>3, <1>4 DEF n
  <2> HIDE DEF gap
  <2> QED
    BY <2>1, <2>2, MoveBackward
<1>8. data = [i \in Vector!Slots |-> IF i \in first..count - n - 1 THEN gap[i + n]
                                     ELSE IF i \in last..count - 1 THEN Shell
                                     ELSE gap[i]]
  <2>1. /\ count + ((count - n) - count) - (count - last) = first
        /\ count + ((count - n) - count) - 1 = count - n - 1
        /\ count - (count - last) = last
    BY <1>2, <1>3
  <2>2. \A i \in Vector!Slots : i - ((count - n) - count) = i + n
    BY <1>2, <1>4
  <2> HIDE DEF gap, n
  <2> QED
    BY <1>7, <2>1, <2>2 DEF Shifted
<1>9. \A i \in Vector!Slots : gap[i] = IF i \in first..last - 1 THEN Raw ELSE old[i]
  BY DEF Vector!cleared_gap
<1> HIDE DEF n, gap, data, new
<1>10. n = last - first
  BY DEF n
<1>11. \A i \in Vector!Slots : IF i < count - n THEN data[i] = new[i + 1] ELSE data[i] \in {Raw, Shell}
  <2> TAKE i \in Vector!Slots
  <2>1. CASE i < first
    <3>1. data[i] = old[i] /\ i + 1 \in 1..first /\ i < count /\ i < count - n
      BY <1>2, <1>3, <1>8, <1>9, <1>10, <2>1
    <3> QED
      BY <1>2, <1>15, <3>1
  <2>2. CASE i \in first..count - n - 1
    <3>1. data[i] = gap[i + n] /\ i + n \in Vector!Slots /\ i + n >= last /\ i + n < count
      BY <1>2, <1>3, <1>8, <1>10, <2>2
    <3>2. data[i] = old[i + n]
      BY <1>9, <1>10, <1>2, <3>1
    <3>3. i + 1 \in first + 1..count - n /\ (i + 1) + n = (i + n) + 1
      BY <1>2, <1>10, <2>2
    <3>4. new[i + 1] = seq[(i + n) + 1]
      BY <1>16, <3>3
    <3>5. old[i + n] = seq[(i + n) + 1]
      BY <1>2, <3>1
    <3>6. i < count - n
      BY <1>2, <1>4, <2>2
    <3> QED
      BY <3>1, <3>2, <3>4, <3>5, <3>6
  <2>3. CASE i >= count - n /\ i >= first /\ i < count
    <3>1. i \in last..count - 1 => data[i] = Shell
      BY <1>2, <1>8, <1>10, <2>3
    <3>2. i \notin last..count - 1 => data[i] = Raw
      BY <1>2, <1>3, <1>8, <1>9, <1>10, <2>3
    <3> QED
      BY <1>2, <1>10, <2>3, <3>1, <3>2
  <2>4. CASE i >= count
    <3>1. data[i] = old[i]
      BY <1>2, <1>3, <1>8, <1>9, <1>10, <2>4
    <3> QED
      BY <1>2, <1>3, <1>10, <2>4, <3>1
  <2> QED
    BY <1>2, <1>3, <1>10, <2>1, <2>2, <2>3, <2>4
<1>12. data \in [Vector!Slots -> VecHeld]
  <2>1. data = [i \in Vector!Slots |-> data[i]]
    BY <1>8
  <2>2. \A i \in Vector!Slots : i < count - n => i + 1 \in 1..Len(new)
    BY <1>2, <1>4, <1>15
  <2>3. \A i \in Vector!Slots : i < count - n => new[i + 1] \in Values
    BY <1>15, <2>2, ElementOfSeq
  <2> QED
    BY <1>11, <2>1, <2>3 DEF VecHeld
<1>13. VecHolds(Vector!Vector(data, count - n), new)
  BY <1>4, <1>15, <1>11, <1>12, VecMade
<1> QED
  BY <1>3, <1>13, VecSet

\* A cleared vector is in order and empty.
LEMMA VecCleared ==
  ASSUME Vector!VectorAssumption, NEW vec, NEW seq, VecHolds(vec, seq)
  PROVE  \A i \in Vector!Slots : Vector!cleared(vec)[i] \in {Raw, Shell}
BY VecFacts DEF Vector!cleared

\* assign clears the vector and fills its first slots.
LEMMA VecAssigns ==
  ASSUME Vector!VectorAssumption, VecInv, NEW x \in Vector!Names, NEW vs \in Seq(Values), Vector!Assign(x, vs)
  PROVE  VecInv'
<1> DEFINE kept == Vector!Min({Len(vs), Capacity})
           data == [i \in Vector!Slots |-> IF i < kept THEN vs[i + 1] ELSE Vector!cleared(store[x])[i]]
           new == SubSeq(vs, 1, kept)
<1>1. VecHolds(store[x], contents[x])
  BY DEF VecInv
<1>2. Capacity \in Nat \ {0} /\ Vector!Slots = 0..Capacity - 1
      /\ \A i \in Vector!Slots : Vector!cleared(store[x])[i] \in {Raw, Shell}
  BY <1>1, VecFacts, VecCleared
<1>3. Len(vs) \in Nat /\ \A i \in 1..Len(vs) : vs[i] \in Values
  BY LenProperties, ElementOfSeq
<1>4. kept \in 0..Capacity /\ kept =< Len(vs)
  <2>1. \E k \in {Len(vs), Capacity} : \A j \in {Len(vs), Capacity} : k =< j
    BY <1>2, <1>3
  <2>2. kept \in {Len(vs), Capacity} /\ \A j \in {Len(vs), Capacity} : kept =< j
    BY <2>1 DEF Vector!Min
  <2> QED
    BY <1>2, <1>3, <2>2
<1>5. Vector!Set(x, Vector!Vector(data, kept), new)
  BY DEF Vector!Assign
<1> HIDE DEF kept
<1>6. new \in Seq(Values) /\ Len(new) = kept /\ \A i \in 1..kept : new[i] = vs[i]
  BY <1>3, <1>4, SubSeqProperties
<1>7. data \in [Vector!Slots -> VecHeld]
  BY <1>2, <1>3, <1>4 DEF VecHeld
<1>8. \A i \in Vector!Slots : IF i < kept THEN data[i] = new[i + 1] ELSE data[i] \in {Raw, Shell}
  BY <1>2, <1>4, <1>6
<1> HIDE DEF data, new
<1>9. VecHolds(Vector!Vector(data, kept), new)
  BY <1>4, <1>6, <1>7, <1>8, VecMade
<1> QED
  BY <1>5, <1>9, VecSet

\* A move assignment leaves the other without elements.
LEMMA VecMoves ==
  ASSUME Vector!VectorAssumption, VecInv, NEW x \in Vector!Names, NEW y \in Vector!Names, Vector!Move(x, y)
  PROVE  VecInv'
<1> DEFINE from == store[y]
           to == [i \in Vector!Slots |-> IF i < from.count THEN from.data[i] ELSE Vector!cleared(store[x])[i]]
           left == [i \in Vector!Slots |-> IF i < from.count THEN Shell ELSE from.data[i]]
<1>1. VecHolds(store[x], contents[x]) /\ VecHolds(from, contents[y])
  BY DEF VecInv
<1>2. /\ from.data \in [Vector!Slots -> VecHeld] /\ from.count \in 0..Capacity /\ Capacity \in Nat \ {0}
      /\ contents[y] \in Seq(Values) /\ Len(contents[y]) = from.count
      /\ \A i \in Vector!Slots : IF i < from.count THEN from.data[i] = contents[y][i + 1] ELSE from.data[i] \in {Raw, Shell}
      /\ \A i \in Vector!Slots : Vector!cleared(store[x])[i] \in {Raw, Shell}
      /\ Vector!Slots = 0..Capacity - 1
  BY <1>1, VecFacts, VecCleared
<1>3. VecHolds(Vector!Vector(to, from.count), contents[y])
  <2>1. to \in [Vector!Slots -> VecHeld]
    BY <1>2 DEF VecHeld
  <2>2. \A i \in Vector!Slots : IF i < from.count THEN to[i] = contents[y][i + 1] ELSE to[i] \in {Raw, Shell}
    BY <1>2
  <2>3. from.count \in 0..Capacity /\ contents[y] \in Seq(Values) /\ Len(contents[y]) = from.count
    BY <1>2
  <2>4. \A i \in Vector!Slots : IF i < from.count THEN to[i] = contents[y][i + 1] ELSE to[i] \in {Raw, Shell}
    BY <2>2
  <2> HIDE DEF to, from
  <2> QED
    BY <2>1, <2>3, <2>4, VecMade
<1>4. VecHolds(Vector!Vector(left, 0), <<>>)
  <2>1. left \in [Vector!Slots -> VecHeld]
    BY <1>2 DEF VecHeld
  <2>2. \A i \in Vector!Slots : IF i < 0 THEN left[i] = <<>>[i + 1] ELSE left[i] \in {Raw, Shell}
    BY <1>2
  <2>3. <<>> \in Seq(Values) /\ Len(<<>>) = 0 /\ 0 \in 0..Capacity
    BY <1>2
  <2> HIDE DEF left
  <2> QED
    BY <2>1, <2>2, <2>3, VecMade
<1>5. /\ x # y
      /\ store' = [store EXCEPT ![x] = Vector!Vector(to, from.count), ![y] = Vector!Vector(left, 0)]
      /\ contents' = [contents EXCEPT ![x] = contents[y], ![y] = <<>>]
  BY DEF Vector!Move, Vector!LeftCount
<1> HIDE DEF from, to, left
<1>6. \A z \in Vector!Names : VecHolds(store'[z], contents'[z])
  BY <1>3, <1>4, <1>5 DEF VecInv
<1> QED
  BY <1>5, <1>6 DEF VecInv, VecHolds, VecRecords, VecHeld, Vector!Slots, Vector!Names

\* swap exchanges the elements and the counts.
LEMMA VecSwaps ==
  ASSUME VecInv, Vector!SwapVectors PROVE VecInv'
<1>1. /\ store' = [store EXCEPT !["a"] = store["b"], !["b"] = store["a"]]
      /\ contents' = [contents EXCEPT !["a"] = contents["b"], !["b"] = contents["a"]]
  BY DEF Vector!SwapVectors
<1>2. \A z \in Vector!Names : VecHolds(store'[z], contents'[z])
  BY <1>1 DEF VecInv, Vector!Names
<1> QED
  BY <1>1, <1>2 DEF VecInv, VecHolds, VecRecords, VecHeld, Vector!Slots, Vector!Names

\* Every step of careful clients keeps the vectors in order.
LEMMA VecStep ==
  ASSUME Vector!VectorAssumption, Careful, VecInv, Vector!Next PROVE VecInv'
<1>1. ASSUME NEW x \in Vector!Names, NEW vs \in Vector!Lists, Vector!Assign(x, vs) PROVE VecInv'
  <2>1. PICK n \in {0, 2, Capacity + 1} : vs \in [1..n -> Values]
    BY DEF Vector!Lists
  <2>2. n \in Nat
    BY DEF Vector!VectorAssumption
  <2>3. vs \in Seq(Values)
    BY <2>1, <2>2, SeqDef
  <2> QED
    BY <1>1, <2>3, VecAssigns
<1>2. ASSUME NEW x \in Vector!Names, Vector!Clear(x) PROVE VecInv'
  <2>1. <<>> \in Seq(Values)
    OBVIOUS
  <2> QED
    BY <1>2, <2>1, VecAssigns DEF Vector!Clear
<1> QED
  BY <1>1, <1>2, VecPushes, VecInserts, VecPops, VecErases, VecInsertsRange, VecMoves, VecSwaps DEF Vector!Next

\* A vector in order holds what the calls put there, and nothing behind it.
LEMMA VecExact ==
  ASSUME Vector!VectorAssumption, VecInv PROVE Vector!ElementsExact /\ Vector!SlotsSound
<1>1. ASSUME NEW x \in Vector!Names
      PROVE  /\ contents[x] = [i \in 1..store[x].count |-> store[x].data[i - 1]]
             /\ \A i \in Vector!Slots : store[x].data[i] \in Values <=> i < store[x].count
  <2>1. VecHolds(store[x], contents[x])
    BY DEF VecInv
  <2>2. /\ contents[x] \in Seq(Values) /\ Len(contents[x]) = store[x].count /\ store[x].count \in 0..Capacity
        /\ \A i \in 1..store[x].count : contents[x][i] \in Values /\ store[x].data[i - 1] = contents[x][i]
        /\ \A i \in Vector!Slots : IF i < store[x].count THEN store[x].data[i] = contents[x][i + 1]
                                                         ELSE store[x].data[i] \in {Raw, Shell}
        /\ Raw \notin Values /\ Shell \notin Values /\ Vector!Slots = 0..Capacity - 1
    BY <2>1, VecFacts
  <2>3. contents[x] = [i \in 1..store[x].count |-> contents[x][i]]
    BY <2>2, LenProperties
  <2>4. \A i \in Vector!Slots : i < store[x].count => i + 1 \in 1..store[x].count
    BY <2>2
  <2> QED
    BY <2>2, <2>3, <2>4
<1> QED
  BY <1>1 DEF Vector!ElementsExact, Vector!SlotsSound

----------------------------------------------------------------------------
(* copy *)

CopyPolicies == [kind : {"exactly", "at_most"}, value : Nat, maybe_eof : BOOLEAN]
CopyRecords  == [src : Seq(Nat), dst : Seq(Nat), bytes_to_read : SUBSET CopyPolicies, total_read : Nat,
                 short : BOOLEAN, at : {"copying", "failed", "done"}]

\* Each policy asks for at least what is left to copy, and one for no more; one that
\* takes a short read for the end of the source was told of one.
PoliciesAgree(policies, left, exact, short) ==
    /\ left \in Nat
    /\ \A p \in policies : /\ p.value >= left
                           /\ exact => p.kind = "exactly"
                           /\ p.maybe_eof => short /\ p.kind = "at_most"
    /\ \E p \in policies : p.value = left

CopyInv ==
    /\ store \in CopyRecords
    /\ contents \in [src : Seq(Nat), asked : Nat, exact : BOOLEAN]
    /\ store.total_read = Len(store.dst)
    /\ PoliciesAgree(store.bytes_to_read, contents.asked - store.total_read, contents.exact, store.short)
    /\ Copy!IsPrefix(store.dst, contents.src)
    /\ store.at # "failed" => store.dst \o store.src = contents.src
    /\ store.at = "done" => \/ store.total_read = contents.asked
                            \/ store.src = <<>>
                            \/ store.short /\ ~contents.exact

\* The least of a set is the one that is no larger than any.
LEMMA CopyMin ==
  ASSUME NEW P \in SUBSET Nat, NEW n \in P, \A m \in P : m >= n
  PROVE  Copy!Min(P) = n
<1>1. \A m \in P : n =< m
  OBVIOUS
<1>2. Copy!Min(P) \in P /\ \A m \in P : Copy!Min(P) =< m
  BY <1>1 DEF Copy!Min
<1>3. n \in Nat /\ Copy!Min(P) \in Nat
  BY <1>2
<1>4. Copy!Min(P) >= n /\ Copy!Min(P) =< n
  BY <1>2
<1> QED
  BY <1>3, <1>4

\* What a set of policies that agree asks for.
LEMMA PoliciesValue ==
  ASSUME NEW policies \in SUBSET CopyPolicies, NEW left, NEW exact, NEW short,
         PoliciesAgree(policies, left, exact, short)
  PROVE  Copy!Value(policies) = left
<1> DEFINE P == {p.value : p \in policies}
<1>1. P \in SUBSET Nat
  BY DEF CopyPolicies
<1>2. left \in P /\ \A m \in P : m >= left
  BY DEF PoliciesAgree
<1> HIDE DEF P
<1>3. Copy!Min(P) = left
  BY <1>1, <1>2, CopyMin
<1> QED
  BY <1>3 DEF Copy!Value, P

\* The first bytes and those that are left are all of them.
LEMMA SplitAt ==
  ASSUME NEW S, NEW seq \in Seq(S), NEW n \in 0..Len(seq)
  PROVE  /\ SubSeq(seq, 1, n) \in Seq(S) /\ Len(SubSeq(seq, 1, n)) = n
         /\ SubSeq(seq, n + 1, Len(seq)) \in Seq(S)
         /\ SubSeq(seq, 1, n) \o SubSeq(seq, n + 1, Len(seq)) = seq
<1>1. Len(seq) \in Nat /\ \A i \in 1..Len(seq) : seq[i] \in S
  BY LenProperties, ElementOfSeq
<1>2. SubSeq(seq, 1, n) \in Seq(S) /\ Len(SubSeq(seq, 1, n)) = n
  BY <1>1, SubSeqProperties
<1>3. SubSeq(seq, n + 1, Len(seq)) \in Seq(S)
  BY <1>1, SubSeqProperties
<1>4. SubSeq(seq, 1, n) \o SubSeq(seq, n + 1, Len(seq)) = SubSeq(seq, 1, Len(seq))
  <2>1. 1 \in 1..Len(seq) + 1 /\ n \in 1 - 1..Len(seq) /\ Len(seq) \in n..Len(seq)
    BY <1>1
  <2> QED
    BY <2>1, ConcatAdjacentSubSeq
<1>5. SubSeq(seq, 1, Len(seq)) = seq
  BY SubSeqFull
<1> QED
  BY <1>2, <1>3, <1>4, <1>5

\* The first bytes of one sequence go over to the end of another.
MovedOver(dst, src, n) == (dst \o SubSeq(src, 1, n)) \o SubSeq(src, n + 1, Len(src))

\* Moving the first bytes of the source to the end of what was copied loses none.
LEMMA NothingLost ==
  ASSUME NEW S, NEW dst \in Seq(S), NEW src \in Seq(S), NEW n \in 0..Len(src)
  PROVE  MovedOver(dst, src, n) = dst \o src
<1>1. \A a, b \in Seq(S) : (dst \o a) \o b = dst \o (a \o b)
  BY ConcatAssociative
<1> DEFINE a == SubSeq(src, 1, n)
           b == SubSeq(src, n + 1, Len(src))
<1>2. a \in Seq(S) /\ b \in Seq(S) /\ a \o b = src
  BY SplitAt
<1> HIDE DEF a, b
<1>3. (dst \o a) \o b = dst \o src
  BY <1>1, <1>2
<1> QED
  BY <1>3 DEF MovedOver, a, b

\* What a sequence begins with is a prefix of it.
LEMMA BeginsWith ==
  ASSUME NEW a \in Seq(Nat), NEW b \in Seq(Nat)
  PROVE  Copy!IsPrefix(a, a \o b)
<1>1. Len(a) \in Nat /\ Len(b) \in Nat /\ a \o b \in Seq(Nat) /\ Len(a \o b) = Len(a) + Len(b)
      /\ \A i \in 1..Len(a) : (a \o b)[i] = a[i]
  BY LenProperties, ConcatProperties
<1>2. \A i \in 1..Len(a) : a[i] \in Nat /\ (a \o b)[i] \in Nat
  BY <1>1, ElementOfSeq
<1>3. SubSeq(a, 1, Len(a)) = a
  BY SubSeqFull
<1>4. /\ SubSeq(a \o b, 1, Len(a)) \in Seq(Nat) /\ Len(SubSeq(a \o b, 1, Len(a))) = Len(a)
      /\ \A i \in 1..Len(a) : SubSeq(a \o b, 1, Len(a))[i] = (a \o b)[i]
  BY <1>1, <1>2, SubSeqProperties
<1>5. SubSeq(a \o b, 1, Len(a)) = a
  BY <1>1, <1>4, SeqEqual
<1> QED
  BY <1>1, <1>3, <1>5 DEF Copy!IsPrefix

\* The policies that a caller gives agree on what is left to copy.
LEMMA CopyStarts ==
  ASSUME Copy!CopyAssumption, Copy!Init PROVE CopyInv
<1>1. PICK length \in 0..MaxBytes, policies \in Copy!Policies :
    /\ store = [src |-> [i \in 1..length |-> i], dst |-> <<>>, bytes_to_read |-> policies,
                total_read |-> 0, short |-> FALSE, at |-> "copying"]
    /\ contents = [src |-> store.src, asked |-> Copy!Value(policies),
                   exact |-> \A p \in policies : p.kind = "exactly"]
  BY DEF Copy!Init
<1>2. MaxBytes \in Nat
  BY DEF Copy!CopyAssumption
<1> DEFINE bytes == [i \in 1..length |-> i]
<1>3. bytes \in Seq(Nat)
  BY <1>1, <1>2
<1>4. /\ policies \in SUBSET CopyPolicies
      /\ \A p \in policies : ~p.maybe_eof
      /\ \E p \in policies : \A q \in policies : q.value >= p.value
  <2>1. CASE \E n \in 0..MaxBytes : policies = {Copy!Policy("exactly", n)} \/ policies = {Copy!Policy("at_most", n)}
    <3>1. PICK n \in 0..MaxBytes : policies = {Copy!Policy("exactly", n)} \/ policies = {Copy!Policy("at_most", n)}
      BY <2>1
    <3>2. n \in Nat
      BY <1>2
    <3>3. \A kind \in {"exactly", "at_most"} : LET p == Copy!Policy(kind, n)
                                                IN  p \in CopyPolicies /\ ~p.maybe_eof
      BY <3>2 DEF Copy!Policy, CopyPolicies
    <3>4. \E p \in CopyPolicies : policies = {p} /\ ~p.maybe_eof
      BY <3>1, <3>3
    <3> QED
      BY <3>4 DEF CopyPolicies
  <2>2. CASE \E n, k \in 1..MaxBytes : policies = {Copy!Policy("exactly", n), Copy!Policy("at_most", k)}
    <3>1. PICK n \in 1..MaxBytes, k \in 1..MaxBytes : policies = {Copy!Policy("exactly", n), Copy!Policy("at_most", k)}
      BY <2>2
    <3>2. n \in Nat /\ k \in Nat
      BY <1>2
    <3>3. CASE n =< k
      BY <3>1, <3>2, <3>3 DEF Copy!Policy, CopyPolicies
    <3>4. CASE k =< n
      BY <3>1, <3>2, <3>4 DEF Copy!Policy, CopyPolicies
    <3> QED
      BY <3>2, <3>3, <3>4
  <2> QED
    BY <1>1, <2>1, <2>2 DEF Copy!Policies
<1>5. PICK p \in policies : \A q \in policies : q.value >= p.value
  BY <1>4
<1>6. p.value \in Nat
  BY <1>4 DEF CopyPolicies
<1> DEFINE exact == \A q \in policies : q.kind = "exactly"
<1>7. PoliciesAgree(policies, p.value, exact, FALSE)
  BY <1>4, <1>5, <1>6 DEF PoliciesAgree
<1>8. Copy!Value(policies) = p.value
  BY <1>4, <1>7, PoliciesValue
<1>9. Len(<<>>) = 0 /\ <<>> \in Seq(Nat) /\ <<>> \o bytes = bytes
  BY <1>3, EmptySeq, ConcatEmptySeq
<1>10. Copy!IsPrefix(<<>>, bytes)
  BY <1>3, <1>9, BeginsWith
<1> HIDE DEF bytes
<1>11. store \in CopyRecords
  BY <1>1, <1>3, <1>4, <1>9 DEF CopyRecords, bytes
<1>12. contents = [src |-> bytes, asked |-> p.value, exact |-> exact]
  BY <1>1, <1>8 DEF bytes
<1>13. /\ store.src = bytes /\ store.dst = <<>> /\ store.total_read = 0 /\ store.at = "copying" /\ ~store.short
       /\ store.bytes_to_read = policies
  BY <1>1 DEF bytes
<1>14. contents.src = bytes /\ contents.asked = p.value /\ (contents.exact <=> exact)
       /\ contents \in [src : Seq(Nat), asked : Nat, exact : BOOLEAN]
  BY <1>3, <1>6, <1>12
<1>15. PoliciesAgree(store.bytes_to_read, contents.asked - store.total_read, contents.exact, store.short)
  BY <1>4, <1>5, <1>6, <1>13, <1>14 DEF PoliciesAgree
<1> QED
  BY <1>9, <1>10, <1>11, <1>13, <1>14, <1>15 DEF CopyInv

\* The policies after a turn.
ProcessedAll(policies, requested, n) == {Copy!Processed(p, requested, n) : p \in policies}

\* The policies after a read that was all written.
LEMMA PoliciesProcessed ==
  ASSUME NEW policies \in SUBSET CopyPolicies, NEW left, NEW exact, NEW short \in BOOLEAN,
         PoliciesAgree(policies, left, exact, short), NEW requested \in Nat, NEW n \in 0..left, n =< requested
  PROVE  /\ ProcessedAll(policies, requested, n) \in SUBSET CopyPolicies
         /\ PoliciesAgree(ProcessedAll(policies, requested, n), left - n, exact, short \/ n < requested)
<1> DEFINE processed(p) == Copy!Processed(p, requested, n)
<1>1. \A p \in policies :
        /\ processed(p) \in CopyPolicies /\ processed(p).kind = p.kind /\ processed(p).value = p.value - n
        /\ processed(p).maybe_eof => p.kind = "at_most" /\ n < requested
  <2> TAKE p \in policies
  <2>1. p \in CopyPolicies /\ p.value >= left /\ left \in Nat
    BY DEF PoliciesAgree
  <2>2. n \in Nat /\ p.value \in Nat /\ p.value >= n
    BY <2>1 DEF CopyPolicies
  <2>3. (IF n >= p.value THEN 0 ELSE p.value - n) = p.value - n /\ p.value - n \in Nat
    BY <2>2
  <2>4. processed(p) = [p EXCEPT !.value = p.value - n, !.maybe_eof = p.kind = "at_most" /\ requested > n]
    BY <2>1, <2>3 DEF Copy!Processed, CopyPolicies
  <2> HIDE DEF processed
  <2>5. processed(p) \in CopyPolicies /\ processed(p).kind = p.kind /\ processed(p).value = p.value - n
    BY <2>1, <2>3, <2>4 DEF CopyPolicies
  <2>6. processed(p).maybe_eof = (p.kind = "at_most" /\ requested > n)
    BY <2>1, <2>4 DEF CopyPolicies
  <2> QED
    BY <2>2, <2>5, <2>6
<1> HIDE DEF processed
<1>2. \A p \in policies : p.value \in Nat /\ p.value >= left /\ (exact => p.kind = "exactly")
  BY DEF PoliciesAgree, CopyPolicies
<1>3. left \in Nat /\ left - n \in Nat /\ n \in Nat
  BY DEF PoliciesAgree
<1>4. PICK p \in policies : p.value = left
  BY DEF PoliciesAgree
<1> DEFINE Q == {processed(q) : q \in policies}
<1>5. Q \in SUBSET CopyPolicies
  BY <1>1
<1>6. \A q \in Q : q.value >= left - n /\ (exact => q.kind = "exactly")
  BY <1>1, <1>2, <1>3
<1>7. \A q \in Q : q.maybe_eof => (short \/ n < requested) /\ q.kind = "at_most"
  BY <1>1
<1>8. \E q \in Q : q.value = left - n
  BY <1>1, <1>4
<1>9. Q = ProcessedAll(policies, requested, n)
  BY DEF processed, ProcessedAll
<1> HIDE DEF Q
<1>10. PoliciesAgree(Q, left - n, exact, short \/ n < requested)
  BY <1>3, <1>6, <1>7, <1>8 DEF PoliciesAgree
<1> QED
  BY <1>5, <1>9, <1>10

\* What is asked of the reader.
LEMMA CopyRequests ==
  ASSUME Copy!CopyAssumption, CopyInv
  PROVE  /\ Copy!Requested \in Nat /\ Copy!Requested =< contents.asked - store.total_read
         /\ contents.asked - store.total_read \in Nat
         /\ Len(store.src) \in Nat
         /\ Copy!Min({Copy!Requested, Len(store.src)}) \in Nat
         /\ Copy!Min({Copy!Requested, Len(store.src)}) =< Copy!Requested
         /\ Copy!Min({Copy!Requested, Len(store.src)}) =< Len(store.src)
<1>1. \A n, m \in Nat : Copy!Min({n, m}) \in {n, m} /\ Copy!Min({n, m}) =< n /\ Copy!Min({n, m}) =< m
  <2> TAKE n, m \in Nat
  <2>1. CASE n =< m
    <3>1. Copy!Min({n, m}) = n
      BY <2>1, CopyMin
    <3> QED
      BY <2>1, <3>1
  <2>2. CASE m =< n
    <3>1. Copy!Min({n, m}) = m
      BY <2>2, CopyMin
    <3> QED
      BY <2>2, <3>1
  <2> QED
    BY <2>1, <2>2
<1> DEFINE left == contents.asked - store.total_read
<1>2. PoliciesAgree(store.bytes_to_read, left, contents.exact, store.short) /\ store.bytes_to_read \in SUBSET CopyPolicies
      /\ store.src \in Seq(Nat)
  BY DEF CopyInv, CopyRecords
<1> HIDE DEF left
<1>3. Copy!Value(store.bytes_to_read) = left /\ left \in Nat
  BY <1>2, PoliciesValue DEF PoliciesAgree
<1>4. BufSize \in Nat
  BY DEF Copy!CopyAssumption
<1>5. Copy!Requested \in Nat /\ Copy!Requested =< left
  BY <1>1, <1>3, <1>4 DEF Copy!Requested
<1>6. Len(store.src) \in Nat
  BY <1>2, LenProperties
<1> QED
  BY <1>1, <1>3, <1>5, <1>6 DEF left

\* A turn whose bytes are all written moves them over and counts them in each policy.
LEMMA CopyTurns ==
  ASSUME Copy!CopyAssumption, Careful, CopyInv, Copy!Turn PROVE CopyInv'
<1> DEFINE req == Copy!Requested
<1>14. PICK n \in 1..Copy!Min({req, Len(store.src)}) : \E written \in 0..n :
          /\ Careful => written = n
          /\ store' = [store EXCEPT
              !.src = SubSeq(@, n + 1, Len(@)), !.dst = @ \o SubSeq(store.src, 1, written),
              !.total_read = @ + written, !.short = @ \/ n < req,
              !.bytes_to_read = {Copy!Processed(p, req, written) : p \in @}]
  BY DEF Copy!Turn
<1>1. store' = [store EXCEPT
              !.src = SubSeq(@, n + 1, Len(@)), !.dst = @ \o SubSeq(store.src, 1, n),
              !.total_read = @ + n, !.short = @ \/ n < req,
              !.bytes_to_read = ProcessedAll(@, req, n)]
  BY <1>14 DEF ProcessedAll
<1> HIDE DEF req
<1>2. /\ store \in CopyRecords /\ contents \in [src : Seq(Nat), asked : Nat, exact : BOOLEAN]
      /\ contents' = contents /\ store.at = "copying"
      /\ store.total_read = Len(store.dst) /\ store.dst \o store.src = contents.src
      /\ PoliciesAgree(store.bytes_to_read, contents.asked - store.total_read, contents.exact, store.short)
  BY DEF CopyInv, Copy!Turn
<1>3. /\ store.src \in Seq(Nat) /\ store.dst \in Seq(Nat) /\ store.total_read \in Nat
      /\ store.bytes_to_read \in SUBSET CopyPolicies /\ store.short \in BOOLEAN /\ contents.asked \in Nat
  BY <1>2 DEF CopyRecords
<1>4. /\ req \in Nat /\ n \in Nat /\ n =< req /\ n \in 0..Len(store.src)
      /\ n \in 0..contents.asked - store.total_read
  <2>1. /\ req \in Nat /\ req =< contents.asked - store.total_read /\ contents.asked - store.total_read \in Nat
        /\ Len(store.src) \in Nat
        /\ Copy!Min({req, Len(store.src)}) \in Nat
        /\ Copy!Min({req, Len(store.src)}) =< req
        /\ Copy!Min({req, Len(store.src)}) =< Len(store.src)
    BY CopyRequests DEF req
  <2> QED
    BY <2>1
<1> DEFINE src == SubSeq(store.src, n + 1, Len(store.src))
           moved == SubSeq(store.src, 1, n)
           dst == store.dst \o moved
           policies == ProcessedAll(store.bytes_to_read, req, n)
           short == store.short \/ n < req
<1>5. src \in Seq(Nat) /\ moved \in Seq(Nat) /\ Len(moved) = n /\ moved \o src = store.src
  BY <1>3, <1>4, SplitAt
<1>6. /\ policies \in SUBSET CopyPolicies
      /\ PoliciesAgree(policies, (contents.asked - store.total_read) - n, contents.exact, short)
  <2> DEFINE left == contents.asked - store.total_read
  <2>1. /\ PoliciesAgree(store.bytes_to_read, left, contents.exact, store.short)
        /\ n \in 0..left /\ req \in Nat /\ n =< req /\ store.bytes_to_read \in SUBSET CopyPolicies
        /\ store.short \in BOOLEAN
    BY <1>2, <1>3, <1>4
  <2> HIDE DEF left
  <2>2. ProcessedAll(store.bytes_to_read, req, n) \in SUBSET CopyPolicies
    BY <2>1, PoliciesProcessed
  <2>3. PoliciesAgree(ProcessedAll(store.bytes_to_read, req, n), left - n, contents.exact, store.short \/ n < req)
    BY <2>1, PoliciesProcessed
  <2> QED
    BY <2>2, <2>3 DEF left
<1>7. /\ store'.src = src /\ store'.dst = dst /\ store'.total_read = store.total_read + n
      /\ (store'.short <=> short) /\ store'.bytes_to_read = policies /\ store'.at = "copying"
  BY <1>1, <1>2 DEF CopyRecords
<1> HIDE DEF src, moved, dst, policies, short
<1>8. dst \in Seq(Nat) /\ Len(dst) = store.total_read + n /\ dst \o src = contents.src
  <2>1. dst \in Seq(Nat) /\ Len(dst) = Len(store.dst) + n
    BY <1>3, <1>5, ConcatProperties DEF dst
  <2>2. dst \o src = MovedOver(store.dst, store.src, n)
    BY DEF MovedOver, dst, src, moved
  <2>3. MovedOver(store.dst, store.src, n) = store.dst \o store.src
    BY <1>3, <1>4, NothingLost
  <2> QED
    BY <1>2, <1>5, <2>1, <2>2, <2>3
<1>9. store' \in CopyRecords
  <2>1. store.total_read + n \in Nat /\ short \in BOOLEAN
    BY <1>3, <1>4 DEF short
  <2>2. store' = [store EXCEPT !.src = src, !.dst = dst, !.total_read = store.total_read + n,
                               !.short = short, !.bytes_to_read = policies]
    BY <1>1, <1>2 DEF CopyRecords, src, moved, dst, policies, short
  <2> QED
    BY <1>2, <1>5, <1>6, <1>8, <2>1, <2>2 DEF CopyRecords
<1>10. Copy!IsPrefix(dst, contents.src)
  BY <1>5, <1>8, BeginsWith
<1>11. (contents.asked - store.total_read) - n = contents.asked - (store.total_read + n)
  BY <1>3, <1>4
<1>12. PoliciesAgree(store'.bytes_to_read, contents'.asked - store'.total_read, contents'.exact, store'.short)
  BY <1>2, <1>6, <1>7, <1>11 DEF PoliciesAgree
<1>13. CopyRecords' = CopyRecords
  BY DEF CopyRecords, CopyPolicies
<1> QED
  BY <1>2, <1>7, <1>8, <1>9, <1>10, <1>12, <1>13 DEF CopyInv, PoliciesAgree, Copy!IsPrefix

\* The copy fails, or returns.
LEMMA CopyEnds ==
  ASSUME Copy!CopyAssumption, CopyInv, Copy!Fail \/ Copy!Return PROVE CopyInv'
<1>1. CASE Copy!Fail
  <2>1. PICK n \in 0..Copy!Min({Copy!Requested, Len(store.src)}) :
          store' = [store EXCEPT !.src = SubSeq(@, n + 1, Len(@)), !.at = "failed"] /\ contents' = contents
    BY <1>1 DEF Copy!Fail
  <2>2. store \in CopyRecords /\ store.src \in Seq(Nat)
    BY DEF CopyInv, CopyRecords
  <2>3. n \in 0..Len(store.src)
    BY CopyRequests
  <2>4. SubSeq(store.src, n + 1, Len(store.src)) \in Seq(Nat)
    BY <2>2, <2>3, SplitAt
  <2>5. /\ store' \in CopyRecords /\ store'.dst = store.dst /\ store'.total_read = store.total_read
        /\ store'.short = store.short /\ store'.bytes_to_read = store.bytes_to_read /\ store'.at = "failed"
    BY <2>1, <2>2, <2>4 DEF CopyRecords
  <2> QED
    BY <2>1, <2>5 DEF CopyInv, CopyRecords, CopyPolicies, PoliciesAgree, Copy!IsPrefix
<1>2. CASE Copy!Return
  <2>1. /\ store.at = "copying" /\ (Copy!IsComplete(store.bytes_to_read) \/ store.src = <<>>)
        /\ store' = [store EXCEPT !.at = "done"] /\ contents' = contents
    BY <1>2 DEF Copy!Return
  <2>2. /\ store \in CopyRecords /\ store.bytes_to_read \in SUBSET CopyPolicies
        /\ store.total_read \in Nat /\ contents.asked \in Nat
        /\ PoliciesAgree(store.bytes_to_read, contents.asked - store.total_read, contents.exact, store.short)
    BY DEF CopyInv, CopyRecords
  <2>3. /\ store' \in CopyRecords /\ store'.dst = store.dst /\ store'.total_read = store.total_read
        /\ store'.short = store.short /\ store'.bytes_to_read = store.bytes_to_read /\ store'.at = "done"
        /\ store'.src = store.src
    BY <2>1, <2>2 DEF CopyRecords
  <2>4. \/ store.total_read = contents.asked
        \/ store.src = <<>>
        \/ store.short /\ ~contents.exact
    <3>1. CASE \E p \in store.bytes_to_read : p.value = 0
      BY <2>2, <3>1 DEF PoliciesAgree
    <3>2. CASE \E p \in store.bytes_to_read : p.maybe_eof
      BY <2>2, <3>2 DEF PoliciesAgree
    <3> QED
      BY <2>1, <3>1, <3>2 DEF Copy!IsComplete
  <2> QED
    BY <2>1, <2>3, <2>4 DEF CopyInv, CopyRecords, CopyPolicies, PoliciesAgree, Copy!IsPrefix
<1> QED
  BY <1>1, <1>2

\* Every step of the copy keeps its invariant.
LEMMA CopyStep ==
  ASSUME Copy!CopyAssumption, Careful, CopyInv, Copy!Next PROVE CopyInv'
BY CopyTurns, CopyEnds DEF Copy!Next

\* What has arrived is the beginning of what was sent, and all that was asked for at the end.
LEMMA CopyIsExact ==
  ASSUME CopyInv PROVE Copy!CopyExact
<1>1. store.total_read \in Nat /\ contents.asked \in Nat /\ contents.asked - store.total_read \in Nat
  BY DEF CopyInv, CopyRecords, PoliciesAgree
<1>2. store.total_read <= contents.asked
  BY <1>1
<1>3. store.at = "done" => store.dst \o store.src = contents.src
  BY DEF CopyInv
<1>4. store.at = "done" => \/ store.total_read = contents.asked
                           \/ store.src = <<>>
                           \/ store.short /\ ~contents.exact
  BY DEF CopyInv
<1>5. Copy!IsPrefix(store.dst, contents.src) /\ store.total_read = Len(store.dst)
  BY DEF CopyInv
<1> QED
  BY <1>2, <1>3, <1>4, <1>5 DEF Copy!CopyExact

----------------------------------------------------------------------------
(* work_list *)

WorkLambdas == [f : Functions, fails : Nat, retries : Nat]
WorkUnits   == {u \in [parts : Seq(WorkLambdas), chain : BOOLEAN] : u.chain \/ Len(u.parts) = 1}
WorkWorkers == [kind : {"inline", "chain"}, units : Seq(WorkUnits), busy : BOOLEAN]
WorkRecords == [work : Seq(WorkUnits), workers : Seq(WorkWorkers), num_busy : Nat, unit : Seq(WorkUnits),
                index : Nat, at : {"start", "round", "crashed", "done"}, called : [Functions -> Nat],
                before : [Functions -> SUBSET Functions]]

\* The functions of a chain, and of a list of units.
PartNames(parts) == {parts[i].f : i \in DOMAIN parts}
ListNames(units) == UNION {PartNames(units[i].parts) : i \in DOMAIN units}

\* None is there twice.
ChainsApart(u, v) == PartNames(u.parts) \cap PartNames(v.parts) = {}
PartsOnce(parts) == \A i, j \in DOMAIN parts : i # j => parts[i].f # parts[j].f
ListOnce(units) ==
    /\ \A i \in DOMAIN units : PartsOnce(units[i].parts)
    /\ \A i, j \in DOMAIN units : i # j => ChainsApart(units[i], units[j])

\* The calls made of each, and those still to be made.
PartsCounted(parts, called, due) ==
    \A i \in DOMAIN parts :
        called[parts[i].f] + Work!Calls(parts[i].fails, parts[i].retries) = due[parts[i].f]
ListCounted(units, called, due) == \A i \in DOMAIN units : PartsCounted(units[i].parts, called, due)

\* The workers' units: a busy worker has some, and an inline one has one at most.
Busy(workers)   == {i \in DOMAIN workers : workers[i].busy}
WorkerSound(w)  == /\ w.kind = "inline" => Len(w.units) =< 1
                   /\ w.busy <=> w.units # <<>>

\* Each function is in the units that wait, with one worker, or done with.
Placed(queue, workers, called, due) ==
    /\ ListOnce(queue) /\ ListCounted(queue, called, due)
    /\ \A i \in DOMAIN workers : /\ ListOnce(workers[i].units)
                                 /\ ListCounted(workers[i].units, called, due)
                                 /\ ListNames(workers[i].units) \cap ListNames(queue) = {}
    /\ \A i, j \in DOMAIN workers : i # j => ListNames(workers[i].units) \cap ListNames(workers[j].units) = {}
    /\ \A f \in Functions : \/ f \in ListNames(queue)
                            \/ \E i \in DOMAIN workers : f \in ListNames(workers[i].units)
                            \/ called[f] = due[f]

WorkInv ==
    /\ store \in WorkRecords /\ contents \in [Functions -> Nat]
    /\ store.index \in 1..Len(store.workers)
    /\ store.at = "start" => store.unit = <<>>
    /\ Len(store.unit) =< 1
    /\ store.at # "start" /\ store.unit = <<>> => store.work = <<>>
    /\ \A i \in DOMAIN store.workers : WorkerSound(store.workers[i])
    /\ store.num_busy = Cardinality(Busy(store.workers))
    /\ Placed(store.unit \o store.work, store.workers, store.called, contents)
    /\ store.at = "done" => store.called = contents

\* The units that there are: those that wait, and those of the workers.
Elements(s) == {s[i] : i \in DOMAIN s}
HeldBy(worker) == Elements(worker.units)
AllUnits ==
    Elements(store.unit \o store.work) \cup UNION {HeldBy(store.workers[i]) : i \in DOMAIN store.workers}

\* A function is called once at least, and once less after a failure that is retried.
LEMMA WorkCalls ==
  ASSUME NEW a \in Nat, NEW b \in Nat
  PROVE  /\ Work!Calls(a, b) \in Nat \ {0}
         /\ a = 0 \/ b = 0 => Work!Calls(a, b) = 1
         /\ a > 0 /\ b > 0 => Work!Calls(a - 1, b - 1) = Work!Calls(a, b) - 1
<1>1. \A m, n \in Nat : m =< n => Work!Min({m, n}) = m /\ Work!Min({n, m}) = m
  <2> TAKE m, n \in Nat
  <2> HAVE m =< n
  <2>1. \A S : S = {m, n} => Work!Min(S) = m
    <3> SUFFICES ASSUME NEW S, S = {m, n} PROVE Work!Min(S) = m
      OBVIOUS
    <3>1. \E k \in S : \A j \in S : k =< j
      OBVIOUS
    <3>2. Work!Min(S) \in S /\ \A j \in S : Work!Min(S) =< j
      BY <3>1 DEF Work!Min
    <3> QED
      BY <3>2
  <2> QED
    BY <2>1
<1>2. CASE a =< b
  <2>1. Work!Min({a, b}) = a /\ (a > 0 => a - 1 \in Nat /\ b - 1 \in Nat /\ Work!Min({a - 1, b - 1}) = a - 1)
    BY <1>1, <1>2
  <2> QED
    BY <1>2, <2>1 DEF Work!Calls
<1>3. CASE b =< a
  <2>1. Work!Min({a, b}) = b /\ (b > 0 => a - 1 \in Nat /\ b - 1 \in Nat /\ Work!Min({a - 1, b - 1}) = b - 1)
    BY <1>1, <1>3
  <2> QED
    BY <1>3, <2>1 DEF Work!Calls
<1> QED
  BY <1>2, <1>3

\* Where the elements of the second sequence are when it follows the first.
After(a, j) == Len(a) + j

\* Where the elements of two sequences are when one follows the other.
LEMMA JoinedAt ==
  ASSUME NEW S, NEW a \in Seq(S), NEW b \in Seq(S)
  PROVE  /\ a \o b \in Seq(S)
         /\ \A i \in DOMAIN a : i \in DOMAIN (a \o b) /\ (a \o b)[i] = a[i]
         /\ \A j \in DOMAIN b : After(a, j) \in DOMAIN (a \o b) /\ (a \o b)[After(a, j)] = b[j]
         /\ \A i \in DOMAIN (a \o b) : i \in DOMAIN a \/ \E j \in DOMAIN b : i = After(a, j)
         /\ \A i \in DOMAIN a, j \in DOMAIN b : i # After(a, j)
         /\ \A i, j \in DOMAIN b : After(a, i) = After(a, j) => i = j
<1> DEFINE c == a \o b
<1>1. Len(a) \in Nat /\ Len(b) \in Nat /\ DOMAIN a = 1..Len(a) /\ DOMAIN b = 1..Len(b)
  BY LenProperties
<1>2. c \in Seq(S) /\ Len(c) = Len(a) + Len(b)
      /\ \A i \in 1..Len(a) + Len(b) : c[i] = IF i <= Len(a) THEN a[i] ELSE b[i - Len(a)]
  BY ConcatProperties
<1> HIDE DEF c
<1>3. DOMAIN c = 1..Len(a) + Len(b)
  BY <1>2, LenProperties
<1>4. \A i \in 1..Len(a) : i \in DOMAIN c /\ c[i] = a[i]
  BY <1>1, <1>2, <1>3
<1>5. \A j \in 1..Len(b) : Len(a) + j \in DOMAIN c /\ c[Len(a) + j] = b[j]
  <2> TAKE j \in 1..Len(b)
  <2>1. Len(a) + j \in 1..Len(a) + Len(b) /\ ~(Len(a) + j <= Len(a)) /\ (Len(a) + j) - Len(a) = j
    BY <1>1
  <2> QED
    BY <1>2, <1>3, <2>1
<1>6. \A i \in DOMAIN c : i \in 1..Len(a) \/ \E j \in 1..Len(b) : i = Len(a) + j
  <2> TAKE i \in DOMAIN c
  <2>1. i \notin 1..Len(a) => i - Len(a) \in 1..Len(b) /\ i = Len(a) + (i - Len(a))
    BY <1>1, <1>3
  <2> QED
    BY <2>1
<1>7. \A i \in 1..Len(a), j \in 1..Len(b) : i # Len(a) + j
  BY <1>1
<1>8. \A i, j \in 1..Len(b) : Len(a) + i = Len(a) + j => i = j
  BY <1>1
<1> QED
  BY <1>1, <1>2, <1>4, <1>5, <1>6, <1>7, <1>8 DEF c, After

\* A sequence is its head and then its tail.
LEMMA HeadFirst ==
  ASSUME NEW S, NEW s \in Seq(S), s # <<>>
  PROVE  /\ s = <<s[1]>> \o Tail(s) /\ Head(s) = s[1] /\ s[1] \in S /\ Tail(s) \in Seq(S) /\ <<s[1]>> \in Seq(S)
         /\ Len(s) \in Nat \ {0} /\ Len(Tail(s)) = Len(s) - 1
<1>1. /\ Len(s) \in Nat \ {0} /\ Head(s) = s[1] /\ s[1] \in S
      /\ Tail(s) \in Seq(S) /\ Len(Tail(s)) = Len(s) - 1
      /\ \A i \in 1..Len(s) - 1 : Tail(s)[i] = s[i + 1]
  BY TailHas
<1> DEFINE h == <<s[1]>>
           c == h \o Tail(s)
<1>2. h \in Seq(S) /\ Len(h) = 1 /\ h[1] = s[1]
  BY <1>1
<1> HIDE DEF h
<1>6. /\ c \in Seq(S) /\ Len(c) = Len(h) + Len(Tail(s))
      /\ \A i \in 1..Len(h) + Len(Tail(s)) : c[i] = IF i <= Len(h) THEN h[i] ELSE Tail(s)[i - Len(h)]
  BY <1>1, <1>2, ConcatProperties
<1>3. /\ c \in Seq(S) /\ Len(c) = 1 + (Len(s) - 1)
      /\ \A i \in 1..1 + (Len(s) - 1) : c[i] = IF i <= 1 THEN h[i] ELSE Tail(s)[i - 1]
  BY <1>1, <1>2, <1>6
<1> HIDE DEF c
<1>4. Len(c) = Len(s) /\ \A i \in 1..Len(s) : c[i] = s[i]
  <2>1. Len(c) = Len(s) /\ 1..1 + (Len(s) - 1) = 1..Len(s)
    BY <1>1, <1>3
  <2>2. ASSUME NEW i \in 1..Len(s) PROVE c[i] = s[i]
    <3>1. CASE i = 1
      BY <1>2, <1>3, <2>1, <3>1
    <3>2. CASE i # 1
      <4>1. i - 1 \in 1..Len(s) - 1 /\ (i - 1) + 1 = i /\ ~(i <= 1)
        BY <1>1, <3>2
      <4>2. c[i] = Tail(s)[i - 1]
        BY <1>3, <2>1, <4>1
      <4>3. Tail(s)[i - 1] = s[(i - 1) + 1]
        BY <1>1, <4>1
      <4> QED
        BY <4>1, <4>2, <4>3
    <3> QED
      BY <3>1, <3>2
  <2> QED
    BY <2>1, <2>2
<1>5. c = s
  BY <1>3, <1>4, SeqEqual
<1> QED
  BY <1>1, <1>2, <1>5 DEF c, h

\* What two sequences in a row hold is what they hold, and what one of one element holds.
LEMMA ElementsJoined ==
  /\ Elements(<<>>) = {} /\ \A e : Elements(<<e>>) = {e}
  /\ \A S : \A a, b \in Seq(S) : Elements(a \o b) = Elements(a) \cup Elements(b)
  /\ \A S : \A a \in Seq(S) : a # <<>> =>
        Elements(a) = {Head(a)} \cup Elements(Tail(a)) /\ Elements(a) \subseteq S
<1>1. Elements(<<>>) = {} /\ \A e : Elements(<<e>>) = {e}
  <2>1. DOMAIN <<>> = {} /\ \A e : DOMAIN <<e>> = {1} /\ <<e>>[1] = e
    OBVIOUS
  <2> QED
    BY <2>1 DEF Elements
<1>2. ASSUME NEW S, NEW a \in Seq(S), NEW b \in Seq(S)
      PROVE  Elements(a \o b) = Elements(a) \cup Elements(b)
  <2> DEFINE c == a \o b
  <2>1. /\ \A i \in DOMAIN a : i \in DOMAIN c /\ c[i] = a[i]
        /\ \A j \in DOMAIN b : After(a, j) \in DOMAIN c /\ c[After(a, j)] = b[j]
        /\ \A i \in DOMAIN c : i \in DOMAIN a \/ \E j \in DOMAIN b : i = After(a, j)
    BY JoinedAt
  <2> HIDE DEF c
  <2>2. Elements(c) = Elements(a) \cup Elements(b)
    BY <2>1 DEF Elements
  <2> QED
    BY <2>2 DEF c
<1>3. ASSUME NEW S, NEW a \in Seq(S), a # <<>>
      PROVE  Elements(a) = {Head(a)} \cup Elements(Tail(a)) /\ Elements(a) \subseteq S
  <2>1. a = <<a[1]>> \o Tail(a) /\ Head(a) = a[1] /\ <<a[1]>> \in Seq(S) /\ Tail(a) \in Seq(S)
    BY <1>3, HeadFirst
  <2>2. Elements(<<a[1]>> \o Tail(a)) = Elements(<<a[1]>>) \cup Elements(Tail(a))
    BY <1>2, <2>1
  <2>3. Elements(a) \subseteq S
    BY LenProperties, ElementOfSeq DEF Elements
  <2>4. Elements(<<a[1]>>) = {Head(a)}
    BY <1>1, <2>1
  <2>5. Elements(a) = Elements(<<a[1]>> \o Tail(a))
    BY <2>1
  <2> QED
    BY <2>2, <2>3, <2>4, <2>5
<1> QED
  BY <1>1, <1>2, <1>3

\* The functions of two chains in a row are those of both.
LEMMA PartsJoined ==
  ASSUME NEW a \in Seq(WorkLambdas), NEW b \in Seq(WorkLambdas)
  PROVE  /\ PartNames(a \o b) = PartNames(a) \cup PartNames(b)
         /\ PartsOnce(a \o b) <=> PartsOnce(a) /\ PartsOnce(b) /\ PartNames(a) \cap PartNames(b) = {}
         /\ \A called : PartsCounted(a \o b, called, contents) <=> PartsCounted(a, called, contents) /\ PartsCounted(b, called, contents)
<1> DEFINE c == a \o b
<1>1. /\ \A i \in DOMAIN a : i \in DOMAIN c /\ c[i] = a[i]
      /\ \A j \in DOMAIN b : After(a, j) \in DOMAIN c /\ c[After(a, j)] = b[j]
      /\ \A i \in DOMAIN c : i \in DOMAIN a \/ \E j \in DOMAIN b : i = After(a, j)
      /\ \A i \in DOMAIN a, j \in DOMAIN b : i # After(a, j)
      /\ \A i, j \in DOMAIN b : After(a, i) = After(a, j) => i = j
  BY JoinedAt
<1> HIDE DEF c
<1>2. PartNames(c) = PartNames(a) \cup PartNames(b)
  BY <1>1 DEF PartNames
<1>3. ASSUME PartsOnce(c) PROVE PartsOnce(a) /\ PartsOnce(b) /\ PartNames(a) \cap PartNames(b) = {}
  <2>1. PartsOnce(a)
    BY <1>1, <1>3 DEF PartsOnce
  <2>2. PartsOnce(b)
    <3> SUFFICES ASSUME NEW i \in DOMAIN b, NEW j \in DOMAIN b, i # j PROVE b[i].f # b[j].f
      BY DEF PartsOnce
    <3>1. After(a, i) # After(a, j)
      BY <1>1
    <3> QED
      BY <1>1, <1>3, <3>1 DEF PartsOnce
  <2>3. \A i \in DOMAIN a, j \in DOMAIN b : a[i].f # b[j].f
    BY <1>1, <1>3 DEF PartsOnce
  <2> QED
    BY <2>1, <2>2, <2>3 DEF PartNames
<1>4. ASSUME PartsOnce(a), PartsOnce(b), PartNames(a) \cap PartNames(b) = {} PROVE PartsOnce(c)
  <2> SUFFICES ASSUME NEW i \in DOMAIN c, NEW j \in DOMAIN c, i # j PROVE c[i].f # c[j].f
    BY DEF PartsOnce
  <2>1. \A k \in DOMAIN a, n \in DOMAIN b : a[k].f # b[n].f
    BY <1>4 DEF PartNames
  <2>2. CASE i \in DOMAIN a /\ j \in DOMAIN a
    BY <1>1, <1>4, <2>2 DEF PartsOnce
  <2>3. CASE i \in DOMAIN a /\ j \notin DOMAIN a
    BY <1>1, <2>1, <2>3
  <2>4. CASE i \notin DOMAIN a /\ j \in DOMAIN a
    BY <1>1, <2>1, <2>4
  <2>5. CASE i \notin DOMAIN a /\ j \notin DOMAIN a
    BY <1>1, <1>4, <2>5 DEF PartsOnce
  <2> QED
    BY <2>2, <2>3, <2>4, <2>5
<1>5. \A called : PartsCounted(c, called, contents) <=> PartsCounted(a, called, contents) /\ PartsCounted(b, called, contents)
  BY <1>1 DEF PartsCounted
<1> QED
  BY <1>2, <1>3, <1>4, <1>5 DEF c

\* The functions of two lists of units in a row are those of both.
LEMMA ListsJoined ==
  ASSUME NEW a \in Seq(WorkUnits), NEW b \in Seq(WorkUnits)
  PROVE  /\ ListNames(a \o b) = ListNames(a) \cup ListNames(b)
         /\ ListOnce(a \o b) <=> ListOnce(a) /\ ListOnce(b) /\ ListNames(a) \cap ListNames(b) = {}
         /\ \A called : ListCounted(a \o b, called, contents) <=> ListCounted(a, called, contents) /\ ListCounted(b, called, contents)
<1> DEFINE c == a \o b
<1>1. /\ \A i \in DOMAIN a : i \in DOMAIN c /\ c[i] = a[i]
      /\ \A j \in DOMAIN b : After(a, j) \in DOMAIN c /\ c[After(a, j)] = b[j]
      /\ \A i \in DOMAIN c : i \in DOMAIN a \/ \E j \in DOMAIN b : i = After(a, j)
      /\ \A i \in DOMAIN a, j \in DOMAIN b : i # After(a, j)
      /\ \A i, j \in DOMAIN b : After(a, i) = After(a, j) => i = j
  BY JoinedAt
<1> HIDE DEF c
<1>2. ListNames(c) = ListNames(a) \cup ListNames(b)
  BY <1>1 DEF ListNames
<1>3. ASSUME ListOnce(c) PROVE ListOnce(a) /\ ListOnce(b) /\ ListNames(a) \cap ListNames(b) = {}
  <2>1. ListOnce(a)
    BY <1>1, <1>3 DEF ListOnce
  <2>2. ListOnce(b)
    <3>1. \A i \in DOMAIN b : PartsOnce(b[i].parts)
      BY <1>1, <1>3 DEF ListOnce
    <3>2. ASSUME NEW i \in DOMAIN b, NEW j \in DOMAIN b, i # j
          PROVE  ChainsApart(b[i], b[j])
      <4>1. After(a, i) # After(a, j)
        BY <1>1, <3>2
      <4> QED
        BY <1>1, <1>3, <4>1 DEF ListOnce
    <3> QED
      BY <3>1, <3>2 DEF ListOnce
  <2>3. \A i \in DOMAIN a, j \in DOMAIN b : ChainsApart(a[i], b[j])
    BY <1>1, <1>3 DEF ListOnce
  <2>4. ListNames(a) \cap ListNames(b) = {}
    <3> SUFFICES ASSUME NEW f \in ListNames(a), f \in ListNames(b) PROVE FALSE
      OBVIOUS
    <3>1. PICK i \in DOMAIN a : f \in PartNames(a[i].parts)
      BY DEF ListNames
    <3>2. PICK j \in DOMAIN b : f \in PartNames(b[j].parts)
      BY DEF ListNames
    <3> QED
      BY <2>3, <3>1, <3>2 DEF ChainsApart
  <2> QED
    BY <2>1, <2>2, <2>4
<1>4. ASSUME ListOnce(a), ListOnce(b), ListNames(a) \cap ListNames(b) = {} PROVE ListOnce(c)
  <2>1. \A k \in DOMAIN a, n \in DOMAIN b : ChainsApart(a[k], b[n])
    BY <1>4 DEF ListNames, ChainsApart
  <2>2. \A i \in DOMAIN c : PartsOnce(c[i].parts)
    BY <1>1, <1>4 DEF ListOnce
  <2>3. ASSUME NEW i \in DOMAIN c, NEW j \in DOMAIN c, i # j
        PROVE  ChainsApart(c[i], c[j])
    <3>2. CASE i \in DOMAIN a /\ j \in DOMAIN a
      BY <1>1, <1>4, <2>3, <3>2 DEF ListOnce
    <3>3. CASE i \in DOMAIN a /\ j \notin DOMAIN a
      BY <1>1, <2>1, <3>3
    <3>4. CASE i \notin DOMAIN a /\ j \in DOMAIN a
      <4>1. ChainsApart(c[j], c[i])
        BY <1>1, <2>1, <3>4
      <4> QED
        BY <4>1 DEF ChainsApart
    <3>5. CASE i \notin DOMAIN a /\ j \notin DOMAIN a
      BY <1>1, <1>4, <2>3, <3>5 DEF ListOnce
    <3> QED
      BY <3>2, <3>3, <3>4, <3>5
  <2> QED
    BY <2>2, <2>3 DEF ListOnce
<1>5. \A called : ListCounted(c, called, contents) <=> ListCounted(a, called, contents) /\ ListCounted(b, called, contents)
  BY <1>1 DEF ListCounted
<1> QED
  BY <1>2, <1>3, <1>4, <1>5 DEF c

\* The sequences of nothing and of one element.
LEMMA Singles ==
  /\ PartNames(<<>>) = {} /\ PartsOnce(<<>>) /\ \A called : PartsCounted(<<>>, called, contents)
  /\ ListNames(<<>>) = {} /\ ListOnce(<<>>) /\ \A called : ListCounted(<<>>, called, contents)
  /\ \A l : PartNames(<<l>>) = {l.f} /\ PartsOnce(<<l>>)
  /\ \A l, called : PartsCounted(<<l>>, called, contents) <=>
                      called[l.f] + Work!Calls(l.fails, l.retries) = contents[l.f]
  /\ \A u : ListNames(<<u>>) = PartNames(u.parts) /\ (ListOnce(<<u>>) <=> PartsOnce(u.parts))
  /\ \A u, called : ListCounted(<<u>>, called, contents) <=> PartsCounted(u.parts, called, contents)
<1>1. DOMAIN <<>> = {} /\ \A e : DOMAIN <<e>> = {1} /\ <<e>>[1] = e
  OBVIOUS
<1>2. /\ PartNames(<<>>) = {} /\ PartsOnce(<<>>) /\ \A called : PartsCounted(<<>>, called, contents)
      /\ ListNames(<<>>) = {} /\ ListOnce(<<>>) /\ \A called : ListCounted(<<>>, called, contents)
  BY <1>1 DEF PartNames, PartsOnce, PartsCounted, ListNames, ListOnce, ListCounted
<1>3. \A l : PartNames(<<l>>) = {l.f} /\ PartsOnce(<<l>>)
  BY <1>1 DEF PartNames, PartsOnce
<1>4. \A l, called : PartsCounted(<<l>>, called, contents) <=>
                       called[l.f] + Work!Calls(l.fails, l.retries) = contents[l.f]
  BY <1>1 DEF PartsCounted
<1>5. \A u : ListNames(<<u>>) = PartNames(u.parts) /\ (ListOnce(<<u>>) <=> PartsOnce(u.parts))
  BY <1>1 DEF ListNames, ListOnce
<1>6. \A u, called : ListCounted(<<u>>, called, contents) <=> PartsCounted(u.parts, called, contents)
  BY <1>1 DEF ListCounted
<1> QED
  BY <1>2, <1>3, <1>4, <1>5, <1>6

\* The calls after one more of each of the functions that ran.
CalledNow(called, ran) == [f \in Functions |-> called[f] + (IF f \in ran THEN 1 ELSE 0)]

\* What becomes of the functions `before' when those of `ran' are called and `left' is
\* what is left: the others are done with.
Accounted(before, left, ran, called, due) ==
    /\ left \subseteq before /\ ran \subseteq before
    /\ \A f \in before : f \in left \/ CalledNow(called, ran)[f] = due[f]

\* The list that an execute() leaves.
Kept(status) == IF status.complete THEN <<>> ELSE <<status.left>>

\* The names in a list of units are functions.
LEMMA NamesTyped ==
  /\ \A parts \in Seq(WorkLambdas) : PartNames(parts) \subseteq Functions
  /\ \A units \in Seq(WorkUnits) : ListNames(units) \subseteq Functions
<1>1. \A parts \in Seq(WorkLambdas) : PartNames(parts) \subseteq Functions
  <2> SUFFICES ASSUME NEW parts \in Seq(WorkLambdas), NEW i \in DOMAIN parts PROVE parts[i].f \in Functions
    BY DEF PartNames
  <2>1. parts[i] \in WorkLambdas
    BY LenProperties, ElementOfSeq
  <2> QED
    BY <2>1 DEF WorkLambdas
<1>2. \A units \in Seq(WorkUnits) : ListNames(units) \subseteq Functions
  <2> SUFFICES ASSUME NEW units \in Seq(WorkUnits), NEW i \in DOMAIN units
               PROVE  PartNames(units[i].parts) \subseteq Functions
    BY DEF ListNames
  <2>1. units[i] \in WorkUnits
    BY LenProperties, ElementOfSeq
  <2> QED
    BY <1>1, <2>1 DEF WorkUnits
<1> QED
  BY <1>1, <1>2

\* A call counts for no function but those that ran.
LEMMA CountedElsewhere ==
  ASSUME NEW called \in [Functions -> Nat], NEW ran
  PROVE  /\ CalledNow(called, ran) \in [Functions -> Nat]
         /\ \A f \in Functions \ ran : CalledNow(called, ran)[f] = called[f]
         /\ \A f \in Functions \cap ran : CalledNow(called, ran)[f] = called[f] + 1
         /\ \A parts \in Seq(WorkLambdas) : PartNames(parts) \cap ran = {} =>
              (PartsCounted(parts, called, contents) <=> PartsCounted(parts, CalledNow(called, ran), contents))
         /\ \A units \in Seq(WorkUnits) : ListNames(units) \cap ran = {} =>
              (ListCounted(units, called, contents) <=> ListCounted(units, CalledNow(called, ran), contents))
<1> DEFINE now == CalledNow(called, ran)
<1>1. /\ now \in [Functions -> Nat]
      /\ \A f \in Functions \ ran : now[f] = called[f]
      /\ \A f \in Functions \cap ran : now[f] = called[f] + 1
  BY DEF CalledNow
<1> HIDE DEF now
<1>2. ASSUME NEW parts \in Seq(WorkLambdas), PartNames(parts) \cap ran = {}
      PROVE  PartsCounted(parts, called, contents) <=> PartsCounted(parts, now, contents)
  <2>1. \A i \in DOMAIN parts : now[parts[i].f] = called[parts[i].f]
    BY <1>1, <1>2, NamesTyped DEF PartNames
  <2> QED
    BY <2>1 DEF PartsCounted
<1>3. ASSUME NEW units \in Seq(WorkUnits), ListNames(units) \cap ran = {}
      PROVE  ListCounted(units, called, contents) <=> ListCounted(units, now, contents)
  <2>1. \A i \in DOMAIN units : units[i].parts \in Seq(WorkLambdas) /\ PartNames(units[i].parts) \cap ran = {}
    <3> TAKE i \in DOMAIN units
    <3>1. units[i] \in WorkUnits
      BY LenProperties, ElementOfSeq
    <3> QED
      BY <1>3, <3>1 DEF ListNames, WorkUnits
  <2>2. \A i \in DOMAIN units : PartsCounted(units[i].parts, called, contents) <=> PartsCounted(units[i].parts, now, contents)
    BY <1>2, <2>1
  <2> QED
    BY <2>2 DEF ListCounted
<1> QED
  BY <1>1, <1>2, <1>3 DEF now

\* One call of a function, that is left with a call less or is done with.
LEMMA LambdaExecutes ==
  ASSUME NEW l \in WorkLambdas, NEW called \in [Functions -> Nat], contents \in [Functions -> Nat],
         PartsCounted(<<l>>, called, contents)
  PROVE  LET status == Work!ExecuteLambda(l)
         IN  /\ status.complete \in BOOLEAN /\ status.ran = {l.f} /\ l.f \in Functions
             /\ status.left \in WorkLambdas /\ status.left.f = l.f
             /\ status.complete => CalledNow(called, {l.f})[l.f] = contents[l.f]
             /\ ~status.complete => PartsCounted(<<status.left>>, CalledNow(called, {l.f}), contents)
<1> DEFINE retry == l.fails > 0 /\ l.retries > 0
           next == [l EXCEPT !.fails = @ - 1, !.retries = @ - 1]
           now == CalledNow(called, {l.f})
           calls == Work!Calls(l.fails, l.retries)
<1>1. l.f \in Functions /\ l.fails \in Nat /\ l.retries \in Nat /\ retry \in BOOLEAN
  BY DEF WorkLambdas
<1>2. called[l.f] + calls = contents[l.f] /\ called[l.f] \in Nat /\ calls \in Nat \ {0}
  BY <1>1, Singles, WorkCalls
<1>3. now[l.f] = called[l.f] + 1
  BY <1>1 DEF CalledNow
<1>4. /\ Work!ExecuteLambda(l).left = (IF retry THEN next ELSE l)
      /\ Work!ExecuteLambda(l).complete = ~retry
      /\ Work!ExecuteLambda(l).ran = {l.f}
  BY DEF Work!ExecuteLambda, Work!Status
<1>5. CASE retry
  <2>1. /\ l.fails > 0 /\ l.retries > 0 /\ l.fails - 1 \in Nat /\ l.retries - 1 \in Nat
    BY <1>1, <1>5
  <2>2. next \in WorkLambdas /\ next.f = l.f /\ next.fails = l.fails - 1 /\ next.retries = l.retries - 1
    <3> HIDE DEF retry
    <3> QED
      BY <2>1 DEF WorkLambdas
  <2>3. Work!Calls(next.fails, next.retries) = calls - 1
    BY <1>1, <2>1, <2>2, WorkCalls
  <2> HIDE DEF next, now, calls, retry
  <2>4. now[next.f] + Work!Calls(next.fails, next.retries) = contents[next.f]
    BY <1>2, <1>3, <2>2, <2>3
  <2>5. PartsCounted(<<next>>, now, contents)
    BY <2>4, Singles
  <2>6. Work!ExecuteLambda(l).left = next /\ ~Work!ExecuteLambda(l).complete /\ Work!ExecuteLambda(l).complete \in BOOLEAN
    BY <1>4, <1>5
  <2> QED
    BY <1>1, <1>4, <2>2, <2>5, <2>6 DEF now
<1>6. CASE ~retry
  <2>1. l.fails = 0 \/ l.retries = 0
    BY <1>1, <1>6
  <2>2. calls = 1
    BY <1>1, <2>1, WorkCalls
  <2> HIDE DEF next, now, calls, retry
  <2>3. now[l.f] = contents[l.f]
    BY <1>2, <1>3, <2>2
  <2>4. Work!ExecuteLambda(l).left = l /\ Work!ExecuteLambda(l).complete /\ Work!ExecuteLambda(l).complete \in BOOLEAN
    BY <1>4, <1>6
  <2> QED
    BY <1>1, <1>4, <2>3, <2>4 DEF now
<1> QED
  BY <1>5, <1>6

\* What the first function of a chain leaves of the chain when it is called.
AfterFirst(parts) == Tail(parts) \o Kept(Work!ExecuteLambda(Head(parts)))

\* A step of a chain calls its first function and leaves the others as they were.
LEMMA PartsExecute ==
  ASSUME NEW parts \in Seq(WorkLambdas), parts # <<>>, NEW called \in [Functions -> Nat],
         contents \in [Functions -> Nat], PartsOnce(parts), PartsCounted(parts, called, contents)
  PROVE  /\ AfterFirst(parts) \in Seq(WorkLambdas) /\ Work!ExecuteLambda(Head(parts)).ran = {Head(parts).f}
         /\ Work!ExecuteLambda(Head(parts)).left \in WorkLambdas
         /\ Work!ExecuteLambda(Head(parts)).complete \in BOOLEAN
         /\ PartsOnce(AfterFirst(parts))
         /\ PartsCounted(AfterFirst(parts), CalledNow(called, {Head(parts).f}), contents)
         /\ Accounted(PartNames(parts), PartNames(AfterFirst(parts)), {Head(parts).f}, called, contents)
<1> DEFINE l == parts[1]
           rest == Tail(parts)
           first == Work!ExecuteLambda(l)
           e == Kept(first)
           now == CalledNow(called, {l.f})
<1>1. parts = <<l>> \o rest /\ Head(parts) = l /\ l \in WorkLambdas /\ rest \in Seq(WorkLambdas) /\ <<l>> \in Seq(WorkLambdas)
  BY HeadFirst
<1> HIDE DEF l, rest
<1>2. /\ PartNames(parts) = PartNames(<<l>>) \cup PartNames(rest)
      /\ PartsOnce(rest) /\ PartNames(<<l>>) \cap PartNames(rest) = {}
      /\ PartsCounted(<<l>>, called, contents) /\ PartsCounted(rest, called, contents)
  BY <1>1, PartsJoined
<1>3. PartNames(<<l>>) = {l.f}
  BY Singles
<1>4. /\ first.complete \in BOOLEAN /\ first.ran = {l.f} /\ l.f \in Functions
      /\ first.left \in WorkLambdas /\ first.left.f = l.f
      /\ first.complete => now[l.f] = contents[l.f]
      /\ ~first.complete => PartsCounted(<<first.left>>, now, contents)
  BY <1>1, <1>2, LambdaExecutes
<1>5. PartsCounted(rest, now, contents)
  BY <1>1, <1>2, <1>3, CountedElsewhere
<1> HIDE DEF first, now
<1>6. /\ e \in Seq(WorkLambdas) /\ PartsOnce(e) /\ PartsCounted(e, now, contents) /\ PartNames(e) \subseteq {l.f}
      /\ l.f \in PartNames(e) \/ now[l.f] = contents[l.f]
  <2>1. CASE first.complete
    <3>1. e = <<>> /\ e \in Seq(WorkLambdas)
      BY <2>1 DEF Kept
    <3> QED
      BY <1>4, <2>1, <3>1, Singles
  <2>2. CASE ~first.complete
    <3>1. e = <<first.left>> /\ e \in Seq(WorkLambdas)
      BY <1>4, <2>2 DEF Kept
    <3> QED
      BY <1>4, <2>2, <3>1, Singles
  <2> QED
    BY <2>1, <2>2
<1> HIDE DEF e
<1> DEFINE new == rest \o e
<1>7. /\ new \in Seq(WorkLambdas) /\ PartsOnce(new) /\ PartsCounted(new, now, contents)
      /\ PartNames(new) = PartNames(rest) \cup PartNames(e)
  <2>1. new \in Seq(WorkLambdas)
    BY <1>1, <1>6, JoinedAt
  <2>2. PartNames(rest) \cap PartNames(e) = {}
    BY <1>2, <1>3, <1>6
  <2> QED
    BY <1>1, <1>2, <1>5, <1>6, <2>1, <2>2, PartsJoined
<1>8. new = AfterFirst(parts)
  BY <1>1 DEF AfterFirst, rest, e, first
<1> HIDE DEF new
<1>9. Accounted(PartNames(parts), PartNames(new), {l.f}, called, contents)
  BY <1>2, <1>3, <1>6, <1>7 DEF Accounted, now
<1> QED
  BY <1>1, <1>4, <1>7, <1>8, <1>9 DEF now, first

\* A step of a unit, that is a function or a chain of them.
LEMMA UnitExecutes ==
  ASSUME NEW u \in WorkUnits, NEW called \in [Functions -> Nat], contents \in [Functions -> Nat],
         PartsOnce(u.parts), PartsCounted(u.parts, called, contents)
  PROVE  LET status == Work!ExecuteUnit(u)
         IN  /\ status.complete \in BOOLEAN /\ (~status.complete => status.left \in WorkUnits)
             /\ ListOnce(Kept(status)) /\ ListCounted(Kept(status), CalledNow(called, status.ran), contents)
             /\ Accounted(PartNames(u.parts), ListNames(Kept(status)), status.ran, called, contents)
<1> DEFINE status == Work!ExecuteUnit(u)
           parts == u.parts
<1>1. parts \in Seq(WorkLambdas) /\ u.chain \in BOOLEAN /\ (u.chain \/ Len(parts) = 1)
  BY DEF WorkUnits
<1>2. CASE parts = <<>>
  <2>1. u.chain
    BY <1>1, <1>2
  <2>2. Work!ExecuteChain(u.parts, Work!ExecuteLambda(Head(u.parts))) = Work!Status(<<>>, TRUE, {})
    BY <1>2 DEF Work!ExecuteChain
  <2>3. status.complete = TRUE /\ status.ran = {}
    BY <2>1, <2>2 DEF Work!ExecuteUnit, Work!Status
  <2> HIDE DEF status
  <2>4. Kept(status) = <<>>
    BY <2>3 DEF Kept
  <2>5. PartNames(parts) = {} /\ ListNames(Kept(status)) = {} /\ ListOnce(Kept(status))
        /\ ListCounted(Kept(status), CalledNow(called, status.ran), contents)
    BY <1>2, <2>4, Singles
  <2> QED
    BY <2>3, <2>5 DEF Accounted, status
<1>3. CASE parts # <<>>
  <2> DEFINE first == Work!ExecuteLambda(Head(parts))
             new == AfterFirst(parts)
             f == Head(parts).f
  <2>1. /\ new \in Seq(WorkLambdas) /\ first.ran = {f} /\ PartsOnce(new)
        /\ PartsCounted(new, CalledNow(called, {f}), contents)
        /\ Accounted(PartNames(parts), PartNames(new), {f}, called, contents)
    BY <1>1, <1>3, PartsExecute
  <2>2. Len(parts) \in Nat /\ Tail(parts) \in Seq(WorkLambdas) /\ Len(Tail(parts)) = Len(parts) - 1
        /\ Head(parts) \in WorkLambdas
    BY <1>1, <1>3, HeadFirst
  <2>3. first.left \in WorkLambdas /\ first.complete \in BOOLEAN
    BY <1>1, <1>3, PartsExecute
  <2>4. CASE u.chain
    <3> DEFINE chain == Work!ExecuteChain(parts, first)
    <3>1. chain.left = new /\ chain.complete = (new = <<>>) /\ chain.ran = {f}
      BY <1>3, <2>1 DEF Work!ExecuteChain, AfterFirst, Kept, Work!Status
    <3>2. status = Work!Status(Work!Unit(chain.left, TRUE), chain.complete, chain.ran)
      BY <2>4 DEF Work!ExecuteUnit
    <3> HIDE DEF status, new, f, chain
    <3>3. status.left = Work!Unit(new, TRUE) /\ status.complete = (new = <<>>) /\ status.ran = {f}
      BY <3>1, <3>2 DEF Work!Status
    <3>4. Work!Unit(new, TRUE) \in WorkUnits /\ Work!Unit(new, TRUE).parts = new
      BY <2>1 DEF Work!Unit, WorkUnits
    <3>5. CASE new = <<>>
      <4>1. Kept(status) = <<>>
        BY <3>3, <3>5 DEF Kept
      <4>2. ListNames(Kept(status)) = PartNames(new) /\ ListOnce(Kept(status))
            /\ ListCounted(Kept(status), CalledNow(called, status.ran), contents)
        BY <3>5, <4>1, Singles
      <4> QED
        BY <2>1, <3>3, <3>5, <4>2 DEF status
    <3>6. CASE new # <<>>
      <4>1. Kept(status) = <<Work!Unit(new, TRUE)>>
        BY <3>3, <3>6 DEF Kept
      <4>3. /\ ListNames(<<Work!Unit(new, TRUE)>>) = PartNames(new)
            /\ ListOnce(<<Work!Unit(new, TRUE)>>) <=> PartsOnce(new)
        BY <3>4, Singles
      <4>4. \A now : ListCounted(<<Work!Unit(new, TRUE)>>, now, contents) <=> PartsCounted(new, now, contents)
        BY <3>4, Singles
      <4>2. ListNames(Kept(status)) = PartNames(new) /\ ListOnce(Kept(status))
            /\ ListCounted(Kept(status), CalledNow(called, status.ran), contents)
        BY <2>1, <3>3, <4>1, <4>3, <4>4
      <4> QED
        BY <2>1, <3>3, <3>4, <3>6, <4>2 DEF status
    <3> QED
      BY <3>5, <3>6
  <2>5. CASE ~u.chain
    <3>1. status = Work!Status(Work!Unit(<<first.left>>, FALSE), first.complete, {f})
      BY <2>1, <2>5 DEF Work!ExecuteUnit, Work!Status
    <3>2. Tail(parts) = <<>>
      <4>1. Len(Tail(parts)) = 0
        BY <1>1, <2>2, <2>5
      <4> QED
        BY <2>2, <4>1, EmptySeq
    <3>3. new = Kept(first)
      <4>1. Kept(first) \in Seq(WorkLambdas)
        BY <2>3 DEF Kept
      <4> QED
        BY <3>2, <4>1, ConcatEmptySeq DEF AfterFirst
    <3> HIDE DEF status, new, f, first
    <3>4. /\ status.left = Work!Unit(<<first.left>>, FALSE) /\ status.complete = first.complete
          /\ status.ran = {f}
      BY <3>1 DEF Work!Status
    <3>5. /\ Work!Unit(<<first.left>>, FALSE) \in WorkUnits
          /\ Work!Unit(<<first.left>>, FALSE).parts = <<first.left>>
      BY <2>3 DEF Work!Unit, WorkUnits
    <3>6. CASE first.complete
      <4>1. Kept(status) = <<>> /\ new = <<>>
        BY <3>3, <3>4, <3>6 DEF Kept
      <4>2. ListNames(Kept(status)) = PartNames(new) /\ ListOnce(Kept(status))
            /\ ListCounted(Kept(status), CalledNow(called, status.ran), contents)
        BY <4>1, Singles
      <4> QED
        BY <2>1, <2>3, <3>4, <3>6, <4>2 DEF status
    <3>7. CASE ~first.complete
      <4>1. Kept(status) = <<Work!Unit(<<first.left>>, FALSE)>> /\ new = <<first.left>>
        BY <3>3, <3>4, <3>7 DEF Kept
      <4> DEFINE left == Work!Unit(<<first.left>>, FALSE)
      <4>3. ListNames(<<left>>) = PartNames(<<first.left>>) /\ (ListOnce(<<left>>) <=> PartsOnce(<<first.left>>))
        BY <3>5, Singles
      <4>4. \A now : ListCounted(<<left>>, now, contents) <=> PartsCounted(<<first.left>>, now, contents)
        BY <3>5, Singles
      <4>2. ListNames(Kept(status)) = PartNames(new) /\ ListOnce(Kept(status))
            /\ ListCounted(Kept(status), CalledNow(called, status.ran), contents)
        BY <2>1, <3>4, <4>1, <4>3, <4>4
      <4> QED
        BY <2>1, <2>3, <3>4, <3>5, <3>7, <4>2 DEF status
    <3> QED
      BY <3>6, <3>7
  <2> QED
    BY <2>4, <2>5
<1> QED
  BY <1>2, <1>3

\* What the first unit of a list leaves of the list when it is executed.
AfterUnit(units) == Tail(units) \o Kept(Work!ExecuteUnit(Head(units)))

\* A step of a list of units is one of its first unit.
LEMMA ListExecutes ==
  ASSUME NEW units \in Seq(WorkUnits), units # <<>>, NEW called \in [Functions -> Nat],
         contents \in [Functions -> Nat], ListOnce(units), ListCounted(units, called, contents)
  PROVE  LET ran == Work!ExecuteUnit(Head(units)).ran
         IN  /\ AfterUnit(units) \in Seq(WorkUnits)
             /\ Work!ExecuteUnit(Head(units)).complete \in BOOLEAN
             /\ ~Work!ExecuteUnit(Head(units)).complete => Work!ExecuteUnit(Head(units)).left \in WorkUnits
             /\ ListOnce(AfterUnit(units))
             /\ ListCounted(AfterUnit(units), CalledNow(called, ran), contents)
             /\ Accounted(ListNames(units), ListNames(AfterUnit(units)), ran, called, contents)
<1> DEFINE u == units[1]
           rest == Tail(units)
           status == Work!ExecuteUnit(u)
           e == Kept(status)
           now == CalledNow(called, status.ran)
           new == rest \o e
<1>1. units = <<u>> \o rest /\ Head(units) = u /\ u \in WorkUnits /\ rest \in Seq(WorkUnits) /\ <<u>> \in Seq(WorkUnits)
  BY HeadFirst
<1> HIDE DEF u, rest
<1>2. /\ ListNames(units) = ListNames(<<u>>) \cup ListNames(rest)
      /\ ListOnce(<<u>>) /\ ListOnce(rest) /\ ListNames(<<u>>) \cap ListNames(rest) = {}
      /\ ListCounted(<<u>>, called, contents) /\ ListCounted(rest, called, contents)
  BY <1>1, ListsJoined
<1>3. ListNames(<<u>>) = PartNames(u.parts) /\ PartsOnce(u.parts) /\ PartsCounted(u.parts, called, contents)
  BY <1>2, Singles
<1>4. /\ status.complete \in BOOLEAN /\ (~status.complete => status.left \in WorkUnits)
      /\ ListOnce(e) /\ ListCounted(e, now, contents)
      /\ Accounted(PartNames(u.parts), ListNames(e), status.ran, called, contents)
  BY <1>1, <1>3, UnitExecutes
<1> HIDE DEF status, now
<1>5. e \in Seq(WorkUnits)
  BY <1>4 DEF Kept
<1> HIDE DEF e
<1>6. ListNames(e) \subseteq ListNames(<<u>>) /\ status.ran \subseteq ListNames(<<u>>)
  BY <1>3, <1>4 DEF Accounted
<1>7. ListCounted(rest, now, contents)
  <2>1. ListNames(rest) \cap status.ran = {}
    BY <1>2, <1>6
  <2> QED
    BY <1>1, <1>2, <2>1, CountedElsewhere DEF now
<1>8. /\ new \in Seq(WorkUnits) /\ ListOnce(new) /\ ListCounted(new, now, contents)
      /\ ListNames(new) = ListNames(rest) \cup ListNames(e)
  <2>1. new \in Seq(WorkUnits)
    BY <1>1, <1>5, JoinedAt
  <2>2. ListNames(rest) \cap ListNames(e) = {}
    BY <1>2, <1>6
  <2> QED
    BY <1>1, <1>2, <1>4, <1>5, <1>7, <2>1, <2>2, ListsJoined
<1>9. new = AfterUnit(units)
  BY <1>1 DEF AfterUnit, rest, e, status
<1> HIDE DEF new
<1>10. Accounted(ListNames(units), ListNames(new), status.ran, called, contents)
  BY <1>2, <1>3, <1>4, <1>8 DEF Accounted
<1> QED
  BY <1>1, <1>4, <1>8, <1>9, <1>10 DEF now, status

\* What a worker's step leaves of its units, and whom it calls.
Leaves(units, status) ==
    /\ units = <<>>  => status.left = <<>> /\ status.ran = {}
    /\ units # <<>> => /\ status.left = AfterUnit(units)
                       /\ status.ran = Work!ExecuteUnit(Head(units)).ran

\* A worker with units executes the first of them; one without does nothing.
LEMMA WorkerExecutes ==
  ASSUME NEW w, w.kind \in {"inline", "chain"}, w.units \in Seq(WorkUnits),
         w.kind = "inline" => Len(w.units) =< 1, w.kind = "chain" => w.units # <<>>,
         NEW called \in [Functions -> Nat], contents \in [Functions -> Nat],
         ListOnce(w.units), ListCounted(w.units, called, contents)
  PROVE  LET status == Work!ExecuteWorker(w)
         IN  /\ status.left \in Seq(WorkUnits) /\ status.complete \in BOOLEAN /\ (status.complete <=> status.left = <<>>)
             /\ w.kind = "inline" => Len(status.left) =< 1
             /\ ListOnce(status.left) /\ ListCounted(status.left, CalledNow(called, status.ran), contents)
             /\ Accounted(ListNames(w.units), ListNames(status.left), status.ran, called, contents)
             /\ Leaves(w.units, status)
<1> DEFINE status == Work!ExecuteWorker(w)
           units == w.units
           first == Work!ExecuteUnit(Head(units))
           new == AfterUnit(units)
<1>1. CASE units = <<>>
  <2>1. status = Work!Status(<<>>, TRUE, {})
    BY <1>1 DEF Work!ExecuteWorker
  <2> HIDE DEF status
  <2>2. status.left = <<>> /\ status.complete /\ status.complete \in BOOLEAN /\ status.ran = {}
    BY <2>1 DEF Work!Status
  <2>3. /\ ListNames(units) = {} /\ ListNames(<<>>) = {} /\ ListOnce(<<>>)
        /\ ListCounted(<<>>, CalledNow(called, {}), contents)
    BY <1>1, Singles
  <2>4. Accounted(ListNames(units), {}, {}, called, contents)
    BY <2>3 DEF Accounted
  <2>5. <<>> \in Seq(WorkUnits) /\ Len(<<>>) =< 1
    BY EmptySeq
  <2>6. Leaves(units, status)
    BY <1>1, <2>2 DEF Leaves
  <2> QED
    BY <2>2, <2>3, <2>4, <2>5, <2>6 DEF status
<1>2. CASE units # <<>>
  <2>1. /\ new \in Seq(WorkUnits) /\ first.complete \in BOOLEAN
        /\ ~first.complete => first.left \in WorkUnits
        /\ ListOnce(new) /\ ListCounted(new, CalledNow(called, first.ran), contents)
        /\ Accounted(ListNames(units), ListNames(new), first.ran, called, contents)
    BY <1>2, ListExecutes
  <2>2. status.left = new /\ status.complete \in BOOLEAN /\ (status.complete <=> new = <<>>) /\ status.ran = first.ran
        /\ (w.kind = "inline" => Len(new) =< 1)
    <3>1. CASE w.kind = "chain"
      <4>1. status = Work!ExecuteChain(units, first)
        BY <3>1 DEF Work!ExecuteWorker
      <4>2. new = Tail(units) \o (IF first.complete THEN <<>> ELSE <<first.left>>)
        BY DEF AfterUnit, Kept
      <4> HIDE DEF status, new, first
      <4>3. status = Work!Status(new, new = <<>>, first.ran)
        BY <1>2, <4>1, <4>2 DEF Work!ExecuteChain
      <4> QED
        BY <3>1, <4>3 DEF Work!Status
    <3>2. CASE w.kind = "inline"
      <4>1. status = Work!Status(IF first.complete THEN <<>> ELSE <<first.left>>, first.complete, first.ran)
        BY <1>2, <3>2 DEF Work!ExecuteWorker
      <4>2. Tail(units) = <<>>
        <5>1. Len(units) \in Nat \ {0} /\ Tail(units) \in Seq(WorkUnits) /\ Len(Tail(units)) = Len(units) - 1
          BY <1>2, HeadFirst
        <5>3. Len(units) =< 1
          BY <3>2
        <5> HIDE DEF units
        <5>4. Len(units) = 1
          BY <5>1, <5>3
        <5>2. Len(Tail(units)) = 0
          BY <5>1, <5>4
        <5> QED
          BY <5>1, <5>2, EmptySeq
      <4> HIDE DEF first
      <4>3. Kept(first) \in Seq(WorkUnits) /\ new = Kept(first)
        <5>1. Kept(first) \in Seq(WorkUnits)
          BY <2>1 DEF Kept
        <5> QED
          BY <4>2, <5>1, ConcatEmptySeq DEF AfterUnit, first
      <4> HIDE DEF new, status
      <4>4. status.left = Kept(first) /\ status.complete = first.complete /\ status.ran = first.ran
        BY <4>1 DEF Work!Status, Kept
      <4>5. CASE first.complete
        <5>1. new = <<>> /\ Len(new) =< 1
          BY <4>3, <4>5, EmptySeq DEF Kept
        <5> QED
          BY <2>1, <4>3, <4>4, <4>5, <5>1
      <4>6. CASE ~first.complete
        <5>1. Kept(first) = <<first.left>>
          BY <4>6 DEF Kept
        <5>2. new # <<>> /\ Len(new) = 1
          BY <4>3, <5>1
        <5> QED
          BY <2>1, <4>3, <4>4, <4>6, <5>2
      <4> QED
        BY <2>1, <4>5, <4>6
    <3> QED
      BY <3>1, <3>2
  <2>3. Leaves(units, status)
    <3> HIDE DEF status
    <3> QED
      BY <1>2, <2>2 DEF Leaves
  <2> HIDE DEF status, new, first
  <2> QED
    BY <2>1, <2>2, <2>3 DEF status
<1> QED
  BY <1>1, <1>2

\* Units go over to a worker, that executes one of those it then has.
LEMMA PlacedAfter ==
  ASSUME NEW queue \in Seq(WorkUnits), NEW moved \in Seq(WorkUnits), NEW queued \in Seq(WorkUnits),
         queue = moved \o queued, NEW workers \in Seq(WorkWorkers), NEW called \in [Functions -> Nat],
         contents \in [Functions -> Nat], Placed(queue, workers, called, contents),
         NEW i \in DOMAIN workers, NEW w \in WorkWorkers, NEW ran,
         ListOnce(w.units), ListCounted(w.units, CalledNow(called, ran), contents),
         Accounted(ListNames(workers[i].units \o moved), ListNames(w.units), ran, called, contents)
  PROVE  Placed(queued, [workers EXCEPT ![i] = w], CalledNow(called, ran), contents)
<1> DEFINE now == CalledNow(called, ran)
           new == [workers EXCEPT ![i] = w]
           N(k) == ListNames(workers[k].units)
           M(k) == ListNames(new[k].units)
<1>1. \A k \in DOMAIN workers : workers[k] \in WorkWorkers /\ workers[k].units \in Seq(WorkUnits)
  <2> TAKE k \in DOMAIN workers
  <2>1. workers[k] \in WorkWorkers
    BY LenProperties, ElementOfSeq
  <2> QED
    BY <2>1 DEF WorkWorkers
<1>2. DOMAIN new = DOMAIN workers /\ new[i] = w /\ \A k \in DOMAIN workers \ {i} : new[k] = workers[k]
  BY LenProperties
<1> HIDE DEF new
<1>3. /\ ListNames(queue) = ListNames(moved) \cup ListNames(queued)
      /\ ListOnce(queued) /\ ListNames(moved) \cap ListNames(queued) = {}
      /\ ListCounted(queued, called, contents)
  <2>1. ListOnce(queue) /\ ListCounted(queue, called, contents)
    BY DEF Placed
  <2> QED
    BY <2>1, ListsJoined
<1>4. ListNames(workers[i].units \o moved) = N(i) \cup ListNames(moved)
  BY <1>1, ListsJoined
<1>5. ran \subseteq N(i) \cup ListNames(moved) /\ ListNames(w.units) \subseteq N(i) \cup ListNames(moved)
      /\ \A f \in N(i) \cup ListNames(moved) : f \in ListNames(w.units) \/ now[f] = contents[f]
  BY <1>4 DEF Accounted
<1>6. /\ \A k \in DOMAIN workers : N(k) \cap (ListNames(moved) \cup ListNames(queued)) = {}
      /\ \A k \in DOMAIN workers \ {i} : N(k) \cap N(i) = {}
      /\ \A k, j \in DOMAIN workers : k # j => N(k) \cap N(j) = {}
  BY <1>3 DEF Placed
<1>7. ListNames(queued) \cap ran = {} /\ \A k \in DOMAIN workers \ {i} : N(k) \cap ran = {}
  BY <1>3, <1>5, <1>6
<1>8. ListOnce(queued) /\ ListCounted(queued, now, contents)
  BY <1>3, <1>7, CountedElsewhere
<1>9. ASSUME NEW k \in DOMAIN workers
      PROVE  /\ ListOnce(new[k].units) /\ ListCounted(new[k].units, now, contents)
             /\ M(k) \cap ListNames(queued) = {}
  <2>1. CASE k = i
    BY <1>2, <1>3, <1>5, <1>6, <2>1
  <2>2. CASE k # i
    <3>1. ListOnce(workers[k].units) /\ ListCounted(workers[k].units, called, contents)
      BY DEF Placed
    <3>2. ListCounted(workers[k].units, now, contents)
      BY <1>1, <1>7, <2>2, <3>1, CountedElsewhere
    <3> QED
      BY <1>2, <1>6, <2>2, <3>1, <3>2
  <2> QED
    BY <2>1, <2>2
<1>10. ASSUME NEW k \in DOMAIN workers, NEW j \in DOMAIN workers, k # j PROVE M(k) \cap M(j) = {}
  <2>1. CASE k = i
    BY <1>2, <1>5, <1>6, <1>10, <2>1
  <2>2. CASE j = i
    BY <1>2, <1>5, <1>6, <1>10, <2>2
  <2>3. CASE k # i /\ j # i
    BY <1>2, <1>6, <1>10, <2>3
  <2> QED
    BY <2>1, <2>2, <2>3
<1>11. ASSUME NEW f \in Functions
       PROVE  \/ f \in ListNames(queued)
              \/ \E k \in DOMAIN workers : f \in M(k)
              \/ now[f] = contents[f]
  <2>1. CASE f \in ListNames(queued)
    BY <2>1
  <2>2. CASE f \in N(i) \cup ListNames(moved)
    BY <1>2, <1>5, <2>2
  <2>3. CASE f \notin ListNames(queued) /\ f \notin N(i) \cup ListNames(moved)
    <3>1. CASE called[f] = contents[f]
      <4>1. f \notin ran
        BY <1>5, <2>3
      <4> QED
        BY <3>1, <4>1, CountedElsewhere
    <3>2. CASE \E k \in DOMAIN workers : f \in N(k)
      BY <1>2, <2>3, <3>2
    <3> QED
      BY <1>3, <2>3, <3>1, <3>2 DEF Placed
  <2> QED
    BY <2>1, <2>2, <2>3
<1> HIDE DEF now
<1>12. Placed(queued, new, now, contents)
  BY <1>2, <1>8, <1>9, <1>10, <1>11 DEF Placed
<1> QED
  BY <1>12 DEF new, now

\* The workers that are busy when one of them changes.
LEMMA BusyAfter ==
  ASSUME NEW workers \in Seq(WorkWorkers), NEW i \in DOMAIN workers, NEW w \in WorkWorkers
  PROVE  /\ IsFiniteSet(Busy(workers)) /\ Cardinality(Busy(workers)) \in Nat
         /\ Cardinality(Busy([workers EXCEPT ![i] = w])) =
              IF ~w.busy /\ workers[i].busy THEN Cardinality(Busy(workers)) - 1
              ELSE IF w.busy /\ ~workers[i].busy THEN Cardinality(Busy(workers)) + 1
              ELSE Cardinality(Busy(workers))
<1> DEFINE new == [workers EXCEPT ![i] = w]
<1>1. DOMAIN workers = 1..Len(workers) /\ Len(workers) \in Nat
  BY LenProperties
<1>2. IsFiniteSet(Busy(workers)) /\ Cardinality(Busy(workers)) \in Nat
  <2>1. IsFiniteSet(DOMAIN workers)
    BY <1>1, FS_Interval
  <2> QED
    BY <2>1, FS_Subset, FS_CardinalityType DEF Busy
<1>3. DOMAIN new = DOMAIN workers /\ new[i] = w /\ \A k \in DOMAIN workers \ {i} : new[k] = workers[k]
  BY <1>1
<1> HIDE DEF new
<1>4. CASE ~w.busy /\ workers[i].busy
  <2>1. Busy(new) = Busy(workers) \ {i} /\ i \in Busy(workers)
    BY <1>3, <1>4 DEF Busy
  <2>2. Cardinality(Busy(new)) = Cardinality(Busy(workers)) - 1
    BY <1>2, <2>1, FS_RemoveElement
  <2> QED
    BY <1>2, <1>4, <2>2 DEF new
<1>5. CASE w.busy /\ ~workers[i].busy
  <2>1. Busy(new) = Busy(workers) \cup {i} /\ i \notin Busy(workers)
    BY <1>3, <1>5 DEF Busy
  <2>2. Cardinality(Busy(new)) = Cardinality(Busy(workers)) + 1
    BY <1>2, <2>1, FS_AddElement
  <2> QED
    BY <1>2, <1>5, <2>2 DEF new
<1>6. CASE w.busy <=> workers[i].busy
  <2>1. Busy(new) = Busy(workers)
    BY <1>3, <1>6 DEF Busy
  <2> QED
    BY <1>2, <1>6, <2>1 DEF new
<1> QED
  BY <1>4, <1>5, <1>6

\* What is known in the middle of run().
LEMMA WorkFacts ==
  ASSUME WorkInv
  PROVE  /\ store \in WorkRecords /\ contents \in [Functions -> Nat]
         /\ store.work \in Seq(WorkUnits) /\ store.unit \in Seq(WorkUnits) /\ Len(store.unit) =< 1
         /\ store.workers \in Seq(WorkWorkers) /\ store.called \in [Functions -> Nat]
         /\ store.index \in DOMAIN store.workers /\ DOMAIN store.workers = 1..Len(store.workers)
         /\ Len(store.workers) \in Nat
         /\ store.num_busy = Cardinality(Busy(store.workers))
         /\ Placed(store.unit \o store.work, store.workers, store.called, contents)
         /\ \A i \in DOMAIN store.workers : store.workers[i] \in WorkWorkers /\ WorkerSound(store.workers[i])
<1>1. store \in WorkRecords
  BY DEF WorkInv
<1>2. /\ store.work \in Seq(WorkUnits) /\ store.unit \in Seq(WorkUnits) /\ store.workers \in Seq(WorkWorkers)
      /\ store.called \in [Functions -> Nat]
  BY <1>1 DEF WorkRecords
<1>3. DOMAIN store.workers = 1..Len(store.workers) /\ Len(store.workers) \in Nat
  BY <1>2, LenProperties
<1>4. \A i \in DOMAIN store.workers : store.workers[i] \in WorkWorkers
  BY <1>2, <1>3, ElementOfSeq
<1> QED
  BY <1>1, <1>2, <1>3, <1>4 DEF WorkInv

\* A step executes one unit, or none; the other units stay.
UnitRuns(u) ==
    /\ store'.called = CalledNow(store.called, Work!ExecuteUnit(u).ran)
    /\ AllUnits' \subseteq AllUnits \cup Elements(Kept(Work!ExecuteUnit(u)))
    /\ (AllUnits \ {u}) \cup Elements(Kept(Work!ExecuteUnit(u))) \subseteq AllUnits'
UnitsMove ==
    /\ store'.before = store.before /\ contents' = contents
    /\ \/ store'.called = store.called /\ AllUnits' = AllUnits
       \/ \E u \in AllUnits : UnitRuns(u)

\* run() takes the first unit off the list.
LEMMA WorkStartsRun ==
  ASSUME WorkInv, Work!Start PROVE WorkInv' /\ UnitsMove
<1>1. /\ store \in WorkRecords /\ store.work \in Seq(WorkUnits) /\ store.unit = <<>> /\ contents' = contents
      /\ store.at = "start"
  BY WorkFacts DEF Work!Start, WorkInv
<1>2. CASE store.work = <<>>
  <2>1. store' = [store EXCEPT !.at = "round"]
    BY <1>2 DEF Work!Start
  <2>2. /\ store' \in WorkRecords /\ store'.at = "round" /\ store'.work = <<>> /\ store'.unit = store.unit
        /\ store'.work = store.work /\ store'.workers = store.workers /\ store'.index = store.index
        /\ store'.num_busy = store.num_busy /\ store'.called = store.called /\ store'.before = store.before
    BY <1>1, <1>2, <2>1 DEF WorkRecords
  <2>3. UnitsMove
    BY <1>1, <2>2 DEF UnitsMove, AllUnits
  <2> QED
    BY <1>1, <2>2, <2>3 DEF WorkInv, WorkRecords, WorkWorkers, WorkUnits, WorkLambdas
<1>3. CASE store.work # <<>>
  <2>1. store' = [store EXCEPT !.unit = <<Head(store.work)>>, !.work = Tail(@), !.at = "round"]
    BY <1>3 DEF Work!Start
  <2>2. /\ store.work = <<store.work[1]>> \o Tail(store.work) /\ Head(store.work) = store.work[1]
        /\ Tail(store.work) \in Seq(WorkUnits) /\ <<store.work[1]>> \in Seq(WorkUnits)
    BY <1>1, <1>3, HeadFirst
  <2>3. /\ store'.unit = <<store.work[1]>> /\ store'.work = Tail(store.work) /\ store'.at = "round"
        /\ store'.workers = store.workers /\ store'.index = store.index
        /\ store'.num_busy = store.num_busy /\ store'.called = store.called /\ store'.before = store.before
    BY <1>1, <2>1, <2>2 DEF WorkRecords
  <2>4. store' \in WorkRecords
    BY <1>1, <2>1, <2>2 DEF WorkRecords
  <2>5. store'.unit \o store'.work = store.unit \o store.work
    <3>1. <<>> \o store.work = store.work
      BY <1>1, ConcatEmptySeq
    <3> QED
      BY <1>1, <2>2, <2>3, <3>1
  <2>6. Len(store'.unit) = 1 /\ store'.unit # <<>>
    BY <2>3
  <2>7. Placed(store.unit \o store.work, store.workers, store.called, contents)
    BY WorkFacts
  <2>8. /\ store.index \in 1..Len(store.workers)
        /\ \A i \in DOMAIN store.workers : WorkerSound(store.workers[i])
        /\ store.num_busy = Cardinality(Busy(store.workers)) /\ contents \in [Functions -> Nat]
    BY DEF WorkInv
  <2>9. Placed(store'.unit \o store'.work, store'.workers, store'.called, contents')
    BY <1>1, <2>3, <2>5, <2>7
  <2>10. Len(store'.unit) =< 1
    BY <2>6
  <2>11. UnitsMove
    BY <1>1, <2>3, <2>5 DEF UnitsMove, AllUnits
  <2> QED
    BY <1>1, <2>3, <2>4, <2>6, <2>8, <2>9, <2>10, <2>11 DEF WorkInv
<1> QED
  BY <1>2, <1>3

\* A worker takes the unit that waits, if it can, and executes one step.
LEMMA WorkRounds ==
  ASSUME WorkInv, Work!Round PROVE WorkInv' /\ UnitsMove
<1> DEFINE i == store.index
           w == store.workers[i]
           moved == IF Work!Takes(w) THEN store.unit ELSE <<>>
           queued == IF Work!Takes(w) THEN store.work ELSE store.unit \o store.work
           held == IF Work!Takes(w) THEN w.units \o store.unit ELSE w.units
           status == Work!ExecuteWorker([w EXCEPT !.units = held])
           u == [w EXCEPT !.units = status.left, !.busy = ~status.complete]
           now == CalledNow(store.called, status.ran)
           unit == IF ~Work!Takes(w) THEN store.unit ELSE IF store.work = <<>> THEN <<>> ELSE <<Head(store.work)>>
           work == IF Work!Takes(w) /\ store.work # <<>> THEN Tail(store.work) ELSE store.work
           index == IF i = Len(store.workers) THEN 1 ELSE i + 1
           num_busy == IF status.complete /\ w.busy THEN store.num_busy - 1
                       ELSE IF ~status.complete /\ ~w.busy THEN store.num_busy + 1
                       ELSE store.num_busy
<1>1. /\ store \in WorkRecords /\ contents \in [Functions -> Nat]
      /\ store.work \in Seq(WorkUnits) /\ store.unit \in Seq(WorkUnits) /\ Len(store.unit) =< 1
      /\ store.workers \in Seq(WorkWorkers) /\ store.called \in [Functions -> Nat]
      /\ i \in DOMAIN store.workers /\ DOMAIN store.workers = 1..Len(store.workers)
      /\ Len(store.workers) \in Nat
      /\ store.num_busy = Cardinality(Busy(store.workers))
      /\ Placed(store.unit \o store.work, store.workers, store.called, contents)
      /\ \A k \in DOMAIN store.workers : store.workers[k] \in WorkWorkers /\ WorkerSound(store.workers[k])
  BY WorkFacts
<1>2. store.at = "round" /\ contents' = contents /\ (store.unit = <<>> => store.work = <<>>)
  BY DEF Work!Round, WorkInv
<1>3. /\ w \in WorkWorkers /\ w.units \in Seq(WorkUnits) /\ w.kind \in {"inline", "chain"} /\ WorkerSound(w)
      /\ w.busy \in BOOLEAN
  BY <1>1 DEF WorkWorkers
<1>4. CASE w.kind = "chain" /\ store.unit = <<>>
  <2>1. store' = [store EXCEPT !.at = "crashed"]
    BY <1>4 DEF Work!Round
  <2>2. /\ store' \in WorkRecords /\ store'.at = "crashed" /\ store'.unit = store.unit
        /\ store'.work = store.work /\ store'.workers = store.workers /\ store'.index = store.index
        /\ store'.num_busy = store.num_busy /\ store'.called = store.called /\ store'.before = store.before
    BY <1>1, <2>1 DEF WorkRecords
  <2>3. store.index \in 1..Len(store.workers)
    BY <1>1
  <2> HIDE DEF i, w
  <2>4. UnitsMove
    BY <1>2, <2>2 DEF UnitsMove, AllUnits
  <2> QED
    BY <1>1, <1>2, <2>2, <2>3, <2>4 DEF WorkInv
<1>5. CASE ~(w.kind = "chain" /\ store.unit = <<>>)
  <2>1. store' = [store EXCEPT !.unit = unit, !.work = work, !.workers = [store.workers EXCEPT ![i] = u],
                               !.num_busy = num_busy, !.index = index, !.called = now]
    BY <1>1, <1>5 DEF Work!Round, CalledNow, WorkRecords
  <2>0. held = w.units \o moved
    BY <1>3, ConcatEmptySeq
  <2> HIDE DEF status, held, moved, queued, u, now, unit, work, index, num_busy, w, i
  <2>2. /\ moved \in Seq(WorkUnits) /\ queued \in Seq(WorkUnits) /\ unit \in Seq(WorkUnits) /\ work \in Seq(WorkUnits)
        /\ store.unit \o store.work = moved \o queued /\ unit \o work = queued
        /\ Len(unit) =< 1 /\ (unit = <<>> => work = <<>>)
    <3>1. /\ <<>> \in Seq(WorkUnits) /\ Len(<<>>) = 0 /\ <<>> \o store.work = store.work
          /\ store.unit \o store.work \in Seq(WorkUnits)
          /\ <<>> \o (store.unit \o store.work) = store.unit \o store.work
      BY <1>1, EmptySeq, ConcatEmptySeq, JoinedAt
    <3>2. CASE ~Work!Takes(w)
      BY <1>1, <1>2, <3>1, <3>2 DEF moved, queued, unit, work
    <3>3. CASE Work!Takes(w) /\ store.work = <<>>
      <4>1. moved = store.unit /\ queued = <<>> /\ unit = <<>> /\ work = <<>>
        BY <3>3 DEF moved, queued, unit, work
      <4>2. <<>> \o <<>> = <<>>
        BY <3>1, ConcatEmptySeq
      <4> QED
        BY <1>1, <3>1, <3>3, <4>1, <4>2
    <3>4. CASE Work!Takes(w) /\ store.work # <<>>
      <4>1. moved = store.unit /\ queued = store.work /\ unit = <<Head(store.work)>> /\ work = Tail(store.work)
        BY <3>4 DEF moved, queued, unit, work
      <4>2. /\ store.work = <<store.work[1]>> \o Tail(store.work) /\ Head(store.work) = store.work[1]
            /\ Tail(store.work) \in Seq(WorkUnits) /\ <<store.work[1]>> \in Seq(WorkUnits)
        BY <1>1, <3>4, HeadFirst
      <4>3. Len(unit) = 1 /\ unit # <<>>
        BY <4>1
      <4> QED
        BY <1>1, <4>1, <4>2, <4>3
    <3> QED
      BY <3>2, <3>3, <3>4
  <2>3. /\ held \in Seq(WorkUnits) /\ (w.kind = "inline" => Len(held) =< 1) /\ (w.kind = "chain" => held # <<>>)
    <3>1. held \in Seq(WorkUnits) /\ Len(held) = Len(w.units) + Len(moved) /\ Len(w.units) \in Nat /\ Len(moved) \in Nat
      BY <1>3, <2>2, ConcatProperties, LenProperties, <2>0
    <3>2. Len(<<>>) = 0
      OBVIOUS
    <3>3. CASE w.kind = "inline"
      <4>1. Len(w.units) =< 1
        BY <1>3, <3>3 DEF WorkerSound
      <4>2. CASE w.units = <<>>
        <5>1. Len(moved) =< 1
          BY <1>1, <3>2 DEF moved
        <5> QED
          BY <3>1, <3>2, <3>3, <4>2, <5>1
      <4>3. CASE w.units # <<>>
        <5>1. moved = <<>>
          BY <3>3, <4>3 DEF moved, Work!Takes
        <5> QED
          BY <3>1, <3>2, <3>3, <4>1, <5>1
      <4> QED
        BY <4>2, <4>3
    <3>4. CASE w.kind = "chain"
      <4>1. moved # <<>>
        BY <1>5, <3>4 DEF moved, Work!Takes
      <4>2. held # <<>>
        BY <1>3, <2>2, <4>1, ConcatEqualIffEmpty, <2>0
      <4> QED
        BY <3>1, <3>4, <4>2
    <3> QED
      BY <1>3, <3>1, <3>3, <3>4
  <2>4. ListOnce(held) /\ ListCounted(held, store.called, contents)
    <3>1. /\ ListOnce(moved \o queued) /\ ListCounted(moved \o queued, store.called, contents)
          /\ ListOnce(w.units) /\ ListCounted(w.units, store.called, contents)
          /\ ListNames(w.units) \cap ListNames(moved \o queued) = {}
      BY <1>1, <2>2 DEF Placed, w
    <3>2. ListOnce(moved) /\ ListCounted(moved, store.called, contents) /\ ListNames(moved) \subseteq ListNames(moved \o queued)
      BY <2>2, <3>1, ListsJoined
    <3>3. ListNames(w.units) \cap ListNames(moved) = {}
      BY <3>1, <3>2
    <3> QED
      BY <1>3, <2>0, <2>2, <3>1, <3>2, <3>3, ListsJoined
  <2> DEFINE v == [w EXCEPT !.units = held]
  <2>5. v.units = held /\ v.kind = w.kind
    BY <1>3 DEF WorkWorkers
  <2>6. status = Work!ExecuteWorker(v)
    BY DEF status
  <2> HIDE DEF v
  <2>7. /\ status.left \in Seq(WorkUnits) /\ status.complete \in BOOLEAN /\ (status.complete <=> status.left = <<>>)
        /\ w.kind = "inline" => Len(status.left) =< 1
        /\ ListOnce(status.left) /\ ListCounted(status.left, now, contents)
        /\ Accounted(ListNames(held), ListNames(status.left), status.ran, store.called, contents)
        /\ Leaves(held, status)
    <3>1. /\ v.kind \in {"inline", "chain"} /\ v.units \in Seq(WorkUnits)
          /\ v.kind = "inline" => Len(v.units) =< 1
          /\ v.kind = "chain" => v.units # <<>>
          /\ store.called \in [Functions -> Nat] /\ contents \in [Functions -> Nat]
          /\ ListOnce(v.units) /\ ListCounted(v.units, store.called, contents)
      BY <1>1, <1>3, <2>3, <2>4, <2>5
    <3>2. LET s == Work!ExecuteWorker(v)
          IN  /\ s.left \in Seq(WorkUnits) /\ s.complete \in BOOLEAN /\ (s.complete <=> s.left = <<>>)
              /\ v.kind = "inline" => Len(s.left) =< 1
              /\ ListOnce(s.left) /\ ListCounted(s.left, CalledNow(store.called, s.ran), contents)
              /\ Accounted(ListNames(v.units), ListNames(s.left), s.ran, store.called, contents)
              /\ Leaves(v.units, s)
      BY <3>1, WorkerExecutes
    <3> QED
      BY <2>5, <2>6, <3>2 DEF now
  <2>8. u \in WorkWorkers /\ u.units = status.left /\ (u.busy <=> ~status.complete) /\ u.kind = w.kind
    BY <1>3, <2>7 DEF u, WorkWorkers
  <2>9. WorkerSound(u)
    BY <2>7, <2>8 DEF WorkerSound
  <2>10. Placed(queued, [store.workers EXCEPT ![i] = u], now, contents)
    <3> DEFINE queue == moved \o queued
    <3>1. /\ queue \in Seq(WorkUnits) /\ queue = moved \o queued
          /\ Placed(queue, store.workers, store.called, contents)
      BY <1>1, <2>2, JoinedAt
    <3>2. Accounted(ListNames(store.workers[i].units \o moved), ListNames(u.units), status.ran, store.called, contents)
      BY <2>0, <2>7, <2>8 DEF w
    <3>3. ListOnce(u.units) /\ ListCounted(u.units, CalledNow(store.called, status.ran), contents)
      BY <2>7, <2>8 DEF now
    <3> HIDE DEF queue
    <3>4. Placed(queued, [store.workers EXCEPT ![i] = u], CalledNow(store.called, status.ran), contents)
      BY <1>1, <2>2, <2>8, <3>1, <3>2, <3>3, PlacedAfter
    <3> QED
      BY <3>4 DEF now
  <2>11. num_busy = Cardinality(Busy([store.workers EXCEPT ![i] = u])) /\ num_busy \in Nat
    <3> DEFINE n == Cardinality(Busy(store.workers))
    <3>1. /\ n \in Nat /\ IsFiniteSet(Busy(store.workers))
          /\ Cardinality(Busy([store.workers EXCEPT ![i] = u])) =
               IF ~u.busy /\ w.busy THEN n - 1 ELSE IF u.busy /\ ~w.busy THEN n + 1 ELSE n
      BY <1>1, <2>8, BusyAfter DEF w
    <3>2. w.busy => n > 0
      <4>1. w.busy => i \in Busy(store.workers)
        BY <1>1 DEF Busy, w
      <4>2. Busy(store.workers) # {} => n # 0
        BY <3>1, FS_EmptySet
      <4> QED
        BY <3>1, <4>1, <4>2
    <3>3. num_busy = Cardinality(Busy([store.workers EXCEPT ![i] = u]))
      BY <1>1, <2>8, <3>1 DEF num_busy
    <3> HIDE DEF n
    <3>4. num_busy \in Nat
      BY <3>1, <3>2, <3>3
    <3> QED
      BY <3>3, <3>4
  <2>12. [store.workers EXCEPT ![i] = u] \in Seq(WorkWorkers)
         /\ DOMAIN [store.workers EXCEPT ![i] = u] = DOMAIN store.workers
         /\ Len([store.workers EXCEPT ![i] = u]) = Len(store.workers)
    BY <1>1, <2>8, ExceptSeq
  <2>13. \A k \in DOMAIN store.workers : WorkerSound([store.workers EXCEPT ![i] = u][k])
    BY <1>1, <2>9
  <2>14. index \in 1..Len(store.workers) /\ index \in Nat
    BY <1>1 DEF index, i
  <2>15. now \in [Functions -> Nat]
    BY <1>1, CountedElsewhere DEF now
  <2> DEFINE workers == [store.workers EXCEPT ![i] = u]
  <2>16. /\ workers \in Seq(WorkWorkers) /\ DOMAIN workers = DOMAIN store.workers
         /\ Len(workers) = Len(store.workers) /\ \A k \in DOMAIN workers : WorkerSound(workers[k])
         /\ num_busy = Cardinality(Busy(workers)) /\ Placed(queued, workers, now, contents)
         /\ store' = [store EXCEPT !.unit = unit, !.work = work, !.workers = workers,
                                   !.num_busy = num_busy, !.index = index, !.called = now]
    BY <2>1, <2>10, <2>11, <2>12, <2>13
  <2> HIDE DEF workers
  <2>17. /\ store' \in WorkRecords /\ store'.unit = unit /\ store'.work = work /\ store'.workers = workers
         /\ store'.num_busy = num_busy /\ store'.index = index /\ store'.called = now /\ store'.at = "round"
         /\ store'.before = store.before
    BY <1>1, <1>2, <2>2, <2>11, <2>14, <2>15, <2>16 DEF WorkRecords
  <2> DEFINE elsewhere == Elements(queued) \cup
                          UNION {HeldBy(store.workers[k]) : k \in DOMAIN store.workers \ {i}}
  <2>18. AllUnits = elsewhere \cup Elements(held) /\ AllUnits' = elsewhere \cup Elements(status.left)
    <3>1. Elements(held) = HeldBy(store.workers[i]) \cup Elements(moved)
      BY <1>3, <2>0, <2>2, ElementsJoined DEF HeldBy, w
    <3>2. Elements(moved \o queued) = Elements(moved) \cup Elements(queued)
      BY <2>2, ElementsJoined
    <3>3. DOMAIN workers = DOMAIN store.workers /\ HeldBy(workers[i]) = Elements(status.left)
          /\ \A k \in DOMAIN store.workers \ {i} : workers[k] = store.workers[k]
      BY <1>1, <2>8, <2>16 DEF workers, HeldBy
    <3>4. AllUnits = Elements(moved \o queued) \cup UNION {HeldBy(store.workers[k]) : k \in DOMAIN store.workers}
      BY <2>2 DEF AllUnits
    <3>5. AllUnits' = Elements(queued) \cup UNION {HeldBy(workers[k]) : k \in DOMAIN workers}
      BY <2>2, <2>17 DEF AllUnits, HeldBy
    <3>6. i \in DOMAIN store.workers
      BY <1>1
    <3> HIDE DEF workers
    <3>7. UNION {HeldBy(store.workers[k]) : k \in DOMAIN store.workers}
            = HeldBy(store.workers[i]) \cup UNION {HeldBy(store.workers[k]) : k \in DOMAIN store.workers \ {i}}
      BY <3>6
    <3>8. UNION {HeldBy(workers[k]) : k \in DOMAIN workers}
            = Elements(status.left) \cup UNION {HeldBy(store.workers[k]) : k \in DOMAIN store.workers \ {i}}
      BY <3>3, <3>6
    <3> QED
      BY <3>1, <3>2, <3>4, <3>5, <3>7, <3>8
  <2> HIDE DEF elsewhere
  <2>19. UnitsMove
    <3>1. CASE held = <<>>
      <4>1. status.left = <<>> /\ status.ran = {}
        BY <2>7, <3>1 DEF Leaves
      <4>2. now = store.called
        BY <1>1, <4>1 DEF now, CalledNow
      <4> QED
        BY <1>2, <2>17, <2>18, <3>1, <4>1, <4>2 DEF UnitsMove
    <3>2. CASE held # <<>>
      <4> DEFINE h == Head(held)
                 kept == Kept(Work!ExecuteUnit(h))
      <4>1. Elements(held) = {h} \cup Elements(Tail(held))
        BY <2>3, <3>2, ElementsJoined
      <4>2. status.left = Tail(held) \o kept /\ status.ran = Work!ExecuteUnit(h).ran
        BY <2>7, <3>2 DEF Leaves, AfterUnit
      <4>3. Tail(held) \in Seq(WorkUnits) /\ kept \in Seq(WorkUnits)
        <5>1. ~Work!ExecuteUnit(h).complete => Work!ExecuteUnit(h).left \in WorkUnits
          BY <1>1, <2>3, <2>4, <3>2, ListExecutes
        <5> QED
          BY <2>3, <3>2, <5>1, HeadFirst DEF Kept
      <4> HIDE DEF kept
      <4>4. Elements(status.left) = Elements(Tail(held)) \cup Elements(kept)
        <5>1. \A a, b \in Seq(WorkUnits) : Elements(a \o b) = Elements(a) \cup Elements(b)
          BY ElementsJoined
        <5> HIDE DEF held
        <5>2. Elements(Tail(held) \o kept) = Elements(Tail(held)) \cup Elements(kept)
          BY <4>3, <5>1
        <5> QED
          BY <4>2, <5>2
      <4>5. h \in AllUnits /\ store'.called = CalledNow(store.called, Work!ExecuteUnit(h).ran)
        BY <2>17, <2>18, <4>1, <4>2 DEF now
      <4>6. UnitRuns(h)
        BY <2>18, <4>1, <4>4, <4>5 DEF UnitRuns, kept
      <4> QED
        BY <1>2, <2>17, <4>5, <4>6 DEF UnitsMove
    <3> QED
      BY <3>1, <3>2
  <2> QED
    BY <1>1, <1>2, <2>2, <2>14, <2>16, <2>17, <2>19 DEF WorkInv
<1> QED
  BY <1>4, <1>5

\* run() ends when no unit waits and no worker is busy: then no function is left.
LEMMA WorkEndsRun ==
  ASSUME WorkInv, Work!RunEnds PROVE WorkInv' /\ UnitsMove
<1>1. /\ store \in WorkRecords /\ contents \in [Functions -> Nat]
      /\ store.called \in [Functions -> Nat] /\ store.workers \in Seq(WorkWorkers)
      /\ DOMAIN store.workers = 1..Len(store.workers) /\ Len(store.workers) \in Nat
      /\ store.num_busy = Cardinality(Busy(store.workers))
      /\ Placed(store.unit \o store.work, store.workers, store.called, contents)
      /\ \A i \in DOMAIN store.workers : WorkerSound(store.workers[i])
      /\ store.index \in 1..Len(store.workers)
  BY WorkFacts
<1>2. /\ store.at = "round" /\ store.unit = <<>> /\ store.num_busy = 0 /\ contents' = contents
      /\ store' = [store EXCEPT !.at = "done"]
  BY DEF Work!RunEnds, Work!MoreToDo
<1>3. store.work = <<>>
  BY <1>2 DEF WorkInv
<1>4. ListNames(store.unit \o store.work) = {}
  <2>1. <<>> \o <<>> = <<>>
    BY EmptySeq, ConcatEmptySeq
  <2> QED
    BY <1>2, <1>3, <2>1, Singles
<1>5. \A i \in DOMAIN store.workers : ListNames(store.workers[i].units) = {}
  <2>1. IsFiniteSet(Busy(store.workers))
    <3>1. \A n \in Nat : IsFiniteSet(1..n)
      BY FS_Interval
    <3>2. IsFiniteSet(DOMAIN store.workers) /\ Busy(store.workers) \subseteq DOMAIN store.workers
      BY <1>1, <3>1 DEF Busy
    <3> QED
      BY <3>2, FS_Subset
  <2>2. Busy(store.workers) = {}
    BY <1>1, <1>2, <2>1, FS_EmptySet
  <2>3. \A i \in DOMAIN store.workers : ~store.workers[i].busy
    BY <2>2 DEF Busy
  <2>4. \A i \in DOMAIN store.workers : store.workers[i].units = <<>>
    BY <1>1, <2>3 DEF WorkerSound
  <2> QED
    BY <2>4, Singles
<1>6. store.called = contents
  <2>1. \A f \in Functions : store.called[f] = contents[f]
    BY <1>1, <1>4, <1>5 DEF Placed
  <2> QED
    BY <1>1, <2>1
<1>7. /\ store' \in WorkRecords /\ store'.at = "done" /\ store'.unit = store.unit
      /\ store'.work = store.work /\ store'.workers = store.workers /\ store'.index = store.index
      /\ store'.num_busy = store.num_busy /\ store'.called = store.called /\ store'.before = store.before
  BY <1>1, <1>2 DEF WorkRecords
<1>8. Len(store.unit) =< 1
  BY WorkFacts
<1>9. UnitsMove
  BY <1>2, <1>7 DEF UnitsMove, AllUnits
<1> QED
  BY <1>1, <1>2, <1>3, <1>6, <1>7, <1>8, <1>9 DEF WorkInv

\* The layouts, and the unit made of one of their elements.
LayoutUnits == [of : Seq(Functions), chain : BOOLEAN]
OneOrChain(layout) == \A i \in DOMAIN layout : layout[i].chain \/ Len(layout[i].of) = 1
OnePlaceEach(layout) ==
    \A f \in Functions : \E i \in DOMAIN layout : \E k \in DOMAIN layout[i].of :
        \A j \in DOMAIN layout : \A n \in DOMAIN layout[j].of : layout[j].of[n] = f <=> j = i /\ n = k
Parts(of, fails, retries) == [k \in DOMAIN of |-> Work!Lambda(of[k], fails[of[k]], retries[of[k]])]

\* The functions of a unit are those of the element it is made of.
PartsAre(parts, of, fails, retries) ==
    /\ DOMAIN parts = DOMAIN of
    /\ \A k \in DOMAIN of : /\ of[k] \in Functions /\ parts[k].f = of[k]
                            /\ parts[k].fails = fails[of[k]] /\ parts[k].retries = retries[of[k]]

\* The functions of an element of a layout.
LEMMA PartsLaidOut ==
  ASSUME NEW of \in Seq(Functions), NEW fails \in [Functions -> Nat], NEW retries \in [Functions -> Nat]
  PROVE  /\ Parts(of, fails, retries) \in Seq(WorkLambdas)
         /\ Len(Parts(of, fails, retries)) = Len(of)
         /\ PartsAre(Parts(of, fails, retries), of, fails, retries)
<1> DEFINE parts == Parts(of, fails, retries)
<1>1. DOMAIN of = 1..Len(of) /\ Len(of) \in Nat /\ \A k \in DOMAIN of : of[k] \in Functions
  BY LenProperties, ElementOfSeq
<1>2. \A f \in Functions : /\ Work!Lambda(f, fails[f], retries[f]) \in WorkLambdas
                           /\ Work!Lambda(f, fails[f], retries[f]).f = f
                           /\ Work!Lambda(f, fails[f], retries[f]).fails = fails[f]
                           /\ Work!Lambda(f, fails[f], retries[f]).retries = retries[f]
  BY DEF Work!Lambda, WorkLambdas
<1>3. /\ DOMAIN parts = DOMAIN of
      /\ \A k \in DOMAIN of : parts[k] = Work!Lambda(of[k], fails[of[k]], retries[of[k]])
      /\ parts = [k \in DOMAIN of |-> parts[k]]
  BY DEF Parts
<1> HIDE DEF parts
<1>4. \A k \in DOMAIN of : parts[k] \in WorkLambdas
  BY <1>1, <1>2, <1>3
<1>5. parts \in [1..Len(of) -> WorkLambdas]
  BY <1>1, <1>3, <1>4
<1>6. parts \in Seq(WorkLambdas) /\ Len(parts) = Len(of)
  <2>1. parts \in Seq(WorkLambdas)
    <3>1. \A n \in Nat : \A s \in [1..n -> WorkLambdas] : s \in Seq(WorkLambdas)
      BY SeqDef
    <3> QED
      BY <1>1, <1>5, <3>1
  <2>2. DOMAIN parts = 1..Len(parts) /\ Len(parts) \in Nat
    BY <2>1, LenProperties
  <2> QED
    BY <1>1, <1>3, <2>1, <2>2
<1>7. PartsAre(parts, of, fails, retries)
  BY <1>1, <1>2, <1>3 DEF PartsAre
<1> QED
  BY <1>6, <1>7 DEF parts

\* The unit made of an element of a layout.
LEMMA UnitLaidOut ==
  ASSUME NEW u \in LayoutUnits, u.chain \/ Len(u.of) = 1,
         NEW fails \in [Functions -> Nat], NEW retries \in [Functions -> Nat]
  PROVE  /\ Work!UnitOf(u, fails, retries) \in WorkUnits
         /\ PartsAre(Work!UnitOf(u, fails, retries).parts, u.of, fails, retries)
<1> DEFINE parts == Parts(u.of, fails, retries)
<1>1. u.of \in Seq(Functions) /\ u.chain \in BOOLEAN
  BY DEF LayoutUnits
<1>2. parts \in Seq(WorkLambdas) /\ Len(parts) = Len(u.of) /\ PartsAre(parts, u.of, fails, retries)
  BY <1>1, PartsLaidOut
<1> HIDE DEF parts
<1>3. Work!Unit(parts, u.chain).parts = parts /\ Work!Unit(parts, u.chain) \in WorkUnits
  BY <1>1, <1>2 DEF Work!Unit, WorkUnits
<1>4. Work!UnitOf(u, fails, retries) = Work!Unit(parts, u.chain)
  BY DEF Work!UnitOf, Parts, parts
<1> QED
  BY <1>2, <1>3, <1>4

\* In a layout with one place for each, a function is there but once.
LEMMA OnePlace ==
  ASSUME NEW layout, OnePlaceEach(layout), NEW i \in DOMAIN layout, NEW j \in DOMAIN layout,
         NEW k \in DOMAIN layout[i].of, NEW n \in DOMAIN layout[j].of,
         layout[i].of[k] \in Functions, layout[i].of[k] = layout[j].of[n]
  PROVE  i = j /\ k = n
<1>1. PICK a \in DOMAIN layout : \E b \in DOMAIN layout[a].of :
         \A c \in DOMAIN layout : \A d \in DOMAIN layout[c].of :
            layout[c].of[d] = layout[i].of[k] <=> c = a /\ d = b
  BY DEF OnePlaceEach
<1>2. PICK b \in DOMAIN layout[a].of :
         \A c \in DOMAIN layout : \A d \in DOMAIN layout[c].of :
            layout[c].of[d] = layout[i].of[k] <=> c = a /\ d = b
  BY <1>1
<1>3. i = a /\ k = b
  BY <1>2
<1>4. j = a /\ n = b
  BY <1>2
<1> QED
  BY <1>3, <1>4

\* The list of the units of a layout holds each function once.
LEMMA ListLaidOut ==
  ASSUME NEW layout \in Seq(LayoutUnits), OneOrChain(layout), OnePlaceEach(layout),
         NEW fails \in [Functions -> Nat], NEW retries \in [Functions -> Nat],
         NEW work, DOMAIN work = DOMAIN layout, work = [i \in DOMAIN work |-> work[i]],
         \A i \in DOMAIN layout : work[i] = Work!UnitOf(layout[i], fails, retries)
  PROVE  /\ work \in Seq(WorkUnits) /\ ListOnce(work)
         /\ \A i \in DOMAIN layout : PartsAre(work[i].parts, layout[i].of, fails, retries)
         /\ \A f \in Functions : f \in ListNames(work)
<1>1. /\ DOMAIN layout = 1..Len(layout) /\ Len(layout) \in Nat
      /\ \A i \in DOMAIN layout : layout[i] \in LayoutUnits
  BY LenProperties, ElementOfSeq
<1>2. ASSUME NEW i \in DOMAIN layout
      PROVE  work[i] \in WorkUnits /\ PartsAre(work[i].parts, layout[i].of, fails, retries)
  <2>1. layout[i] \in LayoutUnits /\ (layout[i].chain \/ Len(layout[i].of) = 1)
    BY <1>1 DEF OneOrChain
  <2>2. work[i] = Work!UnitOf(layout[i], fails, retries)
    OBVIOUS
  <2> QED
    BY <2>1, <2>2, UnitLaidOut
<1>3. work \in Seq(WorkUnits)
  <2>1. work \in [1..Len(layout) -> WorkUnits]
    BY <1>1, <1>2
  <2> QED
    <3>1. \A n \in Nat : \A s \in [1..n -> WorkUnits] : s \in Seq(WorkUnits)
      BY SeqDef
    <3> QED
      BY <1>1, <2>1, <3>1
<1>4. ASSUME NEW i \in DOMAIN work, NEW j \in DOMAIN work,
             NEW k \in DOMAIN work[i].parts, NEW n \in DOMAIN work[j].parts,
             work[i].parts[k].f = work[j].parts[n].f
      PROVE  i = j /\ k = n
  <2>1. /\ i \in DOMAIN layout /\ j \in DOMAIN layout
        /\ PartsAre(work[i].parts, layout[i].of, fails, retries)
        /\ PartsAre(work[j].parts, layout[j].of, fails, retries)
    BY <1>2
  <2>2. /\ k \in DOMAIN layout[i].of /\ layout[i].of[k] \in Functions
        /\ work[i].parts[k].f = layout[i].of[k]
        /\ n \in DOMAIN layout[j].of /\ work[j].parts[n].f = layout[j].of[n]
    BY <2>1 DEF PartsAre
  <2>3. layout[i].of[k] = layout[j].of[n]
    BY <1>4, <2>2
  <2> QED
    BY <2>1, <2>2, <2>3, OnePlace
<1>5. ListOnce(work)
  <2>1. ASSUME NEW i \in DOMAIN work PROVE PartsOnce(work[i].parts)
    <3>1. \A k, n \in DOMAIN work[i].parts : work[i].parts[k].f = work[i].parts[n].f => k = n
      BY <1>4
    <3> QED
      BY <3>1 DEF PartsOnce
  <2>2. ASSUME NEW i \in DOMAIN work, NEW j \in DOMAIN work, i # j PROVE ChainsApart(work[i], work[j])
    BY <1>4, <2>2 DEF ChainsApart, PartNames
  <2> QED
    BY <2>1, <2>2 DEF ListOnce
<1>6. ASSUME NEW f \in Functions PROVE f \in ListNames(work)
  <2>1. PICK i \in DOMAIN layout : \E k \in DOMAIN layout[i].of : layout[i].of[k] = f
    BY DEF OnePlaceEach
  <2>2. PICK k \in DOMAIN layout[i].of : layout[i].of[k] = f
    BY <2>1
  <2>3. PartsAre(work[i].parts, layout[i].of, fails, retries) /\ i \in DOMAIN work
    BY <1>2
  <2>4. k \in DOMAIN work[i].parts /\ work[i].parts[k].f = f
    BY <2>2, <2>3 DEF PartsAre
  <2> QED
    BY <2>3, <2>4 DEF ListNames, PartNames
<1> QED
  BY <1>2, <1>3, <1>5, <1>6

\* The list is made of the layout, nothing is called yet, and this is what is due.
ListIs(work, layout, fails, retries) ==
    /\ DOMAIN work = DOMAIN layout
    /\ \A i \in DOMAIN layout : PartsAre(work[i].parts, layout[i].of, fails, retries)
NoneCalled(called) == \A f \in Functions : called[f] = 0
DueIs(due, fails, retries) == \A f \in Functions : due[f] = Work!Calls(fails[f], retries[f])

\* None is called yet, and each is due as often as its failures and retries ask for.
LEMMA ListStartsCounted ==
  ASSUME NEW layout, NEW fails \in [Functions -> Nat], NEW retries \in [Functions -> Nat],
         NEW work, ListIs(work, layout, fails, retries),
         NEW called, NEW due, NoneCalled(called), DueIs(due, fails, retries)
  PROVE  ListCounted(work, called, due)
<1>1. \A f \in Functions : Work!Calls(fails[f], retries[f]) \in Nat
  BY WorkCalls
<1> SUFFICES ASSUME NEW i \in DOMAIN work, NEW k \in DOMAIN work[i].parts
             PROVE  called[work[i].parts[k].f] + Work!Calls(work[i].parts[k].fails, work[i].parts[k].retries)
                      = due[work[i].parts[k].f]
  BY DEF ListCounted, PartsCounted
<1>2. PICK f \in Functions : work[i].parts[k].f = f /\ work[i].parts[k].fails = fails[f]
                             /\ work[i].parts[k].retries = retries[f]
  BY DEF PartsAre, ListIs
<1>3. called[f] = 0 /\ due[f] = Work!Calls(fails[f], retries[f]) /\ due[f] \in Nat
  BY <1>1 DEF NoneCalled, DueIs
<1> QED
  BY <1>2, <1>3

\* What Init says of one choice of failures, retries, layout and crew.
LaidOutAs(layout, crew, fails, retries) ==
    /\ store.work = [i \in DOMAIN layout |-> Work!UnitOf(layout[i], fails, retries)]
    /\ store.workers = [i \in DOMAIN crew |-> [kind |-> crew[i], units |-> <<>>, busy |-> FALSE]]
    /\ store.num_busy = 0 /\ store.unit = <<>> /\ store.index = 1 /\ store.at = "start"
    /\ store.called = [f \in Functions |-> 0]
    /\ store.before = Work!Before(layout)
    /\ store = [work |-> store.work, workers |-> store.workers, num_busy |-> 0, unit |-> <<>>,
                index |-> 1, at |-> "start", called |-> store.called, before |-> store.before]
    /\ contents = [f \in Functions |-> Work!Calls(fails[f], retries[f])]

\* What the start chooses.
LEMMA WorkLaidOut ==
  ASSUME Work!Init, Work!WorkAssumption
  PROVE  \E fails, retries \in [Functions -> Nat], layout \in Layouts, crew \in Crews :
            LaidOutAs(layout, crew, fails, retries)
<1>1. PICK fails \in [Functions -> 0..MaxFails], retries \in [Functions -> 0..MaxFails],
           layout \in Layouts, crew \in Crews : Work!GivenTo(layout, crew, fails, retries)
  BY DEF Work!Init
<1>2. fails \in [Functions -> Nat] /\ retries \in [Functions -> Nat]
  <2>1. 0..MaxFails \subseteq Nat
    BY DEF Work!WorkAssumption
  <2> QED
    BY <2>1
<1>3. LaidOutAs(layout, crew, fails, retries)
  BY <1>1 DEF Work!GivenTo, LaidOutAs
<1> QED
  BY <1>2, <1>3

\* The crew starts idle.
LEMMA CrewStarts ==
  ASSUME NEW crew \in Seq({"inline", "chain"}), crew # <<>>, NEW workers,
         workers = [i \in DOMAIN crew |-> [kind |-> crew[i], units |-> <<>>, busy |-> FALSE]]
  PROVE  /\ workers \in Seq(WorkWorkers) /\ Len(workers) \in Nat \ {0} /\ Busy(workers) = {}
         /\ \A i \in DOMAIN workers : WorkerSound(workers[i]) /\ workers[i].units = <<>>
<1>1. /\ DOMAIN crew = 1..Len(crew) /\ Len(crew) \in Nat \ {0}
      /\ \A i \in DOMAIN crew : crew[i] \in {"inline", "chain"}
  <2>1. DOMAIN crew = 1..Len(crew) /\ Len(crew) \in Nat
    BY LenProperties
  <2>2. Len(crew) # 0
    BY EmptySeq
  <2> QED
    BY <2>1, <2>2, ElementOfSeq
<1>2. \A i \in DOMAIN crew : /\ workers[i] \in [kind : {crew[i]}, units : {<<>>}, busy : {FALSE}]
                             /\ workers[i].units = <<>> /\ ~workers[i].busy
  OBVIOUS
<1>3. <<>> \in Seq(WorkUnits) /\ Len(<<>>) = 0
  BY EmptySeq
<1>4. \A i \in DOMAIN crew : workers[i] \in WorkWorkers
  BY <1>1, <1>2, <1>3 DEF WorkWorkers
<1>5. workers \in [1..Len(crew) -> WorkWorkers] /\ DOMAIN workers = DOMAIN crew
  BY <1>1, <1>4
<1>6. workers \in Seq(WorkWorkers)
  BY <1>1, <1>5, SeqDef
<1>7. Len(workers) = Len(crew)
  BY <1>1, <1>5, <1>6, LenProperties
<1>8. Busy(workers) = {}
  BY <1>2, <1>5 DEF Busy
<1>9. \A i \in DOMAIN workers : WorkerSound(workers[i]) /\ workers[i].units = <<>>
  BY <1>2, <1>3, <1>5 DEF WorkerSound
<1> QED
  BY <1>1, <1>6, <1>7, <1>8, <1>9

\* Nothing is with an idle crew, so that all is in the queue.
LEMMA PlacedInQueue ==
  ASSUME NEW queue, NEW workers, NEW called, NEW due,
         ListOnce(queue), ListCounted(queue, called, due),
         \A f \in Functions : f \in ListNames(queue),
         \A i \in DOMAIN workers : workers[i].units = <<>>
  PROVE  Placed(queue, workers, called, due)
<1>1. ListNames(<<>>) = {} /\ ListOnce(<<>>) /\ ListCounted(<<>>, called, due)
  <2>1. DOMAIN <<>> = {}
    OBVIOUS
  <2> QED
    BY <2>1 DEF ListNames, ListOnce, ListCounted
<1>2. \A i \in DOMAIN workers : /\ ListNames(workers[i].units) = {} /\ ListOnce(workers[i].units)
                                /\ ListCounted(workers[i].units, called, due)
  BY <1>1
<1> QED
  BY <1>2 DEF Placed

\* At the start every function is in the list, and its calls are all to be made.
LEMMA WorkStarts ==
  ASSUME Work!WorkAssumption, Work!Init PROVE WorkInv
<1>1. PICK fails \in [Functions -> Nat], retries \in [Functions -> Nat], layout \in Layouts, crew \in Crews :
        LaidOutAs(layout, crew, fails, retries)
  BY WorkLaidOut
<1>2. /\ layout \in Seq(LayoutUnits) /\ OneOrChain(layout) /\ OnePlaceEach(layout)
      /\ crew \in Seq({"inline", "chain"}) /\ crew # <<>>
  BY DEF Work!WorkAssumption, LayoutUnits, OneOrChain, OnePlaceEach
<1>3. /\ DOMAIN store.work = DOMAIN layout /\ store.work = [i \in DOMAIN store.work |-> store.work[i]]
      /\ \A i \in DOMAIN layout : store.work[i] = Work!UnitOf(layout[i], fails, retries)
  BY <1>1 DEF LaidOutAs
<1>4. /\ store.work \in Seq(WorkUnits) /\ ListOnce(store.work)
      /\ \A i \in DOMAIN layout : PartsAre(store.work[i].parts, layout[i].of, fails, retries)
      /\ \A f \in Functions : f \in ListNames(store.work)
  BY <1>2, <1>3, ListLaidOut
<1>5. /\ \A f \in Functions : store.called[f] = 0
      /\ \A f \in Functions : contents[f] = Work!Calls(fails[f], retries[f])
      /\ store.called \in [Functions -> Nat]
  BY <1>1 DEF LaidOutAs
<1>6. contents \in [Functions -> Nat]
  <2>1. \A f \in Functions : Work!Calls(fails[f], retries[f]) \in Nat
    BY WorkCalls
  <2>2. contents = [f \in Functions |-> Work!Calls(fails[f], retries[f])]
    BY <1>1 DEF LaidOutAs
  <2> QED
    BY <2>1, <2>2
<1>7. ListCounted(store.work, store.called, contents)
  <2>1. /\ ListIs(store.work, layout, fails, retries) /\ NoneCalled(store.called)
        /\ DueIs(contents, fails, retries)
    BY <1>3, <1>4, <1>5 DEF ListIs, NoneCalled, DueIs
  <2> QED
    BY <2>1, ListStartsCounted
<1>8. /\ store.workers \in Seq(WorkWorkers) /\ Len(store.workers) \in Nat \ {0} /\ Busy(store.workers) = {}
      /\ \A i \in DOMAIN store.workers : WorkerSound(store.workers[i]) /\ store.workers[i].units = <<>>
  <2>1. store.workers = [i \in DOMAIN crew |-> [kind |-> crew[i], units |-> <<>>, busy |-> FALSE]]
    BY <1>1 DEF LaidOutAs
  <2> QED
    BY <1>2, <2>1, CrewStarts
<1>9. Placed(store.unit \o store.work, store.workers, store.called, contents)
  <2>1. Placed(store.work, store.workers, store.called, contents)
    BY <1>4, <1>7, <1>8, PlacedInQueue
  <2>2. store.unit \o store.work = store.work
    BY <1>1, <1>4, ConcatEmptySeq DEF LaidOutAs
  <2> QED
    BY <2>1, <2>2
<1>10. /\ store.num_busy = 0 /\ store.unit = <<>> /\ store.index = 1 /\ store.at = "start"
       /\ store = [work |-> store.work, workers |-> store.workers, num_busy |-> 0, unit |-> <<>>,
                   index |-> 1, at |-> "start", called |-> store.called, before |-> store.before]
       /\ store.before \in [Functions -> SUBSET Functions]
  <2>1. store.before = Work!Before(layout)
    BY <1>1 DEF LaidOutAs
  <2>2. Work!Before(layout) \in [Functions -> SUBSET Functions]
    BY DEF Work!Before
  <2> QED
    BY <1>1, <2>1, <2>2 DEF LaidOutAs
<1>11. <<>> \in Seq(WorkUnits) /\ Len(<<>>) = 0
  BY EmptySeq
<1>12. store \in WorkRecords
  <2>1. \A w \in Seq(WorkUnits), s \in Seq(WorkWorkers), u \in Seq(WorkUnits), c \in [Functions -> Nat],
          b \in [Functions -> SUBSET Functions] :
          [work |-> w, workers |-> s, num_busy |-> 0, unit |-> u, index |-> 1, at |-> "start", called |-> c,
           before |-> b] \in WorkRecords
    BY DEF WorkRecords
  <2> QED
    <3>1. [work |-> store.work, workers |-> store.workers, num_busy |-> 0, unit |-> <<>>,
           index |-> 1, at |-> "start", called |-> store.called, before |-> store.before] \in WorkRecords
      BY <1>4, <1>5, <1>8, <1>10, <1>11, <2>1
    <3> QED
      BY <1>10, <3>1
<1>13. store.num_busy = Cardinality(Busy(store.workers))
  BY <1>8, <1>10, FS_EmptySet
<1>14. store.index \in 1..Len(store.workers)
  BY <1>8, <1>10
<1> QED
  BY <1>6, <1>8, <1>9, <1>10, <1>11, <1>12, <1>13, <1>14 DEF WorkInv

\* Every step of run() keeps WorkInv, and executes one unit at most.
LEMMA WorkStep ==
  ASSUME WorkInv, Work!Next PROVE WorkInv' /\ UnitsMove
<1> QED
  BY WorkStartsRun, WorkRounds, WorkEndsRun DEF Work!Next

\* In a chain that is left, each function comes before those it precedes, all called as
\* often, or after them, and then they have had a call more.
Precedes(f, g, called, before) ==
    \/ f \in before[g] /\ called[f] = called[g]
    \/ g \in before[f] /\ called[g] = called[f] + 1
Ordered(parts, called, before) == \A p, q \in DOMAIN parts :
    p < q => Precedes(parts[p].f, parts[q].f, called, before)

\* Two functions of a chain are in one unit, until one of them is done with.
Together(f, g) ==
    \/ store.called[f] = contents[f] \/ store.called[g] = contents[g]
    \/ \E u \in AllUnits : {f, g} \subseteq PartNames(u.parts)

TurnInv ==
    /\ \A g \in Functions : \A f \in store.before[g] : g \notin store.before[f] /\ Together(f, g)
    /\ \A u \in AllUnits : Ordered(u.parts, store.called, store.before)
    /\ Work!TakeTurns

\* Each function of a unit that there is has the calls to come that it is due.
UnitsCounted == \A u \in AllUnits :
    u \in WorkUnits /\ PartsOnce(u.parts) /\ PartsCounted(u.parts, store.called, contents)

\* WorkInv says so of each unit where it is.
LEMMA UnitFacts == WorkInv => UnitsCounted
<1> SUFFICES ASSUME WorkInv, NEW u \in AllUnits
             PROVE  u \in WorkUnits /\ PartsOnce(u.parts) /\ PartsCounted(u.parts, store.called, contents)
  BY DEF UnitsCounted
<1>1. ASSUME NEW units \in Seq(WorkUnits), ListOnce(units), ListCounted(units, store.called, contents),
             u \in Elements(units)
      PROVE  u \in WorkUnits /\ PartsOnce(u.parts) /\ PartsCounted(u.parts, store.called, contents)
  <2>1. PICK i \in DOMAIN units : u = units[i]
    BY <1>1 DEF Elements
  <2>2. units[i] \in WorkUnits
    BY LenProperties, ElementOfSeq
  <2> QED
    BY <1>1, <2>1, <2>2 DEF ListOnce, ListCounted
<1>2. CASE u \in Elements(store.unit \o store.work)
  <2>1. store.unit \o store.work \in Seq(WorkUnits)
    BY WorkFacts, ConcatProperties
  <2> QED
    BY <1>1, <1>2, <2>1, WorkFacts DEF Placed
<1>3. ASSUME NEW i \in DOMAIN store.workers, u \in HeldBy(store.workers[i])
      PROVE  u \in WorkUnits /\ PartsOnce(u.parts) /\ PartsCounted(u.parts, store.called, contents)
  <2>1. store.workers[i].units \in Seq(WorkUnits)
    BY WorkFacts DEF WorkWorkers
  <2>2. ListOnce(store.workers[i].units) /\ ListCounted(store.workers[i].units, store.called, contents)
    BY WorkFacts DEF Placed
  <2> QED
    BY <1>1, <1>3, <2>1, <2>2 DEF HeldBy
<1> QED
  BY <1>2, <1>3 DEF AllUnits

\* What a step leaves of a unit: the unit without its first function, or with it at the end.
LEMMA UnitLeaves ==
  ASSUME NEW u \in WorkUnits, NEW called \in [Functions -> Nat], contents \in [Functions -> Nat],
         PartsOnce(u.parts), PartsCounted(u.parts, called, contents)
  PROVE  LET status == Work!ExecuteUnit(u)
         IN  /\ u.parts = <<>> => status.ran = {} /\ Kept(status) = <<>>
             /\ u.parts # <<>> => /\ status.ran = {Head(u.parts).f}
                                  /\ AfterFirst(u.parts) = <<>> \/ Elements(Kept(status)) # {}
                                  /\ \A v \in Elements(Kept(status)) : v.parts = AfterFirst(u.parts)
<1> DEFINE status == Work!ExecuteUnit(u)
           parts == u.parts
           first == Work!ExecuteLambda(Head(parts))
           new == AfterFirst(parts)
<1>1. parts \in Seq(WorkLambdas) /\ u.chain \in BOOLEAN /\ (u.chain \/ Len(parts) = 1)
  BY DEF WorkUnits
<1>2. CASE parts = <<>>
  <2>1. u.chain
    BY <1>1, <1>2
  <2>2. Work!ExecuteChain(u.parts, Work!ExecuteLambda(Head(u.parts))) = Work!Status(<<>>, TRUE, {})
    BY <1>2 DEF Work!ExecuteChain
  <2>3. status.complete = TRUE /\ status.ran = {}
    BY <2>1, <2>2 DEF Work!ExecuteUnit, Work!Status
  <2> HIDE DEF status
  <2>4. Kept(status) = <<>>
    BY <2>3 DEF Kept
  <2> QED
    BY <1>2, <2>3, <2>4 DEF status
<1>3. CASE parts # <<>>
  <2>1. first.ran = {Head(parts).f} /\ first.left \in WorkLambdas /\ first.complete \in BOOLEAN
        /\ new \in Seq(WorkLambdas)
    BY <1>1, <1>3, PartsExecute
  <2> SUFFICES \/ status.ran = first.ran /\ new = <<>> /\ Kept(status) = <<>>
               \/ \E v : status.ran = first.ran /\ Kept(status) = <<v>> /\ v.parts = new
    <3> HIDE DEF status, new, first
    <3>1. Elements(<<>>) = {} /\ \A v : Elements(<<v>>) = {v}
      BY ElementsJoined
    <3>2. status.ran = {Head(parts).f}
      BY <2>1
    <3>3. \/ new = <<>> /\ Elements(Kept(status)) = {}
          \/ \E v : v.parts = new /\ Elements(Kept(status)) = {v}
      <4>1. CASE new = <<>> /\ Kept(status) = <<>>
        BY <3>1, <4>1
      <4>2. ASSUME NEW v, Kept(status) = <<v>>, v.parts = new
            PROVE  v.parts = new /\ Elements(Kept(status)) = {v}
        <5>1. Elements(<<v>>) = {v}
          BY <3>1
        <5> QED
          BY <4>2, <5>1
      <4> QED
        BY <4>1, <4>2
    <3>4. /\ new = <<>> \/ Elements(Kept(status)) # {}
          /\ \A k \in Elements(Kept(status)) : k.parts = new
      BY <3>3
    <3> QED
      BY <1>3, <3>2, <3>4 DEF status, new
  <2>2. CASE u.chain
    <3> DEFINE chain == Work!ExecuteChain(parts, first)
    <3>1. chain.left = new /\ chain.complete = (new = <<>>) /\ chain.ran = first.ran
      BY <1>3, <2>1 DEF Work!ExecuteChain, AfterFirst, Kept, Work!Status
    <3>2. status = Work!Status(Work!Unit(chain.left, TRUE), chain.complete, chain.ran)
      BY <2>2 DEF Work!ExecuteUnit
    <3> HIDE DEF status, new, first, chain
    <3>3. status.left = Work!Unit(new, TRUE) /\ status.complete = (new = <<>>) /\ status.ran = first.ran
      BY <3>1, <3>2 DEF Work!Status
    <3>4. Work!Unit(new, TRUE).parts = new
      BY DEF Work!Unit
    <3> QED
      BY <3>3, <3>4 DEF Kept
  <2>3. CASE ~u.chain
    <3>1. status = Work!Status(Work!Unit(<<first.left>>, FALSE), first.complete, first.ran)
      BY <2>3 DEF Work!ExecuteUnit
    <3>2. Tail(parts) = <<>>
      <4>1. Len(Tail(parts)) = 0 /\ Tail(parts) \in Seq(WorkLambdas)
        BY <1>1, <1>3, <2>3, HeadFirst
      <4> QED
        BY <4>1, EmptySeq
    <3>3. new = Kept(first)
      <4>1. Kept(first) \in Seq(WorkLambdas)
        BY <2>1 DEF Kept
      <4> QED
        BY <3>2, <4>1, ConcatEmptySeq DEF AfterFirst
    <3> HIDE DEF status, new, first
    <3>4. status.left = Work!Unit(<<first.left>>, FALSE) /\ status.complete = first.complete /\ status.ran = first.ran
      BY <3>1 DEF Work!Status
    <3>5. Work!Unit(<<first.left>>, FALSE).parts = <<first.left>>
      BY DEF Work!Unit
    <3>6. CASE first.complete
      <4>1. new = <<>> /\ Kept(status) = <<>>
        BY <3>3, <3>4, <3>6 DEF Kept
      <4> QED
        BY <3>4, <4>1
    <3>7. CASE ~first.complete
      <4>1. new = <<first.left>> /\ Kept(status) = <<status.left>> /\ status.left.parts = new
        BY <3>3, <3>4, <3>5, <3>7 DEF Kept
      <4> QED
        BY <3>4, <4>1
    <3> QED
      BY <3>6, <3>7
  <2> QED
    BY <1>1, <2>2, <2>3
<1> QED
  BY <1>2, <1>3

\* The first function of a chain is called, and goes to the end or is done with: those that
\* are left are in order again.
LEMMA OrderKept ==
  ASSUME NEW parts \in Seq(WorkLambdas), parts # <<>>, NEW called \in [Functions -> Nat], NEW before,
         contents \in [Functions -> Nat], PartsOnce(parts), PartsCounted(parts, called, contents),
         Ordered(parts, called, before)
  PROVE  LET f == Head(parts).f
         IN  /\ f \in Functions /\ called[f] < contents[f]
             /\ Ordered(AfterFirst(parts), CalledNow(called, {f}), before)
             /\ \A g \in PartNames(parts) \ {f} : Precedes(f, g, called, before)
<1> DEFINE l == parts[1]
           rest == Tail(parts)
           first == Work!ExecuteLambda(l)
           e == Kept(first)
           f == l.f
           now == CalledNow(called, {f})
           new == rest \o e
<1>1. /\ parts = <<l>> \o rest /\ Head(parts) = l /\ l \in WorkLambdas /\ rest \in Seq(WorkLambdas)
      /\ <<l>> \in Seq(WorkLambdas) /\ Len(parts) \in Nat \ {0} /\ Len(rest) = Len(parts) - 1
      /\ DOMAIN parts = 1..Len(parts) /\ DOMAIN rest = 1..Len(rest)
      /\ \A i \in 1..Len(parts) - 1 : rest[i] = parts[i + 1]
  BY HeadFirst, LenProperties, TailHas
<1>2. \A i \in DOMAIN rest : i + 1 \in DOMAIN parts /\ rest[i] = parts[i + 1] /\ 1 < i + 1
  BY <1>1
<1>3. \A g \in PartNames(parts) \ {f} : \E i \in DOMAIN parts : parts[i].f = g /\ 1 < i
  <2> SUFFICES ASSUME NEW i \in DOMAIN parts, parts[i].f # f PROVE 1 < i
    BY DEF PartNames
  <2> QED
    BY <1>1
<1>4. 1 \in DOMAIN parts
  BY <1>1
<1>5. PartsCounted(<<l>>, called, contents) /\ PartNames(rest) \cap {f} = {}
  <2> HIDE DEF l, rest
  <2>1. PartNames(<<l>>) \cap PartNames(rest) = {} /\ PartsCounted(<<l>>, called, contents)
    BY <1>1, PartsJoined
  <2>2. PartNames(<<l>>) = {l.f}
    BY Singles
  <2> QED
    BY <2>1, <2>2
<1>6. f \in Functions /\ called[f] < contents[f] /\ called[f] \in Nat /\ first.left.f = f
  <2>1. l.f \in Functions /\ l.fails \in Nat /\ l.retries \in Nat
    BY <1>1 DEF WorkLambdas
  <2>2. called[l.f] + Work!Calls(l.fails, l.retries) = contents[l.f]
    BY <1>5, Singles
  <2>3. Work!Calls(l.fails, l.retries) \in Nat \ {0}
    BY <2>1, WorkCalls
  <2>4. first.left.f = f
    BY <1>1, <1>5, LambdaExecutes
  <2> HIDE DEF first, l
  <2> QED
    BY <2>1, <2>2, <2>3, <2>4
<1> HIDE DEF l, first
<1>7. \A g \in PartNames(parts) \ {f} : Precedes(f, g, called, before)
  BY <1>3, <1>4 DEF Ordered, l
<1>8. now[f] = called[f] + 1 /\ \A i \in DOMAIN rest : now[rest[i].f] = called[rest[i].f]
  <2>1. now[f] = called[f] + 1 /\ \A g \in Functions \ {f} : now[g] = called[g]
    BY <1>6 DEF CalledNow
  <2>2. \A i \in DOMAIN rest : rest[i].f \in Functions /\ rest[i].f # f
    BY <1>1, <1>5, NamesTyped DEF PartNames
  <2> QED
    BY <2>1, <2>2
<1> HIDE DEF now, f
<1>9. /\ e \in Seq(WorkLambdas) /\ \A i \in DOMAIN e : e[i].f = f
      /\ \A i, j \in DOMAIN e : i = j
  <2>1. first.left \in WorkLambdas /\ first.complete \in BOOLEAN
    BY <1>1, <1>5, LambdaExecutes DEF first
  <2>2. CASE first.complete
    <3>1. e = <<>>
      BY <2>2 DEF Kept
    <3> HIDE DEF e
    <3> QED
      BY <3>1
  <2>3. CASE ~first.complete
    <3>1. e = <<first.left>>
      BY <2>3 DEF Kept
    <3> HIDE DEF e
    <3> QED
      BY <1>6, <2>1, <3>1
  <2> QED
    BY <2>1, <2>2, <2>3
<1>10. new = AfterFirst(parts)
  BY <1>1 DEF AfterFirst, first
<1> HIDE DEF e, rest
<1>11. /\ \A i \in DOMAIN rest : i \in DOMAIN new /\ new[i] = rest[i] /\ i <= Len(rest) /\ i \in Nat
       /\ \A j \in DOMAIN e : After(rest, j) \in DOMAIN new /\ new[After(rest, j)] = e[j] /\ After(rest, j) > Len(rest)
       /\ \A i \in DOMAIN new : i \in DOMAIN rest \/ \E j \in DOMAIN e : i = After(rest, j)
       /\ Len(rest) \in Nat /\ \A j \in DOMAIN e : After(rest, j) \in Nat
  <2>1. /\ \A i \in DOMAIN rest : i \in DOMAIN new /\ new[i] = rest[i]
        /\ \A j \in DOMAIN e : After(rest, j) \in DOMAIN new /\ new[After(rest, j)] = e[j]
        /\ \A i \in DOMAIN new : i \in DOMAIN rest \/ \E j \in DOMAIN e : i = After(rest, j)
    <3>1. rest \in Seq(WorkLambdas) /\ e \in Seq(WorkLambdas)
      BY <1>1, <1>9
    <3> QED
      BY <3>1, JoinedAt
  <2>2. Len(rest) \in Nat /\ DOMAIN e = 1..Len(e) /\ Len(e) \in Nat
    BY <1>1, <1>9, LenProperties
  <2>3. \A j \in DOMAIN e : After(rest, j) > Len(rest) /\ After(rest, j) \in Nat
    BY <2>2 DEF After
  <2>4. \A i \in DOMAIN rest : i <= Len(rest) /\ i \in Nat
    BY <1>1, <2>2
  <2> QED
    BY <2>1, <2>2, <2>3, <2>4
<1> HIDE DEF new
<1>12. Ordered(new, now, before)
  <2> SUFFICES ASSUME NEW p \in DOMAIN new, NEW q \in DOMAIN new, p < q
               PROVE  Precedes(new[p].f, new[q].f, now, before)
    BY DEF Ordered
  <2>1. CASE p \in DOMAIN rest /\ q \in DOMAIN rest
    <3>1. p + 1 \in DOMAIN parts /\ q + 1 \in DOMAIN parts /\ p + 1 < q + 1
          /\ new[p] = parts[p + 1] /\ new[q] = parts[q + 1]
      BY <1>2, <1>11, <2>1
    <3>2. Precedes(parts[p + 1].f, parts[q + 1].f, called, before)
      BY <3>1 DEF Ordered
    <3>3. now[new[p].f] = called[new[p].f] /\ now[new[q].f] = called[new[q].f]
      BY <1>8, <1>11, <2>1
    <3> QED
      BY <3>1, <3>2, <3>3 DEF Precedes
  <2>2. CASE p \in DOMAIN rest /\ q \notin DOMAIN rest
    <3>1. new[q].f = f
      BY <1>9, <1>11, <2>2
    <3>2. new[p] = parts[p + 1] /\ 1 < p + 1 /\ p + 1 \in DOMAIN parts
      BY <1>2, <1>11, <2>2
    <3>3. Precedes(f, new[p].f, called, before)
      BY <1>4, <3>2 DEF Ordered, f, l
    <3>4. now[new[p].f] = called[new[p].f]
      BY <1>8, <1>11, <2>2
    <3>5. now[f] = called[f] + 1
      BY <1>8
    <3> QED
      BY <3>1, <3>3, <3>4, <3>5 DEF Precedes
  <2>3. CASE p \notin DOMAIN rest
    <3>1. PICK j \in DOMAIN e : p = After(rest, j)
      BY <1>11, <2>3
    <3>2. q \notin DOMAIN rest
      BY <1>11, <3>1
    <3>3. PICK k \in DOMAIN e : q = After(rest, k)
      BY <1>11, <3>2
    <3>4. p = q
      BY <1>9, <3>1, <3>3
    <3> QED
      BY <1>11, <3>1, <3>4
  <2> QED
    BY <2>1, <2>2, <2>3
<1> QED
  BY <1>1, <1>6, <1>7, <1>10, <1>12 DEF now, f

\* The functions of a chain go on in turn.
LEMMA TurnStep ==
  ASSUME WorkInv, TurnInv, WorkInv', UnitsMove PROVE TurnInv'
<1> DEFINE called == store.called
           before == store.before
           now == store'.called
<1>1. /\ store'.before = before /\ contents' = contents
      /\ called \in [Functions -> Nat] /\ now \in [Functions -> Nat] /\ contents \in [Functions -> Nat]
      /\ \A g \in Functions : before[g] \subseteq Functions
  <2>1. store \in WorkRecords /\ store' \in WorkRecords
    BY DEF WorkInv
  <2> QED
    BY <2>1 DEF UnitsMove, WorkInv, WorkRecords
<1>2. CASE now = called /\ AllUnits' = AllUnits
  <2>1. \A f, g : Together(f, g) => Together(f, g)'
    BY <1>1, <1>2 DEF Together
  <2> QED
    BY <1>1, <1>2, <2>1 DEF TurnInv, Work!TakeTurns
<1>3. ASSUME NEW u \in AllUnits, UnitRuns(u) PROVE TurnInv'
  <2> DEFINE status == Work!ExecuteUnit(u)
             parts == u.parts
             kept == Elements(Kept(status))
  <2>1. u \in WorkUnits /\ PartsOnce(parts) /\ PartsCounted(parts, called, contents) /\ parts \in Seq(WorkLambdas)
    BY UnitFacts DEF UnitsCounted, WorkUnits
  <2>2. /\ now = CalledNow(called, status.ran)
        /\ AllUnits' \subseteq AllUnits \cup kept /\ (AllUnits \ {u}) \cup kept \subseteq AllUnits'
    BY <1>3 DEF UnitRuns
  <2>3. /\ parts = <<>> => status.ran = {} /\ kept = {}
        /\ parts # <<>> => /\ status.ran = {Head(parts).f}
                           /\ AfterFirst(parts) = <<>> \/ kept # {}
                           /\ \A v \in kept : v.parts = AfterFirst(parts)
    BY <1>1, <2>1, UnitLeaves, ElementsJoined
  <2> HIDE DEF status, kept
  <2>4. CASE parts = <<>>
    <3>1. now = called
      <4>1. \A g \in Functions : now[g] = called[g]
        BY <1>1, <2>2, <2>3, <2>4 DEF CalledNow
      <4> QED
        BY <1>1, <4>1
    <3>2. AllUnits' \subseteq AllUnits /\ AllUnits \ {u} \subseteq AllUnits' /\ PartNames(parts) = {}
      BY <2>2, <2>3, <2>4, Singles
    <3>3. \A f, g : Together(f, g) => Together(f, g)'
      BY <1>1, <3>1, <3>2 DEF Together
    <3> QED
      BY <1>1, <3>1, <3>2, <3>3 DEF TurnInv, Work!TakeTurns
  <2>5. CASE parts # <<>>
    <3> DEFINE f == Head(parts).f
               new == AfterFirst(parts)
    <3>1. /\ f \in Functions /\ called[f] < contents[f] /\ Ordered(new, CalledNow(called, {f}), before)
          /\ \A g \in PartNames(parts) \ {f} : Precedes(f, g, called, before)
      BY <1>1, <2>1, <2>5, OrderKept DEF TurnInv
    <3>2. f \in PartNames(parts) /\ PartNames(new) \subseteq PartNames(parts)
          /\ \A g \in PartNames(parts) : g \in PartNames(new) \/ CalledNow(called, {f})[g] = contents[g]
      <4>1. Accounted(PartNames(parts), PartNames(new), {f}, called, contents)
        BY <1>1, <2>1, <2>5, PartsExecute
      <4> HIDE DEF f, new
      <4> QED
        BY <4>1 DEF Accounted
    <3> HIDE DEF f, new
    <3>3. /\ now = CalledNow(called, {f}) /\ now[f] = called[f] + 1
          /\ \A g \in Functions \ {f} : now[g] = called[g]
      BY <1>1, <2>2, <2>3, <2>5, <3>1 DEF CalledNow, f
    <3>4. /\ \A v \in kept : v.parts = new
          /\ new = <<>> \/ kept # {}
      BY <2>3, <2>5 DEF new
    <3>5. ASSUME NEW v \in AllUnits, v \in AllUnits' PROVE f \notin PartNames(v.parts)
      <4>1. PartsCounted(v.parts, now, contents)
        <5>1. UnitsCounted'
          BY UnitFacts, PTL
        <5> QED
          BY <1>1, <3>5, <5>1 DEF UnitsCounted, PartsCounted
      <4>2. PartsCounted(v.parts, called, contents) /\ v.parts \in Seq(WorkLambdas)
        BY UnitFacts DEF UnitsCounted, WorkUnits
      <4> SUFFICES ASSUME NEW i \in DOMAIN v.parts, v.parts[i].f = f PROVE FALSE
        BY DEF PartNames
      <4>3. v.parts[i] \in WorkLambdas
        BY <4>2, ElementOfSeq, LenProperties
      <4> DEFINE n == Work!Calls(v.parts[i].fails, v.parts[i].retries)
      <4>4. n \in Nat
        BY <4>3, WorkCalls DEF WorkLambdas
      <4>5. called[f] + n = contents[f] /\ now[f] + n = contents[f]
        BY <4>1, <4>2 DEF PartsCounted
      <4> HIDE DEF n
      <4> QED
        BY <1>1, <3>1, <3>3, <4>4, <4>5
    <3>6. ASSUME NEW v \in AllUnits' PROVE Ordered(v.parts, now, before)
      <4>1. CASE v \in kept
        BY <3>1, <3>3, <3>4, <4>1
      <4>2. CASE v \notin kept
        <5>1. v \in AllUnits /\ f \notin PartNames(v.parts)
          BY <2>2, <3>5, <4>2
        <5>2. v.parts \in Seq(WorkLambdas) /\ Ordered(v.parts, called, before)
          BY <5>1, UnitFacts DEF UnitsCounted, WorkUnits, TurnInv
        <5>3. \A i \in DOMAIN v.parts : now[v.parts[i].f] = called[v.parts[i].f]
          BY <3>3, <5>1, <5>2, NamesTyped DEF PartNames
        <5> QED
          BY <5>2, <5>3 DEF Ordered, Precedes
      <4> QED
        BY <4>1, <4>2
    <3>7. ASSUME NEW g \in Functions, f \in before[g] \/ g \in before[f]
          PROVE  g # f /\ (called[g] = contents[g] \/ Precedes(f, g, called, before))
      <4>1. g # f
        BY <3>1, <3>7 DEF TurnInv
      <4>2. Together(f, g) \/ Together(g, f)
        BY <3>1, <3>7 DEF TurnInv
      <4>3. called[f] # contents[f]
        BY <1>1, <3>1
      <4>4. ASSUME NEW v \in AllUnits, f \in PartNames(v.parts) PROVE v = u
        BY <2>2, <3>5, <4>4
      <4> QED
        BY <3>1, <4>1, <4>2, <4>3, <4>4 DEF Together
    <3>8. ASSUME NEW g \in Functions, NEW h \in before[g]
          PROVE  /\ now[g] > now[h] => now[h] = contents[h]
                 /\ now[h] > now[g] + 1 => now[g] = contents[g]
      <4>1. /\ called[g] > called[h] => called[h] = contents[h]
            /\ called[h] > called[g] + 1 => called[g] = contents[g]
            /\ h \in Functions /\ g \notin before[h]
            /\ called[g] \in Nat /\ called[h] \in Nat /\ called[f] \in Nat /\ contents[f] \in Nat
        BY <1>1, <3>1 DEF TurnInv, Work!TakeTurns
      <4>2. CASE f # g /\ f # h
        BY <3>3, <4>1, <4>2
      <4>3. CASE h = f
        <5>1. g # f /\ (called[g] = contents[g] \/ Precedes(f, g, called, before))
          BY <3>7, <4>3
        <5>2. now[g] = called[g] /\ now[h] = called[h] + 1 /\ called[h] < contents[h]
          BY <3>1, <3>3, <4>3, <5>1
        <5> QED
          BY <4>1, <4>3, <5>1, <5>2 DEF Precedes
      <4>4. CASE g = f
        <5>1. h # f /\ (called[h] = contents[h] \/ Precedes(f, h, called, before))
          BY <3>7, <4>1, <4>4
        <5>2. now[h] = called[h] /\ now[g] = called[g] + 1 /\ called[g] < contents[g]
          BY <3>1, <3>3, <4>1, <4>4, <5>1
        <5> QED
          BY <4>1, <4>4, <5>1, <5>2 DEF Precedes
      <4> QED
        BY <4>2, <4>3, <4>4
    <3>9. ASSUME NEW g \in Functions, NEW h \in before[g] PROVE Together(h, g)'
      <4>1. h \in Functions /\ Together(h, g) /\ called[f] # contents[f]
        BY <1>1, <3>1 DEF TurnInv
      <4>2. CASE called[h] = contents[h] \/ called[g] = contents[g]
        BY <1>1, <3>3, <4>1, <4>2 DEF Together
      <4>3. ASSUME NEW v \in AllUnits, {h, g} \subseteq PartNames(v.parts) PROVE Together(h, g)'
        <5>1. CASE v \in AllUnits'
          BY <4>3, <5>1 DEF Together
        <5>2. CASE v \notin AllUnits'
          <6>1. v = u
            BY <2>2, <5>2
          <6>2. CASE {h, g} \subseteq PartNames(new)
            <7>1. new # <<>>
              BY <6>2, Singles
            <7>2. PICK k \in kept : k.parts = new
              BY <3>4, <7>1
            <7> QED
              BY <2>2, <6>2, <7>2 DEF Together
          <6>3. CASE ~({h, g} \subseteq PartNames(new))
            <7>1. now[h] = contents[h] \/ now[g] = contents[g]
              BY <3>2, <3>3, <4>3, <6>1, <6>3
            <7> QED
              BY <1>1, <7>1 DEF Together
          <6> QED
            BY <6>2, <6>3
        <5> QED
          BY <5>1, <5>2
      <4> QED
        BY <4>1, <4>2, <4>3 DEF Together
    <3> QED
      BY <1>1, <3>6, <3>8, <3>9 DEF TurnInv, Work!TakeTurns
  <2> QED
    BY <2>4, <2>5
<1> QED
  BY <1>2, <1>3 DEF UnitsMove

\* At the start no function is called, and those of a chain are in its one unit.
LEMMA TurnStarts ==
  ASSUME Work!WorkAssumption, Work!Init PROVE TurnInv
<1>1. PICK fails \in [Functions -> Nat], retries \in [Functions -> Nat], layout \in Layouts, crew \in Crews :
        LaidOutAs(layout, crew, fails, retries)
  BY WorkLaidOut
<1>2. /\ layout \in Seq(LayoutUnits) /\ OneOrChain(layout) /\ OnePlaceEach(layout)
      /\ crew \in Seq({"inline", "chain"}) /\ crew # <<>>
  BY DEF Work!WorkAssumption, LayoutUnits, OneOrChain, OnePlaceEach
<1>3. /\ DOMAIN store.work = DOMAIN layout /\ store.work = [i \in DOMAIN store.work |-> store.work[i]]
      /\ \A i \in DOMAIN layout : store.work[i] = Work!UnitOf(layout[i], fails, retries)
      /\ store.unit = <<>> /\ \A f \in Functions : store.called[f] = 0
      /\ store.before = Work!Before(layout)
  BY <1>1 DEF LaidOutAs
<1>4. /\ store.work \in Seq(WorkUnits)
      /\ \A i \in DOMAIN layout : PartsAre(store.work[i].parts, layout[i].of, fails, retries)
  BY <1>2, <1>3, ListLaidOut
<1>5. AllUnits = Elements(store.work)
  <2>1. store.unit \o store.work = store.work
    BY <1>3, <1>4, ConcatEmptySeq
  <2>2. \A i \in DOMAIN store.workers : HeldBy(store.workers[i]) = {}
    <3>1. store.workers = [i \in DOMAIN crew |-> [kind |-> crew[i], units |-> <<>>, busy |-> FALSE]]
      BY <1>1 DEF LaidOutAs
    <3>2. \A i \in DOMAIN store.workers : store.workers[i].units = <<>>
      BY <1>2, <3>1, CrewStarts
    <3> QED
      BY <3>2, ElementsJoined DEF HeldBy
  <2> QED
    BY <2>1, <2>2 DEF AllUnits
<1>6. ASSUME NEW g \in Functions, NEW f \in store.before[g]
      PROVE  /\ f \in Functions
             /\ \E i \in DOMAIN layout : \E j, k \in DOMAIN layout[i].of :
                  j < k /\ layout[i].of[j] = f /\ layout[i].of[k] = g
  BY <1>3 DEF Work!Before
<1>7. ASSUME NEW g \in Functions, NEW f \in store.before[g] PROVE g \notin store.before[f] /\ Together(f, g)
  <2>1. PICK i \in DOMAIN layout : \E j, k \in DOMAIN layout[i].of :
           j < k /\ layout[i].of[j] = f /\ layout[i].of[k] = g
    BY <1>6
  <2>2. PICK j \in DOMAIN layout[i].of, k \in DOMAIN layout[i].of :
           j < k /\ layout[i].of[j] = f /\ layout[i].of[k] = g
    BY <2>1
  <2>3. j \in Nat /\ k \in Nat
    <3>1. layout[i] \in LayoutUnits
      BY <1>2, ElementOfSeq, LenProperties
    <3>2. DOMAIN layout[i].of = 1..Len(layout[i].of) /\ Len(layout[i].of) \in Nat
      BY <3>1, LenProperties DEF LayoutUnits
    <3> QED
      BY <3>2
  <2>4. g \notin store.before[f]
    <3> SUFFICES ASSUME g \in store.before[f] PROVE FALSE
      OBVIOUS
    <3>1. PICK i2 \in DOMAIN layout : \E j2, k2 \in DOMAIN layout[i2].of :
             j2 < k2 /\ layout[i2].of[j2] = g /\ layout[i2].of[k2] = f
      BY <1>6
    <3>2. PICK j2 \in DOMAIN layout[i2].of, k2 \in DOMAIN layout[i2].of :
             j2 < k2 /\ layout[i2].of[j2] = g /\ layout[i2].of[k2] = f
      BY <3>1
    <3>3. j2 = k
      BY <1>2, <2>2, <3>2, OnePlace
    <3>4. k2 = j
      BY <1>2, <1>6, <2>2, <3>2, OnePlace
    <3> QED
      BY <2>2, <2>3, <3>2, <3>3, <3>4
  <2>5. Together(f, g)
    <3>1. store.work[i] \in AllUnits
      BY <1>3, <1>5 DEF Elements
    <3>2. PartsAre(store.work[i].parts, layout[i].of, fails, retries)
      BY <1>4
    <3>3. {f, g} \subseteq PartNames(store.work[i].parts)
      BY <2>2, <3>2 DEF PartsAre, PartNames
    <3> QED
      BY <3>1, <3>3 DEF Together
  <2> QED
    BY <2>4, <2>5
<1>8. ASSUME NEW u \in AllUnits PROVE Ordered(u.parts, store.called, store.before)
  <2>1. PICK i \in DOMAIN layout : u = store.work[i]
    BY <1>3, <1>5 DEF Elements
  <2>2. PartsAre(u.parts, layout[i].of, fails, retries)
    BY <1>4, <2>1
  <2> SUFFICES ASSUME NEW p \in DOMAIN u.parts, NEW q \in DOMAIN u.parts, p < q
               PROVE  Precedes(u.parts[p].f, u.parts[q].f, store.called, store.before)
    BY DEF Ordered
  <2>3. /\ p \in DOMAIN layout[i].of /\ q \in DOMAIN layout[i].of
        /\ u.parts[p].f = layout[i].of[p] /\ u.parts[q].f = layout[i].of[q]
        /\ layout[i].of[p] \in Functions /\ layout[i].of[q] \in Functions
    BY <2>2 DEF PartsAre
  <2>4. layout[i].of[p] \in store.before[layout[i].of[q]]
    BY <1>3, <2>3 DEF Work!Before
  <2>5. store.called[layout[i].of[p]] = store.called[layout[i].of[q]]
    BY <1>3, <2>3
  <2> QED
    BY <2>3, <2>4, <2>5 DEF Precedes
<1>9. Work!TakeTurns
  BY <1>3, <1>6 DEF Work!TakeTurns
<1> QED
  BY <1>7, <1>8, <1>9 DEF TurnInv

\* A function with calls still to be made has been called less often than is due.
LEMMA CountedNotOver ==
  ASSUME NEW units \in Seq(WorkUnits), NEW called \in [Functions -> Nat], NEW due \in [Functions -> Nat],
         ListCounted(units, called, due), NEW f \in ListNames(units)
  PROVE  called[f] =< due[f]
<1>1. PICK i \in DOMAIN units : f \in PartNames(units[i].parts)
  BY DEF ListNames
<1>2. PICK k \in DOMAIN units[i].parts : f = units[i].parts[k].f
  BY <1>1 DEF PartNames
<1>3. units[i].parts[k] \in WorkLambdas
  <2>1. units[i] \in WorkUnits
    BY ElementOfSeq, LenProperties
  <2>2. units[i].parts \in Seq(WorkLambdas)
    BY <2>1 DEF WorkUnits
  <2> QED
    BY <2>2, ElementOfSeq, LenProperties
<1> DEFINE l == units[i].parts[k]
<1>4. called[l.f] + Work!Calls(l.fails, l.retries) = due[l.f]
  BY DEF ListCounted, PartsCounted
<1>5. l.f \in Functions /\ l.fails \in Nat /\ l.retries \in Nat /\ l.f = f
  BY <1>2, <1>3 DEF WorkLambdas
<1> HIDE DEF l
<1>6. Work!Calls(l.fails, l.retries) \in Nat
  BY <1>5, WorkCalls
<1> QED
  BY <1>4, <1>5, <1>6

\* The invariants say that no function is called too often, that each is called often
\* enough at the end, and that those of a chain take turns.
LEMMA WorkEachTried ==
  ASSUME WorkInv, TurnInv PROVE Work!EachTried
<1>1. /\ store \in WorkRecords /\ contents \in [Functions -> Nat]
      /\ store.work \in Seq(WorkUnits) /\ store.unit \in Seq(WorkUnits)
      /\ store.called \in [Functions -> Nat]
      /\ store.num_busy = Cardinality(Busy(store.workers))
      /\ Placed(store.unit \o store.work, store.workers, store.called, contents)
      /\ \A i \in DOMAIN store.workers : store.workers[i] \in WorkWorkers
  BY WorkFacts
<1>2. store.unit \o store.work \in Seq(WorkUnits)
  BY <1>1, ConcatProperties
<1>3. ASSUME NEW f \in Functions PROVE store.called[f] <= contents[f]
  <2>1. CASE f \in ListNames(store.unit \o store.work)
    <3>1. ListCounted(store.unit \o store.work, store.called, contents)
      BY <1>1 DEF Placed
    <3> QED
      BY <1>1, <1>2, <2>1, <3>1, CountedNotOver
  <2>2. ASSUME NEW i \in DOMAIN store.workers, f \in ListNames(store.workers[i].units)
        PROVE  store.called[f] <= contents[f]
    <3>1. ListCounted(store.workers[i].units, store.called, contents)
      BY <1>1 DEF Placed
    <3>2. store.workers[i].units \in Seq(WorkUnits)
      BY <1>1 DEF WorkWorkers
    <3> QED
      BY <1>1, <2>2, <3>1, <3>2, CountedNotOver
  <2>3. CASE store.called[f] = contents[f]
    BY <1>1, <2>3
  <2> QED
    BY <1>1, <2>1, <2>2, <2>3 DEF Placed
<1>4. Work!Cardinality(Busy(store.workers)) = Cardinality(Busy(store.workers))
  BY DEF Work!Cardinality, Cardinality
<1>5. store.at = "done" => store.called = contents
  BY DEF WorkInv
<1>6. store.num_busy = Work!Cardinality({i \in DOMAIN store.workers : store.workers[i].busy})
  BY <1>1, <1>4 DEF Busy
<1> QED
  BY <1>3, <1>5, <1>6 DEF Work!EachTried, TurnInv

----------------------------------------------------------------------------
(* Together *)

OwnersInv ==
    /\ which = "pool"   => PoolInv
    /\ which = "handle" => HandleInv

RunInv == which = "work" => WorkInv /\ TurnInv

StoredInv ==
    /\ which = "result" => ResultInv
    /\ which = "union"  => UnionInv
    /\ which = "vector" => VecInv
    /\ which = "copy"   => CopyInv

\* A behaviour stays one of its part: each step is one of the part, or leaves it alone.
LEMMA OnePartOnly ==
  ASSUME [AnyNext]_allVars
  PROVE  /\ which' = which
         /\ which = "work"   => [Work!Next]_others
         /\ which = "vector" => [Vector!Next]_others
         /\ which = "result" => [Result!Next]_others
         /\ which = "union"  => [Union!Next]_others
         /\ which = "copy"   => [Copy!Next]_others
         /\ which = "pool"   => [Pool!Next]_others
         /\ which = "handle" => [Handle!Next]_others
BY DEF AnyNext, allVars, others

\* The owners' invariants hold throughout.
LEMMA OwnersInvariance == AnySpec => []OwnersInv
<1>1. AnyInit => OwnersInv
  BY PartsAssumption, PoolStarts, HandleStarts DEF AnyInit, OwnersInv
<1>2. ASSUME OwnersInv, [AnyNext]_allVars PROVE OwnersInv'
  <2>1. which' = which /\ (which = "pool" => [Pool!Next]_others) /\ (which = "handle" => [Handle!Next]_others)
    BY <1>2, OnePartOnly
  <2>2. ASSUME PoolInv, UNCHANGED others PROVE PoolInv'
    BY <2>2 DEF others, PoolInv, PoolTyped, PoolApart, PoolAlive, PoolHeld
  <2>3. ASSUME HandleInv, UNCHANGED others PROVE HandleInv'
    BY <2>3 DEF others, HandleInv, HandleTyped, FdsOwned, MapsOwned, Open, Mapped
  <2>4. ASSUME which = "pool" PROVE PoolInv'
    BY <1>2, <2>1, <2>2, <2>4, PoolStep, PartsAssumption DEF OwnersInv
  <2>5. ASSUME which = "handle" PROVE HandleInv'
    BY <1>2, <2>1, <2>3, <2>5, HandleStep, PartsAssumption DEF OwnersInv
  <2> QED
    BY <2>1, <2>4, <2>5 DEF OwnersInv
<1> QED
  BY <1>1, <1>2, PTL DEF AnySpec

\* For any number of handles, resources, descriptors and maps: each resource,
\* descriptor and mapping has one owner, or waits in the pool.
THEOREM OwnersAreAlone == AnySpec => []OwnedOnce
<1>1. OwnersInv => OwnedOnce
  BY PoolOnePlace, HandleOwnedOnce, PartsAssumption DEF OwnersInv, OwnedOnce
<1> QED
  BY <1>1, OwnersInvariance, PTL

\* The invariant of run() holds throughout.
LEMMA RunInvariance == AnySpec => []RunInv
<1>1. AnyInit => RunInv
  BY PartsAssumption, WorkStarts, TurnStarts DEF AnyInit, RunInv
<1>2. ASSUME RunInv, [AnyNext]_allVars PROVE RunInv'
  <2>1. which' = which /\ (which = "work" => [Work!Next]_others)
    BY <1>2, OnePartOnly
  <2>2. ASSUME WorkInv, TurnInv, UNCHANGED others PROVE WorkInv' /\ TurnInv'
    <3>1. UNCHANGED <<store, contents>>
      BY <2>2 DEF others
    <3>2. WorkInv'
      BY <2>2, <3>1 DEF WorkInv
    <3>3. TurnInv'
      <4>1. AllUnits' = AllUnits
        BY <3>1 DEF AllUnits, HeldBy
      <4>2. \A f, g : Together(f, g) => Together(f, g)'
        BY <3>1, <4>1 DEF Together
      <4> QED
        BY <2>2, <3>1, <4>1, <4>2 DEF TurnInv, Work!TakeTurns
    <3> QED
      BY <3>2, <3>3
  <2>3. ASSUME which = "work" PROVE WorkInv' /\ TurnInv'
    BY <1>2, <2>1, <2>2, <2>3, WorkStep, TurnStep DEF RunInv
  <2> QED
    BY <2>1, <2>3 DEF RunInv
<1> QED
  BY <1>1, <1>2, PTL DEF AnySpec

\* For any layout of functions and chains, any crew, and any failures and retries: no
\* function is called more often than its failures and retries ask for, on
\* whichever workers it lands, run() returns only when each was called as often, and
\* the functions of a chain are called in turn, those that fail and are retried too.
THEOREM EachIsTried == AnySpec => []EachTried
<1>1. RunInv => EachTried
  BY WorkEachTried DEF RunInv, EachTried
<1> QED
  BY <1>1, RunInvariance, PTL

\* With careful clients the holders of values and copy stay in order.
LEMMA StoredInvariance ==
  ASSUME Careful PROVE AnySpec => []StoredInv
<1>1. AnyInit => StoredInv
  BY PartsAssumption, ResultStarts, UnionStarts, VecStarts, CopyStarts DEF AnyInit, StoredInv
<1>2. ASSUME StoredInv, [AnyNext]_allVars PROVE StoredInv'
  <2>1. /\ which' = which
        /\ which = "result" => [Result!Next]_others
        /\ which = "union" => [Union!Next]_others
        /\ which = "vector" => [Vector!Next]_others
        /\ which = "copy" => [Copy!Next]_others
    BY <1>2, OnePartOnly
  <2>2. ASSUME ResultInv, UNCHANGED others PROVE ResultInv'
    BY <2>2 DEF others, ResultInv
  <2>3. ASSUME UnionInv, UNCHANGED others PROVE UnionInv'
    BY <2>3 DEF others, UnionInv
  <2>4. ASSUME VecInv, UNCHANGED others PROVE VecInv'
    BY <2>4, VecStays DEF others, Vector!vars
  <2>5. ASSUME CopyInv, UNCHANGED others PROVE CopyInv'
    BY <2>5 DEF others, CopyInv, Copy!IsPrefix
  <2>6. ASSUME which = "result" PROVE ResultInv'
    BY <1>2, <2>1, <2>2, <2>6, ResultStep, PartsAssumption DEF StoredInv
  <2>7. ASSUME which = "union" PROVE UnionInv'
    BY <1>2, <2>1, <2>3, <2>7, UnionStep, PartsAssumption DEF StoredInv
  <2>8. ASSUME which = "vector" PROVE VecInv'
    BY <1>2, <2>1, <2>4, <2>8, VecStep, PartsAssumption DEF StoredInv
  <2>9. ASSUME which = "copy" PROVE CopyInv'
    BY <1>2, <2>1, <2>5, <2>9, CopyStep, PartsAssumption DEF StoredInv
  <2> QED
    BY <2>1, <2>6, <2>7, <2>8, <2>9 DEF StoredInv
<1> QED
  BY <1>1, <1>2, PTL DEF AnySpec

\* For any payloads, types and capacity, when clients avoid the calls that the code
\* gets wrong: vectors, results and unions hold what the calls put there, where
\* their index, flags and counts say. For sources of any length, any buffer and any
\* policies, when the writer takes all that was read: what arrives is what was sent,
\* in order, and all that was asked for, or all that is there, or what there was up
\* to a short read.
THEOREM StoredIsExact ==
  ASSUME Careful PROVE AnySpec => []StoredExact
<1>1. StoredInv => StoredExact
  BY ResultExact, UnionIsExact, VecExact, CopyIsExact, PartsAssumption DEF StoredInv, StoredExact
<1> QED
  BY <1>1, StoredInvariance, PTL
=============================================================================
