---------------------------- MODULE SharedParts_proofs ----------------------------
(***************************************************************************)
(* The parts of the library that threads share, for any number of threads, *)
(* tokens, addresses, requests and observers.                              *)
(***************************************************************************)
EXTENDS SharedParts, Awaiter_proofs, FiniteSetTheorems, SequenceTheorems

----------------------------------------------------------------------------
(* lazy_atomic: who holds what *)

\* What the locals of a thread are at each step.
LazyShape ==
    \A t \in Threads :
        /\ loc[t].made # Empty <=> at[t] \in {"install_load", "install_cas"}
        /\ loc[t].made \in Addresses \cup {Empty}
        /\ at[t] \in {"clear_cas", "delete"} => loc[t].expected \in Addresses

\* The thread that reserved the node and has not installed its value.
Making(t) == at[t] \in {"make", "install_load", "install_cas"}

\* A pending node has one maker.
LazyReserved ==
    /\ \A t, u \in Threads : Making(t) /\ Making(u) => t = u
    /\ mem.value = Pending <=> \E t \in Threads : Making(t)

Holds(t, a) == loc[t].made = a \/ (at[t] = "delete" /\ loc[t].expected = a)

\* A value is in the node or with one thread, and it is on the heap.
LazyOwned ==
    \A a \in Addresses :
        /\ \A t, u \in Threads : Holds(t, a) /\ Holds(u, a) => t = u
        /\ \A t \in Threads : Holds(t, a) => mem.value # a
        /\ a \in mem.heap <=> mem.value = a \/ \E t \in Threads : Holds(t, a)

\* Unless a clear came between, the answer is the value that the node still has.
LazyAnswered ==
    \A t \in Threads : loc[t].quiet =>
        /\ at[t] = "spin" => mem.value # Empty
        /\ at[t] = "idle" /\ loc[t].got # Pending => loc[t].got = mem.value /\ mem.value \in Addresses

LazyInv == Lazy!TypeOK /\ LazyShape /\ LazyReserved /\ LazyOwned /\ LazyAnswered

\* Nobody but t has moved.
OthersStay(t) == \A u \in Threads \ {t} : at'[u] = at[u] /\ loc'[u] = loc[u]

\* A step of one thread that changes neither the node nor who holds what.
LEMMA LazyPrivate ==
  ASSUME Lazy!LazyAssumption, LazyInv, Lazy!TypeOK', NEW t \in Threads, OthersStay(t),
         mem'.value = mem.value, mem'.heap = mem.heap,
         loc'[t].made = loc[t].made,
         at'[t] \in {"install_load", "install_cas"} <=> at[t] \in {"install_load", "install_cas"},
         at'[t] \in {"clear_cas", "delete"} => loc'[t].expected \in Addresses,
         at'[t] # "delete" /\ at[t] # "delete",
         at'[t] = "make" <=> at[t] = "make",
         at'[t] = "spin" => mem.value # Empty,
         at'[t] = "idle" => loc'[t].got = Pending \/ ~loc'[t].quiet
                              \/ (loc'[t].got = mem.value /\ mem.value \in Addresses)
  PROVE  LazyInv'
<1> USE DEF LazyInv, OthersStay
<1>1. LazyShape'
  BY DEF LazyShape
<1>2. \A u \in Threads : Making(u)' <=> Making(u)
  BY DEF Making
<1>3. LazyReserved'
  BY <1>2 DEF LazyReserved
<1>4. \A u \in Threads, a \in Addresses : Holds(u, a)' <=> Holds(u, a)
  BY DEF Holds
<1>5. LazyOwned'
  BY <1>4 DEF LazyOwned
<1>6. LazyAnswered'
  BY DEF LazyAnswered
<1> QED
  BY <1>1, <1>3, <1>5, <1>6

LazyMem    == [value : Lazy!Nodes, heap : SUBSET Addresses, clears : 0..MaxClears,
               spurious : 0..MaxSpurious]
LazyLocals == [op : {"ptr", "clear", "assign"}, expected : Lazy!Nodes, made : Lazy!Nodes,
               quiet : BOOLEAN, got : Lazy!Nodes]

\* A thread that goes on has locals that a thread can have.
LEMMA LazyReturns ==
  ASSUME Lazy!LazyAssumption, Lazy!TypeOK, NEW t \in Threads
  PROVE  /\ \A l \in Lazy!Pcs : Lazy!Goto(t, l) => at' \in [Threads -> Lazy!Pcs]
         /\ Lazy!Return(t) => at' \in [Threads -> Lazy!Pcs] /\ loc' \in [Threads -> LazyLocals]
         /\ \A r \in LazyLocals : [loc EXCEPT ![t] = r] \in [Threads -> LazyLocals]
         /\ \A a \in Lazy!Nodes : /\ [loc[t] EXCEPT !.expected = a] \in LazyLocals
                                  /\ [loc[t] EXCEPT !.made = a] \in LazyLocals
                                  /\ [loc[t] EXCEPT !.got = a] \in LazyLocals
         /\ \A u \in Threads : [loc[u] EXCEPT !.quiet = FALSE] \in LazyLocals
         /\ Lazy!NoLocals \in LazyLocals
<1>1. Lazy!NoLocals \in LazyLocals
  BY DEF Lazy!NoLocals, LazyLocals, Lazy!Nodes
<1>2. at \in [Threads -> Lazy!Pcs] /\ loc \in [Threads -> LazyLocals] /\ "idle" \in Lazy!Pcs
  BY DEF Lazy!TypeOK, LazyLocals, Lazy!Pcs
<1>3. \A u \in Threads : loc[u] \in LazyLocals
  BY <1>2
<1>4. \A a \in Lazy!Nodes : /\ [loc[t] EXCEPT !.expected = a] \in LazyLocals
                            /\ [loc[t] EXCEPT !.made = a] \in LazyLocals
                            /\ [loc[t] EXCEPT !.got = a] \in LazyLocals
  BY <1>3 DEF LazyLocals
<1>5. \A u \in Threads : [loc[u] EXCEPT !.quiet = FALSE] \in LazyLocals
  BY <1>3 DEF LazyLocals
<1>6. \A l \in Lazy!Pcs : Lazy!Goto(t, l) => at' \in [Threads -> Lazy!Pcs]
  BY <1>2 DEF Lazy!Goto
<1>7. \A r \in LazyLocals : [loc EXCEPT ![t] = r] \in [Threads -> LazyLocals]
  BY <1>2
<1> QED
  BY <1>1, <1>2, <1>4, <1>5, <1>6, <1>7 DEF Lazy!Return, Lazy!Goto

\* Every step keeps the types.
LEMMA LazyTyped ==
  ASSUME Lazy!LazyAssumption, Lazy!TypeOK, Lazy!Next
  PROVE  Lazy!TypeOK'
<1>1. PICK t \in Threads : Lazy!CallPtr(t) \/ Lazy!CallClear(t) \/ Lazy!Step(t)
  BY DEF Lazy!Next
<1>2. /\ \A l \in Lazy!Pcs : Lazy!Goto(t, l) => at' \in [Threads -> Lazy!Pcs]
      /\ Lazy!Return(t) => at' \in [Threads -> Lazy!Pcs] /\ loc' \in [Threads -> LazyLocals]
      /\ \A r \in LazyLocals : [loc EXCEPT ![t] = r] \in [Threads -> LazyLocals]
      /\ \A a \in Lazy!Nodes : /\ [loc[t] EXCEPT !.expected = a] \in LazyLocals
                               /\ [loc[t] EXCEPT !.made = a] \in LazyLocals
                               /\ [loc[t] EXCEPT !.got = a] \in LazyLocals
      /\ \A u \in Threads : [loc[u] EXCEPT !.quiet = FALSE] \in LazyLocals
      /\ Lazy!NoLocals \in LazyLocals
  BY LazyReturns
<1>3. mem \in LazyMem /\ loc \in [Threads -> LazyLocals] /\ mem.value \in Lazy!Nodes
      /\ Empty \in Lazy!Nodes /\ Pending \in Lazy!Nodes /\ loc[t].made \in Lazy!Nodes
      /\ MaxClears \in Nat /\ MaxSpurious \in Nat
  BY DEF Lazy!TypeOK, LazyMem, LazyLocals, Lazy!Nodes, Lazy!LazyAssumption
<1>4. mem' \in LazyMem
  <2> USE <1>3 DEF LazyMem
  <2>1. CASE UNCHANGED mem
    BY <2>1
  <2>2. CASE Lazy!CallClear(t)
    BY <2>2 DEF Lazy!CallClear
  <2>3. CASE Lazy!SpuriousFailure(t)
    BY <2>3 DEF Lazy!SpuriousFailure
  <2>4. CASE \E v \in Lazy!Nodes : mem' = [mem EXCEPT !.value = v]
    BY <2>4
  <2>5. CASE \E h \in SUBSET Addresses : mem' = [mem EXCEPT !.heap = h]
    BY <2>5
  <2>6. CASE Lazy!Make(t) \/ Lazy!Delete(t)
    <3>1. mem.heap \in SUBSET Addresses
      BY <1>3 DEF LazyMem
    <3> QED
      BY <2>5, <2>6, <3>1 DEF Lazy!Make, Lazy!Delete
  <2> QED
    BY <1>1, <2>1, <2>2, <2>3, <2>4, <2>6 DEF Lazy!Step, Lazy!CallPtr, Lazy!ClearLoad, Lazy!ClearCas,
       Lazy!ReserveLoad, Lazy!ReserveCas, Lazy!InstallLoad, Lazy!InstallCas, Lazy!Spin
<1>5. at' \in [Threads -> Lazy!Pcs]
  BY <1>1, <1>2 DEF Lazy!Pcs, Lazy!Step, Lazy!CallPtr, Lazy!CallClear, Lazy!ClearLoad, Lazy!ClearCas,
     Lazy!Delete, Lazy!Cleared, Lazy!ReserveLoad, Lazy!Taken, Lazy!ReserveCas, Lazy!Make,
     Lazy!InstallLoad, Lazy!InstallCas, Lazy!Spin
<1>6. loc' \in [Threads -> LazyLocals]
  <2>1. CASE UNCHANGED loc \/ Lazy!Return(t)
    BY <1>2, <1>3, <2>1
  <2>2. CASE \E r \in LazyLocals : loc' = [loc EXCEPT ![t] = r]
    BY <1>2, <2>2
  <2>3. CASE loc' = [u \in Threads |-> [loc[u] EXCEPT !.quiet = FALSE]]
    BY <1>2, <2>3
  <2>4. CASE Lazy!CallPtr(t) \/ Lazy!CallClear(t)
    <3>1. \A op \in {"clear", "assign"} : [Lazy!NoLocals EXCEPT !.op = op] \in LazyLocals
      BY <1>2 DEF LazyLocals
    <3> QED
      BY <1>2, <2>2, <2>4, <3>1 DEF Lazy!CallPtr, Lazy!CallClear
  <2>5. CASE Lazy!Make(t)
    <3>1. \A a \in Addresses : a \in Lazy!Nodes
      BY DEF Lazy!Nodes
    <3> QED
      BY <1>2, <2>2, <2>5, <3>1 DEF Lazy!Make
  <2>6. CASE Lazy!ClearLoad(t) \/ Lazy!ReserveLoad(t) \/ Lazy!InstallLoad(t) \/ Lazy!Spin(t)
    <3>1. \/ UNCHANGED loc \/ Lazy!Return(t)
          \/ \E a \in Lazy!Nodes : \/ loc' = [loc EXCEPT ![t] = [loc[t] EXCEPT !.expected = a]]
                                   \/ loc' = [loc EXCEPT ![t] = [loc[t] EXCEPT !.got = a]]
      BY <1>3, <2>6 DEF Lazy!ClearLoad, Lazy!ReserveLoad, Lazy!InstallLoad, Lazy!Spin, Lazy!Cleared, Lazy!Taken
    <3> QED
      BY <1>2, <2>1, <2>2, <3>1
  <2>7. CASE Lazy!InstallCas(t)
    <3>1. UNCHANGED loc \/ Lazy!Return(t) \/ loc' = [loc EXCEPT ![t] = [loc[t] EXCEPT !.made = Empty]]
      BY <2>7 DEF Lazy!InstallCas
    <3> QED
      BY <1>2, <1>3, <2>1, <2>2, <3>1
  <2> QED
    BY <1>1, <2>1, <2>3, <2>4, <2>5, <2>6, <2>7 DEF Lazy!Step, Lazy!ClearCas, Lazy!Delete, Lazy!Cleared,
       Lazy!ReserveCas
<1> QED
  BY <1>4, <1>5, <1>6 DEF Lazy!TypeOK, LazyMem, LazyLocals

\* The loads, the calls and the swaps that fail.
LEMMA LazyLooks ==
  ASSUME Lazy!LazyAssumption, LazyInv, Lazy!TypeOK', NEW t \in Threads,
         \/ Lazy!CallPtr(t) \/ Lazy!CallClear(t) \/ Lazy!ClearLoad(t) \/ Lazy!ReserveLoad(t)
         \/ Lazy!InstallLoad(t) \/ Lazy!Spin(t)
  PROVE  LazyInv'
<1> USE DEF LazyInv, Lazy!LazyAssumption, Lazy!TypeOK, Lazy!Nodes, Lazy!Goto, Lazy!Return,
        Lazy!NoLocals, OthersStay, LazyShape
<1>1. CASE Lazy!CallPtr(t)
  BY <1>1, LazyPrivate DEF Lazy!CallPtr
<1>2. CASE Lazy!CallClear(t)
  <2>1. /\ at[t] = "idle" /\ at' = [at EXCEPT ![t] = "clear_load"]
        /\ mem'.value = mem.value /\ mem'.heap = mem.heap
    BY <1>2 DEF Lazy!CallClear
  <2>2. loc'[t].got = Pending /\ loc'[t].made = Empty /\ \A u \in Threads \ {t} : loc'[u] = loc[u]
    BY <1>2 DEF Lazy!CallClear
  <2> QED
    BY <2>1, <2>2, LazyPrivate
<1>3. CASE Lazy!ClearLoad(t)
  BY <1>3, LazyPrivate DEF Lazy!ClearLoad, Lazy!HasValue, Lazy!Cleared
<1>4. CASE Lazy!ReserveLoad(t)
  BY <1>4, LazyPrivate DEF Lazy!ReserveLoad, Lazy!Taken
<1>5. CASE Lazy!InstallLoad(t)
  BY <1>5, LazyPrivate DEF Lazy!InstallLoad
<1>6. CASE Lazy!Spin(t)
  BY <1>6, LazyPrivate DEF Lazy!Spin, LazyAnswered
<1> QED
  BY <1>1, <1>2, <1>3, <1>4, <1>5, <1>6

\* The compare-and-swaps that fail, spuriously or not.
LEMMA LazyFails ==
  ASSUME Lazy!LazyAssumption, LazyInv, Lazy!TypeOK', NEW t \in Threads,
         Lazy!ClearCas(t) \/ Lazy!ReserveCas(t) \/ Lazy!InstallCas(t),
         mem'.value = mem.value
  PROVE  LazyInv'
<1> USE DEF LazyInv, LazyShape
<1>1. mem'.heap = mem.heap
  BY DEF Lazy!ClearCas, Lazy!ReserveCas, Lazy!InstallCas, Lazy!SpuriousFailure, Lazy!TypeOK
<1>2. CASE Lazy!ClearCas(t)
  <2>1. mem.value # loc[t].expected \/ Lazy!SpuriousFailure(t)
    BY <1>2 DEF Lazy!ClearCas, Lazy!TypeOK, Lazy!LazyAssumption
  <2>2. at[t] = "clear_cas" /\ at' = [at EXCEPT ![t] = "clear_load"] /\ loc' = loc
    BY <1>2, <2>1 DEF Lazy!ClearCas, Lazy!TypeOK, Lazy!LazyAssumption, Lazy!Goto
  <2> QED
    BY <1>1, <2>2, LazyPrivate DEF OthersStay, Lazy!TypeOK
<1>3. CASE Lazy!ReserveCas(t)
  <2>1. at[t] = "reserve_cas" /\ at' = [at EXCEPT ![t] = "reserve_load"] /\ loc' = loc
    BY <1>3 DEF Lazy!ReserveCas, Lazy!TypeOK, Lazy!LazyAssumption, Lazy!Goto
  <2> QED
    BY <1>1, <2>1, LazyPrivate DEF OthersStay, Lazy!TypeOK
<1>4. CASE Lazy!InstallCas(t)
  <2>1. at[t] = "install_cas"
    BY <1>4 DEF Lazy!InstallCas
  <2>2. loc[t].made \in Addresses /\ mem.value # loc[t].made
    BY <2>1 DEF LazyOwned, Holds
  <2>3. at' = [at EXCEPT ![t] = "install_load"] /\ loc' = loc
    BY <1>4, <2>2 DEF Lazy!InstallCas, Lazy!SpuriousFailure, Lazy!TypeOK, Lazy!Goto
  <2> QED
    BY <1>1, <2>1, <2>3, LazyPrivate DEF OthersStay, Lazy!TypeOK
<1> QED
  BY <1>2, <1>3, <1>4

\* clear() takes the value out of the node.
LEMMA LazyTakes ==
  ASSUME Lazy!LazyAssumption, LazyInv, Lazy!TypeOK', NEW t \in Threads, Lazy!ClearCas(t),
         mem'.value # mem.value
  PROVE  LazyInv'
<1> USE DEF LazyInv, LazyShape
<1> DEFINE a == loc[t].expected
<1>1. /\ at[t] = "clear_cas" /\ mem.value = a /\ a \in Addresses /\ loc[t].made = Empty
      /\ mem'.value = Empty /\ mem'.heap = mem.heap
      /\ at' = [at EXCEPT ![t] = "delete"]
      /\ loc' = [u \in Threads |-> [loc[u] EXCEPT !.quiet = FALSE]]
  BY DEF Lazy!ClearCas, Lazy!SpuriousFailure, Lazy!TypeOK, Lazy!Goto
<1>2. /\ \A u \in Threads : /\ loc'[u].made = loc[u].made /\ loc'[u].expected = loc[u].expected
                            /\ loc'[u].got = loc[u].got /\ ~loc'[u].quiet
      /\ at'[t] = "delete" /\ \A u \in Threads \ {t} : at'[u] = at[u]
  BY <1>1 DEF Lazy!TypeOK
<1>3. LazyShape'
  BY <1>1, <1>2 DEF LazyShape
<1>4. LazyReserved'
  <2>1. \A u \in Threads : Making(u)' <=> Making(u)
    BY <1>1, <1>2 DEF Making
  <2>2. mem.value # Pending /\ mem'.value # Pending
    BY <1>1 DEF Lazy!LazyAssumption
  <2> QED
    BY <2>1, <2>2 DEF LazyReserved
<1>5. LazyOwned'
  <2>1. \A u \in Threads, b \in Addresses : Holds(u, b)' <=> Holds(u, b) \/ (u = t /\ b = a)
    BY <1>1, <1>2 DEF Holds
  <2>2. Empty \notin Addresses
    BY DEF Lazy!LazyAssumption
  <2> QED
    BY <1>1, <2>1, <2>2 DEF LazyOwned
<1>6. LazyAnswered'
  BY <1>2 DEF LazyAnswered
<1> QED
  BY <1>3, <1>4, <1>5, <1>6

\* The value that was taken out is deleted.
LEMMA LazyDeletes ==
  ASSUME Lazy!LazyAssumption, LazyInv, Lazy!TypeOK', NEW t \in Threads, Lazy!Delete(t)
  PROVE  LazyInv'
<1> USE DEF LazyInv, LazyShape
<1> DEFINE a == loc[t].expected
<1>1. /\ at[t] = "delete" /\ a \in Addresses /\ loc[t].made = Empty
      /\ mem'.value = mem.value /\ mem'.heap = mem.heap \ {a}
      /\ at'[t] \in {"idle", "reserve_load"} /\ loc'[t].made = Empty
      /\ at'[t] = "idle" => loc'[t].got = Pending
      /\ OthersStay(t)
  BY DEF Lazy!Delete, Lazy!Cleared, Lazy!Return, Lazy!NoLocals, Lazy!TypeOK, Lazy!Goto, OthersStay
<1>2. LazyShape'
  BY <1>1 DEF LazyShape, OthersStay
<1>3. LazyReserved'
  <2>1. \A u \in Threads : Making(u)' <=> Making(u)
    BY <1>1 DEF Making, OthersStay
  <2> QED
    BY <1>1, <2>1 DEF LazyReserved
<1>4. LazyOwned'
  <2>1. Holds(t, a) /\ \A b \in Addresses : Holds(t, b) => b = a
    BY <1>1 DEF Holds, Lazy!LazyAssumption
  <2>2. \A u \in Threads, b \in Addresses : Holds(u, b)' <=> Holds(u, b) /\ b # a
    BY <1>1, <2>1 DEF Holds, OthersStay, LazyOwned, Lazy!LazyAssumption
  <2> QED
    BY <1>1, <2>1, <2>2 DEF LazyOwned
<1>5. LazyAnswered'
  BY <1>1 DEF LazyAnswered, OthersStay
<1> QED
  BY <1>2, <1>3, <1>4, <1>5

\* A thread reserves the empty node.
LEMMA LazyReserves ==
  ASSUME Lazy!LazyAssumption, LazyInv, Lazy!TypeOK', NEW t \in Threads, Lazy!ReserveCas(t),
         mem'.value # mem.value
  PROVE  LazyInv'
<1> USE DEF LazyInv, LazyShape
<1>1. /\ at[t] = "reserve_cas" /\ mem.value = Empty /\ mem'.value = Pending /\ mem'.heap = mem.heap
      /\ at'[t] = "make" /\ loc' = loc /\ OthersStay(t)
  BY DEF Lazy!ReserveCas, Lazy!SpuriousFailure, Lazy!TypeOK, Lazy!Goto, OthersStay
<1>2. Empty # Pending /\ Empty \notin Addresses /\ Pending \notin Addresses
  BY DEF Lazy!LazyAssumption
<1>3. LazyShape'
  BY <1>1 DEF LazyShape, OthersStay
<1>4. LazyReserved'
  <2>1. \A u \in Threads : Making(u)' <=> Making(u) \/ u = t
    BY <1>1 DEF Making, OthersStay
  <2> QED
    BY <1>1, <1>2, <2>1 DEF LazyReserved
<1>5. LazyOwned'
  <2>1. \A u \in Threads, b \in Addresses : Holds(u, b)' <=> Holds(u, b)
    BY <1>1 DEF Holds, OthersStay
  <2> QED
    BY <1>1, <1>2, <2>1 DEF LazyOwned
<1>6. LazyAnswered'
  BY <1>1, <1>2 DEF LazyAnswered, OthersStay
<1> QED
  BY <1>3, <1>4, <1>5, <1>6

\* The value is made, at an address that nobody uses.
LEMMA LazyMakes ==
  ASSUME Lazy!LazyAssumption, LazyInv, Lazy!TypeOK', NEW t \in Threads, Lazy!Make(t)
  PROVE  LazyInv'
<1> USE DEF LazyInv, LazyShape
<1>1. PICK a \in Addresses \ mem.heap :
         /\ mem' = [mem EXCEPT !.heap = @ \cup {a}]
         /\ loc' = [loc EXCEPT ![t].made = a]
  BY DEF Lazy!Make
<1>2. /\ at[t] = "make" /\ at'[t] = "install_load" /\ loc[t].made = Empty /\ loc'[t].made = a
      /\ mem'.value = mem.value /\ mem'.heap = mem.heap \cup {a} /\ OthersStay(t)
  BY <1>1 DEF Lazy!Make, Lazy!TypeOK, Lazy!Goto, OthersStay
<1>3. Empty \notin Addresses
  BY DEF Lazy!LazyAssumption
<1>4. LazyShape'
  BY <1>2, <1>3 DEF LazyShape, OthersStay
<1>5. LazyReserved'
  <2>1. \A u \in Threads : Making(u)' <=> Making(u)
    BY <1>2 DEF Making, OthersStay
  <2> QED
    BY <1>2, <2>1 DEF LazyReserved
<1>6. LazyOwned'
  <2>1. \A u \in Threads, b \in Addresses : Holds(u, b)' <=> Holds(u, b) \/ (u = t /\ b = a)
    BY <1>2, <1>3 DEF Holds, OthersStay
  <2>2. mem.value # a /\ \A u \in Threads : ~Holds(u, a)
    BY DEF LazyOwned
  <2> QED
    BY <1>2, <2>1, <2>2 DEF LazyOwned
<1>7. LazyAnswered'
  BY <1>2 DEF LazyAnswered, OthersStay
<1> QED
  BY <1>4, <1>5, <1>6, <1>7

\* The value goes into the node.
LEMMA LazyInstalls ==
  ASSUME Lazy!LazyAssumption, LazyInv, Lazy!TypeOK', NEW t \in Threads, Lazy!InstallCas(t),
         mem'.value # mem.value
  PROVE  LazyInv'
<1> USE DEF LazyInv, LazyShape
<1> DEFINE a == loc[t].made
<1>1. /\ at[t] = "install_cas" /\ a \in Addresses /\ mem'.value = a /\ mem'.heap = mem.heap
      /\ at'[t] \in {"idle", "spin"} /\ loc'[t].made = Empty
      /\ at'[t] = "idle" => loc'[t].got = Pending
      /\ OthersStay(t)
  BY DEF Lazy!InstallCas, Lazy!SpuriousFailure, Lazy!TypeOK, Lazy!Goto, Lazy!Return, Lazy!NoLocals,
     OthersStay
<1>2. mem.value = Pending /\ (\A u \in Threads : Making(u) => u = t)
  BY <1>1 DEF LazyReserved, Making
<1>3. Empty \notin Addresses /\ Pending \notin Addresses
  BY DEF Lazy!LazyAssumption
<1>4. LazyShape'
  BY <1>1 DEF LazyShape, OthersStay
<1>5. LazyReserved'
  <2>1. \A u \in Threads : ~Making(u)'
    BY <1>1, <1>2 DEF Making, OthersStay
  <2> QED
    BY <1>1, <1>3, <2>1 DEF LazyReserved
<1>6. LazyOwned'
  <2>1. Holds(t, a) /\ \A b \in Addresses : Holds(t, b) => b = a
    BY <1>1 DEF Holds
  <2>2. \A u \in Threads, b \in Addresses : Holds(u, b)' <=> Holds(u, b) /\ b # a
    BY <1>1, <1>3, <2>1 DEF Holds, OthersStay, LazyOwned
  <2> QED
    BY <1>1, <1>2, <1>3, <2>1, <2>2 DEF LazyOwned
<1>7. LazyAnswered'
  BY <1>1, <1>2, <1>3 DEF LazyAnswered, OthersStay
<1> QED
  BY <1>4, <1>5, <1>6, <1>7

\* Every step of a lazy_atomic keeps LazyInv.
LEMMA LazyStep ==
  ASSUME Lazy!LazyAssumption, LazyInv, Lazy!Next
  PROVE  LazyInv'
<1>1. Lazy!TypeOK'
  BY LazyTyped DEF LazyInv
<1>2. PICK t \in Threads : Lazy!CallPtr(t) \/ Lazy!CallClear(t) \/ Lazy!Step(t)
  BY DEF Lazy!Next
<1> QED
  BY <1>1, <1>2, LazyLooks, LazyFails, LazyTakes, LazyDeletes, LazyReserves, LazyMakes, LazyInstalls
     DEF Lazy!Step

\* LazyInv holds at first.
LEMMA LazyStart == Lazy!LazyAssumption /\ Lazy!Init => LazyInv
<1> SUFFICES ASSUME Lazy!LazyAssumption, Lazy!Init PROVE LazyInv
  OBVIOUS
<1>1. mem.value = Empty /\ mem.heap = {} /\ \A t \in Threads : at[t] = "idle" /\ loc[t].made = Empty /\ loc[t].got = Pending
  BY DEF Lazy!Init, Lazy!NoLocals
<1>2. Lazy!TypeOK
  BY DEF Lazy!Init, Lazy!NoLocals, Lazy!TypeOK, Lazy!Nodes, Lazy!Pcs, Lazy!LazyAssumption
<1> QED
  BY <1>1, <1>2 DEF LazyInv, LazyShape, LazyReserved, LazyOwned, LazyAnswered, Making, Holds,
     Lazy!LazyAssumption

\* The cardinality of LazyAtomic is that of this module.
LEMMA LazyCardinality == ASSUME NEW S PROVE Lazy!Cardinality(S) = Cardinality(S)
BY DEF Lazy!Cardinality, Cardinality

\* In numbers: what TLC checks of lazy_atomic.
LEMMA LazyCounted ==
  ASSUME Lazy!LazyAssumption, LazyInv
  PROVE  Lazy!OwnedOnce /\ Lazy!ReservedByOne /\ Lazy!GotValue
<1> USE DEF LazyInv
<1>1. ASSUME NEW S \in SUBSET Threads, \A t, u \in S : t = u
      PROVE  Cardinality(S) = IF S = {} THEN 0 ELSE 1
  <2>1. CASE S = {}
    BY <2>1, FS_EmptySet
  <2>2. CASE S # {}
    <3>1. PICK t \in S : TRUE
      BY <2>2
    <3>2. S = {t}
      BY <1>1, <3>1
    <3> QED
      BY <2>2, <3>2, FS_Singleton
  <2> QED
    BY <2>1, <2>2
<1>2. ASSUME NEW a \in Addresses
      PROVE  Cardinality(Lazy!HoldersOf(a)) + (IF mem.value = a THEN 1 ELSE 0)
               = (IF a \in mem.heap THEN 1 ELSE 0)
  <2>1. Lazy!HoldersOf(a) = {t \in Threads : Holds(t, a)}
    BY DEF Lazy!HoldersOf, Holds
  <2>2. Cardinality(Lazy!HoldersOf(a)) = IF \E t \in Threads : Holds(t, a) THEN 1 ELSE 0
    BY <1>1, <2>1 DEF LazyOwned
  <2> QED
    BY <2>2 DEF LazyOwned
<1>3. Lazy!ReservedByOne
  <2> DEFINE S == {t \in Threads : at[t] \in {"make", "install_load", "install_cas"}}
  <2>1. Cardinality(S) = IF S = {} THEN 0 ELSE 1
    BY <1>1 DEF LazyReserved, Making
  <2>2. S = {} <=> mem.value # Pending
    BY DEF LazyReserved, Making
  <2> QED
    BY <2>1, <2>2, LazyCardinality DEF Lazy!ReservedByOne
<1>4. Lazy!GotValue
  BY DEF Lazy!GotValue, LazyAnswered, LazyOwned
<1> QED
  BY <1>2, <1>3, <1>4, LazyCardinality DEF Lazy!OwnedOnce

----------------------------------------------------------------------------
(* atomic_swap, atomic_swap_if and acquire_lock *)

\* What is about to be swapped in is the thread's own token, and was made from
\* nothing but what the swap compares with.
SwapReady ==
    \A t \in Swappers : at[t] \in {"scope", "cas"} =>
        /\ loc[t].new.token = loc[t].own
        /\ loc[t].new.seen \in {NoToken, loc[t].old.token}

SwapInv == Swap!TypeOK /\ Swap!Conserved /\ SwapReady

SwapLocals == [own : Swap!Tokens, op : Swap!Ops, old : Swap!Values, new : Swap!Values]

\* The types of the values that a swap handles.
LEMMA SwapValues ==
  ASSUME Swap!TypeOK, NEW t \in Swappers
  PROVE  /\ loc[t] \in SwapLocals /\ mem \in Swap!Values /\ mem.token \in Swap!Tokens
         /\ NoToken \in Swap!Tokens
         /\ \A k \in Swap!Tokens : Swap!Idle(k) \in SwapLocals
         /\ \A old \in Swap!Values : Swap!NewValue(t, old) \in Swap!Values
BY DEF Swap!TypeOK, SwapLocals, Swap!Values, Swap!Tokens, Swap!Idle, Swap!Plain, Swap!NewValue, Swap!Ops

SwapPcs == {"idle", "cond", "load", "scope", "cas"}

\* A thread gives up its call, or goes on with it: it keeps its token.
LEMMA SwapKeeps ==
  ASSUME SwapInv, NEW t \in Swappers, mem' = mem,
         at' \in [Swappers -> SwapPcs], loc' \in [Swappers -> SwapLocals],
         \A u \in Swappers \ {t} : at'[u] = at[u] /\ loc'[u] = loc[u],
         loc'[t].own = loc[t].own,
         at'[t] \in {"scope", "cas"} => /\ loc'[t].new.token = loc'[t].own
                                        /\ loc'[t].new.seen \in {NoToken, loc'[t].old.token}
  PROVE  SwapInv'
<1> USE DEF SwapInv
<1>1. Swap!TypeOK'
  BY DEF Swap!TypeOK, SwapLocals, SwapPcs
<1>2. \A u \in Swappers : loc'[u].own = loc[u].own
  OBVIOUS
<1>3. Swap!Conserved'
  BY <1>2 DEF Swap!Conserved
<1>4. SwapReady'
  BY DEF SwapReady
<1> QED
  BY <1>1, <1>3, <1>4

\* What a swap that succeeds puts in, and what it takes out.
LEMMA SwapExchanges ==
  ASSUME SwapInv, NEW t \in Swappers, Swap!CasSucceeds(t)
  PROVE  /\ SwapInv'
         /\ mem'.seen \in {NoToken, mem.token} /\ loc'[t].own = mem.token
         /\ \A u \in Swappers \ {t} : loc'[u] = loc[u]
<1> USE DEF SwapInv
<1>1. loc \in [Swappers -> SwapLocals] /\ at \in [Swappers -> {"idle", "cond", "load", "scope", "cas"}]
  BY DEF Swap!TypeOK, SwapLocals
<1>2. /\ at[t] = "cas" /\ mem = loc[t].old /\ mem' = loc[t].new
      /\ at' = [at EXCEPT ![t] = "idle"] /\ loc' = [loc EXCEPT ![t] = Swap!Idle(mem.token)]
  BY DEF Swap!CasSucceeds, Swap!Return, Swap!Goto
<1>3. mem'.token = loc[t].own /\ mem'.seen \in {NoToken, mem.token}
  BY <1>2 DEF SwapReady
<1>4. /\ loc'[t] = Swap!Idle(mem.token) /\ loc'[t].own = mem.token /\ at'[t] = "idle"
      /\ \A u \in Swappers \ {t} : loc'[u] = loc[u] /\ at'[u] = at[u]
  BY <1>1, <1>2 DEF Swap!Idle
<1>5. Swap!TypeOK'
  <2>1. mem' \in Swap!Values
    BY <1>1, <1>2 DEF SwapLocals
  <2>2. loc' \in [Swappers -> SwapLocals]
    BY <1>1, <1>2, SwapValues
  <2> QED
    BY <1>1, <1>2, <2>1, <2>2 DEF Swap!TypeOK, SwapLocals
<1>6. Swap!Conserved'
  <2>1. ASSUME NEW k \in Swap!Tokens PROVE k = mem'.token \/ \E u \in Swappers : k = loc'[u].own
    <3>1. CASE k = mem.token
      BY <1>4, <3>1
    <3>2. CASE \E u \in Swappers : k = loc[u].own
      BY <1>3, <1>4, <3>2
    <3> QED
      BY <3>1, <3>2 DEF Swap!Conserved
  <2>2. mem'.token \in Swap!Tokens /\ \A u \in Swappers : loc'[u].own \in Swap!Tokens
    BY <1>5 DEF Swap!TypeOK, Swap!Values
  <2>3. Swap!Tokens = {mem'.token} \cup {loc'[u].own : u \in Swappers}
    BY <2>1, <2>2
  <2> QED
    BY <2>3 DEF Swap!Conserved, Swap!Tokens
<1>7. SwapReady'
  BY <1>4 DEF SwapReady
<1> QED
  BY <1>3, <1>4, <1>5, <1>6, <1>7

\* Every step keeps SwapInv.
LEMMA SwapStep ==
  ASSUME SwapInv, Swap!Next
  PROVE  SwapInv' /\ Swap!ShownReplaced
<1>1. PICK t \in Swappers :
         Swap!Call(t) \/ Swap!Cond(t) \/ Swap!Load(t) \/ Swap!Scope(t) \/ Swap!CasSucceeds(t) \/ Swap!CasFails(t)
  BY DEF Swap!Next
<1>2. CASE Swap!CasSucceeds(t)
  BY <1>2, SwapExchanges DEF Swap!ShownReplaced
<1>3. CASE ~Swap!CasSucceeds(t)
  <2>0. /\ loc[t] \in SwapLocals /\ mem \in Swap!Values /\ mem.token \in Swap!Tokens
        /\ NoToken \in Swap!Tokens
        /\ \A k \in Swap!Tokens : Swap!Idle(k) \in SwapLocals
        /\ \A old \in Swap!Values : Swap!NewValue(t, old) \in Swap!Values
        /\ loc \in [Swappers -> SwapLocals]
    BY SwapValues DEF SwapInv, Swap!TypeOK, SwapLocals
  <2>1. mem' = mem
    BY <1>1, <1>3 DEF Swap!Call, Swap!Cond, Swap!Load, Swap!Scope, Swap!CasFails
  <2> SUFFICES SwapInv'
    BY <2>1 DEF Swap!ShownReplaced
  <2>2. at \in [Swappers -> SwapPcs]
    BY DEF SwapInv, Swap!TypeOK, SwapPcs
  <2>3. /\ loc[t].own \in Swap!Tokens /\ Swap!Idle(loc[t].own) \in SwapLocals
        /\ Swap!Idle(loc[t].own).own = loc[t].own
    BY <2>0 DEF SwapLocals, Swap!Idle
  <2>4. CASE Swap!Call(t)
    <3>1. PICK op \in Swap!Ops : loc' = [loc EXCEPT ![t] = [loc[t] EXCEPT !.op = op]]
                                 /\ Swap!Goto(t, IF op \in {"swap_if", "swap_if_factory"} THEN "cond" ELSE "load")
      BY <2>4 DEF Swap!Call
    <3>2. [loc[t] EXCEPT !.op = op] \in SwapLocals /\ [loc[t] EXCEPT !.op = op].own = loc[t].own
      BY <2>0 DEF SwapLocals
    <3>3. /\ at' \in [Swappers -> SwapPcs] /\ at'[t] \in {"cond", "load"}
          /\ \A u \in Swappers \ {t} : at'[u] = at[u]
      BY <2>2, <3>1 DEF Swap!Goto, SwapPcs
    <3>4. /\ loc' \in [Swappers -> SwapLocals] /\ loc'[t].own = loc[t].own
          /\ \A u \in Swappers \ {t} : loc'[u] = loc[u]
      BY <2>0, <3>1, <3>2
    <3> QED
      BY <2>1, <3>3, <3>4, SwapKeeps
  <2>5. CASE Swap!Cond(t) \/ Swap!Scope(t) \/ Swap!CasFails(t)
    <3>1. /\ \/ at' = [at EXCEPT ![t] = "idle"] \/ at' = [at EXCEPT ![t] = "load"]
             \/ at' = [at EXCEPT ![t] = "cond"]
             \/ at[t] = "scope" /\ at' = [at EXCEPT ![t] = "cas"] /\ loc' = loc
          /\ \/ loc' = [loc EXCEPT ![t] = Swap!Idle(loc[t].own)]
             \/ loc' = loc
      BY <2>5 DEF Swap!Cond, Swap!Scope, Swap!CasFails, Swap!Return, Swap!Goto
    <3>2. /\ at' \in [Swappers -> SwapPcs] /\ \A u \in Swappers \ {t} : at'[u] = at[u]
          /\ at'[t] \notin {"scope", "cas"} \/ (at[t] = "scope" /\ loc' = loc)
      BY <2>2, <3>1 DEF SwapPcs
    <3>3. /\ loc' \in [Swappers -> SwapLocals] /\ loc'[t].own = loc[t].own
          /\ \A u \in Swappers \ {t} : loc'[u] = loc[u]
      BY <2>0, <2>3, <3>1
    <3>4. at[t] = "scope" => loc[t].new.token = loc[t].own /\ loc[t].new.seen \in {NoToken, loc[t].old.token}
      BY DEF SwapInv, SwapReady
    <3> QED
      BY <2>1, <3>2, <3>3, <3>4, SwapKeeps
  <2>6. CASE Swap!Load(t)
    <3> DEFINE r == [loc[t] EXCEPT !.old = mem, !.new = Swap!NewValue(t, mem)]
    <3>1. loc' = [loc EXCEPT ![t] = r]
      BY <2>6 DEF Swap!Load, Swap!Locals
    <3>2. at' \in [Swappers -> SwapPcs] /\ \A u \in Swappers \ {t} : at'[u] = at[u]
      BY <2>2, <2>6 DEF Swap!Load, Swap!Goto, SwapPcs
    <3>3. r \in SwapLocals /\ r.own = loc[t].own /\ r.old = mem /\ r.new = Swap!NewValue(t, mem)
      BY <2>0 DEF SwapLocals
    <3>4. r.new.token = r.own /\ r.new.seen \in {NoToken, r.old.token}
      BY <3>3 DEF Swap!NewValue
    <3> HIDE DEF r
    <3>5. loc' \in [Swappers -> SwapLocals] /\ loc'[t] = r /\ \A u \in Swappers \ {t} : loc'[u] = loc[u]
      BY <2>0, <3>1, <3>3
    <3> QED
      BY <2>1, <3>2, <3>3, <3>4, <3>5, SwapKeeps
  <2> QED
    BY <1>1, <1>3, <2>4, <2>5, <2>6
<1> QED
  BY <1>2, <1>3

\* SwapInv holds at first.
LEMMA SwapStart == Swap!Init => SwapInv
<1> SUFFICES ASSUME Swap!Init PROVE SwapInv
  OBVIOUS
<1>1. mem = Swap!Plain(NoToken) /\ (\A t \in Swappers : at[t] = "idle" /\ loc[t] = Swap!Idle(t))
  BY DEF Swap!Init
<1>2. Swap!TypeOK
  BY DEF Swap!Init, Swap!TypeOK, Swap!Idle, Swap!Plain, Swap!Values, Swap!Tokens, Swap!Ops
<1>3. mem.token = NoToken /\ (\A t \in Swappers : loc[t].own = t)
  <2>1. Swap!Plain(NoToken).token = NoToken
    BY DEF Swap!Plain
  <2>2. ASSUME NEW t \in Swappers PROVE Swap!Idle(t).own = t
    BY DEF Swap!Idle
  <2> QED
    BY <1>1, <2>1, <2>2
<1>4. Swap!Conserved
  BY <1>3 DEF Swap!Conserved, Swap!Tokens
<1> QED
  BY <1>1, <1>2, <1>4 DEF SwapInv, SwapReady

----------------------------------------------------------------------------
(* Lists *)

\* A sequence without its i-th element.
LEMMA Removed ==
  ASSUME NEW T, NEW s \in Seq(T), NEW i \in 1..Len(s)
  PROVE  /\ Reactor!RemoveAt(s, i) \in Seq(T)
         /\ Len(Reactor!RemoveAt(s, i)) = Len(s) - 1
         /\ \A j \in 1..Len(s) - 1 : Reactor!RemoveAt(s, i)[j] = IF j < i THEN s[j] ELSE s[j + 1]
<1> DEFINE a == SubSeq(s, 1, i - 1)
           b == SubSeq(s, i + 1, Len(s))
<1>0. Len(s) \in Nat /\ i \in Int /\ i <= Len(s) /\ 1 <= i
  BY LenProperties
<1>1. a \in Seq(T) /\ Len(a) = i - 1 /\ \A j \in 1..i - 1 : a[j] = s[j]
  BY SubSeqProperties
<1>2. b \in Seq(T) /\ Len(b) = Len(s) - i /\ \A j \in 1..Len(s) - i : b[j] = s[i + j]
  <2>1. /\ b \in Seq(T) /\ Len(b) = IF i + 1 <= Len(s) THEN Len(s) - (i + 1) + 1 ELSE 0
        /\ \A j \in 1..Len(s) - (i + 1) + 1 : b[j] = s[i + 1 + j - 1]
    <3>1. \A j \in i + 1..Len(s) : s[j] \in T
      BY <1>0, ElementOfSeq
    <3> QED
      BY <1>0, <3>1, SubSeqProperties
  <2>2. Len(b) = Len(s) - i /\ Len(s) - (i + 1) + 1 = Len(s) - i
    BY <1>0, <2>1
  <2>3. \A j \in 1..Len(s) - i : i + 1 + j - 1 = i + j
    BY <1>0
  <2> QED
    BY <2>1, <2>2, <2>3
<1> HIDE DEF a, b
<1>3. a \o b \in Seq(T) /\ Len(a \o b) = Len(s) - 1
  <2>1. a \o b \in Seq(T) /\ Len(a \o b) = Len(a) + Len(b)
    BY <1>1, <1>2, ConcatProperties
  <2> QED
    BY <1>0, <1>1, <1>2, <2>1
<1>4. ASSUME NEW j \in 1..Len(s) - 1 PROVE (a \o b)[j] = IF j < i THEN s[j] ELSE s[j + 1]
  <2>1. CASE j < i
    BY <1>0, <1>1, <1>2, <2>1, ConcatProperties
  <2>2. CASE ~(j < i)
    <3>1. j - (i - 1) \in 1..Len(s) - i /\ i + (j - (i - 1)) = j + 1
      BY <1>0, <2>2
    <3>2. (a \o b)[j] = b[j - (i - 1)]
      BY <1>0, <1>1, <1>2, <2>2, ConcatProperties
    <3> HIDE DEF a, b
    <3> QED
      BY <1>2, <2>2, <3>1, <3>2
  <2> QED
    BY <2>1, <2>2
<1> QED
  BY <1>3, <1>4 DEF a, b, Reactor!RemoveAt

\* Erasing an element of a list that holds each element once.
LEMMA Erased ==
  ASSUME NEW T, NEW s \in Seq(T), Reactor!IsInjective(s), NEW i \in 1..Len(s)
  PROVE  /\ Reactor!RemoveAt(s, i) \in Seq(T) /\ Reactor!IsInjective(Reactor!RemoveAt(s, i))
         /\ Reactor!ToSet(Reactor!RemoveAt(s, i)) = Reactor!ToSet(s) \ {s[i]}
<1> DEFINE l == Reactor!RemoveAt(s, i)
           Old(j) == IF j < i THEN j ELSE j + 1
<1>1. l \in Seq(T) /\ Len(l) = Len(s) - 1 /\ \A j \in 1..Len(s) - 1 : l[j] = s[Old(j)]
  <2>1. \A j \in 1..Len(s) - 1 : l[j] = IF j < i THEN s[j] ELSE s[j + 1]
    BY Removed
  <2> QED
    BY <2>1, Removed
<1> HIDE DEF l
<1>2. Len(s) \in Nat /\ DOMAIN s = 1..Len(s) /\ DOMAIN l = 1..Len(s) - 1
  BY <1>1, LenProperties
<1>3. \A j \in 1..Len(s) - 1 : Old(j) \in 1..Len(s) /\ Old(j) # i
  BY <1>2
<1>4. \A j, k \in 1..Len(s) - 1 : Old(j) = Old(k) => j = k
  BY <1>2
<1>5. \A k \in 1..Len(s) : k # i => \E j \in 1..Len(s) - 1 : k = Old(j)
  <2> SUFFICES ASSUME NEW k \in 1..Len(s), k # i PROVE \E j \in 1..Len(s) - 1 : k = Old(j)
    OBVIOUS
  <2>1. CASE k < i
    <3>1. k \in 1..Len(s) - 1 /\ Old(k) = k
      BY <1>2, <2>1
    <3> QED
      BY <3>1
  <2>2. CASE k > i
    <3>1. k - 1 \in 1..Len(s) - 1 /\ Old(k - 1) = k
      BY <1>2, <2>2
    <3> QED
      BY <3>1
  <2> QED
    BY <1>2, <2>1, <2>2
<1>6. \A j, k \in 1..Len(s) : s[j] = s[k] => j = k
  BY <1>2 DEF Reactor!IsInjective
<1> HIDE DEF Old
<1>7. Reactor!IsInjective(l)
  <2>1. ASSUME NEW j \in 1..Len(s) - 1, NEW k \in 1..Len(s) - 1, l[j] = l[k] PROVE j = k
    <3>1. s[Old(j)] = s[Old(k)] /\ Old(j) \in 1..Len(s) /\ Old(k) \in 1..Len(s)
      BY <1>1, <1>3, <2>1
    <3>2. Old(j) = Old(k)
      BY <1>6, <3>1
    <3> QED
      BY <1>4, <3>2
  <2> QED
    BY <1>2, <2>1 DEF Reactor!IsInjective
<1>8. Reactor!ToSet(l) = Reactor!ToSet(s) \ {s[i]}
  <2>1. ASSUME NEW j \in 1..Len(s) - 1 PROVE l[j] \in {s[k] : k \in 1..Len(s)} /\ l[j] # s[i]
    <3>1. l[j] = s[Old(j)] /\ Old(j) \in 1..Len(s) /\ Old(j) # i
      BY <1>1, <1>3
    <3> QED
      BY <1>6, <3>1
  <2>2. ASSUME NEW k \in 1..Len(s), s[k] # s[i] PROVE s[k] \in {l[j] : j \in 1..Len(s) - 1}
    <3>1. PICK j \in 1..Len(s) - 1 : k = Old(j)
      BY <1>5, <2>2
    <3> QED
      BY <1>1, <3>1
  <2>3. Reactor!ToSet(l) = {l[j] : j \in 1..Len(s) - 1} /\ Reactor!ToSet(s) = {s[k] : k \in 1..Len(s)}
    BY <1>2 DEF Reactor!ToSet
  <2>4. {l[j] : j \in 1..Len(s) - 1} = {s[k] : k \in 1..Len(s)} \ {s[i]}
    BY <2>1, <2>2
  <2> QED
    BY <2>3, <2>4
<1> QED
  BY <1>1, <1>7, <1>8 DEF l

\* A list that holds each element once, and one more at its end.
LEMMA Appended ==
  ASSUME NEW T, NEW s \in Seq(T), Reactor!IsInjective(s), NEW q \in T, q \notin Reactor!ToSet(s)
  PROVE  /\ Append(s, q) \in Seq(T) /\ Reactor!IsInjective(Append(s, q))
         /\ Reactor!ToSet(Append(s, q)) = Reactor!ToSet(s) \cup {q}
         /\ s \o <<q>> = Append(s, q)
<1> DEFINE l == Append(s, q)
<1>1. l \in Seq(T) /\ Len(l) = Len(s) + 1 /\ l[Len(s) + 1] = q /\ \A j \in 1..Len(s) : l[j] = s[j]
  BY AppendProperties
<1>2. Len(s) \in Nat /\ DOMAIN s = 1..Len(s) /\ DOMAIN l = 1..Len(s) + 1
  BY <1>1, LenProperties
<1>3. l = s \o <<q>>
  BY AppendIsConcat
<1> HIDE DEF l
<1>4. 1..Len(s) + 1 = 1..Len(s) \cup {Len(s) + 1}
  BY <1>2
<1>5. \A j \in 1..Len(s) : s[j] # q
  BY <1>2 DEF Reactor!ToSet
<1>6. Reactor!IsInjective(l)
  BY <1>1, <1>2, <1>4, <1>5 DEF Reactor!IsInjective
<1>7. Reactor!ToSet(l) = Reactor!ToSet(s) \cup {q}
  BY <1>1, <1>2, <1>4 DEF Reactor!ToSet
<1> QED
  BY <1>1, <1>3, <1>6, <1>7 DEF l

\* Positions that rise, and the next n after them.
LEMMA Increased ==
  ASSUME NEW s \in Seq(Nat), NEW p \in Nat, NEW n \in Nat,
         \A i, j \in DOMAIN s : i < j => s[i] < s[j],
         Reactor!ToSet(s) \subseteq 0..p - 1
  PROVE  LET l == s \o Reactor!Bytes(p, n) IN
         /\ l \in Seq(Nat) /\ Len(l) = Len(s) + n
         /\ \A i, j \in DOMAIN l : i < j => l[i] < l[j]
         /\ Reactor!ToSet(l) = Reactor!ToSet(s) \cup p..p + n - 1
<1> DEFINE b == Reactor!Bytes(p, n)
           l == s \o b
<1>1. b \in [1..n -> Nat] /\ \A i \in 1..n : b[i] = p + i - 1
  BY DEF Reactor!Bytes
<1>2. b \in Seq(Nat) /\ Len(b) = n
  BY <1>1, IsASeq
<1> HIDE DEF b
<1>3. /\ l \in Seq(Nat) /\ Len(l) = Len(s) + n
      /\ \A i \in 1..Len(s) + n : l[i] = IF i <= Len(s) THEN s[i] ELSE b[i - Len(s)]
  BY <1>2, ConcatProperties
<1> HIDE DEF l
<1>4. Len(s) \in Nat /\ DOMAIN s = 1..Len(s) /\ DOMAIN l = 1..Len(s) + n
  BY <1>3, LenProperties
<1>5. ASSUME NEW i \in 1..Len(s) PROVE i \in DOMAIN l /\ l[i] = s[i] /\ s[i] \in 0..p - 1
  <2>1. i \in 1..Len(s) + n /\ i <= Len(s)
    BY <1>4
  <2>2. s[i] \in Reactor!ToSet(s)
    BY <1>4 DEF Reactor!ToSet
  <2> QED
    BY <1>3, <1>4, <2>1, <2>2
<1>6. ASSUME NEW i \in 1..Len(s) + n, ~(i <= Len(s))
      PROVE  i - Len(s) \in 1..n /\ l[i] = p + (i - Len(s)) - 1
  <2>1. i - Len(s) \in 1..n
    BY <1>4, <1>6
  <2>2. l[i] = b[i - Len(s)]
    BY <1>3, <1>6
  <2>3. \A j \in 1..n : b[j] = p + j - 1
    BY <1>1
  <2> QED
    BY <2>1, <2>2, <2>3
<1>7. ASSUME NEW i \in DOMAIN l, NEW j \in DOMAIN l, i < j PROVE l[i] < l[j]
  <2>0. Len(s) \in Nat /\ i \in 1..Len(s) + n /\ j \in 1..Len(s) + n
    BY <1>4
  <2>1. CASE j <= Len(s)
    <3>1. i \in 1..Len(s) /\ j \in 1..Len(s)
      BY <1>7, <2>0, <2>1
    <3> QED
      BY <1>4, <1>5, <1>7, <3>1
  <2>2. CASE ~(j <= Len(s)) /\ i <= Len(s)
    <3>1. i \in 1..Len(s) /\ j - Len(s) \in 1..n /\ l[j] = p + (j - Len(s)) - 1
      BY <1>6, <2>0, <2>2
    <3>2. l[i] \in 0..p - 1
      BY <1>5, <3>1
    <3> QED
      BY <2>0, <3>1, <3>2
  <2>3. CASE ~(j <= Len(s)) /\ ~(i <= Len(s))
    <3>1. l[i] = p + (i - Len(s)) - 1 /\ l[j] = p + (j - Len(s)) - 1
      BY <1>6, <2>0, <2>3
    <3> QED
      BY <1>7, <2>0, <3>1
  <2> QED
    BY <2>1, <2>2, <2>3
<1>8. Reactor!ToSet(l) = Reactor!ToSet(s) \cup p..p + n - 1
  <2>1. ASSUME NEW x \in Reactor!ToSet(l) PROVE x \in Reactor!ToSet(s) \cup p..p + n - 1
    <3>1. PICK i \in 1..Len(s) + n : x = l[i]
      BY <1>4 DEF Reactor!ToSet
    <3>2. CASE i <= Len(s)
      <4>1. i \in 1..Len(s)
        BY <1>4, <3>2
      <4> QED
        BY <1>4, <1>5, <3>1, <4>1 DEF Reactor!ToSet
    <3>3. CASE ~(i <= Len(s))
      BY <1>4, <1>6, <3>1, <3>3
    <3> QED
      BY <3>2, <3>3
  <2>2. ASSUME NEW x \in Reactor!ToSet(s) PROVE x \in Reactor!ToSet(l)
    BY <1>4, <1>5 DEF Reactor!ToSet
  <2>3. ASSUME NEW x \in p..p + n - 1 PROVE x \in Reactor!ToSet(l)
    <3> DEFINE i == Len(s) + (x - p) + 1
    <3>1. i \in 1..Len(s) + n /\ ~(i <= Len(s)) /\ p + (i - Len(s)) - 1 = x
      BY <1>4
    <3>2. l[i] = x
      BY <1>6, <3>1
    <3> QED
      BY <1>4, <3>1, <3>2 DEF Reactor!ToSet
  <2> QED
    BY <2>1, <2>2, <2>3
<1> QED
  BY <1>3, <1>7, <1>8 DEF l, b

----------------------------------------------------------------------------
(* The I/O reactor *)

ReactorMem    == [run : BOOLEAN, readers : Seq(Requests), next : Requests \cup {End},
                  pos : [Reactor!Files -> Nat]]
ReactorPcs    == {"none", "loop", "process", "ended", "new", "asked", "blocked", "returned"}
ReactorLocals == [file : Reactor!Files \cup {Reactor!NoRequest.file}, total : Nat, got : Seq(Nat)]

ReactorTyped ==
    /\ mem \in ReactorMem
    /\ at \in [Requests \cup {Io} -> ReactorPcs]
    /\ at[Io] \in {"none", "loop", "process", "ended"}
    /\ \A r \in Requests : at[r] \in {"new", "asked", "blocked", "returned"}
    /\ loc \in [Requests -> ReactorLocals]

Listed(r) == r \in Reactor!ToSet(mem.readers)
Given(r)  == Reactor!ToSet(loc[r].got)

\* A request that was not made is not in the list and has no data.
ReactorNew ==
    \A r \in Requests :
        /\ at[r] = "new" => loc[r] = Reactor!NoRequest /\ ~Listed(r)
        /\ at[r] # "new" => loc[r].file \in Reactor!Files

\* What BytesOnce says, request by request.
BytesApart ==
    /\ \A f \in Reactor!Files : mem.pos[f] <= Size[f]
    /\ \A r \in Requests : Len(loc[r].got) <= loc[r].total
    /\ \A r \in Requests : \A i, j \in DOMAIN loc[r].got : i < j => loc[r].got[i] < loc[r].got[j]
    /\ \A r \in Requests : loc[r].file \in Reactor!Files => Given(r) \subseteq 0..mem.pos[loc[r].file] - 1
    /\ \A f \in Reactor!Files : \A b \in 0..mem.pos[f] - 1 : \E r \in Requests : loc[r].file = f /\ b \in Given(r)
    /\ \A r, q \in Requests : r # q /\ loc[r].file = loc[q].file => Given(r) \cap Given(q) = {}

ReactorInv == ReactorTyped /\ ReactorNew /\ Reactor!ListSound /\ BytesApart

\* The iterator and the thread move, or a client: no request is made or served.
LEMMA ReactorMoves ==
  ASSUME ReactorInv, mem' \in ReactorMem, loc' = loc,
         mem'.readers = mem.readers, mem'.pos = mem.pos,
         mem'.next \in Reactor!ToSet(mem.readers) \cup {End},
         at' \in [Requests \cup {Io} -> ReactorPcs],
         at'[Io] \in {"none", "loop", "process", "ended"},
         \A r \in Requests : /\ at'[r] \in {"new", "asked", "blocked", "returned"}
                             /\ at'[r] = "new" <=> at[r] = "new"
  PROVE  ReactorInv'
<1> USE DEF ReactorInv
<1>1. ReactorTyped'
  BY DEF ReactorTyped
<1>2. ReactorNew'
  BY DEF ReactorNew, Listed
<1>3. Reactor!ListSound'
  BY DEF Reactor!ListSound
<1>4. BytesApart'
  BY DEF BytesApart, Given
<1> QED
  BY <1>1, <1>2, <1>3, <1>4

\* The list begins with one of its requests, or is empty.
LEMMA ReactorBegin ==
  ASSUME NEW s \in Seq(Requests)
  PROVE  Reactor!Begin(s) \in Reactor!ToSet(s) \cup {End}
<1>1. CASE s = <<>>
  BY <1>1 DEF Reactor!Begin
<1>2. CASE s # <<>>
  <2>1. 1 \in DOMAIN s /\ Head(s) = s[1]
    BY <1>2, HeadTailProperties, LenProperties, EmptySeq
  <2> QED
    BY <1>2, <2>1 DEF Reactor!Begin, Reactor!ToSet
<1> QED
  BY <1>1, <1>2

\* How much a read gives: no more than the request lacks and the file has.
LEMMA ReactorReadSize ==
  ASSUME Reactor!ReactorAssumption, ReactorInv, NEW r \in Requests, loc[r].file \in Reactor!Files
  PROVE  LET n == Reactor!ReadSize(r) IN
         /\ n \in Nat /\ Len(loc[r].got) + n <= loc[r].total
         /\ mem.pos[loc[r].file] + n <= Size[loc[r].file]
<1> DEFINE f == loc[r].file
           a == loc[r].total - Len(loc[r].got)
           b == Size[f] - mem.pos[f]
           S == {Chunk, a, b}
<1>1. /\ loc[r].total \in Nat /\ Len(loc[r].got) \in Nat /\ Len(loc[r].got) <= loc[r].total
      /\ Size[f] \in Nat /\ mem.pos[f] \in Nat /\ mem.pos[f] <= Size[f] /\ Chunk \in Nat
  <2>1. loc[r] \in ReactorLocals /\ mem \in ReactorMem
    BY DEF ReactorInv, ReactorTyped
  <2>2. loc[r].total \in Nat /\ loc[r].got \in Seq(Nat) /\ mem.pos[f] \in Nat
    BY <2>1 DEF ReactorLocals, ReactorMem
  <2>3. Len(loc[r].got) \in Nat
    BY <2>2, LenProperties
  <2> QED
    BY <2>2, <2>3 DEF ReactorInv, BytesApart, Reactor!ReactorAssumption, Reactor!Files
<1>2. a \in Nat /\ b \in Nat
  BY <1>1
<1>3. Reactor!ReadSize(r) = CHOOSE x \in S : \A y \in S : x <= y
  BY DEF Reactor!ReadSize, Reactor!Min
<1>4. \E x \in S : \A y \in S : x <= y
  <2> HIDE DEF a, b
  <2>1. CASE Chunk <= a /\ Chunk <= b
    BY <1>1, <1>2, <2>1
  <2>2. CASE a <= Chunk /\ a <= b
    BY <1>1, <1>2, <2>2
  <2>3. CASE b <= Chunk /\ b <= a
    BY <1>1, <1>2, <2>3
  <2> QED
    BY <1>1, <1>2, <2>1, <2>2, <2>3
<1>5. Reactor!ReadSize(r) \in S /\ Reactor!ReadSize(r) <= a /\ Reactor!ReadSize(r) <= b
  <2> DEFINE n == Reactor!ReadSize(r)
  <2>1. n \in S /\ \A y \in S : n <= y
    BY <1>3, <1>4
  <2> QED
    BY <2>1
<1> HIDE DEF a, b
<1>6. Reactor!ReadSize(r) \in Nat
  BY <1>1, <1>2, <1>5
<1> QED
  BY <1>1, <1>5, <1>6 DEF a, b

\* A client makes a request while the reactor stands still.
LEMMA ReactorAsks ==
  ASSUME Reactor!ReactorAssumption, ReactorInv, NEW q \in Requests, Reactor!ReadAsync(q)
  PROVE  ReactorInv'
<1> USE DEF ReactorInv
<1>1. /\ at[q] = "new" /\ at' = [at EXCEPT ![q] = "asked"]
      /\ mem' = [mem EXCEPT !.readers = Append(mem.readers, q)]
  BY DEF Reactor!ReadAsync, Reactor!Fresh, Reactor!Unmade
<1>2. PICK f \in Reactor!Files, n \in Lengths :
         loc' = [loc EXCEPT ![q] = [Reactor!NoRequest EXCEPT !.file = f, !.total = n]]
  BY DEF Reactor!ReadAsync
<1>3. /\ mem \in ReactorMem /\ mem.readers \in Seq(Requests) /\ Reactor!IsInjective(mem.readers)
      /\ q \notin Reactor!ToSet(mem.readers)
      /\ loc \in [Requests -> ReactorLocals] /\ loc[q] = Reactor!NoRequest
      /\ at \in [Requests \cup {Io} -> ReactorPcs] /\ Io \notin Requests /\ n \in Nat
  BY <1>1 DEF ReactorTyped, ReactorMem, ReactorNew, Listed, Reactor!ListSound, Reactor!ReactorAssumption
<1>4. /\ mem'.readers \in Seq(Requests) /\ Reactor!IsInjective(mem'.readers)
      /\ Reactor!ToSet(mem'.readers) = Reactor!ToSet(mem.readers) \cup {q}
      /\ mem'.next = mem.next /\ mem'.pos = mem.pos /\ mem' \in ReactorMem
  <2>1. /\ mem'.readers = Append(mem.readers, q)
        /\ mem'.next = mem.next /\ mem'.pos = mem.pos /\ mem'.run = mem.run
    BY <1>1, <1>3 DEF ReactorMem
  <2>2. /\ Append(mem.readers, q) \in Seq(Requests) /\ Reactor!IsInjective(Append(mem.readers, q))
        /\ Reactor!ToSet(Append(mem.readers, q)) = Reactor!ToSet(mem.readers) \cup {q}
    BY <1>3, Appended
  <2> QED
    BY <1>1, <1>3, <2>1, <2>2 DEF ReactorMem
<1>5. /\ loc'[q].file = f /\ loc'[q].total = n /\ loc'[q].got = <<>> /\ loc[q].got = <<>>
      /\ \A r \in Requests \ {q} : loc'[r] = loc[r]
      /\ loc' \in [Requests -> ReactorLocals]
  <2>1. Reactor!NoRequest \in ReactorLocals /\ Reactor!NoRequest.got = <<>>
    BY DEF Reactor!NoRequest, ReactorLocals
  <2> DEFINE l == [Reactor!NoRequest EXCEPT !.file = f, !.total = n]
  <2>2. l \in ReactorLocals /\ l.file = f /\ l.total = n /\ l.got = <<>>
    BY <1>3, <2>1 DEF ReactorLocals
  <2> HIDE DEF l
  <2> QED
    BY <1>2, <1>3, <2>1, <2>2 DEF l
<1>6. /\ at' \in [Requests \cup {Io} -> ReactorPcs] /\ at'[q] = "asked" /\ at'[Io] = at[Io]
      /\ \A r \in Requests \ {q} : at'[r] = at[r]
  BY <1>1, <1>3 DEF ReactorPcs
<1>7. ReactorTyped'
  BY <1>4, <1>5, <1>6 DEF ReactorTyped
<1>8. ReactorNew'
  BY <1>4, <1>5, <1>6 DEF ReactorNew, Listed
<1>9. Reactor!ListSound'
  <2>1. Len(<<>>) = 0
    OBVIOUS
  <2> QED
    BY <1>3, <1>4, <1>5, <1>6, <2>1 DEF Reactor!ListSound
<1>10. BytesApart'
  <2>1. \A r \in Requests : loc'[r].got = loc[r].got /\ Given(r)' = Given(r)
    BY <1>5 DEF Given
  <2>2. Given(q) = {} /\ DOMAIN loc[q].got = {} /\ Len(loc[q].got) = 0
    BY <1>5 DEF Given, Reactor!ToSet
  <2>3. ASSUME NEW g \in Reactor!Files, NEW b \in 0..mem'.pos[g] - 1
        PROVE  \E r \in Requests : loc'[r].file = g /\ b \in Given(r)'
    <3>1. PICK r \in Requests : loc[r].file = g /\ b \in Given(r)
      BY <1>4 DEF BytesApart
    <3> QED
      BY <1>5, <2>1, <2>2, <3>1
  <2>4. ASSUME NEW r \in Requests
        PROVE  /\ Len(loc'[r].got) <= loc'[r].total
               /\ \A i, j \in DOMAIN loc'[r].got : i < j => loc'[r].got[i] < loc'[r].got[j]
               /\ loc'[r].file \in Reactor!Files => Given(r)' \subseteq 0..mem'.pos[loc'[r].file] - 1
    <3>1. CASE r = q
      BY <1>3, <1>5, <2>1, <2>2, <3>1
    <3>2. CASE r # q
      BY <1>4, <1>5, <2>1, <3>2 DEF BytesApart
    <3> QED
      BY <3>1, <3>2
  <2>5. ASSUME NEW r \in Requests, NEW s \in Requests, r # s, loc'[r].file = loc'[s].file
        PROVE  Given(r)' \cap Given(s)' = {}
    BY <1>5, <2>1, <2>2, <2>5 DEF BytesApart
  <2> QED
    BY <1>4, <2>3, <2>4, <2>5 DEF BytesApart
<1> QED
  BY <1>7, <1>8, <1>9, <1>10

\* A request is given the next bytes of its file; others, that had none, may be made.
LEMMA BytesServed ==
  ASSUME ReactorInv, NEW r \in Requests, NEW f \in Reactor!Files, loc[r].file = f, NEW n \in Nat,
         Len(loc[r].got) + n <= loc[r].total, mem.pos[f] + n <= Size[f],
         mem'.pos[f] = mem.pos[f] + n, \A g \in Reactor!Files \ {f} : mem'.pos[g] = mem.pos[g],
         loc'[r].file = f, loc'[r].total = loc[r].total,
         loc'[r].got = loc[r].got \o Reactor!Bytes(mem.pos[f], n),
         \A q \in Requests \ {r} :
            \/ loc'[q] = loc[q]
            \/ loc[q].got = <<>> /\ loc'[q].got = <<>> /\ loc'[q].total \in Nat
  PROVE  BytesApart' /\ loc'[r].got \in Seq(Nat) /\ Len(loc'[r].got) = Len(loc[r].got) + n
<1> DEFINE new == mem.pos[f]..mem.pos[f] + n - 1
<1>1. /\ loc[r].got \in Seq(Nat) /\ mem.pos[f] \in Nat
      /\ \A i, j \in DOMAIN loc[r].got : i < j => loc[r].got[i] < loc[r].got[j]
      /\ Given(r) \subseteq 0..mem.pos[f] - 1
  <2>1. loc[r] \in ReactorLocals /\ mem \in ReactorMem
    BY DEF ReactorInv, ReactorTyped
  <2> QED
    BY <2>1 DEF ReactorInv, BytesApart, ReactorLocals, ReactorMem
<1>2. /\ loc'[r].got \in Seq(Nat) /\ Len(loc'[r].got) = Len(loc[r].got) + n
      /\ \A i, j \in DOMAIN loc'[r].got : i < j => loc'[r].got[i] < loc'[r].got[j]
      /\ Given(r)' = Given(r) \cup new
  <2> DEFINE s == loc[r].got
             p == mem.pos[f]
  <2>1. /\ s \in Seq(Nat) /\ p \in Nat /\ loc'[r].got = s \o Reactor!Bytes(p, n)
        /\ \A i, j \in DOMAIN s : i < j => s[i] < s[j]
        /\ Reactor!ToSet(s) \subseteq 0..p - 1
    BY <1>1 DEF Given
  <2>2. Given(r)' = Reactor!ToSet(loc'[r].got)
    BY DEF Given
  <2> HIDE DEF s, p
  <2>3. /\ loc'[r].got \in Seq(Nat) /\ Len(loc'[r].got) = Len(s) + n
        /\ \A i, j \in DOMAIN loc'[r].got : i < j => loc'[r].got[i] < loc'[r].got[j]
        /\ Reactor!ToSet(loc'[r].got) = Reactor!ToSet(s) \cup p..p + n - 1
    <3> DEFINE l == s \o Reactor!Bytes(p, n)
    <3>1. /\ l \in Seq(Nat) /\ Len(l) = Len(s) + n
          /\ \A i, j \in DOMAIN l : i < j => l[i] < l[j]
          /\ Reactor!ToSet(l) = Reactor!ToSet(s) \cup p..p + n - 1
      BY <2>1, Increased
    <3> HIDE DEF l
    <3> QED
      BY <2>1, <3>1 DEF l
  <2> QED
    BY <2>2, <2>3 DEF Given, s, p
<1>3. \A q \in Requests \ {r} : loc'[q].got = loc[q].got /\ Given(q)' = Given(q)
  BY DEF Given
<1>4. \A q \in Requests \ {r} : loc'[q] = loc[q] \/ (Given(q) = {} /\ Len(loc'[q].got) = 0)
  BY DEF Given, Reactor!ToSet
<1>5. \A g \in Reactor!Files : mem.pos[g] \in Nat /\ mem'.pos[g] \in Nat /\ mem.pos[g] <= mem'.pos[g]
  <2>1. mem \in ReactorMem
    BY DEF ReactorInv, ReactorTyped
  <2>2. \A g \in Reactor!Files : mem.pos[g] \in Nat
    BY <2>1 DEF ReactorMem
  <2> QED
    BY <2>2
<1>6. 0..mem.pos[f] - 1 \cup new = 0..mem'.pos[f] - 1
  BY <1>5
<1>7. \A g \in Reactor!Files : mem'.pos[g] <= Size[g]
  BY DEF ReactorInv, BytesApart
<1>8. ASSUME NEW q \in Requests
      PROVE  /\ Len(loc'[q].got) <= loc'[q].total
             /\ \A i, j \in DOMAIN loc'[q].got : i < j => loc'[q].got[i] < loc'[q].got[j]
             /\ loc'[q].file \in Reactor!Files => Given(q)' \subseteq 0..mem'.pos[loc'[q].file] - 1
  <2>1. CASE q = r
    BY <1>1, <1>2, <1>6, <2>1
  <2>2. CASE q # r /\ loc'[q] = loc[q]
    <3>1. \A g \in Reactor!Files : 0..mem.pos[g] - 1 \subseteq 0..mem'.pos[g] - 1
      BY <1>5
    <3> QED
      BY <1>3, <2>2, <3>1 DEF ReactorInv, BytesApart
  <2>3. CASE q # r /\ loc'[q] # loc[q]
    <3>1. loc'[q].got = <<>> /\ Given(q)' = {} /\ loc'[q].total \in Nat /\ Len(loc'[q].got) = 0
      BY <1>3, <1>4, <2>3
    <3> QED
      BY <3>1
  <2> QED
    BY <2>1, <2>2, <2>3
<1>9. ASSUME NEW g \in Reactor!Files, NEW b \in 0..mem'.pos[g] - 1
      PROVE  \E q \in Requests : loc'[q].file = g /\ b \in Given(q)'
  <2>1. CASE g = f /\ b \in new
    BY <1>2, <2>1
  <2>2. CASE b \in 0..mem.pos[g] - 1
    <3>1. PICK q \in Requests : loc[q].file = g /\ b \in Given(q)
      BY <2>2 DEF ReactorInv, BytesApart
    <3>2. CASE q = r
      BY <1>2, <3>1, <3>2
    <3>3. CASE q # r
      BY <1>3, <1>4, <3>1, <3>3
    <3> QED
      BY <3>2, <3>3
  <2>3. g = f \/ mem'.pos[g] = mem.pos[g]
    OBVIOUS
  <2> QED
    BY <1>6, <2>1, <2>2, <2>3
<1>10. ASSUME NEW p \in Requests, NEW q \in Requests, p # q, loc'[p].file = loc'[q].file
       PROVE  Given(p)' \cap Given(q)' = {}
  <2>1. CASE p # r /\ q # r
    BY <1>3, <1>4, <1>10, <2>1 DEF ReactorInv, BytesApart
  <2>2. ASSUME NEW x \in Requests \ {r}, loc'[x].file = f PROVE Given(r)' \cap Given(x)' = {}
    <3>1. CASE loc'[x] # loc[x]
      BY <1>3, <1>4, <3>1
    <3>2. CASE loc'[x] = loc[x]
      <4>1. Given(r) \cap Given(x) = {} /\ Given(x) \subseteq 0..mem.pos[f] - 1
        BY <2>2, <3>2 DEF ReactorInv, BytesApart
      <4>2. new \cap 0..mem.pos[f] - 1 = {}
        BY <1>1
      <4> QED
        BY <1>2, <1>3, <4>1, <4>2
    <3> QED
      BY <3>1, <3>2
  <2> QED
    BY <1>10, <2>1, <2>2
<1> QED
  BY <1>2, <1>7, <1>8, <1>9, <1>10 DEF BytesApart

\* What a callback asks for was not asked before.
LEMMA ReactorCallback ==
  ASSUME ReactorInv, NEW asked \in Reactor!Callback
  PROVE  LET readers == mem.readers \o asked IN
         /\ \A q \in Reactor!ToSet(asked) : q \in Requests /\ at[q] = "new"
         /\ readers \in Seq(Requests) /\ Reactor!IsInjective(readers)
         /\ Reactor!ToSet(readers) = Reactor!ToSet(mem.readers) \cup Reactor!ToSet(asked)
<1>1. mem.readers \in Seq(Requests) /\ Reactor!IsInjective(mem.readers)
  <2>1. mem \in ReactorMem
    BY DEF ReactorInv, ReactorTyped
  <2> QED
    BY <2>1 DEF ReactorInv, ReactorMem, Reactor!ListSound
<1>2. CASE asked = <<>>
  <2>1. Reactor!ToSet(<<>>) = {} /\ mem.readers \o <<>> = mem.readers
    BY <1>1, ConcatEmptySeq DEF Reactor!ToSet
  <2> QED
    BY <1>1, <1>2, <2>1
<1>3. CASE \E q \in Reactor!Fresh : asked = <<q>>
  <2>1. PICK q \in Requests : asked = <<q>> /\ at[q] = "new"
    BY <1>3 DEF Reactor!Fresh, Reactor!Unmade
  <2>2. q \notin Reactor!ToSet(mem.readers)
    BY <2>1 DEF ReactorInv, ReactorNew, Listed
  <2>3. Reactor!ToSet(<<q>>) = {q}
    BY DEF Reactor!ToSet
  <2>4. /\ Append(mem.readers, q) \in Seq(Requests) /\ Reactor!IsInjective(Append(mem.readers, q))
        /\ Reactor!ToSet(Append(mem.readers, q)) = Reactor!ToSet(mem.readers) \cup {q}
        /\ mem.readers \o <<q>> = Append(mem.readers, q)
    BY <1>1, <2>2, Appended
  <2> QED
    BY <2>1, <2>3, <2>4
<1> QED
  BY <1>2, <1>3 DEF Reactor!Callback

\* The list after r was served, and where the iterator is in it.
LEMMA ReactorErases ==
  ASSUME NEW readers \in Seq(Requests), Reactor!IsInjective(readers),
         NEW r \in Reactor!ToSet(readers), NEW complete \in BOOLEAN
  PROVE  LET left == IF complete THEN Reactor!RemoveAt(readers, Reactor!Place(r, readers)) ELSE readers IN
         /\ left \in Seq(Requests) /\ Reactor!IsInjective(left)
         /\ Reactor!ToSet(left) = Reactor!ToSet(readers) \ (IF complete THEN {r} ELSE {})
         /\ Reactor!After(r, readers, left) \in Reactor!ToSet(left) \cup {End}
<1> DEFINE i == Reactor!Place(r, readers)
           left == IF complete THEN Reactor!RemoveAt(readers, i) ELSE readers
<1>1. i \in DOMAIN readers /\ readers[i] = r
  BY DEF Reactor!Place, Reactor!ToSet
<1>2. DOMAIN readers = 1..Len(readers) /\ Len(readers) \in Nat
  BY LenProperties
<1>3. /\ left \in Seq(Requests) /\ Reactor!IsInjective(left)
      /\ Reactor!ToSet(left) = Reactor!ToSet(readers) \ (IF complete THEN {r} ELSE {})
  <2>1. CASE complete
    BY <1>1, <1>2, <2>1, Erased
  <2>2. CASE ~complete
    BY <2>2
  <2> QED
    BY <2>1, <2>2
<1> HIDE DEF i, left
<1>4. Reactor!After(r, readers, left) \in Reactor!ToSet(left) \cup {End}
  <2>1. CASE i = Len(readers)
    BY <1>3, <2>1, ReactorBegin DEF Reactor!After, i
  <2>2. CASE i # Len(readers)
    <3>1. i + 1 \in DOMAIN readers /\ i + 1 # i
      BY <1>1, <1>2, <2>2
    <3>2. readers[i + 1] \in Reactor!ToSet(readers) \ {r}
      BY <1>1, <3>1 DEF Reactor!IsInjective, Reactor!ToSet
    <3>3. Reactor!After(r, readers, left) = readers[i + 1]
      BY <2>2 DEF Reactor!After, i
    <3> QED
      BY <1>3, <3>2, <3>3
  <2> QED
    BY <2>1, <2>2
<1> QED
  BY <1>3, <1>4 DEF left, i

\* The I/O thread serves a request, whose callback may make another.
LEMMA ReactorServes ==
  ASSUME Reactor!ReactorAssumption, ReactorInv, Reactor!Process
  PROVE  ReactorInv'
<1> USE DEF ReactorInv
<1> DEFINE r   == mem.next
           f   == loc[r].file
           n   == Reactor!ReadSize(r)
           got == loc[r].got \o Reactor!Bytes(mem.pos[f], n)
<1>1. /\ mem \in ReactorMem /\ loc \in [Requests -> ReactorLocals]
      /\ at \in [Requests \cup {Io} -> ReactorPcs] /\ DOMAIN at = Requests \cup {Io}
      /\ Io \notin Requests /\ Lengths \subseteq Nat
      /\ \A q \in Requests : at[q] \in {"new", "asked", "blocked", "returned"}
  BY DEF ReactorTyped, Reactor!ReactorAssumption
<1>2. r \in Reactor!ToSet(mem.readers) /\ r \in Requests /\ at[r] # "new" /\ f \in Reactor!Files
  <2>1. r \in Reactor!ToSet(mem.readers) /\ r \in Requests
    BY <1>1 DEF Reactor!Process, Reactor!ListSound, ReactorMem
  <2> QED
    BY <2>1 DEF ReactorNew, Listed
<1>3. n \in Nat /\ Len(loc[r].got) + n <= loc[r].total /\ mem.pos[f] + n <= Size[f]
  BY <1>2, ReactorReadSize
<1>4. PICK asked \in Reactor!Callback :
        LET readers == mem.readers \o asked
            left    == IF Reactor!IsComplete(r, got)
                       THEN Reactor!RemoveAt(readers, Reactor!Place(r, readers)) ELSE readers
            woken   == IF Reactor!IsComplete(r, got) /\ at[r] = "blocked" THEN {r} ELSE {}
        IN  /\ mem' = [mem EXCEPT !.pos[f] = @ + n, !.readers = left,
                                  !.next = Reactor!After(r, readers, left)]
            /\ \E f2 \in Reactor!Files, n2 \in Lengths :
                  loc' = [q \in Requests |->
                      IF q = r THEN [loc[r] EXCEPT !.got = got]
                      ELSE IF q \in Reactor!ToSet(asked)
                           THEN [Reactor!NoRequest EXCEPT !.file = f2, !.total = n2]
                      ELSE loc[q]]
            /\ at' = [x \in DOMAIN at |->
                  IF x = Io THEN "loop"
                  ELSE IF x \in woken THEN "returned"
                  ELSE IF x \in Reactor!ToSet(asked) THEN "asked"
                  ELSE at[x]]
  BY DEF Reactor!Process
<1> DEFINE readers  == mem.readers \o asked
           complete == Reactor!IsComplete(r, got)
           left     == IF complete THEN Reactor!RemoveAt(readers, Reactor!Place(r, readers)) ELSE readers
           woken    == IF complete /\ at[r] = "blocked" THEN {r} ELSE {}
           Asked    == Reactor!ToSet(asked)
<1>5. PICK f2 \in Reactor!Files, n2 \in Lengths :
         loc' = [q \in Requests |->
            IF q = r THEN [loc[r] EXCEPT !.got = got]
            ELSE IF q \in Asked THEN [Reactor!NoRequest EXCEPT !.file = f2, !.total = n2]
            ELSE loc[q]]
  BY <1>4
<1>6. /\ mem' = [mem EXCEPT !.pos[f] = @ + n, !.readers = left, !.next = Reactor!After(r, readers, left)]
      /\ at' = [x \in DOMAIN at |->
            IF x = Io THEN "loop"
            ELSE IF x \in woken THEN "returned"
            ELSE IF x \in Asked THEN "asked"
            ELSE at[x]]
  BY <1>4
<1>7. /\ \A q \in Asked : q \in Requests /\ at[q] = "new"
      /\ readers \in Seq(Requests) /\ Reactor!IsInjective(readers)
      /\ Reactor!ToSet(readers) = Reactor!ToSet(mem.readers) \cup Asked
  BY ReactorCallback
<1>8. complete \in BOOLEAN /\ (complete <=> Len(got) >= loc[r].total)
  BY DEF Reactor!IsComplete
<1>9. /\ left \in Seq(Requests) /\ Reactor!IsInjective(left)
      /\ Reactor!ToSet(left) = Reactor!ToSet(readers) \ (IF complete THEN {r} ELSE {})
      /\ Reactor!After(r, readers, left) \in Reactor!ToSet(left) \cup {End}
  <2> HIDE DEF r, complete, readers
  <2>1. r \in Reactor!ToSet(readers)
    BY <1>2, <1>7
  <2> QED
    BY <1>7, <1>8, <2>1, ReactorErases
<1> HIDE DEF r, f, n, got, readers, complete, left, Asked
<1>10. /\ mem' \in ReactorMem /\ mem'.readers = left
       /\ mem'.next \in Reactor!ToSet(left) \cup {End}
       /\ mem'.pos[f] = mem.pos[f] + n /\ \A g \in Reactor!Files \ {f} : mem'.pos[g] = mem.pos[g]
  <2> DEFINE next == Reactor!After(r, readers, left)
  <2>0. next \in Requests \cup {End}
    BY <1>9 DEF Reactor!ToSet
  <2> HIDE DEF next
  <2>1. mem' = [mem EXCEPT !.pos[f] = @ + n, !.readers = left, !.next = next]
    BY <1>6 DEF next
  <2>2. mem.pos \in [Reactor!Files -> Nat] /\ mem.run \in BOOLEAN
    BY <1>1 DEF ReactorMem
  <2>3. mem'.pos = [mem.pos EXCEPT ![f] = mem.pos[f] + n] /\ mem'.readers = left /\ mem'.next = next
    BY <1>1, <2>1 DEF ReactorMem
  <2>4. mem'.pos \in [Reactor!Files -> Nat] /\ mem'.pos[f] = mem.pos[f] + n
        /\ \A g \in Reactor!Files \ {f} : mem'.pos[g] = mem.pos[g]
    BY <1>2, <1>3, <2>2, <2>3
  <2>5. mem' \in ReactorMem
    BY <1>1, <1>9, <2>0, <2>1, <2>2, <2>3, <2>4 DEF ReactorMem
  <2> QED
    BY <1>9, <2>3, <2>4, <2>5 DEF next
<1>11. r \notin Asked /\ (\A q \in Asked : loc[q].got = <<>> /\ q \in Requests)
  <2>1. Reactor!NoRequest.got = <<>>
    BY DEF Reactor!NoRequest
  <2>2. \A q \in Requests : at[q] = "new" => loc[q] = Reactor!NoRequest
    BY DEF ReactorNew
  <2> QED
    BY <1>2, <1>7, <2>1, <2>2
<1>12. /\ loc'[r].file = f /\ loc'[r].total = loc[r].total /\ loc'[r].got = got
       /\ \A q \in Asked : loc'[q].file = f2 /\ loc'[q].total = n2 /\ loc'[q].got = <<>>
       /\ \A q \in Requests \ ({r} \cup Asked) : loc'[q] = loc[q]
  <2>1. loc'[r] = [loc[r] EXCEPT !.got = got] /\ loc[r] \in ReactorLocals
    BY <1>1, <1>2, <1>5
  <2>2. \A q \in Asked : loc'[q] = [Reactor!NoRequest EXCEPT !.file = f2, !.total = n2]
    BY <1>5, <1>11
  <2>3. LET l == [Reactor!NoRequest EXCEPT !.file = f2, !.total = n2] IN
        l.file = f2 /\ l.total = n2 /\ l.got = <<>>
    BY DEF Reactor!NoRequest
  <2>4. \A q \in Requests \ ({r} \cup Asked) : loc'[q] = loc[q]
    BY <1>5
  <2>5. loc'[r].file = f /\ loc'[r].total = loc[r].total /\ loc'[r].got = got
    BY <2>1 DEF ReactorLocals, f
  <2> QED
    BY <2>2, <2>3, <2>4, <2>5
<1>13. BytesApart' /\ got \in Seq(Nat) /\ Len(got) = Len(loc[r].got) + n
  <2>1. \A q \in Requests \ {r} :
            \/ loc'[q] = loc[q]
            \/ loc[q].got = <<>> /\ loc'[q].got = <<>> /\ loc'[q].total \in Nat
    BY <1>1, <1>11, <1>12
  <2>2. loc[r].file = f /\ loc'[r].got = loc[r].got \o Reactor!Bytes(mem.pos[f], n)
    BY <1>12 DEF f, got
  <2> QED
    BY <1>2, <1>3, <1>10, <1>12, <2>1, <2>2, BytesServed
<1>14. /\ at' \in [Requests \cup {Io} -> ReactorPcs] /\ at'[Io] = "loop"
       /\ \A q \in Requests : at'[q] \in {"new", "asked", "blocked", "returned"}
       /\ \A q \in Requests : at'[q] = "new" <=> at[q] = "new" /\ q \notin Asked
  <2>1. \A x \in Requests \cup {Io} : at'[x] = IF x = Io THEN "loop"
                                              ELSE IF x \in woken THEN "returned"
                                              ELSE IF x \in Asked THEN "asked" ELSE at[x]
    BY <1>1, <1>6
  <2>2. \A q \in woken : at[q] = "blocked"
    OBVIOUS
  <2>3. DOMAIN at' = Requests \cup {Io} /\ at' = [x \in Requests \cup {Io} |-> at'[x]]
    BY <1>1, <1>6
  <2>4. \A x \in Requests \cup {Io} : at'[x] \in ReactorPcs
    BY <1>1, <2>1 DEF ReactorPcs
  <2>5. at' \in [Requests \cup {Io} -> ReactorPcs]
    BY <2>3, <2>4
  <2> QED
    BY <1>1, <2>1, <2>2, <2>5
<1>15. ReactorTyped'
  <2>1. ASSUME NEW q \in Requests PROVE loc'[q] \in ReactorLocals
    <3>1. CASE q = r
      <4>1. loc'[r] = [loc[r] EXCEPT !.got = got] /\ loc[r] \in ReactorLocals
        BY <1>1, <1>2, <1>5
      <4> QED
        BY <1>13, <3>1, <4>1 DEF ReactorLocals
    <3>2. CASE q # r /\ q \in Asked
      <4>1. loc'[q] = [Reactor!NoRequest EXCEPT !.file = f2, !.total = n2] /\ n2 \in Nat
        BY <1>1, <1>5, <3>2
      <4>2. Reactor!NoRequest \in ReactorLocals
        BY DEF Reactor!NoRequest, ReactorLocals
      <4> QED
        BY <4>1, <4>2 DEF ReactorLocals
    <3>3. CASE q # r /\ q \notin Asked
      BY <1>1, <1>12, <3>3
    <3> QED
      BY <3>1, <3>2, <3>3
  <2>2. loc' \in [Requests -> ReactorLocals]
    BY <1>5, <2>1
  <2> QED
    BY <1>10, <1>14, <2>2 DEF ReactorTyped
<1>16. \A q \in Requests : Listed(q)' <=> (Listed(q) \/ q \in Asked) /\ ~(complete /\ q = r)
  BY <1>7, <1>9, <1>10 DEF Listed
<1>17. ReactorNew'
  <2>1. \A q \in Requests : at'[q] = "new" => q # r /\ q \notin Asked /\ at[q] = "new"
    BY <1>2, <1>14
  <2> QED
    BY <1>2, <1>12, <1>14, <1>16, <2>1 DEF ReactorNew
<1>18. Reactor!ListSound'
  <2>1. ASSUME NEW q \in Requests, at'[q] # "new", loc'[q].total > 0
        PROVE  Listed(q)' <=> Len(loc'[q].got) < loc'[q].total
    <3>1. CASE q = r
      <4>1. loc[r].total \in Nat /\ Len(got) \in Nat
        <5>1. loc[r] \in ReactorLocals
          BY <1>1, <1>2
        <5> QED
          BY <1>13, <5>1, LenProperties DEF ReactorLocals
      <4> QED
        BY <1>2, <1>8, <1>12, <1>16, <3>1, <4>1 DEF Listed
    <3>2. CASE q \in Asked
      BY <1>11, <1>12, <1>16, <2>1, <3>2
    <3>3. CASE q # r /\ q \notin Asked
      <4>1. loc'[q] = loc[q] /\ at[q] # "new" /\ (Listed(q)' <=> Listed(q))
        BY <1>12, <1>14, <1>16, <2>1, <3>3
      <4> QED
        BY <2>1, <4>1 DEF Reactor!ListSound, Listed
    <3> QED
      BY <3>1, <3>2, <3>3
  <2> QED
    BY <1>9, <1>10, <2>1 DEF Reactor!ListSound, Listed
<1> QED
  BY <1>13, <1>15, <1>17, <1>18

\* Every step of the reactor keeps ReactorInv.
LEMMA ReactorStep ==
  ASSUME Reactor!ReactorAssumption, ReactorInv, Reactor!Next
  PROVE  ReactorInv'
<1>1. /\ mem \in ReactorMem /\ mem.next \in Reactor!ToSet(mem.readers) \cup {End}
      /\ at \in [Requests \cup {Io} -> ReactorPcs] /\ Io \notin Requests
      /\ at[Io] \in {"none", "loop", "process", "ended"}
      /\ \A r \in Requests : at[r] \in {"new", "asked", "blocked", "returned"}
  BY DEF ReactorInv, ReactorTyped, Reactor!ListSound, Reactor!ReactorAssumption
<1>2. CASE \E r \in Requests : Reactor!ReadAsync(r)
  BY <1>2, ReactorAsks
<1>3. CASE \E r \in Requests : Reactor!Wait(r) \/ Reactor!SpuriousWake(r)
  <2>1. PICK r \in Requests, l \in {"asked", "blocked"} :
           at[r] # "new" /\ at' = [at EXCEPT ![r] = l] /\ mem' = mem /\ loc' = loc
    BY <1>3 DEF Reactor!Wait, Reactor!SpuriousWake
  <2>2. /\ at' \in [Requests \cup {Io} -> ReactorPcs] /\ at'[r] = l
        /\ \A x \in (Requests \cup {Io}) \ {r} : at'[x] = at[x]
    BY <1>1, <2>1 DEF ReactorPcs
  <2> QED
    BY <1>1, <2>1, <2>2, ReactorMoves
<1>4. CASE Reactor!Start \/ Reactor!Stop \/ Reactor!Join \/ Reactor!Loop \/ Reactor!AtEnd
  <2>1. /\ loc' = loc /\ mem'.readers = mem.readers /\ mem'.pos = mem.pos
        /\ mem'.next \in {mem.next, Reactor!Begin(mem.readers)}
        /\ mem'.run \in BOOLEAN /\ mem' \in ReactorMem
    <3>1. Reactor!Begin(mem.readers) \in Reactor!ToSet(mem.readers) \cup {End}
      BY <1>1, ReactorBegin DEF ReactorMem
    <3>2. Reactor!ToSet(mem.readers) \subseteq Requests
      BY <1>1 DEF ReactorMem, Reactor!ToSet
    <3>3. CASE Reactor!Start \/ Reactor!Stop
      BY <1>1, <3>3 DEF ReactorMem, Reactor!Start, Reactor!Stop
    <3>4. CASE Reactor!Join \/ Reactor!Loop
      BY <1>1, <3>4 DEF ReactorMem, Reactor!Join, Reactor!Loop
    <3>5. CASE Reactor!AtEnd
      BY <1>1, <3>1, <3>2, <3>5 DEF ReactorMem, Reactor!AtEnd
    <3> QED
      BY <1>4, <3>3, <3>4, <3>5
  <2>2. Reactor!Begin(mem.readers) \in Reactor!ToSet(mem.readers) \cup {End}
    BY <1>1, ReactorBegin DEF ReactorMem
  <2>3. \E l \in {"none", "loop", "process", "ended"} : at' = [at EXCEPT ![Io] = l] \/ at' = at
    BY <1>4 DEF Reactor!Start, Reactor!Stop, Reactor!Join, Reactor!Loop, Reactor!AtEnd
  <2>4. /\ at' \in [Requests \cup {Io} -> ReactorPcs] /\ at'[Io] \in {"none", "loop", "process", "ended"}
        /\ \A r \in Requests : at'[r] = at[r]
    BY <1>1, <2>3 DEF ReactorPcs
  <2> QED
    BY <1>1, <2>1, <2>2, <2>4, ReactorMoves
<1>5. CASE Reactor!Process
  BY <1>5, ReactorServes
<1> QED
  BY <1>2, <1>3, <1>4, <1>5 DEF Reactor!Next, Reactor!Step

\* ReactorInv holds at first.
LEMMA ReactorStart == Reactor!ReactorAssumption /\ Reactor!Init => ReactorInv
<1> SUFFICES ASSUME Reactor!ReactorAssumption, Reactor!Init PROVE ReactorInv
  OBVIOUS
<1>1. /\ mem \in ReactorMem /\ mem.readers = <<>> /\ mem.next = End
      /\ \A f \in Reactor!Files : mem.pos[f] = 0
  BY DEF Reactor!Init, ReactorMem
<1>2. at = [x \in Requests \cup {Io} |-> IF x = Io THEN "none" ELSE "new"]
  BY DEF Reactor!Init
<1>3. Reactor!NoRequest \in ReactorLocals /\ Reactor!NoRequest.got = <<>> /\ Reactor!NoRequest.total = 0
  BY DEF Reactor!NoRequest, ReactorLocals
<1>4. loc \in [Requests -> ReactorLocals] /\ \A r \in Requests : loc[r] = Reactor!NoRequest
  BY <1>3 DEF Reactor!Init
<1>5. at[Io] = "none" /\ (\A r \in Requests : at[r] = "new") /\ at \in [Requests \cup {Io} -> ReactorPcs]
  BY <1>2 DEF ReactorPcs, Reactor!ReactorAssumption
<1>6. Reactor!ToSet(<<>>) = {} /\ Reactor!IsInjective(<<>>) /\ DOMAIN <<>> = {} /\ Len(<<>>) = 0
  BY DEF Reactor!ToSet, Reactor!IsInjective
<1>7. ReactorTyped
  BY <1>1, <1>4, <1>5 DEF ReactorTyped
<1>8. ReactorNew /\ Reactor!ListSound
  BY <1>1, <1>4, <1>5, <1>6 DEF ReactorNew, Listed, Reactor!ListSound
<1>9. BytesApart
  <2>1. \A r \in Requests : loc[r].got = <<>> /\ loc[r].total = 0 /\ Given(r) = {}
    BY <1>3, <1>4, <1>6 DEF Given
  <2>2. \A f \in Reactor!Files : Size[f] \in Nat
    BY DEF Reactor!ReactorAssumption, Reactor!Files
  <2>3. 0..0 - 1 = {}
    OBVIOUS
  <2> QED
    BY <1>1, <1>6, <2>1, <2>2, <2>3 DEF BytesApart
<1> QED
  BY <1>7, <1>8, <1>9 DEF ReactorInv

\* ReactorInv says what TLC checks.
LEMMA ReactorSays ==
  ASSUME ReactorInv
  PROVE  Reactor!TypeOK /\ Reactor!ListSound /\ Reactor!BytesOnce
<1> USE DEF ReactorInv
<1>1. Reactor!TypeOK
  <2>1. mem \in ReactorMem
    BY DEF ReactorTyped
  <2>2. Reactor!ToSet(mem.readers) \subseteq Requests
    BY <2>1 DEF ReactorMem, Reactor!ToSet
  <2> QED
    BY <2>1, <2>2 DEF ReactorTyped, ReactorMem, Reactor!TypeOK
<1>2. Reactor!BytesOnce
  <2> SUFFICES ASSUME NEW f \in Reactor!Files
               PROVE  LET on == {r \in Requests : loc[r].file = f} IN
                      /\ \A r \in on : Len(loc[r].got) <= loc[r].total
                            /\ \A i, j \in DOMAIN loc[r].got : i < j => loc[r].got[i] < loc[r].got[j]
                      /\ UNION {Reactor!ToSet(loc[r].got) : r \in on} = 0..mem.pos[f] - 1
                      /\ \A r, q \in on : r # q => Reactor!ToSet(loc[r].got) \cap Reactor!ToSet(loc[q].got) = {}
    BY DEF Reactor!BytesOnce
  <2> DEFINE on == {r \in Requests : loc[r].file = f}
  <2>1. UNION {Given(r) : r \in on} = 0..mem.pos[f] - 1
    BY DEF BytesApart
  <2>2. UNION {Reactor!ToSet(loc[r].got) : r \in on} = 0..mem.pos[f] - 1
    BY <2>1 DEF Given
  <2>3. \A r \in Requests :
           /\ Len(loc[r].got) <= loc[r].total
           /\ \A i, j \in DOMAIN loc[r].got : i < j => loc[r].got[i] < loc[r].got[j]
    BY DEF BytesApart
  <2>4. \A r, q \in on : r # q => Given(r) \cap Given(q) = {}
    BY DEF BytesApart
  <2>5. \A r, q \in on : r # q => Reactor!ToSet(loc[r].got) \cap Reactor!ToSet(loc[q].got) = {}
    BY <2>4 DEF Given
  <2>6. \A r \in on : r \in Requests
    OBVIOUS
  <2> HIDE DEF on
  <2> QED
    BY <2>2, <2>3, <2>5, <2>6 DEF on
<1> QED
  BY <1>1, <1>2

----------------------------------------------------------------------------
(* The dispatcher *)

\* given, and then the elements of s from it on, are the elements of to.
Rest(s, it, given, to) ==
    /\ it \in 1..Len(s) + 1
    /\ Len(to) = Len(given) + Len(s) + 1 - it
    /\ \A i \in 1..Len(given) : given[i] = to[i]
    /\ \A j \in it..Len(s) : s[j] = to[Len(given) + j + 1 - it]

\* Nothing is given at first.
LEMMA RestStarts ==
  ASSUME NEW T, NEW s \in Seq(T)
  PROVE  Rest(s, 1, <<>>, s)
<1>1. Len(s) \in Nat /\ Len(<<>>) = 0
  BY LenProperties
<1> QED
  BY <1>1 DEF Rest

\* One element is given, and the iterator moves on.
LEMMA RestMoves ==
  ASSUME NEW T, NEW s \in Seq(T), NEW given \in Seq(T), NEW to \in Seq(T), NEW it \in Nat,
         Rest(s, it, given, to), it <= Len(s)
  PROVE  Rest(s, it + 1, Append(given, s[it]), to)
<1> DEFINE g == Append(given, s[it])
<1>1. Len(s) \in Nat /\ Len(given) \in Nat /\ Len(to) \in Nat
  BY LenProperties
<1>2. it \in 1..Len(s) /\ s[it] \in T
  BY <1>1, ElementOfSeq DEF Rest
<1>3. /\ Len(g) = Len(given) + 1 /\ g[Len(given) + 1] = s[it]
      /\ \A i \in 1..Len(given) : g[i] = given[i]
  BY <1>2, AppendProperties
<1> HIDE DEF g
<1>4. s[it] = to[Len(given) + 1]
  <2>1. s[it] = to[Len(given) + it + 1 - it]
    BY <1>1, <1>2 DEF Rest
  <2> QED
    BY <1>1, <2>1
<1>5. \A i \in 1..Len(g) : g[i] = to[i]
  <2>1. \A i \in 1..Len(g) : i \in 1..Len(given) \/ i = Len(given) + 1
    BY <1>1, <1>3
  <2> QED
    BY <1>3, <1>4, <2>1 DEF Rest
<1>6. \A j \in it + 1..Len(s) : s[j] = to[Len(g) + j + 1 - (it + 1)]
  <2> SUFFICES ASSUME NEW j \in it + 1..Len(s) PROVE s[j] = to[Len(g) + j + 1 - (it + 1)]
    OBVIOUS
  <2>1. j \in it..Len(s) /\ Len(g) + j + 1 - (it + 1) = Len(given) + j + 1 - it
    BY <1>1, <1>3
  <2> QED
    BY <2>1 DEF Rest
<1>7. it + 1 \in 1..Len(s) + 1 /\ Len(to) = Len(g) + Len(s) + 1 - (it + 1)
  BY <1>1, <1>3 DEF Rest
<1> QED
  BY <1>5, <1>6, <1>7 DEF Rest, g

\* The element that was given last is erased, and the iterator is on the next one.
LEMMA RestErases ==
  ASSUME NEW T, NEW s \in Seq(T), NEW given \in Seq(T), NEW to \in Seq(T), NEW it \in 1..Len(s),
         Rest(s, it + 1, given, to)
  PROVE  Rest(Reactor!RemoveAt(s, it), it, given, to)
<1> DEFINE l == Reactor!RemoveAt(s, it)
<1>1. Len(s) \in Nat /\ Len(given) \in Nat /\ Len(to) \in Nat
  BY LenProperties
<1>2. Len(l) = Len(s) - 1 /\ \A j \in 1..Len(s) - 1 : l[j] = IF j < it THEN s[j] ELSE s[j + 1]
  BY <1>1, Removed
<1> HIDE DEF l
<1>3. it \in 1..Len(l) + 1 /\ Len(to) = Len(given) + Len(l) + 1 - it
  <2>1. Len(to) = Len(given) + Len(s) + 1 - (it + 1)
    BY DEF Rest
  <2> QED
    BY <1>1, <1>2, <2>1
<1>4. ASSUME NEW j \in it..Len(l) PROVE l[j] = to[Len(given) + j + 1 - it]
  <2>1. j \in 1..Len(s) - 1 /\ ~(j < it) /\ j + 1 \in it + 1..Len(s)
        /\ Len(given) + (j + 1) + 1 - (it + 1) = Len(given) + j + 1 - it
    BY <1>1, <1>2
  <2>2. l[j] = s[j + 1]
    BY <1>2, <2>1
  <2>3. s[j + 1] = to[Len(given) + (j + 1) + 1 - (it + 1)]
    BY <2>1 DEF Rest
  <2> QED
    BY <2>1, <2>2, <2>3
<1> QED
  BY <1>3, <1>4 DEF Rest, l

\* At any time what was given is a prefix, and at the end it is all.
LEMMA RestEnds ==
  ASSUME NEW T, NEW s \in Seq(T), NEW given \in Seq(T), NEW to \in Seq(T), NEW it \in Nat,
         Rest(s, it, given, to)
  PROVE  Dispatcher!IsPrefix(given, to) /\ (it > Len(s) => given = to)
<1>1. Len(s) \in Nat /\ Len(given) \in Nat /\ Len(to) \in Nat
  BY LenProperties
<1>2. Len(given) <= Len(to) /\ (it > Len(s) => Len(given) = Len(to))
  BY <1>1 DEF Rest
<1>3. \A i \in 1..Len(given) : given[i] = to[i]
  BY DEF Rest
<1>4. SubSeq(given, 1, Len(given)) = SubSeq(to, 1, Len(given))
  <2> DEFINE a == SubSeq(given, 1, Len(given))
             b == SubSeq(to, 1, Len(given))
  <2>1. /\ a \in Seq(T) /\ Len(a) = Len(given)
        /\ \A i \in 1..Len(given) : a[i] = given[i]
    BY <1>1, ElementOfSeq, SubSeqProperties
  <2>2. /\ b \in Seq(T) /\ Len(b) = Len(given)
        /\ \A i \in 1..Len(given) : b[i] = to[i]
    <3>1. \A i \in 1..Len(given) : to[i] \in T
      BY <1>1, <1>2, ElementOfSeq
    <3> QED
      BY <1>1, <3>1, SubSeqProperties
  <2> HIDE DEF a, b
  <2>3. \A i \in 1..Len(a) : a[i] = b[i]
    BY <1>3, <2>1, <2>2
  <2>4. a = b
    BY <2>1, <2>2, <2>3, SeqEqual
  <2> QED
    BY <2>4 DEF a, b
<1>5. Dispatcher!IsPrefix(given, to)
  BY <1>2, <1>4 DEF Dispatcher!IsPrefix
<1>6. it > Len(s) => given = to
  BY <1>2, <1>3, SeqEqual
<1> QED
  BY <1>5, <1>6

\* The first of the elements equal to o is removed, in a list that holds each once.
LEMMA FirstRemoved ==
  ASSUME NEW T, NEW s \in Seq(T), Reactor!IsInjective(s), NEW o
  PROVE  LET l == Dispatcher!RemoveFirst(s, o) IN
         l \in Seq(T) /\ Reactor!IsInjective(l) /\ Reactor!ToSet(l) = Reactor!ToSet(s) \ {o}
<1>1. DOMAIN s = 1..Len(s) /\ Len(s) \in Nat
  BY LenProperties
<1>2. CASE \E i \in 1..Len(s) : s[i] = o
  <2>1. PICK i \in 1..Len(s) : s[i] = o
    BY <1>2
  <2>2. {j \in 1..Len(s) : s[j] = o} = {i}
    BY <1>1, <2>1 DEF Reactor!IsInjective
  <2>3. Dispatcher!SelectInSeq(s, LAMBDA v : v = o) = i
    BY <1>1, <2>1, <2>2 DEF Dispatcher!SelectInSeq, Dispatcher!Min
  <2>4. Dispatcher!RemoveFirst(s, o) = Reactor!RemoveAt(s, i)
    BY <2>1, <2>3 DEF Dispatcher!RemoveFirst, Dispatcher!RemoveAt, Reactor!RemoveAt
  <2> QED
    BY <2>1, <2>4, Erased
<1>3. CASE ~\E i \in 1..Len(s) : s[i] = o
  BY <1>1, <1>3 DEF Dispatcher!RemoveFirst, Reactor!ToSet
<1> QED
  BY <1>2, <1>3

ObsMem    == [subs : [Msgs -> Seq(Observers)], types : [Observers -> SUBSET Msgs], connected : SUBSET Observers,
              dropped : [Observers -> SUBSET Msgs], torn : SUBSET Msgs, crossed : SUBSET Shared]
ObsPcs    == {"idle", "connect", "subscribe", "unsubscribe", "disconnect", "make", "deliver", "erase"}
ObsLocals == [obs : SUBSET Observers, msgs : SUBSET Msgs, msg : SUBSET Msgs, it : Nat,
              to : Seq(Observers), given : Seq(Observers)]

ObsTyped == mem \in ObsMem /\ at \in [Dispatchers -> ObsPcs] /\ loc \in [Dispatchers -> ObsLocals]

InList(o, m) == o \in Reactor!ToSet(mem.subs[m])

\* MapsAgree, without counting: the list of a type holds each of its observers once.
MapsKnown ==
    /\ \A m \in Msgs : Reactor!IsInjective(mem.subs[m])
    /\ \A o \in Observers : mem.dropped[o] \subseteq mem.types[o]
    /\ \A o \in Observers, m \in Msgs \ mem.torn : InList(o, m) <=> m \in mem.types[o] \ mem.dropped[o]
    /\ \A m \in mem.torn : mem.subs[m] = <<>>

\* Thread t is at one of these places with observer o.
Calls(t, o, places) == at[t] \in places /\ loc[t].obs = {o}

\* A shared observer whose adds and removals have not crossed: nobody undoes what
\* another one is about to do.
Handled(o) ==
    /\ \A t, u \in Dispatchers : ~(Calls(t, o, Dispatcher!Adding) /\ Calls(u, o, Dispatcher!Removing))
    /\ \A t \in Dispatchers : Calls(t, o, {"subscribe"}) => o \in mem.connected
    /\ \A t \in Dispatchers : Calls(t, o, {"disconnect"}) => \A m \in Msgs : ~InList(o, m)
    /\ \A m \in Msgs : InList(o, m) => o \in mem.connected

\* An add and a removal know their observer.
Named(t) ==
    at[t] \in Dispatcher!Adding \cup Dispatcher!Removing =>
        \E o \in Observers : loc[t].obs = {o} /\ (at[t] \in {"connect", "disconnect"} => o \in Shared)

\* What a dispatch has called and has still to call is what it found; one that is
\* about to erase is on the observer it called last.
InTurn(t, m) ==
    LET s == mem.subs[m]
    IN  IF at[t] = "erase"
        THEN /\ loc[t].it \in 1..Len(s) /\ loc[t].given # <<>>
             /\ s[loc[t].it] = loc[t].given[Len(loc[t].given)]
             /\ Rest(s, loc[t].it + 1, loc[t].given, loc[t].to)
        ELSE Rest(s, loc[t].it, loc[t].given, loc[t].to)
Calling(t) ==
    at[t] \in {"make", "deliver", "erase"} =>
        \E m \in Msgs : loc[t].msg = {m} /\ (m \notin mem.torn => InTurn(t, m))

ObsInv ==
    /\ ObsTyped /\ MapsKnown
    /\ \A o \in Shared \ mem.crossed : Handled(o)
    /\ \A t \in Dispatchers : Named(t) /\ Calling(t)

\* The empty list holds nothing, and is the only such list.
LEMMA RangeOfEmpty ==
  /\ Reactor!ToSet(<<>>) = {} /\ Reactor!IsInjective(<<>>)
  /\ \A T : \A s \in Seq(T) : Reactor!ToSet(s) = {} => s = <<>>
<1>1. Reactor!ToSet(<<>>) = {} /\ Reactor!IsInjective(<<>>)
  BY DEF Reactor!ToSet, Reactor!IsInjective
<1>2. ASSUME NEW T, NEW s \in Seq(T), Reactor!ToSet(s) = {} PROVE s = <<>>
  <2>1. DOMAIN s = 1..Len(s) /\ Len(s) \in Nat
    BY LenProperties
  <2>2. \A i \in 1..Len(s) : s[i] \in Reactor!ToSet(s)
    BY <2>1 DEF Reactor!ToSet
  <2>3. Len(s) = 0
    BY <1>2, <2>1, <2>2
  <2> QED
    BY <2>3, EmptySeq
<1> QED
  BY <1>1, <1>2

\* A thread takes a step, and the dispatches of others keep their lists, or these are torn.
LEMMA ObsOthers ==
  ASSUME ObsInv, NEW t \in Dispatchers, ObsTyped', MapsKnown',
         \A u \in Dispatchers \ {t} : at'[u] = at[u] /\ loc'[u] = loc[u],
         \A o \in Shared \ mem'.crossed : Handled(o)',
         Named(t)', Calling(t)',
         \A u \in Dispatcher!Dispatching \ {t}, m \in Msgs : loc[u].msg = {m} =>
            m \in mem'.torn \/ (m \notin mem.torn /\ mem'.subs[m] = mem.subs[m])
  PROVE  ObsInv'
<1>1. ASSUME NEW u \in Dispatchers \ {t} PROVE Named(u)'
  <2>1. Named(u)
    BY DEF ObsInv
  <2> QED
    BY <2>1 DEF Named
<1>2. ASSUME NEW u \in Dispatchers \ {t} PROVE Calling(u)'
  <2> SUFFICES ASSUME at[u] \in {"make", "deliver", "erase"}
               PROVE  \E m \in Msgs : loc[u].msg = {m} /\ (m \notin mem'.torn => InTurn(u, m)')
    BY DEF Calling
  <2>1. PICK m \in Msgs : loc[u].msg = {m} /\ (m \notin mem.torn => InTurn(u, m))
    BY DEF ObsInv, Calling
  <2>2. u \in Dispatcher!Dispatching \ {t}
    BY DEF Dispatcher!Dispatching
  <2>3. m \notin mem'.torn => m \notin mem.torn /\ mem'.subs[m] = mem.subs[m]
    BY <2>1, <2>2
  <2>4. m \notin mem'.torn => InTurn(u, m)'
    BY <2>1, <2>3 DEF InTurn
  <2> QED
    BY <2>1, <2>4
<1> QED
  BY <1>1, <1>2 DEF ObsInv

\* No observer is new to a list or to a call, and none is let go.
LEMMA HandledStays ==
  ASSUME ObsInv, NEW o \in Shared \ mem.crossed, o \in mem.connected => o \in mem'.connected,
         \A m \in Msgs : InList(o, m)' => InList(o, m),
         \A t \in Dispatchers :
            /\ Calls(t, o, Dispatcher!Adding)' => Calls(t, o, Dispatcher!Adding)
            /\ Calls(t, o, Dispatcher!Removing)' => Calls(t, o, Dispatcher!Removing)
            /\ Calls(t, o, {"subscribe"})' => Calls(t, o, {"subscribe"}) \/ o \in mem'.connected
            /\ Calls(t, o, {"disconnect"})' => Calls(t, o, {"disconnect"})
  PROVE  Handled(o)'
<1>1. Handled(o)
  BY DEF ObsInv
<1> QED
  BY <1>1 DEF Handled

\* A dispatch goes on: it adds and removes nothing.
LEMMA ObsGoesOn ==
  ASSUME ObsInv, NEW t \in Dispatchers, NEW l \in {"idle", "make", "deliver", "erase"}, NEW r \in ObsLocals,
         at[t] \in {"idle", "make", "deliver", "erase"},
         at' = [at EXCEPT ![t] = l], loc' = [loc EXCEPT ![t] = r],
         mem' \in ObsMem, MapsKnown', mem'.connected = mem.connected, mem'.crossed = mem.crossed,
         \A o \in Observers, m \in Msgs : InList(o, m)' => InList(o, m),
         Calling(t)', Dispatcher!ObserverAssumption,
         \A u \in Dispatcher!Dispatching \ {t}, m \in Msgs : loc[u].msg = {m} =>
            m \in mem'.torn \/ (m \notin mem.torn /\ mem'.subs[m] = mem.subs[m])
  PROVE  ObsInv'
<1>1. /\ at \in [Dispatchers -> ObsPcs] /\ loc \in [Dispatchers -> ObsLocals] /\ l \in ObsPcs
  BY DEF ObsInv, ObsTyped, ObsPcs
<1>2. /\ at' \in [Dispatchers -> ObsPcs] /\ loc' \in [Dispatchers -> ObsLocals] /\ at'[t] = l /\ loc'[t] = r
      /\ \A u \in Dispatchers \ {t} : at'[u] = at[u] /\ loc'[u] = loc[u]
  BY <1>1
<1>3. ObsTyped'
  BY <1>2 DEF ObsTyped
<1>4. Named(t)'
  BY <1>2 DEF Named, Dispatcher!Adding, Dispatcher!Removing
<1>5. ASSUME NEW o \in Shared \ mem'.crossed PROVE Handled(o)'
  <2>1. \A u \in Dispatchers :
            /\ Calls(u, o, Dispatcher!Adding)' => Calls(u, o, Dispatcher!Adding)
            /\ Calls(u, o, Dispatcher!Removing)' => Calls(u, o, Dispatcher!Removing)
            /\ Calls(u, o, {"subscribe"})' => Calls(u, o, {"subscribe"})
            /\ Calls(u, o, {"disconnect"})' => Calls(u, o, {"disconnect"})
    BY <1>2 DEF Calls, Dispatcher!Adding, Dispatcher!Removing
  <2>2. o \in Observers
    BY DEF Dispatcher!ObserverAssumption
  <2> QED
    BY <2>1, <2>2, HandledStays
<1> QED
  BY <1>2, <1>3, <1>4, <1>5, ObsOthers

\* The locals of a thread outside of a call.
LEMMA ObsNoLocals == Dispatcher!NoLocals \in ObsLocals
  BY DEF Dispatcher!NoLocals, ObsLocals

\* One local changes, and the others do not.
LEMMA ObsSets ==
  ASSUME NEW q \in ObsLocals
  PROVE  /\ \A v \in SUBSET Observers : LET r == [q EXCEPT !.obs = v] IN
            r \in ObsLocals /\ r.obs = v /\ r.msgs = q.msgs /\ r.msg = q.msg /\ r.it = q.it /\ r.to = q.to /\ r.given = q.given
         /\ \A v \in SUBSET Msgs : LET r == [q EXCEPT !.msgs = v] IN
            r \in ObsLocals /\ r.msgs = v /\ r.obs = q.obs /\ r.msg = q.msg /\ r.it = q.it /\ r.to = q.to /\ r.given = q.given
         /\ \A v \in SUBSET Msgs : LET r == [q EXCEPT !.msg = v] IN
            r \in ObsLocals /\ r.msg = v /\ r.obs = q.obs /\ r.msgs = q.msgs /\ r.it = q.it /\ r.to = q.to /\ r.given = q.given
         /\ \A v \in Nat : LET r == [q EXCEPT !.it = v] IN
            r \in ObsLocals /\ r.it = v /\ r.obs = q.obs /\ r.msgs = q.msgs /\ r.msg = q.msg /\ r.to = q.to /\ r.given = q.given
         /\ \A v \in Seq(Observers) : LET r == [q EXCEPT !.to = v] IN
            r \in ObsLocals /\ r.to = v /\ r.obs = q.obs /\ r.msgs = q.msgs /\ r.msg = q.msg /\ r.it = q.it /\ r.given = q.given
         /\ \A v \in Seq(Observers) : LET r == [q EXCEPT !.given = v] IN
            r \in ObsLocals /\ r.given = v /\ r.obs = q.obs /\ r.msgs = q.msgs /\ r.msg = q.msg /\ r.it = q.it /\ r.to = q.to
<1>1. \A v \in SUBSET Observers : LET r == [q EXCEPT !.obs = v] IN
       r \in ObsLocals /\ r.obs = v /\ r.msgs = q.msgs /\ r.msg = q.msg /\ r.it = q.it /\ r.to = q.to /\ r.given = q.given
  BY DEF ObsLocals
<1>2. \A v \in SUBSET Msgs : LET r == [q EXCEPT !.msgs = v] IN
       r \in ObsLocals /\ r.msgs = v /\ r.obs = q.obs /\ r.msg = q.msg /\ r.it = q.it /\ r.to = q.to /\ r.given = q.given
  BY DEF ObsLocals
<1>3. \A v \in SUBSET Msgs : LET r == [q EXCEPT !.msg = v] IN
       r \in ObsLocals /\ r.msg = v /\ r.obs = q.obs /\ r.msgs = q.msgs /\ r.it = q.it /\ r.to = q.to /\ r.given = q.given
  BY DEF ObsLocals
<1>4. \A v \in Nat : LET r == [q EXCEPT !.it = v] IN
       r \in ObsLocals /\ r.it = v /\ r.obs = q.obs /\ r.msgs = q.msgs /\ r.msg = q.msg /\ r.to = q.to /\ r.given = q.given
  BY DEF ObsLocals
<1>5. \A v \in Seq(Observers) : LET r == [q EXCEPT !.to = v] IN
       r \in ObsLocals /\ r.to = v /\ r.obs = q.obs /\ r.msgs = q.msgs /\ r.msg = q.msg /\ r.it = q.it /\ r.given = q.given
  BY DEF ObsLocals
<1>6. \A v \in Seq(Observers) : LET r == [q EXCEPT !.given = v] IN
       r \in ObsLocals /\ r.given = v /\ r.obs = q.obs /\ r.msgs = q.msgs /\ r.msg = q.msg /\ r.it = q.it /\ r.to = q.to
  BY DEF ObsLocals
<1> QED
  BY <1>1, <1>2, <1>3, <1>4, <1>5, <1>6

\* A call is for one observer.
LEMMA ObsNames ==
  ASSUME NEW o \in Observers, NEW q \in ObsLocals
  PROVE  [q EXCEPT !.obs = {o}] \in ObsLocals /\ [q EXCEPT !.obs = {o}].obs = {o}
<1> DEFINE v == {o}
<1>1. v \in SUBSET Observers
  OBVIOUS
<1> HIDE DEF v
<1>2. [q EXCEPT !.obs = v] \in ObsLocals /\ [q EXCEPT !.obs = v].obs = v
  BY <1>1, ObsSets
<1> QED
  BY <1>2 DEF v

\* An add begins, or a removal: beside one of the other kind the two cross.
LEMMA ObsBegins ==
  ASSUME Dispatcher!ObserverAssumption, ObsInv, NEW t \in Dispatchers, NEW o \in Observers,
         NEW l \in ObsPcs, NEW r \in ObsLocals, at[t] = "idle", r.obs = {o},
         at' = [at EXCEPT ![t] = l], loc' = [loc EXCEPT ![t] = r],
         \/ /\ l = (IF o \in Shared THEN "connect" ELSE "subscribe")
            /\ mem' = [mem EXCEPT !.crossed = @ \cup Dispatcher!Beside(o, Dispatcher!Removing)]
         \/ /\ l = "unsubscribe"
            /\ mem' = [mem EXCEPT !.crossed = @ \cup Dispatcher!Beside(o, Dispatcher!Adding)]
  PROVE  ObsInv'
<1>1. at \in [Dispatchers -> ObsPcs] /\ loc \in [Dispatchers -> ObsLocals] /\ mem \in ObsMem
  BY DEF ObsInv, ObsTyped
<1>2. \E c \in SUBSET Shared :
        /\ mem' = [mem EXCEPT !.crossed = mem.crossed \cup c]
        /\ \/ /\ l = (IF o \in Shared THEN "connect" ELSE "subscribe")
              /\ c = Dispatcher!Beside(o, Dispatcher!Removing)
           \/ l = "unsubscribe" /\ c = Dispatcher!Beside(o, Dispatcher!Adding)
  <2>1. \A places : Dispatcher!Beside(o, places) \in SUBSET Shared
    BY DEF Dispatcher!Beside
  <2> QED
    BY <1>1, <2>1 DEF ObsMem
<1>3. PICK c \in SUBSET Shared :
        /\ mem' = [mem EXCEPT !.crossed = mem.crossed \cup c]
        /\ \/ /\ l = (IF o \in Shared THEN "connect" ELSE "subscribe")
              /\ c = Dispatcher!Beside(o, Dispatcher!Removing)
           \/ l = "unsubscribe" /\ c = Dispatcher!Beside(o, Dispatcher!Adding)
  BY <1>2
<1>4. /\ mem' \in ObsMem /\ mem'.crossed = mem.crossed \cup c
      /\ mem'.subs = mem.subs /\ mem'.types = mem.types /\ mem'.torn = mem.torn
      /\ mem'.dropped = mem.dropped /\ mem'.connected = mem.connected
  BY <1>1, <1>3 DEF ObsMem
<1>5. /\ at' \in [Dispatchers -> ObsPcs] /\ loc' \in [Dispatchers -> ObsLocals] /\ at'[t] = l /\ loc'[t] = r
      /\ \A u \in Dispatchers \ {t} : at'[u] = at[u] /\ loc'[u] = loc[u]
  BY <1>1
<1>6. ObsTyped' /\ MapsKnown' /\ \A p, m : InList(p, m)' <=> InList(p, m)
  BY <1>4, <1>5 DEF ObsInv, ObsTyped, MapsKnown, InList
<1>7. Named(t)' /\ Calling(t)'
  BY <1>3, <1>5 DEF Named, Calling, Dispatcher!Adding, Dispatcher!Removing
<1>8. \A p : Calls(t, p, Dispatcher!Adding)' \/ Calls(t, p, Dispatcher!Removing)' => p = o
  BY <1>5 DEF Calls
<1>9. \A u \in Dispatchers \ {t} : \A p, places : Calls(u, p, places)' <=> Calls(u, p, places)
  BY <1>5 DEF Calls
<1>10. ASSUME NEW p \in Shared \ mem'.crossed PROVE Handled(p)'
  <2>1. Handled(p) /\ p \in Shared \ mem.crossed
    BY <1>4 DEF ObsInv
  <2>2. CASE p # o
    <3>1. ~Calls(t, p, Dispatcher!Adding)' /\ ~Calls(t, p, Dispatcher!Removing)'
      BY <1>8, <2>2
    <3>2. ~Calls(t, p, {"subscribe"})' /\ ~Calls(t, p, {"disconnect"})'
      BY <3>1 DEF Calls, Dispatcher!Adding, Dispatcher!Removing
    <3> QED
      BY <1>4, <1>6, <1>9, <2>1, <3>1, <3>2 DEF Handled
  <2>3. CASE p = o
    <3>1. at'[t] \in {"connect", "unsubscribe"}
      BY <1>3, <1>5, <2>3
    <3>2. ~Calls(t, p, {"subscribe"})' /\ ~Calls(t, p, {"disconnect"})'
      BY <3>1 DEF Calls
    <3>3. \A u, v \in Dispatchers :
            ~(Calls(u, p, Dispatcher!Adding)' /\ Calls(v, p, Dispatcher!Removing)')
      <4>1. CASE l = "unsubscribe" /\ c = Dispatcher!Beside(o, Dispatcher!Adding)
        <5>1. \A u \in Dispatchers : ~Calls(u, o, Dispatcher!Adding)
          BY <1>4, <2>3, <4>1 DEF Dispatcher!Beside, Calls
        <5>2. ~Calls(t, o, Dispatcher!Adding)'
          BY <1>5, <4>1 DEF Calls, Dispatcher!Adding
        <5> QED
          BY <1>9, <2>3, <5>1, <5>2
      <4>2. CASE l = "connect" /\ c = Dispatcher!Beside(o, Dispatcher!Removing)
        <5>1. \A u \in Dispatchers : ~Calls(u, o, Dispatcher!Removing)
          BY <1>4, <2>3, <4>2 DEF Dispatcher!Beside, Calls
        <5>2. ~Calls(t, o, Dispatcher!Removing)'
          BY <1>5, <4>2 DEF Calls, Dispatcher!Removing
        <5> QED
          BY <1>9, <2>3, <5>1, <5>2
      <4> QED
        BY <1>3, <2>3, <4>1, <4>2
    <3> QED
      BY <1>4, <1>6, <1>9, <2>1, <3>2, <3>3 DEF Handled
  <2> QED
    BY <2>2, <2>3
<1> QED
  BY <1>4, <1>5, <1>6, <1>7, <1>10, ObsOthers

\* The calls that begin.
LEMMA ObsCalls ==
  ASSUME Dispatcher!ObserverAssumption, ObsInv, NEW t \in Dispatchers,
         \/ \E o \in Observers :
               (\E msgs \in (SUBSET Msgs) \ {{}} : Dispatcher!Add(t, o, msgs)) \/ Dispatcher!RemoveAll(t, o)
         \/ \E m \in Msgs, lazy \in BOOLEAN : Dispatcher!Dispatch(t, m, lazy)
  PROVE  ObsInv'
<1> USE DEF Dispatcher!Goto
<1>1. at \in [Dispatchers -> ObsPcs] /\ loc \in [Dispatchers -> ObsLocals] /\ mem \in ObsMem
  BY DEF ObsInv, ObsTyped
<1>2. CASE \E o \in Observers : \E msgs \in SUBSET Msgs : Dispatcher!Add(t, o, msgs)
  <2>1. PICK o \in Observers, msgs \in SUBSET Msgs : Dispatcher!Add(t, o, msgs)
    BY <1>2
  <2> DEFINE q == [Dispatcher!NoLocals EXCEPT !.obs = {o}]
             r == [q EXCEPT !.msgs = msgs]
             l == Dispatcher!FirstStep(o)
  <2>2. r \in ObsLocals /\ r.obs = {o}
    <3>1. q \in ObsLocals /\ q.obs = {o}
      BY ObsNoLocals, ObsNames
    <3> HIDE DEF q
    <3> QED
      BY <3>1, ObsSets
  <2>3. l \in ObsPcs /\ l = IF o \in Shared THEN "connect" ELSE "subscribe"
    BY DEF Dispatcher!FirstStep, ObsPcs
  <2>4. /\ mem' = [mem EXCEPT !.crossed = @ \cup Dispatcher!Beside(o, Dispatcher!Removing)]
        /\ at[t] = "idle" /\ at' = [at EXCEPT ![t] = l] /\ loc' = [loc EXCEPT ![t] = r]
    BY <2>1, Zenon DEF Dispatcher!Add
  <2> HIDE DEF q, r, l
  <2> QED
    BY <2>2, <2>3, <2>4, ObsBegins
<1>3. CASE \E o \in Observers : Dispatcher!RemoveAll(t, o)
  <2>1. PICK o \in Observers : Dispatcher!RemoveAll(t, o)
    BY <1>3
  <2> DEFINE r == [Dispatcher!NoLocals EXCEPT !.obs = {o}]
  <2>2. r \in ObsLocals /\ r.obs = {o} /\ "unsubscribe" \in ObsPcs
    BY ObsNoLocals, ObsNames DEF ObsPcs
  <2>3. /\ mem' = [mem EXCEPT !.crossed = @ \cup Dispatcher!Beside(o, Dispatcher!Adding)]
        /\ at[t] = "idle" /\ at' = [at EXCEPT ![t] = "unsubscribe"] /\ loc' = [loc EXCEPT ![t] = r]
    BY <2>1, Zenon DEF Dispatcher!RemoveAll
  <2> HIDE DEF r
  <2> QED
    BY <2>2, <2>3, ObsBegins
<1>4. CASE \E m \in Msgs, lazy \in BOOLEAN : Dispatcher!Dispatch(t, m, lazy)
  <2>1. PICK m \in Msgs, lazy \in BOOLEAN : Dispatcher!Dispatch(t, m, lazy)
    BY <1>4
  <2> DEFINE s == mem.subs[m]
             q == [Dispatcher!NoLocals EXCEPT !.msg = {m}]
             r == [q EXCEPT !.to = s]
             l == IF lazy THEN "make" ELSE "deliver"
  <2>2. s \in Seq(Observers)
    BY <1>1 DEF ObsMem
  <2>3. Rest(s, 1, <<>>, s)
    BY <2>2, RestStarts
  <2>4. /\ r \in ObsLocals /\ r.msg = {m} /\ r.it = 1 /\ r.given = <<>> /\ r.to = s
        /\ l \in {"make", "deliver"}
    <3>1. Dispatcher!NoLocals.it = 1 /\ Dispatcher!NoLocals.given = <<>>
      BY DEF Dispatcher!NoLocals
    <3>2. q \in ObsLocals /\ q.msg = {m} /\ q.it = 1 /\ q.given = <<>>
      BY <3>1, ObsNoLocals, ObsSets
    <3> HIDE DEF q, s
    <3> QED
      BY <2>2, <3>2, ObsSets
  <2>5. /\ mem' = mem /\ at[t] = "idle" /\ at' = [at EXCEPT ![t] = l] /\ loc' = [loc EXCEPT ![t] = r]
    BY <2>1, Zenon DEF Dispatcher!Dispatch
  <2> HIDE DEF r, l
  <2>6. at'[t] = l /\ loc'[t] = r
    BY <1>1, <2>5
  <2>7. Calling(t)'
    BY <2>3, <2>4, <2>5, <2>6 DEF Calling, InTurn
  <2>8. MapsKnown' /\ \A p, k : InList(p, k)' <=> InList(p, k)
    BY <2>5 DEF ObsInv, MapsKnown, InList
  <2> QED
    BY <1>1, <2>4, <2>5, <2>7, <2>8, ObsGoesOn
<1> QED
  BY <1>2, <1>3, <1>4

\* The steps of a dispatch that leave the maps alone.
LEMMA ObsDispatches ==
  ASSUME Dispatcher!ObserverAssumption, ObsInv, NEW t \in Dispatchers,
         \/ Dispatcher!MakeMessage(t) \/ Dispatcher!DispatchEnds(t) \/ Dispatcher!DeliverTorn(t)
         \/ Dispatcher!Deliver(t)
  PROVE  ObsInv'
<1> USE DEF Dispatcher!Goto
<1>1. /\ at \in [Dispatchers -> ObsPcs] /\ loc \in [Dispatchers -> ObsLocals] /\ mem \in ObsMem
      /\ loc[t] \in ObsLocals
  BY DEF ObsInv, ObsTyped
<1>2. mem' = mem
  BY DEF Dispatcher!MakeMessage, Dispatcher!DispatchEnds, Dispatcher!DeliverTorn, Dispatcher!Deliver
<1>3. MapsKnown' /\ \A p, k : InList(p, k)' <=> InList(p, k)
  BY <1>2 DEF ObsInv, MapsKnown, InList
<1> HIDE DEF Dispatcher!Goto
<1>4. SUFFICES \E l \in {"idle", "make", "deliver", "erase"}, r \in ObsLocals :
          /\ at[t] \in {"idle", "make", "deliver", "erase"}
          /\ at' = [at EXCEPT ![t] = l] /\ loc' = [loc EXCEPT ![t] = r] /\ Calling(t)'
  BY <1>1, <1>2, <1>3, ObsGoesOn
<1> USE DEF Dispatcher!Goto
<1>5. CASE Dispatcher!MakeMessage(t)
  <2>1. /\ at[t] = "make" /\ at' = [at EXCEPT ![t] = "deliver"] /\ loc' = [loc EXCEPT ![t] = loc[t]]
        /\ at'[t] = "deliver" /\ loc'[t] = loc[t]
    BY <1>1, <1>5 DEF Dispatcher!MakeMessage
  <2>2. Calling(t)'
    BY <1>2, <2>1 DEF ObsInv, Calling, InTurn
  <2> QED
    BY <1>1, <2>1, <2>2
<1>6. CASE Dispatcher!DispatchEnds(t)
  <2>1. /\ at[t] = "deliver" /\ at' = [at EXCEPT ![t] = "idle"] /\ at'[t] = "idle"
        /\ loc' = [loc EXCEPT ![t] = Dispatcher!NoLocals]
    BY <1>1, <1>6 DEF Dispatcher!DispatchEnds, Dispatcher!Return
  <2>2. Calling(t)'
    BY <2>1 DEF Calling
  <2> QED
    BY <2>1, <2>2, ObsNoLocals
<1>7. CASE Dispatcher!DeliverTorn(t)
  <2>1. \E l \in {"deliver", "erase"} :
           /\ at[t] \in {"deliver", "erase"} /\ at' = [at EXCEPT ![t] = l] /\ loc' = [loc EXCEPT ![t] = loc[t]]
    BY <1>1, <1>7 DEF Dispatcher!DeliverTorn
  <2>2. PICK l \in {"deliver", "erase"} :
           /\ at[t] \in {"deliver", "erase"} /\ at' = [at EXCEPT ![t] = l] /\ loc' = [loc EXCEPT ![t] = loc[t]]
    BY <2>1
  <2>3. loc'[t] = loc[t] /\ loc[t].msg \subseteq mem.torn
    BY <1>1, <1>7, <2>2 DEF Dispatcher!DeliverTorn, Dispatcher!Torn
  <2>4. Calling(t)'
    BY <1>2, <2>2, <2>3 DEF ObsInv, Calling
  <2> QED
    BY <1>1, <2>2, <2>4
<1>8. CASE Dispatcher!Deliver(t)
  <2>1. at[t] = "deliver" /\ ~(loc[t].msg \subseteq mem.torn) /\ loc[t].it <= Len(Dispatcher!Subs(t))
    BY <1>8 DEF Dispatcher!Deliver, Dispatcher!Torn
  <2>2. PICK m \in Msgs : loc[t].msg = {m} /\ m \notin mem.torn /\ InTurn(t, m)
    BY <2>1 DEF ObsInv, Calling
  <2> DEFINE s == mem.subs[m]
             it == loc[t].it
             g  == Append(loc[t].given, s[it])
  <2>3. Dispatcher!Subs(t) = s
    BY <2>2 DEF Dispatcher!Subs
  <2>4. /\ s \in Seq(Observers) /\ it \in Nat /\ it <= Len(s)
        /\ loc[t].given \in Seq(Observers) /\ loc[t].to \in Seq(Observers)
        /\ Rest(s, it, loc[t].given, loc[t].to)
    BY <1>1, <2>1, <2>2, <2>3 DEF ObsMem, ObsLocals, InTurn
  <2>5. it \in 1..Len(s) /\ s[it] \in Observers
    <3>1. it \in 1..Len(s)
      BY <2>4, LenProperties DEF Rest
    <3> QED
      BY <2>4, <3>1, ElementOfSeq
  <2>6. g \in Seq(Observers) /\ Len(g) = Len(loc[t].given) + 1 /\ g[Len(g)] = s[it] /\ g # <<>>
    <3>1. g \in Seq(Observers) /\ Len(g) = Len(loc[t].given) + 1 /\ g[Len(loc[t].given) + 1] = s[it]
      BY <2>4, <2>5, AppendProperties
    <3>2. Len(<<>>) = 0 /\ Len(loc[t].given) \in Nat
      BY <2>4, LenProperties
    <3> HIDE DEF g
    <3> QED
      BY <3>1, <3>2
  <2>7. Rest(s, it + 1, g, loc[t].to)
    BY <2>4, RestMoves
  <2>8. CASE loc' = [loc EXCEPT ![t].it = @ + 1, ![t].given = g] /\ at' = at
    <3> DEFINE r == [loc[t] EXCEPT !.it = it + 1, !.given = g]
    <3>1. loc' = [loc EXCEPT ![t] = r] /\ at' = [at EXCEPT ![t] = "deliver"]
      <4> HIDE DEF g
      <4> QED
        BY <1>1, <2>1, <2>8
    <3>2. r \in ObsLocals /\ r.it = it + 1 /\ r.given = g /\ r.to = loc[t].to /\ r.msg = {m}
      <4> HIDE DEF g
      <4>1. it + 1 \in Nat
        BY <2>4
      <4> DEFINE q == [loc[t] EXCEPT !.it = it + 1]
      <4>2. q \in ObsLocals /\ q.it = it + 1 /\ q.to = loc[t].to /\ q.msg = {m}
        BY <1>1, <2>2, <4>1, ObsSets
      <4>3. r = [q EXCEPT !.given = g]
        OBVIOUS
      <4> HIDE DEF q, r
      <4> QED
        BY <2>6, <4>2, <4>3, ObsSets
    <3> HIDE DEF r, g
    <3>3. loc'[t] = r /\ at'[t] = "deliver"
      BY <1>1, <3>1
    <3>4. Calling(t)'
      BY <1>2, <2>7, <3>2, <3>3 DEF Calling, InTurn
    <3> QED
      BY <2>1, <3>1, <3>2, <3>4
  <2>9. CASE loc' = [loc EXCEPT ![t].given = g] /\ at' = [at EXCEPT ![t] = "erase"]
    <3> DEFINE r == [loc[t] EXCEPT !.given = g]
    <3>1. loc' = [loc EXCEPT ![t] = r]
      <4> HIDE DEF g
      <4> QED
        BY <1>1, <2>9
    <3>2. r \in ObsLocals /\ r.it = it /\ r.given = g /\ r.to = loc[t].to /\ r.msg = {m}
      <4> HIDE DEF g
      <4> QED
        BY <1>1, <2>2, <2>6 DEF ObsLocals
    <3> HIDE DEF r, g
    <3>3. loc'[t] = r /\ at'[t] = "erase"
      BY <1>1, <2>9, <3>1
    <3>4. InTurn(t, m)'
      BY <1>2, <2>5, <2>6, <2>7, <3>2, <3>3 DEF InTurn
    <3>5. Calling(t)'
      BY <3>2, <3>3, <3>4 DEF Calling
    <3> QED
      BY <2>1, <2>9, <3>1, <3>2, <3>5
  <2> QED
    BY <1>8, <2>3, <2>8, <2>9 DEF Dispatcher!Deliver
<1> QED
  BY <1>5, <1>6, <1>7, <1>8

\* Under the unique lock no dispatch is under way.
LEMMA ObsUnique ==
  ASSUME ObsInv, NEW t \in Dispatchers, Dispatcher!Dispatching = {}, at[t] \in ObsPcs,
         ObsTyped', MapsKnown', \A u \in Dispatchers \ {t} : at'[u] = at[u] /\ loc'[u] = loc[u],
         \A o \in Shared \ mem'.crossed : Handled(o)',
         Named(t)', at'[t] \notin {"make", "deliver", "erase"}
  PROVE  ObsInv'
<1>1. Calling(t)'
  BY DEF Calling
<1> QED
  BY <1>1, ObsOthers

\* connect and disconnect of an observer given by shared_ptr.
LEMMA ObsConnects ==
  ASSUME Dispatcher!ObserverAssumption, ObsInv, NEW t \in Dispatchers,
         Dispatcher!Connect(t) \/ Dispatcher!Disconnect(t)
  PROVE  ObsInv'
<1>1. /\ at \in [Dispatchers -> ObsPcs] /\ loc \in [Dispatchers -> ObsLocals] /\ mem \in ObsMem
      /\ Dispatcher!Dispatching = {} /\ at[t] \in {"connect", "disconnect"}
  BY DEF ObsInv, ObsTyped, Dispatcher!Connect, Dispatcher!Disconnect, Dispatcher!Unique
<1>2. PICK o \in Observers : loc[t].obs = {o} /\ o \in Shared
  BY <1>1 DEF ObsInv, Named, Dispatcher!Adding, Dispatcher!Removing
<1>3. \E c \in SUBSET Observers, l \in ObsPcs, r \in ObsLocals :
         /\ mem' = [mem EXCEPT !.connected = c] /\ at' = [at EXCEPT ![t] = l] /\ loc' = [loc EXCEPT ![t] = r]
         /\ \/ at[t] = "connect" /\ c = mem.connected \cup {o} /\ l = "subscribe" /\ r = loc[t]
            \/ at[t] = "disconnect" /\ c = mem.connected \ {o} /\ l = "idle"
  <2>1. mem.connected \in SUBSET Observers /\ loc[t] \in ObsLocals
    BY <1>1 DEF ObsMem
  <2>2. CASE Dispatcher!Connect(t)
    <3>1. mem' = [mem EXCEPT !.connected = mem.connected \cup {o}] /\ at[t] = "connect"
          /\ at' = [at EXCEPT ![t] = "subscribe"] /\ loc' = [loc EXCEPT ![t] = loc[t]]
      BY <1>1, <1>2, <2>2 DEF Dispatcher!Connect, Dispatcher!Goto
    <3>2. mem.connected \cup {o} \in SUBSET Observers /\ "subscribe" \in ObsPcs
      BY <2>1 DEF ObsPcs
    <3> QED
      BY <2>1, <3>1, <3>2
  <2>3. CASE Dispatcher!Disconnect(t)
    <3>1. mem' = [mem EXCEPT !.connected = mem.connected \ {o}] /\ at[t] = "disconnect"
          /\ at' = [at EXCEPT ![t] = "idle"] /\ loc' = [loc EXCEPT ![t] = Dispatcher!NoLocals]
      BY <1>2, <2>3 DEF Dispatcher!Disconnect, Dispatcher!Return, Dispatcher!Goto
    <3>2. mem.connected \ {o} \in SUBSET Observers /\ "idle" \in ObsPcs
      BY <2>1 DEF ObsPcs
    <3> QED
      BY <3>1, <3>2, ObsNoLocals
  <2> QED
    BY <2>2, <2>3
<1>4. PICK c \in SUBSET Observers, l \in ObsPcs, r \in ObsLocals :
         /\ mem' = [mem EXCEPT !.connected = c] /\ at' = [at EXCEPT ![t] = l] /\ loc' = [loc EXCEPT ![t] = r]
         /\ \/ at[t] = "connect" /\ c = mem.connected \cup {o} /\ l = "subscribe" /\ r = loc[t]
            \/ at[t] = "disconnect" /\ c = mem.connected \ {o} /\ l = "idle"
  BY <1>3
<1>5. /\ mem' \in ObsMem /\ mem'.connected = c /\ mem'.subs = mem.subs /\ mem'.types = mem.types
      /\ mem'.dropped = mem.dropped /\ mem'.torn = mem.torn /\ mem'.crossed = mem.crossed
      /\ at' \in [Dispatchers -> ObsPcs] /\ loc' \in [Dispatchers -> ObsLocals]
      /\ at'[t] = l /\ loc'[t] = r
      /\ \A u \in Dispatchers \ {t} : at'[u] = at[u] /\ loc'[u] = loc[u]
  BY <1>1, <1>4 DEF ObsMem
<1>6. ObsTyped'
  BY <1>5 DEF ObsTyped
<1>7. MapsKnown' /\ \A p \in Observers, m \in Msgs : InList(p, m)' <=> InList(p, m)
  BY <1>5 DEF ObsInv, MapsKnown, InList
<1>8. Named(t)' /\ at'[t] \notin {"make", "deliver", "erase"}
  BY <1>2, <1>4, <1>5 DEF Named, Dispatcher!Adding, Dispatcher!Removing
<1>9. ASSUME NEW p \in Shared \ mem'.crossed PROVE Handled(p)'
  <2>1. p \in Shared \ mem.crossed /\ p \in Observers /\ Handled(p)
    BY <1>5 DEF ObsInv, Dispatcher!ObserverAssumption
  <2>2. \A u \in Dispatchers :
            /\ Calls(u, p, Dispatcher!Adding)' => Calls(u, p, Dispatcher!Adding)
            /\ Calls(u, p, Dispatcher!Removing)' => Calls(u, p, Dispatcher!Removing)
            /\ Calls(u, p, {"disconnect"})' => Calls(u, p, {"disconnect"})
            /\ Calls(u, p, {"subscribe"})' => Calls(u, p, {"subscribe"}) \/ (at[t] = "connect" /\ p = o)
    BY <1>2, <1>4, <1>5 DEF Calls, Dispatcher!Adding, Dispatcher!Removing
  <2>3. CASE at[t] = "connect" \/ p # o
    BY <1>4, <1>5, <1>7, <2>1, <2>2, <2>3, HandledStays
  <2>4. CASE at[t] = "disconnect" /\ p = o
    <3>1. Calls(t, p, {"disconnect"}) /\ Calls(t, p, Dispatcher!Removing)
      BY <1>2, <2>4 DEF Calls, Dispatcher!Removing
    <3>2. \A u \in Dispatchers : ~Calls(u, p, Dispatcher!Adding)
      BY <2>1, <3>1 DEF Handled
    <3>3. \A u \in Dispatchers : ~Calls(u, p, {"subscribe"})'
      BY <2>2, <2>4, <3>2 DEF Calls, Dispatcher!Adding
    <3>4. \A m \in Msgs : ~InList(p, m)
      BY <2>1, <3>1 DEF Handled
    <3> QED
      BY <1>7, <2>1, <2>2, <3>2, <3>3, <3>4 DEF Handled
  <2> QED
    BY <1>1, <2>3, <2>4
<1> QED
  BY <1>1, <1>5, <1>6, <1>7, <1>8, <1>9, ObsUnique

\* An observer is put into the lists of the types that are new to it.
LEMMA ObsSubscribes ==
  ASSUME Dispatcher!ObserverAssumption, ObsInv, NEW t \in Dispatchers, Dispatcher!Subscribe(t)
  PROVE  ObsInv'
<1>1. /\ at \in [Dispatchers -> ObsPcs] /\ loc \in [Dispatchers -> ObsLocals] /\ mem \in ObsMem
      /\ Dispatcher!Dispatching = {} /\ at[t] = "subscribe" /\ loc[t] \in ObsLocals
  BY DEF ObsInv, ObsTyped, Dispatcher!Subscribe, Dispatcher!Unique
<1>2. PICK o \in Observers : loc[t].obs = {o}
  BY <1>1 DEF ObsInv, Named, Dispatcher!Adding
<1> DEFINE msgs  == loc[t].msgs
           Added == (msgs \ mem.types[o]) \ mem.torn
<1>3. /\ mem.subs \in [Msgs -> Seq(Observers)] /\ mem.types \in [Observers -> SUBSET Msgs]
      /\ mem.dropped \in [Observers -> SUBSET Msgs] /\ msgs \in SUBSET Msgs
  BY <1>1 DEF ObsMem, ObsLocals
<1>4. mem' = [mem EXCEPT
        !.types[o] = @ \cup msgs,
        !.subs = [m \in Msgs |-> IF m \in Added THEN Append(@[m], o) ELSE @[m]]]
  BY <1>2 DEF Dispatcher!Subscribe, Dispatcher!AddedTypes
<1>5. at' = [at EXCEPT ![t] = "idle"] /\ loc' = [loc EXCEPT ![t] = Dispatcher!NoLocals]
  BY DEF Dispatcher!Subscribe, Dispatcher!Return, Dispatcher!Goto
<1> HIDE DEF msgs
<1>6. /\ mem'.types = [mem.types EXCEPT ![o] = @ \cup msgs]
      /\ mem'.subs = [m \in Msgs |-> IF m \in Added THEN Append(mem.subs[m], o) ELSE mem.subs[m]]
      /\ mem'.connected = mem.connected /\ mem'.dropped = mem.dropped
      /\ mem'.torn = mem.torn /\ mem'.crossed = mem.crossed
  BY <1>1, <1>4 DEF ObsMem
<1>7. /\ at' \in [Dispatchers -> ObsPcs] /\ loc' \in [Dispatchers -> ObsLocals] /\ at'[t] = "idle"
      /\ \A u \in Dispatchers \ {t} : at'[u] = at[u] /\ loc'[u] = loc[u]
  BY <1>1, <1>5, ObsNoLocals DEF ObsPcs
<1>8. ASSUME NEW m \in Msgs
      PROVE  /\ mem'.subs[m] \in Seq(Observers) /\ Reactor!IsInjective(mem'.subs[m])
             /\ Reactor!ToSet(mem'.subs[m]) = Reactor!ToSet(mem.subs[m]) \cup (IF m \in Added THEN {o} ELSE {})
  <2>1. mem.subs[m] \in Seq(Observers) /\ Reactor!IsInjective(mem.subs[m])
    BY <1>3 DEF ObsInv, MapsKnown
  <2>2. CASE m \in Added
    <3>1. o \notin Reactor!ToSet(mem.subs[m])
      BY <2>2 DEF ObsInv, MapsKnown, InList
    <3>2. mem'.subs[m] = Append(mem.subs[m], o)
      BY <1>6, <2>2
    <3> QED
      BY <2>1, <2>2, <3>1, <3>2, Appended
  <2>3. CASE m \notin Added
    BY <1>6, <2>1, <2>3
  <2> QED
    BY <2>2, <2>3
<1>9. \A p \in Observers : mem'.types[p] = IF p = o THEN mem.types[o] \cup msgs ELSE mem.types[p]
  BY <1>3, <1>6
<1>10. ObsTyped'
  <2>1. mem'.subs \in [Msgs -> Seq(Observers)]
    BY <1>6, <1>8
  <2>2. mem'.types \in [Observers -> SUBSET Msgs]
    BY <1>3, <1>6
  <2>3. mem' \in ObsMem
    BY <1>1, <1>4, <1>6, <2>1, <2>2 DEF ObsMem
  <2> QED
    BY <1>7, <2>3 DEF ObsTyped
<1>11. \A p \in Observers, m \in Msgs : InList(p, m)' <=> InList(p, m) \/ (p = o /\ m \in Added)
  BY <1>8 DEF InList
<1>12. MapsKnown'
  <2>1. \A p \in Observers : mem'.dropped[p] \subseteq mem'.types[p]
    BY <1>6, <1>9 DEF ObsInv, MapsKnown
  <2>2. ASSUME NEW p \in Observers, NEW m \in Msgs \ mem'.torn
        PROVE  InList(p, m)' <=> m \in mem'.types[p] \ mem'.dropped[p]
    BY <1>6, <1>9, <1>11 DEF ObsInv, MapsKnown
  <2>3. \A m \in mem'.torn : mem'.subs[m] = <<>>
    BY <1>1, <1>6 DEF ObsInv, MapsKnown, ObsMem
  <2> QED
    BY <1>8, <2>1, <2>2, <2>3 DEF MapsKnown
<1>13. Named(t)' /\ at'[t] \notin {"make", "deliver", "erase"}
  BY <1>7 DEF Named, Dispatcher!Adding, Dispatcher!Removing
<1>14. ASSUME NEW p \in Shared \ mem'.crossed PROVE Handled(p)'
  <2>1. p \in Shared \ mem.crossed /\ p \in Observers /\ Handled(p)
    BY <1>6 DEF ObsInv, Dispatcher!ObserverAssumption
  <2>2. \A u \in Dispatchers :
            /\ Calls(u, p, Dispatcher!Adding)' => Calls(u, p, Dispatcher!Adding)
            /\ Calls(u, p, Dispatcher!Removing)' => Calls(u, p, Dispatcher!Removing)
            /\ Calls(u, p, {"disconnect"})' => Calls(u, p, {"disconnect"})
            /\ Calls(u, p, {"subscribe"})' => Calls(u, p, {"subscribe"})
    BY <1>7 DEF Calls, Dispatcher!Adding, Dispatcher!Removing
  <2>3. CASE p # o
    BY <1>6, <1>11, <2>1, <2>2, <2>3, HandledStays
  <2>4. CASE p = o
    <3>1. Calls(t, p, {"subscribe"}) /\ Calls(t, p, Dispatcher!Adding)
      BY <1>1, <1>2, <2>4 DEF Calls, Dispatcher!Adding
    <3>2. p \in mem'.connected
      BY <1>6, <2>1, <3>1 DEF Handled
    <3>3. \A u \in Dispatchers : ~Calls(u, p, Dispatcher!Removing)
      BY <2>1, <3>1 DEF Handled
    <3>4. \A u \in Dispatchers : ~Calls(u, p, {"disconnect"})
      BY <3>3 DEF Calls, Dispatcher!Removing
    <3> QED
      BY <2>1, <2>2, <3>2, <3>4 DEF Handled
  <2> QED
    BY <2>3, <2>4
<1> QED
  BY <1>1, <1>7, <1>10, <1>12, <1>13, <1>14, ObsUnique

\* An observer is taken out of all lists.
LEMMA ObsUnsubscribes ==
  ASSUME Dispatcher!ObserverAssumption, ObsInv, NEW t \in Dispatchers, Dispatcher!UnsubscribeAll(t)
  PROVE  ObsInv'
<1>1. /\ at \in [Dispatchers -> ObsPcs] /\ loc \in [Dispatchers -> ObsLocals] /\ mem \in ObsMem
      /\ Dispatcher!Dispatching = {} /\ at[t] = "unsubscribe" /\ loc[t] \in ObsLocals
  BY DEF ObsInv, ObsTyped, Dispatcher!UnsubscribeAll, Dispatcher!Unique
<1>2. PICK o \in Observers : loc[t].obs = {o}
  BY <1>1 DEF ObsInv, Named, Dispatcher!Removing
<1> DEFINE mended == {o} \ Dispatcher!Beside(o, Dispatcher!Adding)
<1>3. /\ mem.subs \in [Msgs -> Seq(Observers)] /\ mem.types \in [Observers -> SUBSET Msgs]
      /\ mem.dropped \in [Observers -> SUBSET Msgs]
  BY <1>1 DEF ObsMem
<1>4. mem' = [mem EXCEPT
        !.subs = [m \in Msgs |-> IF m \in mem.types[o] THEN Dispatcher!RemoveFirst(@[m], o) ELSE @[m]],
        !.types[o] = {},
        !.dropped[o] = {},
        !.crossed = @ \ mended]
  BY <1>2 DEF Dispatcher!UnsubscribeAll
<1> HIDE DEF mended
<1>5. \E l \in {"idle", "disconnect"}, r \in ObsLocals :
         /\ at' = [at EXCEPT ![t] = l] /\ loc' = [loc EXCEPT ![t] = r]
         /\ l = "disconnect" => r = loc[t] /\ o \in Shared
  <2>1. CASE loc[t].obs \subseteq Shared
    <3>1. at' = [at EXCEPT ![t] = "disconnect"] /\ loc' = [loc EXCEPT ![t] = loc[t]]
      BY <1>1, <2>1 DEF Dispatcher!UnsubscribeAll, Dispatcher!Goto
    <3> QED
      BY <1>1, <1>2, <2>1, <3>1
  <2>2. CASE ~(loc[t].obs \subseteq Shared)
    BY <2>2, ObsNoLocals DEF Dispatcher!UnsubscribeAll, Dispatcher!Return, Dispatcher!Goto
  <2> QED
    BY <2>1, <2>2
<1>6. PICK l \in {"idle", "disconnect"}, r \in ObsLocals :
         /\ at' = [at EXCEPT ![t] = l] /\ loc' = [loc EXCEPT ![t] = r]
         /\ l = "disconnect" => r = loc[t] /\ o \in Shared
  BY <1>5
<1>7. /\ mem'.types = [mem.types EXCEPT ![o] = {}] /\ mem'.dropped = [mem.dropped EXCEPT ![o] = {}]
      /\ mem'.subs = [m \in Msgs |->
                        IF m \in mem.types[o] THEN Dispatcher!RemoveFirst(mem.subs[m], o) ELSE mem.subs[m]]
      /\ mem'.connected = mem.connected /\ mem'.torn = mem.torn /\ mem'.crossed = mem.crossed \ mended
  BY <1>1, <1>4 DEF ObsMem
<1>8. /\ at' \in [Dispatchers -> ObsPcs] /\ loc' \in [Dispatchers -> ObsLocals] /\ at'[t] = l /\ loc'[t] = r
      /\ \A u \in Dispatchers \ {t} : at'[u] = at[u] /\ loc'[u] = loc[u]
  BY <1>1, <1>6 DEF ObsPcs
<1>9. ASSUME NEW m \in Msgs
      PROVE  /\ mem'.subs[m] \in Seq(Observers) /\ Reactor!IsInjective(mem'.subs[m])
             /\ Reactor!ToSet(mem'.subs[m]) = Reactor!ToSet(mem.subs[m]) \ {o}
  <2>1. mem.subs[m] \in Seq(Observers) /\ Reactor!IsInjective(mem.subs[m])
    BY <1>3 DEF ObsInv, MapsKnown
  <2>2. CASE m \in mem.types[o]
    <3>1. mem'.subs[m] = Dispatcher!RemoveFirst(mem.subs[m], o)
      BY <1>7, <2>2
    <3> QED
      BY <2>1, <3>1, FirstRemoved
  <2>3. CASE m \notin mem.types[o]
    <3>1. o \notin Reactor!ToSet(mem.subs[m])
      BY <2>3, RangeOfEmpty DEF ObsInv, MapsKnown, InList
    <3> QED
      BY <1>7, <2>1, <2>3, <3>1
  <2> QED
    BY <2>2, <2>3
<1>10. \A p \in Observers :
          /\ mem'.types[p] = IF p = o THEN {} ELSE mem.types[p]
          /\ mem'.dropped[p] = IF p = o THEN {} ELSE mem.dropped[p]
  BY <1>3, <1>7
<1>11. ObsTyped'
  <2>1. mem'.subs \in [Msgs -> Seq(Observers)]
    BY <1>7, <1>9
  <2>2. mem'.types \in [Observers -> SUBSET Msgs] /\ mem'.dropped \in [Observers -> SUBSET Msgs]
        /\ mem'.crossed \in SUBSET Shared
    BY <1>1, <1>3, <1>7 DEF ObsMem
  <2>3. mem' = [mem EXCEPT !.subs = mem'.subs, !.types = mem'.types, !.dropped = mem'.dropped,
                          !.crossed = mem'.crossed]
    BY <1>1, <1>4, <1>7 DEF ObsMem
  <2>4. mem' \in ObsMem
    BY <1>1, <2>1, <2>2, <2>3 DEF ObsMem
  <2> QED
    BY <1>8, <2>4 DEF ObsTyped
<1>12. \A p \in Observers, m \in Msgs : InList(p, m)' <=> InList(p, m) /\ p # o
  BY <1>9 DEF InList
<1>13. MapsKnown'
  <2>1. \A p \in Observers : mem'.dropped[p] \subseteq mem'.types[p]
    BY <1>10 DEF ObsInv, MapsKnown
  <2>2. ASSUME NEW p \in Observers, NEW m \in Msgs \ mem'.torn
        PROVE  InList(p, m)' <=> m \in mem'.types[p] \ mem'.dropped[p]
    BY <1>7, <1>10, <1>12 DEF ObsInv, MapsKnown
  <2>3. ASSUME NEW m \in mem'.torn PROVE mem'.subs[m] = <<>>
    <3>1. m \in Msgs /\ mem.subs[m] = <<>> /\ mem'.subs[m] \in Seq(Observers)
      BY <1>1, <1>7, <1>9 DEF ObsInv, MapsKnown, ObsMem
    <3>2. Reactor!ToSet(mem'.subs[m]) = {}
      BY <1>9, <3>1, RangeOfEmpty
    <3> QED
      BY <3>1, <3>2, RangeOfEmpty
  <2> QED
    BY <1>9, <2>1, <2>2, <2>3 DEF MapsKnown
<1>14. Named(t)' /\ at'[t] \notin {"make", "deliver", "erase"}
  BY <1>2, <1>6, <1>8 DEF Named, Dispatcher!Adding, Dispatcher!Removing
<1>15. \A p, u : u \in Dispatchers =>
            /\ Calls(u, p, Dispatcher!Adding)' => Calls(u, p, Dispatcher!Adding)
            /\ Calls(u, p, Dispatcher!Removing)' => Calls(u, p, Dispatcher!Removing)
            /\ Calls(u, p, {"disconnect"})' => Calls(u, p, {"disconnect"}) \/ p = o
            /\ Calls(u, p, {"subscribe"})' => Calls(u, p, {"subscribe"})
  <2> SUFFICES ASSUME NEW p, NEW u \in Dispatchers
               PROVE  /\ Calls(u, p, Dispatcher!Adding)' => Calls(u, p, Dispatcher!Adding)
                      /\ Calls(u, p, Dispatcher!Removing)' => Calls(u, p, Dispatcher!Removing)
                      /\ Calls(u, p, {"disconnect"})' => Calls(u, p, {"disconnect"}) \/ p = o
                      /\ Calls(u, p, {"subscribe"})' => Calls(u, p, {"subscribe"})
    OBVIOUS
  <2>1. CASE u # t
    BY <1>8, <2>1 DEF Calls
  <2>2. CASE u = t
    BY <1>1, <1>2, <1>6, <1>8, <2>2 DEF Calls, Dispatcher!Adding, Dispatcher!Removing
  <2> QED
    BY <2>1, <2>2
<1>16. ASSUME NEW p \in Shared \ mem'.crossed PROVE Handled(p)'
  <2>1. p \in Observers
    BY DEF Dispatcher!ObserverAssumption
  <2>2. CASE p # o
    <3>1. p \in Shared \ mem.crossed
      BY <1>7, <2>2 DEF mended
    <3> QED
      BY <1>7, <1>12, <1>15, <2>1, <2>2, <3>1, HandledStays
  <2>3. CASE p = o
    <3>1. \A u \in Dispatchers : ~Calls(u, o, Dispatcher!Adding)
      <4>1. CASE o \in mended
        BY <2>3, <4>1 DEF mended, Dispatcher!Beside, Calls
      <4>2. CASE o \notin mended
        <5>1. Handled(o)
          BY <1>7, <2>3, <4>2 DEF ObsInv
        <5>2. Calls(t, o, Dispatcher!Removing)
          BY <1>1, <1>2 DEF Calls, Dispatcher!Removing
        <5> QED
          BY <5>1, <5>2 DEF Handled
      <4> QED
        BY <4>1, <4>2
    <3>2. \A u \in Dispatchers : ~Calls(u, o, Dispatcher!Adding)'
      BY <1>15, <3>1
    <3>3. \A u \in Dispatchers : ~Calls(u, o, {"subscribe"})'
      BY <3>2 DEF Calls, Dispatcher!Adding
    <3>4. \A m \in Msgs : ~InList(o, m)'
      BY <1>12
    <3> QED
      BY <2>3, <3>2, <3>3, <3>4 DEF Handled
  <2> QED
    BY <2>2, <2>3
<1> QED
  BY <1>1, <1>8, <1>11, <1>13, <1>14, <1>16, ObsUnique

\* The observer that answered false is erased from the list that no other dispatch is in.
LEMMA ObsErases ==
  ASSUME Dispatcher!ObserverAssumption, ObsInv, NEW t \in Dispatchers, Dispatcher!Erase(t)
  PROVE  ObsInv'
<1>1. at \in [Dispatchers -> ObsPcs] /\ loc \in [Dispatchers -> ObsLocals] /\ mem \in ObsMem
      /\ loc[t] \in ObsLocals
  BY DEF ObsInv, ObsTyped
<1>2. at[t] = "erase" /\ ~(loc[t].msg \subseteq mem.torn)
      /\ \A u \in Dispatcher!Dispatching \ {t} : loc[u].msg # loc[t].msg
  BY DEF Dispatcher!Erase, Dispatcher!Torn, Dispatcher!Races
<1>3. PICK m \in Msgs : loc[t].msg = {m} /\ m \notin mem.torn /\ InTurn(t, m)
  BY <1>2 DEF ObsInv, Calling
<1> DEFINE s  == mem.subs[m]
           it == loc[t].it
           o  == s[it]
           l  == Reactor!RemoveAt(s, it)
<1>4. /\ mem.subs \in [Msgs -> Seq(Observers)] /\ mem.types \in [Observers -> SUBSET Msgs]
      /\ mem.dropped \in [Observers -> SUBSET Msgs] /\ mem.torn \in SUBSET Msgs
      /\ loc[t].given \in Seq(Observers) /\ loc[t].to \in Seq(Observers)
  BY <1>1 DEF ObsMem, ObsLocals
<1>5. /\ s \in Seq(Observers) /\ it \in 1..Len(s) /\ o \in Observers
      /\ Rest(s, it + 1, loc[t].given, loc[t].to) /\ Reactor!IsInjective(s)
  <2>1. s \in Seq(Observers) /\ it \in 1..Len(s) /\ Rest(s, it + 1, loc[t].given, loc[t].to)
    BY <1>2, <1>3, <1>4 DEF InTurn
  <2>2. Reactor!IsInjective(s)
    BY DEF ObsInv, MapsKnown
  <2> QED
    BY <2>1, <2>2, ElementOfSeq
<1>6. /\ l \in Seq(Observers) /\ Reactor!IsInjective(l)
      /\ Reactor!ToSet(l) = Reactor!ToSet(s) \ {o}
  <2> HIDE DEF s, it
  <2> QED
    BY <1>5, Erased
<1>7. Rest(l, it, loc[t].given, loc[t].to)
  <2> HIDE DEF s, it
  <2> QED
    BY <1>4, <1>5, RestErases
<1>8. Dispatcher!RemoveAt(s, it) = l /\ Dispatcher!Subs(t) = s
  BY <1>3 DEF Dispatcher!RemoveAt, Reactor!RemoveAt, Dispatcher!Subs
<1>9. /\ mem' = [mem EXCEPT !.subs[m] = l, !.dropped[o] = @ \cup {m}]
      /\ at' = [at EXCEPT ![t] = "deliver"] /\ loc' = [loc EXCEPT ![t] = loc[t]]
  <2>1. mem' = [mem EXCEPT !.subs[m] = Dispatcher!RemoveAt(@, it), !.dropped[o] = @ \cup {m}]
    BY <1>3, <1>8 DEF Dispatcher!Erase
  <2>2. loc' = [loc EXCEPT ![t] = loc[t]]
    <3>1. loc' = [loc EXCEPT ![t].it = loc[t].it]
      BY DEF Dispatcher!Erase, Dispatcher!NextIt
    <3>2. [loc[t] EXCEPT !.it = loc[t].it] = loc[t]
      BY <1>1 DEF ObsLocals
    <3> QED
      BY <1>1, <3>1, <3>2
  <2> QED
    BY <1>8, <2>1, <2>2 DEF Dispatcher!Erase, Dispatcher!Goto
<1> HIDE DEF l, s, it, o
<1>10. /\ mem'.subs = [mem.subs EXCEPT ![m] = l] /\ mem'.dropped = [mem.dropped EXCEPT ![o] = @ \cup {m}]
       /\ mem'.types = mem.types /\ mem'.connected = mem.connected
       /\ mem'.torn = mem.torn /\ mem'.crossed = mem.crossed
  BY <1>1, <1>9 DEF ObsMem
<1>11. /\ mem'.subs[m] = l /\ \A k \in Msgs \ {m} : mem'.subs[k] = mem.subs[k]
       /\ mem'.dropped[o] = mem.dropped[o] \cup {m}
       /\ \A p \in Observers \ {o} : mem'.dropped[p] = mem.dropped[p]
  BY <1>4, <1>5, <1>10
<1>12. mem' \in ObsMem
  <2>1. mem'.subs \in [Msgs -> Seq(Observers)] /\ mem'.dropped \in [Observers -> SUBSET Msgs]
    BY <1>4, <1>5, <1>6, <1>10
  <2>2. mem' = [mem EXCEPT !.subs = mem'.subs, !.dropped = mem'.dropped]
    BY <1>1, <1>9, <1>10 DEF ObsMem
  <2> QED
    BY <1>1, <2>1, <2>2 DEF ObsMem
<1>13. \A p \in Observers, k \in Msgs : InList(p, k)' <=> InList(p, k) /\ ~(p = o /\ k = m)
  BY <1>6, <1>11 DEF InList, s
<1>14. InList(o, m)
  BY <1>5, LenProperties DEF o, s, InList, Reactor!ToSet
<1>15. MapsKnown'
  <2>1. m \in mem.types[o]
    BY <1>3, <1>5, <1>14 DEF ObsInv, MapsKnown
  <2>2. \A p \in Observers : mem'.dropped[p] \subseteq mem'.types[p]
    BY <1>10, <1>11, <2>1 DEF ObsInv, MapsKnown
  <2>3. ASSUME NEW p \in Observers, NEW k \in Msgs \ mem'.torn
        PROVE  InList(p, k)' <=> k \in mem'.types[p] \ mem'.dropped[p]
    BY <1>10, <1>11, <1>13 DEF ObsInv, MapsKnown
  <2>4. \A k \in Msgs : Reactor!IsInjective(mem'.subs[k])
    BY <1>6, <1>11 DEF ObsInv, MapsKnown
  <2>5. \A k \in mem'.torn : mem'.subs[k] = <<>>
    BY <1>3, <1>4, <1>10, <1>11 DEF ObsInv, MapsKnown
  <2> QED
    BY <2>2, <2>3, <2>4, <2>5 DEF MapsKnown
<1>16. Calling(t)'
  <2>1. at'[t] = "deliver" /\ loc'[t] = loc[t]
    BY <1>1, <1>9
  <2>2. InTurn(t, m)'
    BY <1>7, <1>11, <2>1 DEF InTurn, it
  <2> QED
    BY <1>3, <2>1, <2>2 DEF Calling
<1>17. \A u \in Dispatcher!Dispatching \ {t}, k \in Msgs : loc[u].msg = {k} =>
          k \in mem'.torn \/ (k \notin mem.torn /\ mem'.subs[k] = mem.subs[k])
  BY <1>2, <1>3, <1>10, <1>11
<1> QED
  BY <1>1, <1>2, <1>9, <1>10, <1>12, <1>13, <1>15, <1>16, <1>17, ObsGoesOn

\* ... or from one that another dispatch is in: the list is torn.
LEMMA ObsTears ==
  ASSUME Dispatcher!ObserverAssumption, ObsInv, NEW t \in Dispatchers, Dispatcher!EraseRacing(t)
  PROVE  ObsInv'
<1>1. at \in [Dispatchers -> ObsPcs] /\ loc \in [Dispatchers -> ObsLocals] /\ mem \in ObsMem
      /\ loc[t] \in ObsLocals
  BY DEF ObsInv, ObsTyped
<1>2. PICK m \in Msgs : loc[t].msg = {m}
  BY DEF ObsInv, Calling, Dispatcher!EraseRacing
<1>3. /\ mem' = [mem EXCEPT !.subs = [k \in Msgs |-> IF k = m THEN <<>> ELSE @[k]], !.torn = @ \cup {m}]
      /\ at[t] = "erase" /\ at' = [at EXCEPT ![t] = "deliver"] /\ loc' = [loc EXCEPT ![t] = loc[t]]
  <2>1. mem' = [mem EXCEPT !.subs = [k \in Msgs |-> IF k \in {m} THEN <<>> ELSE @[k]], !.torn = @ \cup {m}]
    BY <1>2 DEF Dispatcher!EraseRacing
  <2>2. \A k : k \in {m} <=> k = m
    OBVIOUS
  <2> QED
    BY <1>1, <2>1 DEF Dispatcher!EraseRacing, Dispatcher!Goto
<1>4. /\ mem'.subs = [k \in Msgs |-> IF k = m THEN <<>> ELSE mem.subs[k]]
      /\ mem'.torn = mem.torn \cup {m} /\ mem'.types = mem.types
      /\ mem'.dropped = mem.dropped /\ mem'.connected = mem.connected /\ mem'.crossed = mem.crossed
  BY <1>1, <1>3 DEF ObsMem
<1>5. mem' \in ObsMem
  <2>1. mem.subs \in [Msgs -> Seq(Observers)] /\ <<>> \in Seq(Observers) /\ mem.torn \in SUBSET Msgs
    BY <1>1 DEF ObsMem
  <2>2. mem'.subs \in [Msgs -> Seq(Observers)] /\ mem'.torn \in SUBSET Msgs
    BY <1>4, <2>1
  <2>3. mem' = [mem EXCEPT !.subs = mem'.subs, !.torn = mem'.torn]
    BY <1>1, <1>3, <1>4 DEF ObsMem
  <2> QED
    BY <1>1, <2>2, <2>3 DEF ObsMem
<1>6. \A p \in Observers, k \in Msgs : InList(p, k)' <=> InList(p, k) /\ k # m
  BY <1>4, RangeOfEmpty DEF InList
<1>7. MapsKnown'
  <2>1. \A p \in Observers : mem'.dropped[p] \subseteq mem'.types[p]
    BY <1>4 DEF ObsInv, MapsKnown
  <2>2. ASSUME NEW p \in Observers, NEW k \in Msgs \ mem'.torn
        PROVE  InList(p, k)' <=> k \in mem'.types[p] \ mem'.dropped[p]
    BY <1>4, <1>6 DEF ObsInv, MapsKnown
  <2>3. \A k \in Msgs : Reactor!IsInjective(mem'.subs[k])
    BY <1>4, RangeOfEmpty DEF ObsInv, MapsKnown
  <2>4. \A k \in mem'.torn : mem'.subs[k] = <<>>
    BY <1>1, <1>4 DEF ObsInv, MapsKnown, ObsMem
  <2> QED
    BY <2>1, <2>2, <2>3, <2>4 DEF MapsKnown
<1>8. Calling(t)'
  <2>1. at'[t] = "deliver" /\ loc'[t] = loc[t]
    BY <1>1, <1>3
  <2> QED
    BY <1>2, <1>4, <2>1 DEF Calling
<1>9. \A k \in Msgs : k \in mem'.torn \/ (k \notin mem.torn /\ mem'.subs[k] = mem.subs[k])
  BY <1>4
<1>10. mem'.connected = mem.connected /\ mem'.crossed = mem.crossed
  BY <1>4
<1>11. at[t] = "erase" /\ at' = [at EXCEPT ![t] = "deliver"] /\ loc' = [loc EXCEPT ![t] = loc[t]]
  BY <1>3
<1> QED
  BY <1>1, <1>5, <1>6, <1>7, <1>8, <1>9, <1>10, <1>11, ObsGoesOn

\* Every step of the dispatcher keeps ObsInv.
LEMMA ObsStep ==
  ASSUME Dispatcher!ObserverAssumption, ObsInv, Dispatcher!Next
  PROVE  ObsInv'
<1>1. PICK t \in Dispatchers :
        \/ \E o \in Observers :
              (\E msgs \in (SUBSET Msgs) \ {{}} : Dispatcher!Add(t, o, msgs)) \/ Dispatcher!RemoveAll(t, o)
        \/ \E m \in Msgs, lazy \in BOOLEAN : Dispatcher!Dispatch(t, m, lazy)
        \/ Dispatcher!Step(t)
  BY DEF Dispatcher!Next
<1>2. CASE Dispatcher!Step(t)
  BY <1>2, ObsConnects, ObsSubscribes, ObsUnsubscribes, ObsDispatches, ObsErases, ObsTears
     DEF Dispatcher!Step
<1> QED
  BY <1>1, <1>2, ObsCalls

\* ObsInv holds at first.
LEMMA ObsStart == Dispatcher!ObserverAssumption /\ Dispatcher!Init => ObsInv
<1> SUFFICES ASSUME Dispatcher!ObserverAssumption, Dispatcher!Init PROVE ObsInv
  OBVIOUS
<1>1. /\ mem \in ObsMem
      /\ \A m \in Msgs : mem.subs[m] = <<>>
      /\ \A o \in Observers : mem.types[o] = {} /\ mem.dropped[o] = {}
      /\ mem.torn = {} /\ mem.crossed = {}
  BY DEF Dispatcher!Init, Dispatcher!Nothing, ObsMem
<1>2. /\ at \in [Dispatchers -> ObsPcs] /\ loc \in [Dispatchers -> ObsLocals]
      /\ \A t \in Dispatchers : at[t] = "idle"
  BY ObsNoLocals DEF Dispatcher!Init, ObsPcs
<1>3. MapsKnown /\ \A o, m : m \in Msgs => ~InList(o, m)
  BY <1>1, RangeOfEmpty DEF MapsKnown, InList
<1>4. \A o \in Shared : Handled(o)
  BY <1>2, <1>3 DEF Handled, Calls, Dispatcher!Adding, Dispatcher!Removing
<1>5. \A t \in Dispatchers : Named(t) /\ Calling(t)
  BY <1>2 DEF Named, Calling, Dispatcher!Adding, Dispatcher!Removing
<1> QED
  BY <1>1, <1>2, <1>3, <1>4, <1>5 DEF ObsInv, ObsTyped

\* ObsInv says what TLC checks.
LEMMA ObsSays ==
  ASSUME Dispatcher!ObserverAssumption, ObsInv
  PROVE  Dispatcher!TypeOK /\ Dispatcher!MapsAgree /\ Dispatcher!KeptAlive /\ Dispatcher!EachCalledOnce
<1>1. /\ at \in [Dispatchers -> ObsPcs] /\ loc \in [Dispatchers -> ObsLocals] /\ mem \in ObsMem
      /\ mem.subs \in [Msgs -> Seq(Observers)]
  BY DEF ObsInv, ObsTyped, ObsMem
<1>2. \A o, m : InList(o, m) <=> o \in Dispatcher!ToSet(mem.subs[m])
  BY DEF InList, Reactor!ToSet, Dispatcher!ToSet
<1>3. Dispatcher!TypeOK
  <2>1. \A m \in Msgs : Dispatcher!ToSet(mem.subs[m]) \subseteq Observers
    BY <1>1 DEF Dispatcher!ToSet
  <2> QED
    BY <1>1, <2>1 DEF ObsMem, ObsPcs, Dispatcher!TypeOK
<1>4. Dispatcher!KeptAlive
  BY <1>2 DEF ObsInv, Handled, Dispatcher!KeptAlive
<1>5. Dispatcher!MapsAgree
  <2> SUFFICES ASSUME NEW o \in Observers, NEW m \in Msgs \ mem.torn
               PROVE  Dispatcher!Cardinality({i \in DOMAIN mem.subs[m] : mem.subs[m][i] = o})
                        = (IF m \in mem.types[o] \ mem.dropped[o] THEN 1 ELSE 0)
    BY DEF Dispatcher!MapsAgree
  <2> DEFINE S == {i \in DOMAIN mem.subs[m] : mem.subs[m][i] = o}
  <2>1. InList(o, m) <=> m \in mem.types[o] \ mem.dropped[o]
    BY DEF ObsInv, MapsKnown
  <2>2. InList(o, m) <=> S # {}
    BY DEF InList, Reactor!ToSet
  <2>3. \A i, j \in S : i = j
    BY DEF ObsInv, MapsKnown, Reactor!IsInjective
  <2> HIDE DEF S
  <2>4. CASE S = {}
    BY <2>1, <2>2, <2>4, FS_EmptySet DEF S, Dispatcher!Cardinality, Cardinality
  <2>5. CASE S # {}
    <3>1. PICK i : S = {i}
      BY <2>3, <2>5
    <3>2. Cardinality(S) = 1
      BY <3>1, FS_Singleton
    <3> QED
      BY <2>1, <2>2, <2>5, <3>2 DEF S, Dispatcher!Cardinality, Cardinality
  <2> QED
    BY <2>4, <2>5
<1>6. Dispatcher!EachCalledOnce
  <2> SUFFICES ASSUME NEW t \in Dispatchers, at[t] \in {"make", "deliver", "erase"},
                      ~(loc[t].msg \subseteq mem.torn)
               PROVE  /\ Dispatcher!IsPrefix(loc[t].given, loc[t].to)
                      /\ at[t] = "deliver" /\ loc[t].it > Len(Dispatcher!Subs(t)) => loc[t].given = loc[t].to
                      /\ at[t] = "erase" => /\ loc[t].it \in DOMAIN Dispatcher!Subs(t)
                                            /\ Dispatcher!Subs(t)[loc[t].it] = Dispatcher!Last(loc[t].given)
    BY DEF Dispatcher!EachCalledOnce, Dispatcher!Dispatching, Dispatcher!Torn
  <2>1. PICK m \in Msgs : loc[t].msg = {m} /\ m \notin mem.torn /\ InTurn(t, m)
    BY DEF ObsInv, Calling
  <2>2. Dispatcher!Subs(t) = mem.subs[m]
    BY <2>1 DEF Dispatcher!Subs
  <2>3. /\ mem.subs[m] \in Seq(Observers) /\ loc[t].it \in Nat /\ loc[t].it + 1 \in Nat
        /\ loc[t].given \in Seq(Observers) /\ loc[t].to \in Seq(Observers)
    BY <1>1 DEF ObsLocals
  <2>4. CASE at[t] # "erase"
    <3>1. Rest(mem.subs[m], loc[t].it, loc[t].given, loc[t].to)
      BY <2>1, <2>4 DEF InTurn
    <3>2. Dispatcher!IsPrefix(loc[t].given, loc[t].to)
          /\ (loc[t].it > Len(mem.subs[m]) => loc[t].given = loc[t].to)
      BY <2>3, <3>1, RestEnds
    <3> QED
      BY <2>2, <2>4, <3>2
  <2>5. CASE at[t] = "erase"
    <3>1. /\ Rest(mem.subs[m], loc[t].it + 1, loc[t].given, loc[t].to)
          /\ loc[t].it \in 1..Len(mem.subs[m])
          /\ mem.subs[m][loc[t].it] = loc[t].given[Len(loc[t].given)]
      BY <2>1, <2>5 DEF InTurn
    <3>2. Dispatcher!IsPrefix(loc[t].given, loc[t].to)
      BY <2>3, <3>1, RestEnds
    <3>3. loc[t].it \in DOMAIN mem.subs[m]
      BY <2>3, <3>1, LenProperties
    <3>4. mem.subs[m][loc[t].it] = Dispatcher!Last(loc[t].given)
      BY <3>1 DEF Dispatcher!Last
    <3> QED
      BY <2>2, <2>5, <3>2, <3>3, <3>4
  <2> QED
    BY <2>4, <2>5
<1> QED
  BY <1>3, <1>4, <1>5, <1>6

----------------------------------------------------------------------------
(* Together *)

PartsInv ==
    /\ Inv
    /\ which = "swap"       => SwapInv
    /\ which = "lazy"       => LazyInv
    /\ which = "reactor"    => ReactorInv
    /\ which = "dispatcher" => ObsInv

\* The invariants of the parts do not depend on what the awaiter does.
LEMMA PartsAlone ==
  ASSUME PartsInv, Inv', UNCHANGED <<which, others>>
  PROVE  PartsInv'
<1>1. UNCHANGED <<mem, at, loc>> /\ which' = which
  BY DEF others
<1>2. which = "swap" => SwapInv'
  BY <1>1 DEF PartsInv, SwapInv, Swap!TypeOK, Swap!Conserved, SwapReady
<1>3. which = "lazy" => LazyInv'
  BY <1>1 DEF PartsInv, LazyInv, Lazy!TypeOK, LazyShape, LazyReserved, LazyOwned, LazyAnswered,
     Making, Holds
<1>4. which = "reactor" => ReactorInv'
  BY <1>1 DEF PartsInv, ReactorInv, ReactorTyped, ReactorNew, Listed, BytesApart, Given,
     Reactor!ListSound
<1>5. which = "dispatcher" => ObsInv'
  BY <1>1 DEF PartsInv, ObsInv, ObsTyped, MapsKnown, InList, Calls, Handled, Named, Calling, InTurn
<1> QED
  BY <1>1, <1>2, <1>3, <1>4, <1>5 DEF PartsInv

\* Every step keeps PartsInv, and shows a factory what its result replaces.
LEMMA PartsStep ==
  ASSUME PartsInv, [AnyNext]_allVars
  PROVE  PartsInv' /\ [which = "swap" => Swap!ShownReplaced]_allVars
<1> USE PartsAssumption
<1>1. Inv'
  BY InvStep DEF PartsInv, AnyNext, allVars
<1>2. CASE which = "swap" /\ Swap!Next /\ UNCHANGED <<which, vars>>
  BY <1>1, <1>2, SwapStep DEF PartsInv
<1>3. CASE which = "lazy" /\ Lazy!Next /\ UNCHANGED <<which, vars>>
  BY <1>1, <1>3, LazyStep DEF PartsInv
<1>4. CASE which = "reactor" /\ Reactor!Next /\ UNCHANGED <<which, vars>>
  BY <1>1, <1>4, ReactorStep DEF PartsInv
<1>5. CASE which = "dispatcher" /\ Dispatcher!Next /\ UNCHANGED <<which, vars>>
  BY <1>1, <1>5, ObsStep DEF PartsInv
<1>6. CASE which = "awaiter" /\ UNCHANGED <<which, others>>
  BY <1>1, <1>6, PartsAlone
<1>7. CASE UNCHANGED allVars
  BY <1>1, <1>7, PartsAlone DEF allVars
<1> QED
  BY <1>2, <1>3, <1>4, <1>5, <1>6, <1>7 DEF AnyNext

\* PartsInv holds throughout.
LEMMA PartsInvariance == AnySpec => []PartsInv
<1>1. AnyInit => PartsInv
  BY PartsAssumption, InvStart, SwapStart, LazyStart, ReactorStart, ObsStart DEF AnyInit, PartsInv
<1>2. PartsInv /\ [AnyNext]_allVars => PartsInv'
  BY PartsStep
<1> QED
  BY <1>1, <1>2, PTL DEF AnySpec

\* Each part's state keeps its type, whichever part the behaviour is one of.
THEOREM TypesAreKept == AnySpec => []SharedTypes
<1>1. PartsInv => SharedTypes
  BY ReactorSays, ObsSays, PartsAssumption DEF PartsInv, SharedTypes, Inv, SwapInv, LazyInv
<1> QED
  BY <1>1, PartsInvariance, PTL

\* For any number of threads: no token that is swapped is lost or handed out
\* twice, and each value of a lazy_atomic has one owner.
THEOREM AtomicsAreExact == AnySpec => []AtomicsExact
<1>1. PartsInv => AtomicsExact
  BY LazyCounted, PartsAssumption DEF PartsInv, AtomicsExact, SwapInv
<1> QED
  BY <1>1, PartsInvariance, PTL

\* For any number of threads, a swap with a factory installs what was made from
\* the very value that it replaces.
THEOREM FactoriesSeeReplaced == AnySpec => FactorySawReplaced
<1>1. PartsInv /\ [AnyNext]_allVars => [which = "swap" => Swap!ShownReplaced]_allVars
  BY PartsStep
<1> QED
  BY <1>1, PartsInvariance, PTL DEF AnySpec, FactorySawReplaced

\* For any number of requests and files: the reactor's list holds each request that
\* lacks data once, its iterator is on a request of the list or at the end, and
\* each byte of a file goes to one request, in order.
THEOREM ReactorIsExact == AnySpec => []ReactorExact
<1>1. PartsInv => ReactorExact
  BY ReactorSays DEF PartsInv, ReactorExact
<1> QED
  BY <1>1, PartsInvariance, PTL

\* For any number of threads, observers and types: the dispatcher's maps agree, a
\* shared observer outlives its subscriptions as long as no removal of it runs beside
\* an add, and a dispatch calls each observer that it found once and erases those that
\* answered false, beside any other dispatches, except in a list that one dispatch
\* erased from while another was in it.
THEOREM DispatchIsExact == AnySpec => []DispatchExact
<1>1. PartsInv => DispatchExact
  BY ObsSays, PartsAssumption DEF PartsInv, DispatchExact
<1> QED
  BY <1>1, PartsInvariance, PTL
=============================================================================
