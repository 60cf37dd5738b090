------------------------ MODULE AtomicLinkedList_proofs ------------------------
(***************************************************************************)
(* AtomicLinkedList for any number of threads, addresses and values: the   *)
(* list stays sound, and every allocated node has exactly one owner.       *)
(***************************************************************************)
EXTENDS AtomicLinkedList, SequenceTheorems, TLAPS

\* A node put in front of a sequence becomes its first element and moves the
\* others one place back: what PushSwap does to `list`.
LEMMA PushFrontFacts ==
    ASSUME NEW S, NEW n \in S, NEW s \in Seq(S)
    PROVE  /\ <<n>> \o s \in Seq(S)
           /\ Len(<<n>> \o s) = Len(s) + 1
           /\ (<<n>> \o s)[1] = n
           /\ \A i \in 2..Len(s) + 1 : (<<n>> \o s)[i] = s[i - 1]
<1>1. <<n>> \in Seq(S) /\ Len(<<n>>) = 1 /\ <<n>>[1] = n
  OBVIOUS
<1>2. Len(s) \in Nat
  BY LenProperties
<1> QED
  BY <1>1, <1>2, ConcatProperties

\* Without its first element a sequence is one shorter and every other element
\* moves one place forward: what PopSwap does to `list`, ReleaseNode to `held`.
LEMMA TailFacts ==
    ASSUME NEW S, NEW s \in Seq(S), Len(s) # 0
    PROVE  /\ Tail(s) \in Seq(S)
           /\ Len(Tail(s)) = Len(s) - 1
           /\ \A i \in 1..Len(s) - 1 : Tail(s)[i] = s[i + 1]
<1>1. s # <<>>
  BY EmptySeq
<1> QED
  BY <1>1, HeadTailProperties

\* new value_node: the address was free, so nobody owns the new node yet.
LEMMA PushNewStep ==
    ASSUME IInv, NEW t \in Threads, PushNew(t)
    PROVE  IInv'
<1>1. TypeOK'
  BY DEF PushNew, TypeOK, IInv, Goto, Enter, PushPcs, Pcs, Ptr
<1>2. ListSound'
  BY DEF PushNew, ListSound, IInv, Linked
<1>3. Exclusive'
  BY DEF PushNew, Exclusive, IInv, Goto, Enter, Private, TypeOK, ListSound
<1>4. FreshHead'
  BY NullAssumption DEF PushNew, FreshHead, IInv, Goto, Enter, Private, PushPcs,
     ListSound, Linked, NodeAt, Exclusive
<1>5. HeldKnown'
  BY DEF PushNew, HeldKnown, IInv, Goto, Enter, Linked, Exclusive
<1> QED
  BY <1>1, <1>2, <1>3, <1>4, <1>5 DEF IInv

\* Writing n->next disturbs nobody: the node is still private to its thread.
LEMMA PushLoadStep ==
    ASSUME IInv, NEW t \in Threads, PushLoad(t)
    PROVE  IInv'
<1>a. node[t] \in Nodes /\ \A u \in Threads : \A i \in 1..Len(held[u]) : held[u][i] # node[t]
  <2>1. node[t] \in Nodes /\ Private(t)
    BY DEF PushLoad, IInv, TypeOK, Exclusive, Private, PushPcs
  <2>2. held[t] = <<>>
    BY DEF PushLoad, IInv, HeldKnown
  <2>3. ASSUME NEW u \in Threads, u # t, NEW i \in 1..Len(held[u])
        PROVE  held[u][i] # node[t]
    BY <2>1, <2>3 DEF IInv, Exclusive
  <2> QED
    BY <2>1, <2>2, <2>3
<1>1. TypeOK'
  BY DEF PushLoad, TypeOK, IInv, Goto, Load, Private, PushPcs, Pcs, Alias, Exclusive
<1>2. ListSound'
  BY DEF PushLoad, ListSound, IInv, Private, PushPcs, Linked, Exclusive
<1>3. Exclusive'
  BY DEF PushLoad, Exclusive, IInv, Goto, Private, PushPcs
<1>4. FreshHead'
  BY NullAssumption DEF PushLoad, FreshHead, IInv, Goto, Load, Private, PushPcs,
     TypeOK, Alias, ListSound, Linked, NodeAt, Exclusive
<1>5. HeldKnown'
  BY <1>a DEF PushLoad, HeldKnown, IInv, Goto, Load, Linked
<1> QED
  BY <1>1, <1>2, <1>3, <1>4, <1>5 DEF IInv

\* A push links its node: n->next is the head that the compare-and-swap found,
\* so the list grows by exactly that node, and the node stops being private.
LEMMA PushSwapStep ==
    ASSUME IInv, NEW t \in Threads, PushSwap(t)
    PROVE  IInv'
<1>a. list' \in Seq(Nodes) /\ Len(list') = Len(list) + 1 /\ list'[1] = node[t]
         /\ \A i \in 2..Len(list') : list'[i] = list[i - 1]
  BY PushFrontFacts DEF PushSwap, IInv, TypeOK, Exclusive, Private, PushPcs, Ptr
<1>b. node[t] \in Nodes /\ node[t] \in allocated /\ \A i \in 1..Len(list) : list[i] # node[t]
  BY DEF PushSwap, IInv, TypeOK, Exclusive, Private, PushPcs
<1>c. Len(list) \in Nat
  BY LenProperties DEF IInv, TypeOK
<1>1. TypeOK'
  BY DEF PushSwap, TypeOK, IInv, Goto, CAS, next_alias, Private, PushPcs, Pcs, Alias,
     Exclusive
<1>2. ListSound'
  <2>1. \A i \in 1..Len(list') : NodeAt(list', i + 1) = NodeAt(list, i)
    BY <1>a, <1>c DEF NodeAt
  <2>2. head'.ptr = node[t] /\ next' = next /\ next[node[t]] = head.ptr
    BY DEF PushSwap, CAS, next_alias, IInv, FreshHead
  <2>3. head.ptr = NodeAt(list, 1) /\ \A i \in 1..Len(list) : next[list[i]] = NodeAt(list, i + 1)
    BY DEF IInv, ListSound, Linked
  <2>4. ASSUME NEW i \in 2..Len(list')
        PROVE  next[list'[i]] = NodeAt(list, i)
    <3>1. i - 1 \in 1..Len(list) /\ (i - 1) + 1 = i /\ list'[i] = list[i - 1]
      BY <1>a, <1>c
    <3> QED
      BY <2>3, <3>1
  <2>5. Linked(head.ptr, list)'
    BY <1>a, <1>c, <2>1, <2>2, <2>3, <2>4 DEF Linked, NodeAt
  <2>6. \A i \in 1..Len(list') :
            i = 1 \/ (i - 1 \in 1..Len(list) /\ list'[i] = list[i - 1])
    BY <1>a, <1>c
  <2>7. Distinct(list)'
    <3>1. \A i, j \in 1..Len(list) : list[i] = list[j] => i = j
      BY DEF IInv, ListSound, Distinct
    <3>2. \A i \in 1..Len(list') : list'[i] = node[t] => i = 1
      BY <1>a, <1>b, <2>6
    <3>3. ASSUME NEW i \in 1..Len(list'), NEW j \in 1..Len(list'), list'[i] = list'[j]
          PROVE  i = j
      <4>1. CASE i = 1 \/ j = 1
        BY <1>a, <3>2, <3>3, <4>1
      <4>2. CASE i # 1 /\ j # 1
        <5>1. i - 1 = j - 1
          BY <2>6, <3>1, <3>3, <4>2
        <5> QED
          BY <5>1, <1>a, <1>c
      <4> QED
        BY <4>1, <4>2
    <3> QED
      BY <3>3 DEF Distinct
  <2>8. \A i \in 1..Len(list') : list'[i] \in allocated'
    BY <1>a, <1>b, <2>6 DEF IInv, ListSound, PushSwap
  <2> QED
    BY <2>5, <2>7, <2>8 DEF ListSound
<1>3. Exclusive'
  <2>1. ASSUME NEW u \in Threads, NEW j \in 1..Len(held[u])
        PROVE  held[u][j] # node[t]
    <3>1. CASE u = t
      BY <2>1, <3>1 DEF PushSwap, IInv, HeldKnown
    <3>2. CASE u # t
      BY <2>1, <3>2 DEF PushSwap, IInv, Exclusive, Private, PushPcs
    <3> QED
      BY <3>1, <3>2
  <2>2. \A u \in Threads : Private(u)' => Private(u) /\ u # t
    BY DEF PushSwap, Goto, IInv, TypeOK, Private, PushPcs
  <2>3. \A u \in Threads : Private(u) /\ u # t => node[u] # node[t]
    BY DEF PushSwap, IInv, Exclusive, Private, PushPcs
  <2>4. held' = held /\ node' = node /\ allocated' = allocated
    BY DEF PushSwap
  <2>5. ASSUME NEW x, x # node[t], \A i \in 1..Len(list) : list[i] # x
        PROVE  \A i \in 1..Len(list') : list'[i] # x
    BY <1>a, <1>c, <2>5
  <2>6. \A u \in Threads : Private(u)' =>
            node[u] \in allocated /\ \A i \in 1..Len(list') : list'[i] # node[u]
    BY <2>2, <2>3, <2>5 DEF IInv, Exclusive
  <2>7. \A u \in Threads : \A i \in 1..Len(held[u]) : \A j \in 1..Len(list') : list'[j] # held[u][i]
    BY <2>1, <2>5 DEF IInv, Exclusive
  <2> QED
    BY <2>2, <2>4, <2>6, <2>7 DEF IInv, Exclusive, Distinct
<1>4. FreshHead'
  BY DEF PushSwap, FreshHead, IInv, Goto, CAS, next_alias, TypeOK, Alias
<1>5. HeldKnown'
  BY DEF PushSwap, HeldKnown, IInv, Goto, Linked
<1> QED
  BY <1>1, <1>2, <1>3, <1>4, <1>5 DEF IInv

\* A push whose compare-and-swap failed only goes back to the load.
LEMMA PushRetryStep ==
    ASSUME IInv, NEW t \in Threads, PushRetry(t)
    PROVE  IInv'
<1>1. TypeOK'
  BY DEF PushRetry, TypeOK, IInv, Goto, shared, PushPcs, Pcs
<1>2. ListSound'
  BY DEF PushRetry, ListSound, IInv, shared, Linked
<1>3. Exclusive'
  BY DEF PushRetry, Exclusive, IInv, Goto, shared, Private, PushPcs
<1>4. FreshHead'
  BY DEF PushRetry, FreshHead, IInv, Goto, shared
<1>5. HeldKnown'
  BY DEF PushRetry, HeldKnown, IInv, Goto, shared, Linked
<1> QED
  BY <1>1, <1>2, <1>3, <1>4, <1>5 DEF IInv

\* The fetch_add on num_inserts_ touches no node.
LEMMA PushCountStep ==
    ASSUME IInv, NEW t \in Threads, PushCount(t)
    PROVE  IInv'
<1>a. <<>> \in Seq(Values) /\ NULL \in Ptr /\ create_alias(NULL) \in Alias /\ "idle" \in Pcs
  BY DEF Ptr, Alias, create_alias, Pcs
<1>1. TypeOK'
  BY <1>a DEF PushCount, Leave, Goto, IInv, TypeOK
<1>2. ListSound'
  BY DEF PushCount, ListSound, IInv, Linked
<1>3. Exclusive'
  BY DEF PushCount, Exclusive, IInv, Goto, Leave, Private, PushPcs
<1>4. FreshHead'
  BY DEF PushCount, FreshHead, IInv, Goto, Leave
<1>5. HeldKnown'
  BY DEF PushCount, HeldKnown, IInv, Goto, Leave, Linked
<1> QED
  BY <1>1, <1>2, <1>3, <1>4, <1>5 DEF IInv

\* A pop starts without touching the list.
LEMMA PopCallStep ==
    ASSUME IInv, NEW t \in Threads, PopCall(t)
    PROVE  IInv'
<1>1. TypeOK'
  BY DEF PopCall, TypeOK, IInv, Goto, Enter, shared, PopPcs, Pcs
<1>2. ListSound'
  BY DEF PopCall, ListSound, IInv, shared, Linked
<1>3. Exclusive'
  BY DEF PopCall, Exclusive, IInv, Goto, Enter, shared, Private, PushPcs
<1>4. FreshHead'
  BY DEF PopCall, FreshHead, IInv, Goto, Enter, shared
<1>5. HeldKnown'
  BY DEF PopCall, HeldKnown, IInv, Goto, Enter, shared, Linked
<1> QED
  BY <1>1, <1>2, <1>3, <1>4, <1>5 DEF IInv

\* A pop remembers the head it loads, which is then the current one.
LEMMA PopLoadStep ==
    ASSUME IInv, NEW t \in Threads, PopLoad(t)
    PROVE  IInv'
<1>1. TypeOK'
  BY DEF PopLoad, TypeOK, IInv, Goto, Load, shared, PopPcs, Pcs
<1>2. ListSound'
  BY DEF PopLoad, ListSound, IInv, shared, Linked
<1>3. Exclusive'
  BY DEF PopLoad, Exclusive, IInv, Goto, shared, Private, PushPcs
<1>4. FreshHead'
  BY DEF PopLoad, FreshHead, IInv, Goto, Load, shared, TypeOK, Alias
<1>5. HeldKnown'
  BY DEF PopLoad, HeldKnown, IInv, Goto, Load, shared, TypeOK, Linked
<1> QED
  BY <1>1, <1>2, <1>3, <1>4, <1>5 DEF IInv

\* A pop that saw nullptr returns without touching the list.
LEMMA PopEmptyStep ==
    ASSUME IInv, NEW t \in Threads, PopEmpty(t)
    PROVE  IInv'
<1>1. TypeOK'
  BY DEF PopEmpty, TypeOK, IInv, Goto, Leave, create_alias, shared, Pcs, Ptr, Alias
<1>2. ListSound'
  BY DEF PopEmpty, ListSound, IInv, shared, Linked
<1>3. Exclusive'
  BY DEF PopEmpty, Exclusive, IInv, Goto, Leave, shared, Private, PushPcs
<1>4. FreshHead'
  BY DEF PopEmpty, FreshHead, IInv, Goto, Leave, shared
<1>5. HeldKnown'
  BY DEF PopEmpty, HeldKnown, IInv, Goto, Leave, shared, Linked
<1> QED
  BY <1>1, <1>2, <1>3, <1>4, <1>5 DEF IInv

\* The read of head.ptr->next returns anything when the node is gone, but what
\* it returns is the node's next whenever the head is still the one loaded.
LEMMA PopNextStep ==
    ASSUME IInv, NEW t \in Threads, PopNext(t)
    PROVE  IInv'
<1>x. hd[t] = head => head.ptr \in allocated
  BY NullAssumption, LenProperties DEF PopNext, IInv, TypeOK, HeldKnown, ListSound,
     Linked, NodeAt
<1>1. TypeOK'
  BY DEF PopNext, TypeOK, IInv, Goto, shared, PopPcs, Pcs
<1>2. ListSound'
  BY DEF PopNext, ListSound, IInv, shared, Linked
<1>3. Exclusive'
  BY DEF PopNext, Exclusive, IInv, Goto, shared, Private, PushPcs
<1>4. FreshHead'
  BY <1>x DEF PopNext, FreshHead, IInv, Goto, shared, TypeOK
<1>5. HeldKnown'
  BY DEF PopNext, HeldKnown, IInv, Goto, shared, Linked
<1> QED
  BY <1>1, <1>2, <1>3, <1>4, <1>5 DEF IInv

\* A pop unlinks the first node: the `next` it installs is the current one,
\* because the counter says the head never moved, and the node becomes its own.
LEMMA PopSwapStep ==
    ASSUME IInv, NEW t \in Threads, PopSwap(t)
    PROVE  IInv'
<1>a. /\ hd[t] = head /\ head.ptr # NULL /\ Len(list) \in Nat \ {0} /\ list[1] = head.ptr
      /\ after[t] = next[list[1]]
  BY LenProperties DEF PopSwap, CAS, IInv, TypeOK, FreshHead, HeldKnown, ListSound,
     Linked, NodeAt
<1>b. /\ Len(list') = Len(list) - 1
      /\ \A i \in 1..Len(list') :
           i + 1 \in 1..Len(list) /\ list'[i] = list[i + 1] /\ list'[i] # list[1]
  <2>1. list' = Tail(list) /\ list \in Seq(Nodes) /\ Len(list) # 0
    BY <1>a DEF PopSwap, IInv, TypeOK
  <2>2. Len(list') = Len(list) - 1 /\ \A i \in 1..Len(list) - 1 : list'[i] = list[i + 1]
    BY <2>1, TailFacts
  <2>3. \A i \in 1..Len(list) - 1 : i + 1 \in 1..Len(list) /\ i + 1 # 1
    BY <1>a
  <2>4. 1 \in 1..Len(list) /\ \A i, j \in 1..Len(list) : list[i] = list[j] => i = j
    BY <1>a DEF IInv, ListSound, Distinct
  <2> QED
    BY <2>2, <2>3, <2>4
<1>c. /\ held[t] = <<>> /\ held'[t] = <<list[1]>> /\ Len(held'[t]) = 1 /\ held'[t][1] = list[1]
      /\ \A u \in Threads \ {t} : held'[u] = held[u]
  BY <1>a DEF PopSwap, IInv, TypeOK, HeldKnown
<1>d. /\ \A u \in Threads : Private(u)' <=> Private(u)
      /\ node' = node /\ allocated' = allocated /\ next' = next
  BY DEF PopSwap, Goto, IInv, TypeOK, Private, PushPcs
<1>1. TypeOK'
  BY DEF PopSwap, TypeOK, IInv, Goto, CAS, next_alias, Pcs, Alias, HeldKnown, Linked,
     NodeAt, ListSound
<1>2. ListSound'
  BY DEF PopSwap, ListSound, IInv, CAS, next_alias, Linked, NodeAt, Distinct,
     FreshHead, HeldKnown
<1>3. Exclusive'
  <2>1. ASSUME NEW u \in Threads, Private(u)
        PROVE  /\ node[u] \in allocated
               /\ \A i \in 1..Len(list') : list'[i] # node[u]
               /\ list[1] # node[u]
    BY <1>a, <1>b, <2>1 DEF IInv, Exclusive
  <2>2. ASSUME NEW u \in Threads, NEW i \in 1..Len(held'[u])
        PROVE  /\ held'[u][i] \in allocated
               /\ \A j \in 1..Len(list') : list'[j] # held'[u][i]
               /\ u # t => held'[u][i] # list[1]
    <3>1. CASE u = t
      BY <1>a, <1>b, <1>c, <2>2, <3>1 DEF IInv, ListSound
    <3>2. CASE u # t
      BY <1>a, <1>b, <1>c, <2>2, <3>2 DEF IInv, Exclusive
    <3> QED
      BY <3>1, <3>2
  <2>3. \A u \in Threads : Distinct(held'[u])
    BY <1>c DEF IInv, Exclusive, Distinct
  <2>4. ASSUME NEW u \in Threads, NEW w \in Threads, u # w
        PROVE  /\ Private(u) /\ Private(w) => node[u] # node[w]
               /\ \A i \in 1..Len(held'[u]) :
                    /\ Private(w) => held'[u][i] # node[w]
                    /\ \A j \in 1..Len(held'[w]) : held'[u][i] # held'[w][j]
    <3>1. CASE u = t
      BY <1>c, <2>1, <2>2, <2>4, <3>1 DEF IInv, Exclusive
    <3>2. CASE w = t
      BY <1>c, <2>2, <2>4, <3>2 DEF IInv, Exclusive
    <3>3. CASE u # t /\ w # t
      BY <1>c, <2>4, <3>3 DEF IInv, Exclusive
    <3> QED
      BY <3>1, <3>2, <3>3
  <2> QED
    BY <1>d, <2>1, <2>2, <2>3, <2>4 DEF Exclusive, Distinct
<1>4. FreshHead'
  BY DEF PopSwap, FreshHead, IInv, Goto, CAS, next_alias, TypeOK, Alias
<1>5. HeldKnown'
  <2>1. \A u \in Threads \ {t} : pc'[u] = pc[u]
    BY DEF PopSwap, Goto, IInv, TypeOK
  <2>2. pc'[t] = "pop_take" /\ hd' = hd /\ after' = after /\ held'[t] = <<hd[t].ptr>>
    BY <1>a, <1>c DEF PopSwap, Goto, IInv, TypeOK
  <2>3. ASSUME NEW u \in Threads \ {t}
        PROVE  /\ Linked(hd[u].ptr, held[u]) => Linked(hd[u].ptr, held[u])'
               /\ Linked(after[u], held[u]) => Linked(after[u], held[u])'
    <3>1. held'[u] = held[u] /\ hd'[u] = hd[u] /\ after'[u] = after[u] /\ next' = next
      BY <1>c, <1>d, <2>2
    <3> QED
      BY <3>1 DEF Linked, NodeAt
  <2> QED
    BY <1>a, <1>c, <2>1, <2>2, <2>3 DEF IInv, HeldKnown
<1> QED
  BY <1>1, <1>2, <1>3, <1>4, <1>5 DEF IInv

\* A pop whose compare-and-swap failed only goes back to the load.
LEMMA PopRetryStep ==
    ASSUME IInv, NEW t \in Threads, PopRetry(t)
    PROVE  IInv'
<1>1. TypeOK'
  BY DEF PopRetry, TypeOK, IInv, Goto, shared, PopPcs, Pcs
<1>2. ListSound'
  BY DEF PopRetry, ListSound, IInv, shared, Linked
<1>3. Exclusive'
  BY DEF PopRetry, Exclusive, IInv, Goto, shared, Private, PushPcs
<1>4. FreshHead'
  BY DEF PopRetry, FreshHead, IInv, Goto, shared
<1>5. HeldKnown'
  BY DEF PopRetry, HeldKnown, IInv, Goto, shared, Linked
<1> QED
  BY <1>1, <1>2, <1>3, <1>4, <1>5 DEF IInv

\* Deleting the popped node frees an address nobody else refers to as owner.
LEMMA PopTakeStep ==
    ASSUME IInv, NEW t \in Threads, PopTake(t)
    PROVE  IInv'
<1>a. held[t] = <<hd[t].ptr>>
  BY DEF PopTake, IInv, HeldKnown
<1>c. Len(held[t]) = 1 /\ held[t][1] = hd[t].ptr
  BY <1>a
<1>b. held'[t] = <<>> /\ Len(held'[t]) = 0 /\ \A u \in Threads \ {t} : held'[u] = held[u]
  BY DEF PopTake, IInv, TypeOK
<1>d. \A i \in 1..Len(list) : list[i] # hd[t].ptr
  BY <1>c DEF IInv, Exclusive
<1>e. \A u \in Threads : Private(u) => u # t /\ node[u] # hd[t].ptr
  BY <1>c DEF IInv, Exclusive, Private, PushPcs, PopTake
<1>f. \A u \in Threads \ {t} : \A i \in 1..Len(held[u]) : held[u][i] # hd[t].ptr
  BY <1>c DEF IInv, Exclusive
<1>g. \A u \in Threads : Private(u)' <=> Private(u)
  BY DEF PopTake, Goto, IInv, TypeOK, Private, PushPcs
<1>1. TypeOK'
  BY DEF PopTake, TypeOK, IInv, Goto, Pcs, Ptr, Alias, HeldKnown
<1>2. ListSound'
  BY <1>d DEF PopTake, IInv, ListSound, Linked, NodeAt, Distinct
<1>3. Exclusive'
  BY <1>b, <1>d, <1>e, <1>f, <1>g DEF PopTake, IInv, Exclusive, Distinct
<1>4. FreshHead'
  BY DEF PopTake, FreshHead, IInv, Goto
<1>5. HeldKnown'
  BY DEF PopTake, HeldKnown, IInv, Goto, TypeOK, Linked
<1> QED
  BY <1>1, <1>2, <1>3, <1>4, <1>5 DEF IInv

\* The fetch_add on num_pops_ touches no node.
LEMMA PopCountStep ==
    ASSUME IInv, NEW t \in Threads, PopCount(t)
    PROVE  IInv'
<1>a. <<>> \in Seq(Values) /\ NULL \in Ptr /\ create_alias(NULL) \in Alias /\ "idle" \in Pcs
  BY DEF Ptr, Alias, create_alias, Pcs
<1>1. TypeOK'
  BY <1>a DEF PopCount, Leave, Goto, IInv, TypeOK
<1>2. ListSound'
  BY DEF PopCount, ListSound, IInv, Linked
<1>3. Exclusive'
  BY DEF PopCount, Exclusive, IInv, Goto, Leave, Private, PushPcs
<1>4. FreshHead'
  BY DEF PopCount, FreshHead, IInv, Goto, Leave
<1>5. HeldKnown'
  BY DEF PopCount, HeldKnown, IInv, Goto, Leave, Linked
<1> QED
  BY <1>1, <1>2, <1>3, <1>4, <1>5 DEF IInv

\* A release starts without touching the list.
LEMMA ReleaseCallStep ==
    ASSUME IInv, NEW t \in Threads, ReleaseCall(t)
    PROVE  IInv'
<1>1. TypeOK'
  BY DEF ReleaseCall, TypeOK, IInv, Goto, Enter, shared, ReleasePcs, Pcs
<1>2. ListSound'
  BY DEF ReleaseCall, ListSound, IInv, shared, Linked
<1>3. Exclusive'
  BY DEF ReleaseCall, Exclusive, IInv, Goto, Enter, shared, Private, PushPcs
<1>4. FreshHead'
  BY DEF ReleaseCall, FreshHead, IInv, Goto, Enter, shared
<1>5. HeldKnown'
  BY DEF ReleaseCall, HeldKnown, IInv, Goto, Enter, shared, Linked
<1> QED
  BY <1>1, <1>2, <1>3, <1>4, <1>5 DEF IInv

\* A release remembers the head it loads, which is then the current one.
LEMMA ReleaseLoadStep ==
    ASSUME IInv, NEW t \in Threads, ReleaseLoad(t)
    PROVE  IInv'
<1>1. TypeOK'
  BY DEF ReleaseLoad, TypeOK, IInv, Goto, Load, shared, ReleasePcs, Pcs
<1>2. ListSound'
  BY DEF ReleaseLoad, ListSound, IInv, shared, Linked
<1>3. Exclusive'
  BY DEF ReleaseLoad, Exclusive, IInv, Goto, shared, Private, PushPcs
<1>4. FreshHead'
  BY DEF ReleaseLoad, FreshHead, IInv, Goto, Load, shared, TypeOK, Alias
<1>5. HeldKnown'
  BY DEF ReleaseLoad, HeldKnown, IInv, Goto, Load, shared, Linked
<1> QED
  BY <1>1, <1>2, <1>3, <1>4, <1>5 DEF IInv

\* A release takes the whole list at once: head_ becomes nullptr and every node
\* passes from the list to the releasing thread.
LEMMA ReleaseSwapStep ==
    ASSUME IInv, NEW t \in Threads, ReleaseSwap(t)
    PROVE  IInv'
<1>1. TypeOK'
  BY DEF ReleaseSwap, TypeOK, IInv, Goto, CAS, next_alias, Pcs, Ptr, Alias
<1>2. ListSound'
  BY DEF ReleaseSwap, ListSound, CAS, next_alias, Linked, NodeAt, Distinct
<1>3. Exclusive'
  BY DEF ReleaseSwap, Exclusive, IInv, Goto, Private, PushPcs, ListSound
<1>4. FreshHead'
  BY DEF ReleaseSwap, FreshHead, IInv, Goto, CAS, next_alias, TypeOK, Alias
<1>5. HeldKnown'
  <2>1. hd[t].ptr = head.ptr /\ Linked(head.ptr, list)
    BY DEF ReleaseSwap, CAS, IInv, ListSound
  <2>2. /\ pc'[t] = "rel_inserts" /\ held'[t] = list
        /\ \A u \in Threads \ {t} : pc'[u] = pc[u] /\ held'[u] = held[u]
        /\ hd' = hd /\ after' = after /\ next' = next
    BY DEF ReleaseSwap, Goto, IInv, TypeOK
  <2>3. Linked(hd[t].ptr, held[t])'
    BY <2>1, <2>2 DEF Linked, NodeAt
  <2> SUFFICES ASSUME NEW u \in Threads
               PROVE  /\ pc'[u] \in {"pop_next", "pop_cas", "pop_take"} => hd'[u].ptr # NULL
                      /\ \/ pc'[u] = "pop_take" /\ held'[u] = <<hd'[u].ptr>>
                         \/ pc'[u] \in {"rel_inserts", "rel_pops"} /\ Linked(hd[u].ptr, held[u])'
                         \/ pc'[u] = "rel_walk" /\ Linked(after[u], held[u])'
                         \/ /\ pc'[u] \notin {"pop_take", "rel_inserts", "rel_pops", "rel_walk"}
                            /\ held'[u] = <<>>
    BY DEF HeldKnown
  <2>4. CASE u = t
    BY <2>2, <2>3, <2>4
  <2>5. CASE u # t
    <3>1. pc'[u] = pc[u] /\ held'[u] = held[u] /\ hd'[u] = hd[u] /\ after'[u] = after[u]
      BY <2>2, <2>5
    <3> QED
      BY <2>2, <3>1 DEF IInv, HeldKnown, Linked, NodeAt
  <2> QED
    BY <2>4, <2>5
<1> QED
  BY <1>1, <1>2, <1>3, <1>4, <1>5 DEF IInv

\* A release whose compare-and-swap failed only goes back to the load.
LEMMA ReleaseRetryStep ==
    ASSUME IInv, NEW t \in Threads, ReleaseRetry(t)
    PROVE  IInv'
<1>1. TypeOK'
  BY DEF ReleaseRetry, TypeOK, IInv, Goto, shared, ReleasePcs, Pcs
<1>2. ListSound'
  BY DEF ReleaseRetry, ListSound, IInv, shared, Linked
<1>3. Exclusive'
  BY DEF ReleaseRetry, Exclusive, IInv, Goto, shared, Private, PushPcs
<1>4. FreshHead'
  BY DEF ReleaseRetry, FreshHead, IInv, Goto, shared
<1>5. HeldKnown'
  BY DEF ReleaseRetry, HeldKnown, IInv, Goto, shared, Linked
<1> QED
  BY <1>1, <1>2, <1>3, <1>4, <1>5 DEF IInv

\* Resetting num_inserts_ touches no node.
LEMMA ReleaseInsertsStep ==
    ASSUME IInv, NEW t \in Threads, ReleaseInserts(t)
    PROVE  IInv'
<1>1. TypeOK'
  BY DEF ReleaseInserts, TypeOK, IInv, Goto, Pcs
<1>2. ListSound'
  BY DEF ReleaseInserts, ListSound, IInv, Linked
<1>3. Exclusive'
  BY DEF ReleaseInserts, Exclusive, IInv, Goto, Private, PushPcs
<1>4. FreshHead'
  BY DEF ReleaseInserts, FreshHead, IInv, Goto
<1>5. HeldKnown'
  BY DEF ReleaseInserts, HeldKnown, IInv, Goto, Linked
<1> QED
  BY <1>1, <1>2, <1>3, <1>4, <1>5 DEF IInv

\* Resetting num_pops_ touches no node, and the walk starts at the first one.
LEMMA ReleasePopsStep ==
    ASSUME IInv, NEW t \in Threads, ReleasePops(t)
    PROVE  IInv'
<1>1. TypeOK'
  BY DEF ReleasePops, TypeOK, IInv, Goto, Pcs, Alias
<1>2. ListSound'
  BY DEF ReleasePops, ListSound, IInv, Linked
<1>3. Exclusive'
  BY DEF ReleasePops, Exclusive, IInv, Goto, Private, PushPcs
<1>4. FreshHead'
  BY DEF ReleasePops, FreshHead, IInv, Goto
<1>5. HeldKnown'
  BY DEF ReleasePops, HeldKnown, IInv, Goto, TypeOK, Linked
<1> QED
  BY <1>1, <1>2, <1>3, <1>4, <1>5 DEF IInv

\* The walk deletes the first of the nodes it still holds and goes on to the
\* next: the rest stay linked, live and its own.
LEMMA ReleaseNodeStep ==
    ASSUME IInv, NEW t \in Threads, ReleaseNode(t)
    PROVE  IInv'
<1>a. held[t] \in Seq(Nodes) /\ Len(held[t]) \in Nat \ {0} /\ held[t][1] = after[t]
  <2>1. held[t] \in Seq(Nodes) /\ Len(held[t]) \in Nat
    BY LenProperties DEF IInv, TypeOK
  <2>2. Linked(after[t], held[t])
    BY DEF ReleaseNode, IInv, HeldKnown
  <2> QED
    BY <2>1, <2>2 DEF Linked, NodeAt, ReleaseNode
<1>b. held'[t] = Tail(held[t]) /\ \A u \in Threads \ {t} : held'[u] = held[u]
  BY DEF ReleaseNode, IInv, TypeOK
<1>c. /\ Len(held'[t]) = Len(held[t]) - 1
      /\ \A i \in 1..Len(held[t]) - 1 : held'[t][i] = held[t][i + 1]
  BY <1>a, <1>b, TailFacts
<1>d. \A i \in 1..Len(list) : list[i] # after[t]
  BY <1>a DEF IInv, Exclusive
<1>e. \A u \in Threads : Private(u) => u # t /\ node[u] # after[t]
  BY <1>a DEF IInv, Exclusive, Private, PushPcs, ReleaseNode
<1>f. \A u \in Threads : \A i \in 1..Len(held'[u]) : held'[u][i] # after[t]
  <2>1. \A u \in Threads \ {t} : \A i \in 1..Len(held[u]) : held[u][i] # after[t]
    BY <1>a DEF IInv, Exclusive
  <2>2. \A i \in 2..Len(held[t]) : held[t][i] # after[t]
    BY <1>a DEF IInv, Exclusive, Distinct
  <2>3. \A i \in 1..Len(held'[t]) : held'[t][i] # after[t]
    BY <1>a, <1>c, <2>2
  <2> QED
    BY <1>b, <2>1, <2>3
<1>g. \A u \in Threads : Private(u)' <=> Private(u)
  BY DEF ReleaseNode, Private
<1>h. \A u \in Threads : \A i \in 1..Len(held'[u]) :
           \E k \in 1..Len(held[u]) : held'[u][i] = held[u][k]
  <2>1. \A i \in 1..Len(held'[t]) : i + 1 \in 1..Len(held[t]) /\ held'[t][i] = held[t][i + 1]
    BY <1>a, <1>c
  <2> QED
    BY <1>b, <2>1
<1>1. TypeOK'
  BY <1>a DEF ReleaseNode, TypeOK, IInv
<1>2. ListSound'
  BY <1>d DEF ReleaseNode, ListSound, IInv, Linked
<1>3. Exclusive'
  <2>1. \A u \in Threads :
            Private(u)' => node'[u] \in allocated' /\ \A i \in 1..Len(list') : list'[i] # node'[u]
    BY <1>e, <1>g DEF ReleaseNode, IInv, Exclusive
  <2>2. \A u \in Threads : Distinct(held'[u])
    <3>1. \A i, j \in 1..Len(held[t]) : held[t][i] = held[t][j] => i = j
      BY DEF IInv, Exclusive, Distinct
    <3>2. ASSUME NEW i \in 1..Len(held'[t]), NEW j \in 1..Len(held'[t]), held'[t][i] = held'[t][j]
          PROVE  i = j
      <4>1. i + 1 \in 1..Len(held[t]) /\ j + 1 \in 1..Len(held[t]) /\ held[t][i + 1] = held[t][j + 1]
        BY <1>a, <1>c, <3>2
      <4>2. i + 1 = j + 1
        BY <3>1, <4>1
      <4> QED
        BY <4>2, <1>a, <1>c
    <3> QED
      BY <1>b, <3>2 DEF IInv, Exclusive, Distinct
  <2>3. \A u \in Threads : \A i \in 1..Len(held'[u]) :
            held'[u][i] \in allocated' /\ \A j \in 1..Len(list') : list'[j] # held'[u][i]
    <3>1. \A u \in Threads : \A k \in 1..Len(held[u]) :
            held[u][k] \in allocated /\ \A j \in 1..Len(list) : list[j] # held[u][k]
      BY DEF IInv, Exclusive
    <3>2. allocated' = allocated \ {after[t]} /\ list' = list
      BY DEF ReleaseNode
    <3> QED
      BY <1>f, <1>h, <3>1, <3>2
  <2>4. ASSUME NEW u \in Threads, NEW w \in Threads, u # w
        PROVE  /\ Private(u)' /\ Private(w)' => node'[u] # node'[w]
               /\ \A i \in 1..Len(held'[u]) : Private(w)' => held'[u][i] # node'[w]
    <3>1. node' = node
      BY DEF ReleaseNode
    <3>2. /\ Private(u) /\ Private(w) => node[u] # node[w]
          /\ \A i \in 1..Len(held[u]) : Private(w) => held[u][i] # node[w]
      BY <2>4 DEF IInv, Exclusive
    <3> QED
      BY <1>g, <1>h, <3>1, <3>2
  <2>5. ASSUME NEW u \in Threads, NEW w \in Threads, u # w,
               NEW i \in 1..Len(held'[u]), NEW j \in 1..Len(held'[w])
        PROVE  held'[u][i] # held'[w][j]
    <3>1. PICK k \in 1..Len(held[u]) : held'[u][i] = held[u][k]
      BY <1>h
    <3>2. PICK l \in 1..Len(held[w]) : held'[w][j] = held[w][l]
      BY <1>h
    <3>3. held[u][k] # held[w][l]
      BY <2>5 DEF IInv, Exclusive
    <3> QED
      BY <3>1, <3>2, <3>3
  <2> QED
    BY <2>1, <2>2, <2>3, <2>4, <2>5 DEF Exclusive, Distinct
<1>4. FreshHead'
  BY DEF ReleaseNode, FreshHead, IInv
<1>5. HeldKnown'
  <2>1. pc' = pc /\ hd' = hd /\ next' = next
    BY DEF ReleaseNode
  <2>2. Linked(after[t], held[t])
    BY DEF ReleaseNode, IInv, HeldKnown
  <2>3. after'[t] = next[held[t][1]] /\ pc[t] = "rel_walk" /\ \A u \in Threads \ {t} : after'[u] = after[u]
    BY <1>a DEF ReleaseNode, IInv, TypeOK
  <2>4. NodeAt(held'[t], 1) = NodeAt(held[t], 2)
    BY <1>a, <1>c DEF NodeAt
  <2>5. ASSUME NEW i \in 1..Len(held'[t])
        PROVE  next[held'[t][i]] = NodeAt(held'[t], i + 1)
    <3>1. i + 1 \in 1..Len(held[t]) /\ held'[t][i] = held[t][i + 1]
      BY <1>a, <1>c
    <3>2. NodeAt(held'[t], i + 1) = NodeAt(held[t], (i + 1) + 1)
      BY <1>a, <1>c DEF NodeAt
    <3> QED
      BY <2>2, <3>1, <3>2 DEF Linked
  <2>6. Linked(after[t], held[t])'
    BY <1>a, <2>1, <2>2, <2>3, <2>4, <2>5 DEF Linked
  <2>7. ASSUME NEW u \in Threads \ {t}
        PROVE  /\ Linked(hd[u].ptr, held[u]) => Linked(hd[u].ptr, held[u])'
               /\ Linked(after[u], held[u]) => Linked(after[u], held[u])'
    <3>1. held'[u] = held[u] /\ hd'[u] = hd[u] /\ after'[u] = after[u] /\ next' = next
      BY <1>b, <2>1, <2>3
    <3> QED
      BY <3>1 DEF Linked, NodeAt
  <2> QED
    BY <1>b, <2>1, <2>3, <2>6, <2>7 DEF IInv, HeldKnown
<1> QED
  BY <1>1, <1>2, <1>3, <1>4, <1>5 DEF IInv

\* A walk that reached nullptr holds no node any more.
LEMMA ReleaseReturnStep ==
    ASSUME IInv, NEW t \in Threads, ReleaseReturn(t)
    PROVE  IInv'
<1>1. TypeOK'
  BY DEF ReleaseReturn, TypeOK, IInv, Goto, Leave, create_alias, shared, Pcs, Alias
<1>2. ListSound'
  BY DEF ReleaseReturn, ListSound, IInv, shared, Linked
<1>3. Exclusive'
  BY DEF ReleaseReturn, Exclusive, IInv, Goto, Leave, shared, Private, PushPcs
<1>4. FreshHead'
  BY DEF ReleaseReturn, FreshHead, IInv, Goto, Leave, shared
<1>5. HeldKnown'
  BY NullAssumption DEF ReleaseReturn, HeldKnown, IInv, Goto, Leave, shared, TypeOK,
     Linked, NodeAt
<1> QED
  BY <1>1, <1>2, <1>3, <1>4, <1>5 DEF IInv

\* The empty list of the constructor satisfies the inductive invariant.
LEMMA InitIInv == Init => IInv
<1> SUFFICES ASSUME Init PROVE IInv
  OBVIOUS
<1>1. TypeOK
  BY EmptySeq DEF Init, TypeOK, Pcs, Ptr, Alias, create_alias
<1>2. list = <<>> /\ Len(list) = 0 /\ head.ptr = NULL
  BY DEF Init, create_alias
<1>3. ListSound
  BY <1>2 DEF ListSound, Linked, NodeAt, Distinct
<1>4. \A t \in Threads : pc[t] = "idle" /\ held[t] = <<>> /\ Len(held[t]) = 0
  BY DEF Init
<1>5. Exclusive /\ FreshHead /\ HeldKnown
  BY <1>4 DEF Exclusive, FreshHead, HeldKnown, Private, PushPcs, Distinct
<1> QED
  BY <1>1, <1>3, <1>5 DEF IInv

\* No interleaving of any number of threads leaves the inductive invariant.
THEOREM Invariance == Spec => []IInv
<1>1. IInv /\ [Next]_vars => IInv'
  <2> SUFFICES ASSUME IInv, [Next]_vars PROVE IInv'
    OBVIOUS
  <2>1. CASE UNCHANGED vars
    <3>1. TypeOK'
      BY <2>1 DEF vars, shared, locals, IInv, TypeOK
    <3>2. ListSound'
      BY <2>1 DEF vars, shared, locals, IInv, ListSound, Linked, NodeAt, Distinct
    <3>3. Exclusive'
      BY <2>1 DEF vars, shared, locals, IInv, Exclusive, Distinct, Private
    <3>4. FreshHead'
      BY <2>1 DEF vars, shared, locals, IInv, FreshHead
    <3>5. HeldKnown'
      BY <2>1 DEF vars, shared, locals, IInv, HeldKnown, Linked, NodeAt
    <3> QED
      BY <3>1, <3>2, <3>3, <3>4, <3>5 DEF IInv
  <2>2. ASSUME NEW t \in Threads, Push(t) PROVE IInv'
    BY <2>2, PushNewStep, PushLoadStep, PushSwapStep, PushRetryStep, PushCountStep DEF Push
  <2>3. ASSUME NEW t \in Threads, Pop(t) PROVE IInv'
    BY <2>3, PopCallStep, PopLoadStep, PopEmptyStep, PopNextStep, PopSwapStep, PopRetryStep,
       PopTakeStep, PopCountStep DEF Pop
  <2>4. ASSUME NEW t \in Threads, Release(t) PROVE IInv'
    BY <2>4, ReleaseCallStep, ReleaseLoadStep, ReleaseSwapStep, ReleaseRetryStep,
       ReleaseInsertsStep, ReleasePopsStep, ReleaseNodeStep, ReleaseReturnStep DEF Release
  <2> QED
    BY <2>1, <2>2, <2>3, <2>4 DEF Next
<1> QED
  BY InitIInv, <1>1, PTL DEF Spec

\* For every number of threads, following next from head_ visits exactly the
\* nodes that are in the list, each of them live: a popped and reused address
\* never gets a stale next installed, however the threads interleave.
THEOREM Soundness == Spec => []ListSound
<1>1. IInv => ListSound
  BY DEF IInv
<1> QED
  BY <1>1, Invariance, PTL

\* For every number of threads, a node that a thread took out of the list, or
\* has not linked yet, is live and belongs to that thread alone.
THEOREM Ownership == Spec => []Exclusive
<1>1. IInv => Exclusive
  BY DEF IInv
<1> QED
  BY <1>1, Invariance, PTL

----------------------------------------------------------------------------
(* No node leaks *)

\* Somebody answers for the node n: the list, or the thread that took it out or
\* has not linked it yet.
Kept(n) ==
    \/ \E i \in 1..Len(list) : list[i] = n
    \/ \E t \in Threads : \E i \in 1..Len(held[t]) : held[t][i] = n
    \/ \E t \in Threads : Private(t) /\ node[t] = n

\* NoLeak, node by node, before a step and after it.
LEMMA NoLeakIsKept == /\ NoLeak <=> \A n \in allocated : Kept(n)
                      /\ NoLeak' <=> \A n \in allocated' : Kept(n)'
<1> DEFINE Taken == UNION {NodesOf(held[t]) : t \in Threads}
           New   == {node[t] : t \in {u \in Threads : Private(u)}}
<1>1. ASSUME NEW n
      PROVE  /\ n \in NodesOf(list) <=> \E i \in 1..Len(list) : list[i] = n
             /\ n \in Taken <=> \E t \in Threads : \E i \in 1..Len(held[t]) : held[t][i] = n
             /\ n \in New <=> \E t \in Threads : Private(t) /\ node[t] = n
  BY DEF NodesOf
<1>2. ASSUME NEW n
      PROVE  /\ n \in NodesOf(list)' <=> \E i \in 1..Len(list') : list'[i] = n
             /\ n \in Taken' <=> \E t \in Threads : \E i \in 1..Len(held'[t]) : held'[t][i] = n
             /\ n \in New' <=> \E t \in Threads : Private(t)' /\ node'[t] = n
  BY DEF NodesOf
<1>3. NoLeak <=> allocated \subseteq NodesOf(list) \cup Taken \cup New
  BY DEF NoLeak
<1>4. NoLeak' <=> allocated' \subseteq NodesOf(list)' \cup Taken' \cup New'
  BY DEF NoLeak
<1> HIDE DEF Taken, New
<1> QED
  BY <1>1, <1>2, <1>3, <1>4 DEF Kept

\* What is allocated, linked or taken elsewhere does not matter to a node whose
\* place one step leaves alone.
LEMMA KeptIf ==
  ASSUME NEW t \in Threads, NEW n,
         list' = list, held' = held, node'[t] = node[t],
         \A u \in Threads \ {t} : pc'[u] = pc[u] /\ node'[u] = node[u],
         Private(t) => Private(t)',
         Kept(n)
  PROVE  Kept(n)'
BY DEF Kept, Private

\* A push allocates a node it keeps until the list has it.
LEMMA PushKeeps == ASSUME IInv, NoLeak, NEW t \in Threads, Push(t) PROVE NoLeak'
<1> USE DEF Goto, Enter, Leave
<1>0. TypeOK
  BY DEF IInv
<1>1. CASE PushNew(t)
  <2>0. PICK m \in Nodes \ allocated : allocated' = allocated \cup {m} /\ node'[t] = m
    BY <1>0, <1>1 DEF PushNew, TypeOK
  <2>1. Private(t)' /\ ~Private(t) /\ list' = list /\ held' = held
        /\ \A u \in Threads \ {t} : pc'[u] = pc[u] /\ node'[u] = node[u]
    BY <1>0, <1>1 DEF PushNew, Private, PushPcs, TypeOK
  <2>3. Kept(m)'
    BY <2>0, <2>1 DEF Kept
  <2>2. ASSUME NEW n \in allocated PROVE Kept(n)'
    <3>1. Kept(n)
      BY NoLeakIsKept
    <3> QED
      BY <2>1, <3>1 DEF Kept, Private
  <2> QED
    BY <2>0, <2>2, <2>3, NoLeakIsKept
<1>2. CASE PushLoad(t) \/ PushRetry(t)
  <2>1. /\ list' = list /\ held' = held /\ node' = node /\ allocated' = allocated
        /\ \A u \in Threads \ {t} : pc'[u] = pc[u]
        /\ Private(t)'
    BY <1>0, <1>2 DEF PushLoad, PushRetry, shared, Private, PushPcs, TypeOK
  <2> QED
    BY <2>1, KeptIf, NoLeakIsKept
<1>3. CASE PushSwap(t)
  <2>1. node[t] \in Nodes /\ list \in Seq(Nodes) /\ Len(list) \in Nat
    BY <1>0, <1>3, LenProperties DEF PushSwap, IInv, Exclusive, Private, PushPcs, TypeOK
  <2>2. /\ Len(list') = Len(list) + 1 /\ list'[1] = node[t]
        /\ \A i \in 2..Len(list) + 1 : list'[i] = list[i - 1]
    BY <1>3, <2>1, PushFrontFacts DEF PushSwap
  <2>3. ASSUME NEW n \in allocated PROVE Kept(n)'
    <3>1. CASE \E i \in 1..Len(list) : list[i] = n
      <4>1. PICK i \in 1..Len(list) : list[i] = n
        BY <3>1
      <4>2. i + 1 \in 2..Len(list) + 1 /\ (i + 1) - 1 = i
        BY <2>1
      <4> QED
        <5>1. i + 1 \in 1..Len(list') /\ list'[i + 1] = n
          BY <2>1, <2>2, <4>1, <4>2
        <5> QED
          BY <5>1 DEF Kept
    <3>2. CASE \E u \in Threads : \E i \in 1..Len(held[u]) : held[u][i] = n
      BY <1>3, <3>2 DEF PushSwap, Kept
    <3>3. CASE \E u \in Threads : Private(u) /\ node[u] = n
      <4>1. PICK u \in Threads : Private(u) /\ node[u] = n
        BY <3>3
      <4>2. CASE u = t
        BY <2>1, <2>2, <4>1, <4>2 DEF Kept
      <4>3. CASE u # t
        BY <1>0, <1>3, <4>1, <4>3 DEF PushSwap, Kept, Private, TypeOK
      <4> QED
        BY <4>2, <4>3
    <3> QED
      BY <3>1, <3>2, <3>3, NoLeakIsKept DEF Kept
  <2> QED
    BY <1>3, <2>3, NoLeakIsKept DEF PushSwap
<1>4. CASE PushCount(t)
  <2>1. /\ list' = list /\ held' = held /\ allocated' = allocated /\ ~Private(t)
        /\ \A u \in Threads \ {t} : pc'[u] = pc[u] /\ node'[u] = node[u]
    BY <1>0, <1>4 DEF PushCount, Private, PushPcs, TypeOK
  <2>2. ASSUME NEW n, Kept(n) PROVE Kept(n)'
    BY <2>1, <2>2 DEF Kept, Private
  <2> QED
    BY <2>1, <2>2, NoLeakIsKept
<1> QED
  BY <1>1, <1>2, <1>3, <1>4 DEF Push

\* Outside of a push only the list and what t holds change places: a node stays
\* kept if the list and t together still have it.
LEMMA KeptUnless ==
  ASSUME NEW t \in Threads, NEW n, TypeOK, ~Private(t),
         \A u \in Threads \ {t} : pc'[u] = pc[u] /\ node'[u] = node[u] /\ held'[u] = held[u],
         Kept(n),
         \/ \E i \in 1..Len(list) : list[i] = n
         \/ \E i \in 1..Len(held[t]) : held[t][i] = n
         => \/ \E i \in 1..Len(list') : list'[i] = n
            \/ \E i \in 1..Len(held'[t]) : held'[t][i] = n
  PROVE  Kept(n)'
<1>1. CASE \E i \in 1..Len(list) : list[i] = n
  BY <1>1 DEF Kept
<1>2. CASE \E i \in 1..Len(held[t]) : held[t][i] = n
  BY <1>2 DEF Kept
<1>3. CASE \E u \in Threads \ {t} : \E i \in 1..Len(held[u]) : held[u][i] = n
  BY <1>3 DEF Kept
<1>4. CASE \E u \in Threads : Private(u) /\ node[u] = n
  BY <1>4 DEF Kept, Private
<1> QED
  BY <1>1, <1>2, <1>3, <1>4 DEF Kept

\* A pop keeps the node that it takes out until it deletes it.
LEMMA PopKeeps == ASSUME IInv, NoLeak, NEW t \in Threads, Pop(t) PROVE NoLeak'
<1> USE DEF Goto, Enter, Leave
<1>0. TypeOK
  BY DEF IInv
<1>1. /\ ~Private(t)
      /\ \A u \in Threads \ {t} : pc'[u] = pc[u] /\ node'[u] = node[u] /\ held'[u] = held[u]
      /\ allocated' \subseteq allocated
  BY <1>0 DEF Pop, PopCall, PopLoad, PopEmpty, PopNext, PopSwap, PopRetry, PopTake, PopCount,
     Private, PushPcs, TypeOK, shared
<1>2. CASE PopSwap(t)
  <2>1. hd[t] = head /\ head.ptr # NULL /\ held'[t] = <<head.ptr>> /\ list' = Tail(list)
    BY <1>0, <1>2 DEF PopSwap, CAS, IInv, HeldKnown, TypeOK
  <2>2. list \in Seq(Nodes) /\ Len(list) \in Nat /\ held[t] = <<>>
    BY <1>0, <1>2, LenProperties DEF PopSwap, IInv, HeldKnown, TypeOK
  <2>3. Len(list) # 0 /\ list[1] = head.ptr
    BY <2>1, <2>2 DEF IInv, ListSound, Linked, NodeAt
  <2>4. /\ Len(list') = Len(list) - 1
        /\ \A i \in 1..Len(list) - 1 : list'[i] = list[i + 1]
    BY <2>1, <2>2, <2>3, TailFacts
  <2>5. ASSUME NEW i \in 1..Len(list)
        PROVE  \/ \E j \in 1..Len(list') : list'[j] = list[i]
               \/ \E j \in 1..Len(held'[t]) : held'[t][j] = list[i]
    <3>1. CASE i = 1
      BY <2>1, <2>3, <3>1
    <3>2. CASE i # 1
      <4>1. i - 1 \in 1..Len(list) - 1 /\ (i - 1) + 1 = i
        BY <2>2, <3>2
      <4> QED
        BY <2>4, <4>1
    <3> QED
      BY <3>1, <3>2
  <2>6. ASSUME NEW n, Kept(n) PROVE Kept(n)'
    BY <1>0, <1>1, <2>2, <2>5, <2>6, KeptUnless
  <2> QED
    BY <1>1, <2>6, NoLeakIsKept
<1>3. CASE PopTake(t)
  <2>1. /\ list' = list /\ held[t] = <<hd[t].ptr>> /\ allocated' = allocated \ {hd[t].ptr}
    BY <1>0, <1>3 DEF PopTake, IInv, HeldKnown
  <2>2. ASSUME NEW n \in allocated', Kept(n) PROVE Kept(n)'
    <3>1. \A i \in 1..Len(held[t]) : held[t][i] # n
      BY <2>1, <2>2
    <3> QED
      BY <1>0, <1>1, <2>1, <2>2, <3>1, KeptUnless
  <2> QED
    BY <1>1, <2>2, NoLeakIsKept
<1>4. CASE PopCall(t) \/ PopLoad(t) \/ PopEmpty(t) \/ PopNext(t) \/ PopRetry(t) \/ PopCount(t)
  <2>1. list' = list /\ held' = held
    BY <1>4 DEF PopCall, PopLoad, PopEmpty, PopNext, PopRetry, PopCount
  <2>2. ASSUME NEW n, Kept(n) PROVE Kept(n)'
    BY <1>0, <1>1, <2>1, <2>2, KeptUnless
  <2> QED
    BY <1>1, <2>2, NoLeakIsKept
<1> QED
  BY <1>2, <1>3, <1>4 DEF Pop

\* A release keeps the whole list that it takes and deletes it from the front.
LEMMA ReleaseKeeps == ASSUME IInv, NoLeak, NEW t \in Threads, Release(t) PROVE NoLeak'
<1> USE DEF Goto, Enter, Leave
<1>0. TypeOK
  BY DEF IInv
<1>1. /\ ~Private(t)
      /\ \A u \in Threads \ {t} : pc'[u] = pc[u] /\ node'[u] = node[u] /\ held'[u] = held[u]
      /\ allocated' \subseteq allocated
  BY <1>0 DEF Release, ReleaseCall, ReleaseLoad, ReleaseSwap, ReleaseRetry, ReleaseInserts,
     ReleasePops, ReleaseNode, ReleaseReturn, Private, PushPcs, TypeOK, shared
<1>2. CASE ReleaseSwap(t)
  <2>1. held'[t] = list /\ held[t] = <<>>
    BY <1>0, <1>2 DEF ReleaseSwap, IInv, HeldKnown, TypeOK
  <2>2. ASSUME NEW n, Kept(n) PROVE Kept(n)'
    BY <1>0, <1>1, <2>1, <2>2, KeptUnless
  <2> QED
    BY <1>1, <2>2, NoLeakIsKept
<1>3. CASE ReleaseNode(t)
  <2>1. /\ list' = list /\ allocated' = allocated \ {after[t]} /\ held'[t] = Tail(held[t])
        /\ held[t] \in Seq(Nodes) /\ Len(held[t]) \in Nat
    BY <1>0, <1>3, LenProperties DEF ReleaseNode, TypeOK
  <2>2. Len(held[t]) # 0 /\ held[t][1] = after[t]
    <3>1. after[t] # NULL /\ Linked(after[t], held[t])
      BY <1>3 DEF ReleaseNode, IInv, HeldKnown
    <3> QED
      BY <2>1, <3>1 DEF Linked, NodeAt
  <2>3. /\ Len(held'[t]) = Len(held[t]) - 1
        /\ \A i \in 1..Len(held[t]) - 1 : held'[t][i] = held[t][i + 1]
    BY <2>1, <2>2, TailFacts
  <2>4. ASSUME NEW n \in allocated', NEW i \in 1..Len(held[t]), held[t][i] = n
        PROVE  \E j \in 1..Len(held'[t]) : held'[t][j] = n
    <3>1. i # 1
      BY <2>1, <2>2, <2>4
    <3>2. i - 1 \in 1..Len(held[t]) - 1 /\ (i - 1) + 1 = i
      BY <2>1, <3>1
    <3> QED
      BY <2>3, <2>4, <3>2
  <2>5. ASSUME NEW n \in allocated', Kept(n) PROVE Kept(n)'
    BY <1>0, <1>1, <2>1, <2>4, <2>5, KeptUnless
  <2> QED
    BY <1>1, <2>5, NoLeakIsKept
<1>4. CASE \/ ReleaseCall(t) \/ ReleaseLoad(t) \/ ReleaseRetry(t) \/ ReleaseInserts(t)
           \/ ReleasePops(t) \/ ReleaseReturn(t)
  <2>1. list' = list /\ held' = held
    BY <1>4 DEF ReleaseCall, ReleaseLoad, ReleaseRetry, ReleaseInserts, ReleasePops, ReleaseReturn
  <2>2. ASSUME NEW n, Kept(n) PROVE Kept(n)'
    BY <1>0, <1>1, <2>1, <2>2, KeptUnless
  <2> QED
    BY <1>1, <2>2, NoLeakIsKept
<1> QED
  BY <1>2, <1>3, <1>4 DEF Release

\* For every number of threads and addresses no node leaks: push, pop and release
\* never lose the last pointer to a node that is allocated.
THEOREM NothingLeaks == Spec => []NoLeak
<1>1. Init => NoLeak
  BY NoLeakIsKept DEF Init
<1>2. IInv /\ NoLeak /\ [Next]_vars => NoLeak'
  <2> SUFFICES ASSUME IInv, NoLeak, [Next]_vars PROVE NoLeak'
    OBVIOUS
  <2>1. CASE UNCHANGED vars
    BY <2>1, NoLeakIsKept DEF vars, shared, locals, Kept, Private
  <2> QED
    BY <2>1, PushKeeps, PopKeeps, ReleaseKeeps DEF Next
<1> QED
  BY <1>1, <1>2, Invariance, PTL DEF Spec

----------------------------------------------------------------------------
(***************************************************************************)
(* atomic_linked_list is a linearizable stack for any number of threads,   *)
(* addresses and values: every step is a step of AtomicStack or changes    *)
(* nothing of it.                                                          *)
(***************************************************************************)

\* A thread has no results before it deletes its first node.
NoResults ==
    \A t \in Threads : pc[t] \notin {"pop_count", "rel_walk"} => res[t] = <<>>

RInv == IInv /\ NoResults

\* res is empty except where a call has taken its result and not yet returned.
LEMMA NoResultsStep == TypeOK /\ NoResults /\ [Next]_vars => NoResults'
<1> SUFFICES ASSUME TypeOK, NoResults, [Next]_vars PROVE NoResults'
  OBVIOUS
<1> USE DEF TypeOK, NoResults, Goto, Leave, Enter
<1>1. ASSUME NEW t \in Threads, Push(t) PROVE NoResults'
  BY <1>1 DEF Push, PushNew, PushLoad, PushSwap, PushRetry, PushCount
<1>2. ASSUME NEW t \in Threads, Pop(t) PROVE NoResults'
  BY <1>2 DEF Pop, PopCall, PopLoad, PopEmpty, PopNext, PopSwap, PopRetry, PopTake, PopCount
<1>3. ASSUME NEW t \in Threads, Release(t) PROVE NoResults'
  BY <1>3 DEF Release, ReleaseCall, ReleaseLoad, ReleaseSwap, ReleaseRetry, ReleaseInserts,
     ReleasePops, ReleaseNode, ReleaseReturn
<1>4. CASE UNCHANGED vars
  BY <1>4 DEF vars, locals
<1> QED
  BY <1>1, <1>2, <1>3, <1>4 DEF Next

\* The invariant the refinement rests on holds in every reachable state.
LEMMA RInvariance == Spec => []RInv
<1>1. Init => NoResults
  BY DEF Init, NoResults
<1>2. IInv => TypeOK
  BY DEF IInv
<1> QED
  BY <1>1, <1>2, NoResultsStep, Invariance, PTL DEF Spec, RInv

----------------------------------------------------------------------------
(* The values in a sequence of nodes *)

\* ValuesOf, for the values v that the nodes hold.
Image(s, v) == [i \in 1..Len(s) |-> v[s[i]]]

\* The values of a sequence of nodes are a sequence of the same length.
LEMMA ImageSeq ==
  ASSUME NEW s \in Seq(Nodes), NEW v \in [Nodes -> Values]
  PROVE  /\ Image(s, v) \in Seq(Values)
         /\ Len(Image(s, v)) = Len(s)
         /\ Len(s) \in Nat
         /\ \A i \in 1..Len(s) : Image(s, v)[i] = v[s[i]] /\ s[i] \in Nodes
<1>1. Len(s) \in Nat /\ \A i \in 1..Len(s) : s[i] \in Nodes
  BY LenProperties, ElementOfSeq
<1>2. \A i \in 1..Len(s) : v[s[i]] \in Values
  BY <1>1
<1> QED
  BY <1>1, <1>2 DEF Image

\* ValuesOf(list) before and after a step.
LEMMA StackIs == /\ ValuesOf(list) = Image(list, val)
                 /\ ValuesOf(list)' = Image(list', val')
BY DEF ValuesOf, Image

\* A pushed node brings its value in front.
LEMMA ImagePush ==
  ASSUME NEW s \in Seq(Nodes), NEW v \in [Nodes -> Values], NEW n \in Nodes
  PROVE  Image(<<n>> \o s, v) = <<v[n]>> \o Image(s, v)
<1> DEFINE a == Image(<<n>> \o s, v)
           b == <<v[n]>> \o Image(s, v)
<1>1. /\ <<n>> \o s \in Seq(Nodes) /\ Len(<<n>> \o s) = Len(s) + 1
      /\ (<<n>> \o s)[1] = n /\ \A i \in 2..Len(s) + 1 : (<<n>> \o s)[i] = s[i - 1]
  BY PushFrontFacts
<1>2. /\ Image(s, v) \in Seq(Values) /\ Len(Image(s, v)) = Len(s) /\ Len(s) \in Nat
      /\ \A i \in 1..Len(s) : Image(s, v)[i] = v[s[i]]
  BY ImageSeq
<1>3. /\ a \in Seq(Values) /\ Len(a) = Len(s) + 1
      /\ \A i \in 1..Len(s) + 1 : a[i] = v[(<<n>> \o s)[i]]
  BY <1>1, ImageSeq
<1>4. /\ b \in Seq(Values) /\ Len(b) = Len(s) + 1
      /\ b[1] = v[n] /\ \A i \in 2..Len(s) + 1 : b[i] = Image(s, v)[i - 1]
  BY <1>2, PushFrontFacts
<1> HIDE DEF a, b
<1>5. ASSUME NEW i \in 1..Len(a) PROVE a[i] = b[i]
  <2>1. CASE i = 1
    BY <1>1, <1>2, <1>3, <1>4, <2>1
  <2>2. CASE i # 1
    <3>1. i \in 2..Len(s) + 1 /\ i - 1 \in 1..Len(s)
      BY <1>2, <1>3, <2>2
    <3> QED
      BY <1>1, <1>2, <1>3, <1>4, <3>1
  <2> QED
    BY <2>1, <2>2
<1>6. a = b
  BY <1>3, <1>4, <1>5, SeqEqual
<1> QED
  BY <1>6 DEF a, b

\* A node taken from the front takes its value along.
LEMMA ImageTail ==
  ASSUME NEW s \in Seq(Nodes), Len(s) # 0, NEW v \in [Nodes -> Values]
  PROVE  /\ Image(s, v) # <<>>
         /\ Head(Image(s, v)) = v[s[1]]
         /\ Image(Tail(s), v) = Tail(Image(s, v))
<1> DEFINE m == Image(s, v)
           a == Image(Tail(s), v)
<1>1. /\ m \in Seq(Values) /\ Len(m) = Len(s) /\ Len(s) \in Nat
      /\ \A i \in 1..Len(s) : m[i] = v[s[i]]
  BY ImageSeq
<1>2. /\ Tail(s) \in Seq(Nodes) /\ Len(Tail(s)) = Len(s) - 1
      /\ \A i \in 1..Len(s) - 1 : Tail(s)[i] = s[i + 1]
  BY TailFacts
<1>3. /\ a \in Seq(Values) /\ Len(a) = Len(s) - 1
      /\ \A i \in 1..Len(s) - 1 : a[i] = v[Tail(s)[i]]
  BY <1>2, ImageSeq
<1> HIDE DEF m, a
<1>4. /\ Tail(m) \in Seq(Values) /\ Len(Tail(m)) = Len(s) - 1
      /\ \A i \in 1..Len(s) - 1 : Tail(m)[i] = m[i + 1]
  BY <1>1, TailFacts
<1>5. \A i \in 1..Len(a) : a[i] = Tail(m)[i]
  BY <1>1, <1>2, <1>3, <1>4
<1>6. a = Tail(m)
  BY <1>3, <1>4, <1>5, SeqEqual
<1>7. m # <<>> /\ Head(m) = m[1]
  BY <1>1
<1> QED
  BY <1>1, <1>6, <1>7 DEF m, a

\* Moving the first value from the nodes to the results leaves the two together as they were.
LEMMA ImageMove ==
  ASSUME NEW s \in Seq(Nodes), Len(s) # 0, NEW v \in [Nodes -> Values], NEW r \in Seq(Values)
  PROVE  Append(r, v[s[1]]) \o Image(Tail(s), v) = r \o Image(s, v)
<1> DEFINE m == Image(s, v)
<1>1. /\ m \in Seq(Values) /\ Len(m) = Len(s) /\ Len(s) \in Nat
      /\ \A i \in 1..Len(s) : m[i] = v[s[i]] /\ s[i] \in Nodes
  BY ImageSeq
<1>2. Image(Tail(s), v) = Tail(m)
  BY ImageTail
<1> HIDE DEF m
<1>3. /\ Tail(m) \in Seq(Values) /\ Len(Tail(m)) = Len(s) - 1
      /\ \A i \in 1..Len(s) - 1 : Tail(m)[i] = m[i + 1]
  BY <1>1, TailFacts
<1>4. v[s[1]] = m[1] /\ m[1] \in Values
  BY <1>1
<1> DEFINE f == <<m[1]>> \o Tail(m)
<1>5. /\ f \in Seq(Values) /\ Len(f) = Len(s)
      /\ f[1] = m[1] /\ \A i \in 2..Len(s) : f[i] = Tail(m)[i - 1]
  BY <1>1, <1>3, <1>4, PushFrontFacts
<1> HIDE DEF f
<1>6. ASSUME NEW i \in 1..Len(f) PROVE f[i] = m[i]
  <2>1. CASE i = 1
    BY <1>5, <2>1
  <2>2. CASE i # 1
    <3>1. i \in 2..Len(s) /\ i - 1 \in 1..Len(s) - 1 /\ (i - 1) + 1 = i
      BY <1>1, <1>5, <2>2
    <3> QED
      BY <1>3, <1>5, <3>1
  <2> QED
    BY <2>1, <2>2
<1>7. f = m
  BY <1>1, <1>5, <1>6, SeqEqual
<1>8. Append(r, m[1]) = r \o <<m[1]>>
  BY <1>4, AppendIsConcat
<1>9. (r \o <<m[1]>>) \o Tail(m) = r \o (<<m[1]>> \o Tail(m))
  <2>1. <<m[1]>> \in Seq(Values)
    BY <1>4
  <2> QED
    BY <1>3, <2>1, ConcatAssociative
<1> QED
  BY <1>2, <1>4, <1>7, <1>8, <1>9 DEF f, m

----------------------------------------------------------------------------
(* The calls *)

\* What a release has answered and still has to answer.
Released(r, s, v) == [call |-> "released", res |-> r \o Image(s, v)]

\* The call of a thread at p, with its variables n, h, r and s, while the nodes hold v.
CallOf(p, n, h, r, s, v) ==
    CASE p = "idle"       -> [call |-> "none"]
      [] p \in PushPcs    -> [call |-> "push", arg |-> v[n]]
      [] p = "push_count" -> [call |-> "pushed"]
      [] p \in PopPcs     -> [call |-> "pop"]
      [] p = "pop_empty"  -> [call |-> "popped", res |-> None]
      [] p = "pop_take"   -> [call |-> "popped", res |-> v[h.ptr]]
      [] p = "pop_count"  -> [call |-> "popped", res |-> r[1]]
      [] p \in ReleasePcs -> [call |-> "release"]
      [] OTHER            -> Released(r, s, v)

\* What a thread is doing in AtomicStack, at each place in the code.
LEMMA CallFacts ==
  ASSUME NEW p, NEW n, NEW h, NEW r, NEW s, NEW v
  PROVE  /\ p = "idle" => CallOf(p, n, h, r, s, v) = [call |-> "none"]
         /\ p \in PushPcs => CallOf(p, n, h, r, s, v) = [call |-> "push", arg |-> v[n]]
         /\ p = "push_count" => CallOf(p, n, h, r, s, v) = [call |-> "pushed"]
         /\ p \in PopPcs => CallOf(p, n, h, r, s, v) = [call |-> "pop"]
         /\ p = "pop_empty" => CallOf(p, n, h, r, s, v) = [call |-> "popped", res |-> None]
         /\ p = "pop_take" => CallOf(p, n, h, r, s, v) = [call |-> "popped", res |-> v[h.ptr]]
         /\ p = "pop_count" => CallOf(p, n, h, r, s, v) = [call |-> "popped", res |-> r[1]]
         /\ p \in ReleasePcs => CallOf(p, n, h, r, s, v) = [call |-> "release"]
         /\ p \in {"rel_inserts", "rel_pops", "rel_walk"} =>
              CallOf(p, n, h, r, s, v) = Released(r, s, v)
<1> USE DEF PushPcs, PopPcs, ReleasePcs
<1>1. CASE p = "idle"
  BY <1>1 DEF CallOf
<1>2. CASE p \in PushPcs
  BY <1>2 DEF CallOf
<1>3. CASE p = "push_count"
  BY <1>3 DEF CallOf
<1>4. CASE p \in PopPcs
  BY <1>4 DEF CallOf
<1>5. CASE p \in {"pop_empty", "pop_take", "pop_count"}
  BY <1>5 DEF CallOf
<1>6. CASE p \in ReleasePcs
  BY <1>6 DEF CallOf
<1>7. CASE p \in {"rel_inserts", "rel_pops", "rel_walk"}
  BY <1>7 DEF CallOf
<1> QED
  BY <1>1, <1>2, <1>3, <1>4, <1>5, <1>6, <1>7

\* opBar is CallOf at each thread, before a step and after it.
LEMMA OpBar ==
  /\ opBar = [t \in Threads |-> CallOf(pc[t], node[t], hd[t], res[t], held[t], val)]
  /\ opBar' = [t \in Threads |-> CallOf(pc'[t], node'[t], hd'[t], res'[t], held'[t], val')]
BY DEF opBar, CallOf, Released, ValuesOf, Image

\* What a call stands for depends on live nodes only.
LEMMA CallStable ==
  ASSUME RInv, NEW w, \A n \in allocated : w[n] = val[n], NEW u \in Threads
  PROVE  CallOf(pc[u], node[u], hd[u], res[u], held[u], w)
           = CallOf(pc[u], node[u], hd[u], res[u], held[u], val)
<1>1. pc[u] \in Pcs
  BY DEF RInv, IInv, TypeOK
<1>2. CASE pc[u] \in PushPcs
  <2>1. node[u] \in allocated
    BY <1>2 DEF RInv, IInv, Exclusive, Private
  <2> QED
    BY <1>2, <2>1, CallFacts
<1>3. CASE pc[u] = "pop_take"
  <2>1. held[u] = <<hd[u].ptr>>
    BY <1>3 DEF RInv, IInv, HeldKnown
  <2>2. 1 \in 1..Len(held[u]) /\ held[u][1] = hd[u].ptr
    BY <2>1
  <2>3. hd[u].ptr \in allocated
    BY <2>2 DEF RInv, IInv, Exclusive
  <2> QED
    BY <1>3, <2>3, CallFacts
<1>4. CASE pc[u] \in {"rel_inserts", "rel_pops", "rel_walk"}
  <2>1. \A i \in 1..Len(held[u]) : held[u][i] \in allocated
    BY DEF RInv, IInv, Exclusive
  <2>2. Image(held[u], w) = Image(held[u], val)
    BY <2>1 DEF Image
  <2>3. Released(res[u], held[u], w) = Released(res[u], held[u], val)
    BY <2>2 DEF Released
  <2> QED
    BY <1>4, <2>3, CallFacts
<1>5. CASE pc[u] \notin PushPcs \cup {"pop_take", "rel_inserts", "rel_pops", "rel_walk"}
  <2>1. pc[u] \in {"idle", "push_count", "pop_empty", "pop_count"} \cup PopPcs \cup ReleasePcs
    BY <1>1, <1>5 DEF Pcs
  <2> QED
    BY <2>1, CallFacts
<1> QED
  BY <1>2, <1>3, <1>4, <1>5

\* A step of t changes the variables of t only, and the value of no live node.
LEMMA OthersStay ==
  ASSUME TypeOK, NEW t \in Threads, Push(t) \/ Pop(t) \/ Release(t)
  PROVE  /\ \A u \in Threads \ {t} : /\ pc'[u] = pc[u] /\ node'[u] = node[u] /\ hd'[u] = hd[u]
                                     /\ res'[u] = res[u] /\ held'[u] = held[u]
         /\ \A n \in allocated : val'[n] = val[n]
<1> USE DEF TypeOK, Goto, Leave, Enter, Load, shared
<1>1. CASE Push(t)
  BY <1>1 DEF Push, PushNew, PushLoad, PushSwap, PushRetry, PushCount
<1>2. CASE Pop(t)
  BY <1>2 DEF Pop, PopCall, PopLoad, PopEmpty, PopNext, PopSwap, PopRetry, PopTake, PopCount
<1>3. CASE Release(t)
  BY <1>3 DEF Release, ReleaseCall, ReleaseLoad, ReleaseSwap, ReleaseRetry, ReleaseInserts,
     ReleasePops, ReleaseNode, ReleaseReturn
<1> QED
  BY <1>1, <1>2, <1>3

\* So a step of t changes the call of t only.
LEMMA CallOfOne ==
  ASSUME RInv, NEW t \in Threads, Push(t) \/ Pop(t) \/ Release(t)
  PROVE  /\ opBar' = [opBar EXCEPT ![t] = CallOf(pc'[t], node'[t], hd'[t], res'[t], held'[t], val')]
         /\ opBar[t] = CallOf(pc[t], node[t], hd[t], res[t], held[t], val)
<1> DEFINE c(u) == CallOf(pc[u], node[u], hd[u], res[u], held[u], val)
           d(u) == CallOf(pc'[u], node'[u], hd'[u], res'[u], held'[u], val')
<1>1. ASSUME NEW u \in Threads \ {t} PROVE d(u) = c(u)
  BY OthersStay, CallStable DEF RInv, IInv
<1>2. opBar = [u \in Threads |-> c(u)] /\ opBar' = [u \in Threads |-> d(u)]
  BY OpBar
<1> HIDE DEF c, d
<1>3. opBar' = [opBar EXCEPT ![t] = d(t)] /\ opBar[t] = c(t)
  BY <1>1, <1>2
<1> QED
  BY <1>3 DEF c, d

\* The values in the list stay while the list does.
LEMMA StackStays ==
  ASSUME RInv, list' = list, \A n \in allocated : val'[n] = val[n]
  PROVE  ValuesOf(list)' = ValuesOf(list)
BY StackIs DEF Image, RInv, IInv, ListSound

----------------------------------------------------------------------------
(* The steps *)

\* What stutters in the stack: the call of t stands where it stood.
Silent(t) == UNCHANGED opBar /\ ValuesOf(list)' = ValuesOf(list)

\* A call starts with new value_node, pop_and_release_front or release.
LEMMA CallStep ==
  ASSUME RInv, NEW t \in Threads, PushNew(t) \/ PopCall(t) \/ ReleaseCall(t)
  PROVE  Stack!Call(t)
<1>1. opBar[t] = Stack!idle
  BY CallOfOne, CallFacts DEF PushNew, PopCall, ReleaseCall, Enter, Push, Pop, Release, Stack!idle
<1>2. ValuesOf(list)' = ValuesOf(list)
  <2>1. list' = list
    BY DEF PushNew, PopCall, ReleaseCall
  <2> QED
    BY <2>1, StackStays, OthersStay DEF Push, Pop, Release, RInv, IInv
<1>3. CASE PushNew(t)
  <2>1. pc'[t] = "push_load" /\ \E v \in Values : val'[node'[t]] = v
    BY <1>3 DEF PushNew, Enter, Goto, RInv, IInv, TypeOK
  <2>2. PICK v \in Values : val'[node'[t]] = v
    BY <2>1
  <2>3. CallOf(pc'[t], node'[t], hd'[t], res'[t], held'[t], val') = [call |-> "push", arg |-> v]
    BY <2>1, <2>2, CallFacts DEF PushPcs
  <2> QED
    BY <1>1, <1>2, <1>3, <2>3, CallOfOne DEF Push, Stack!Call, Stack!pushing
<1>4. CASE PopCall(t)
  <2>1. pc'[t] \in PopPcs
    BY <1>4 DEF PopCall, Enter, Goto, RInv, IInv, TypeOK, PopPcs
  <2>2. CallOf(pc'[t], node'[t], hd'[t], res'[t], held'[t], val') = [call |-> "pop"]
    BY <2>1, CallFacts
  <2> QED
    BY <1>1, <1>2, <1>4, <2>2, CallOfOne DEF Pop, Stack!Call, Stack!popping
<1>5. CASE ReleaseCall(t)
  <2>1. pc'[t] \in ReleasePcs
    BY <1>5 DEF ReleaseCall, Enter, Goto, RInv, IInv, TypeOK, ReleasePcs
  <2>2. CallOf(pc'[t], node'[t], hd'[t], res'[t], held'[t], val') = [call |-> "release"]
    BY <2>1, CallFacts
  <2> QED
    BY <1>1, <1>2, <1>5, <2>2, CallOfOne DEF Release, Stack!Call, Stack!releasing
<1> QED
  BY <1>3, <1>4, <1>5

\* A push takes effect when its compare-and-swap succeeds.
LEMMA PushTakesEffect ==
  ASSUME RInv, NEW t \in Threads, PushSwap(t)
  PROVE  Stack!Push(t)
<1>1. node[t] \in Nodes /\ pc[t] \in PushPcs
  BY DEF PushSwap, RInv, IInv, TypeOK, Exclusive, Private, PushPcs
<1>2. opBar[t] = [call |-> "push", arg |-> val[node[t]]]
  BY <1>1, CallOfOne, CallFacts DEF Push
<1>3. pc'[t] = "push_count"
  BY DEF PushSwap, Goto, RInv, IInv, TypeOK
<1>4. opBar' = [opBar EXCEPT ![t] = [call |-> "pushed"]]
  BY <1>3, CallOfOne, CallFacts DEF Push
<1>5. list \in Seq(Nodes) /\ val \in [Nodes -> Values] /\ val' = val /\ list' = <<node[t]>> \o list
  BY DEF PushSwap, RInv, IInv, TypeOK
<1>6. ValuesOf(list)' = <<val[node[t]]>> \o ValuesOf(list)
  BY <1>1, <1>5, ImagePush, StackIs
<1> QED
  BY <1>2, <1>4, <1>6 DEF Stack!Push, Stack!pushed

\* A pop takes effect when its compare-and-swap succeeds: the node it takes is
\* the first of the list of that instant.
LEMMA PopTakesEffect ==
  ASSUME RInv, NEW t \in Threads, PopSwap(t)
  PROVE  Stack!Pop(t)
<1>1. pc[t] \in PopPcs /\ pc'[t] = "pop_take" /\ hd' = hd /\ val' = val
  BY DEF PopSwap, Goto, RInv, IInv, TypeOK, PopPcs
<1>2. opBar[t] = [call |-> "pop"]
  BY <1>1, CallOfOne, CallFacts DEF Pop
<1>3. opBar' = [opBar EXCEPT ![t] = [call |-> "popped", res |-> val[hd[t].ptr]]]
  BY <1>1, CallOfOne, CallFacts DEF Pop
<1>4. hd[t] = head /\ head.ptr # NULL
  BY DEF PopSwap, CAS, RInv, IInv, HeldKnown
<1>5. list \in Seq(Nodes) /\ val \in [Nodes -> Values] /\ list' = Tail(list) /\ Len(list) \in Nat
  BY LenProperties DEF PopSwap, RInv, IInv, TypeOK
<1>6. Len(list) # 0 /\ list[1] = head.ptr
  BY <1>4, <1>5 DEF RInv, IInv, ListSound, Linked, NodeAt
<1>7. /\ ValuesOf(list) # <<>>
      /\ Head(ValuesOf(list)) = val[hd[t].ptr]
      /\ ValuesOf(list)' = Tail(ValuesOf(list))
  BY <1>1, <1>4, <1>5, <1>6, ImageTail, StackIs
<1> QED
  BY <1>2, <1>3, <1>7 DEF Stack!Pop, Stack!popping, Stack!popped

\* A pop that loads an empty head takes effect there.
LEMMA PopFindsNothing ==
  ASSUME RInv, NEW t \in Threads, PopLoad(t), head.ptr = NULL
  PROVE  Stack!Pop(t)
<1>1. pc[t] \in PopPcs /\ pc'[t] = "pop_empty" /\ list' = list /\ val' = val
  BY DEF PopLoad, Goto, RInv, IInv, TypeOK, PopPcs, shared
<1>2. opBar[t] = [call |-> "pop"]
  BY <1>1, CallOfOne, CallFacts DEF Pop
<1>3. opBar' = [opBar EXCEPT ![t] = [call |-> "popped", res |-> None]]
  BY <1>1, CallOfOne, CallFacts DEF Pop
<1>4. list \in Seq(Nodes) /\ Len(list) \in Nat /\ \A i \in 1..Len(list) : list[i] # NULL
  BY NullAssumption, LenProperties, ElementOfSeq DEF RInv, IInv, TypeOK
<1>5. Len(list) = 0
  BY <1>4 DEF RInv, IInv, ListSound, Linked, NodeAt
<1>6. ValuesOf(list) = <<>> /\ ValuesOf(list)' = ValuesOf(list)
  BY <1>1, <1>5, StackIs DEF ValuesOf
<1> QED
  BY <1>2, <1>3, <1>6 DEF Stack!Pop, Stack!popping, Stack!popped

\* A release takes effect when its compare-and-swap succeeds: what it will
\* answer is the list of that instant.
LEMMA ReleaseTakesEffect ==
  ASSUME RInv, NEW t \in Threads, ReleaseSwap(t)
  PROVE  Stack!Release(t)
<1>1. /\ pc[t] \in ReleasePcs /\ pc'[t] = "rel_inserts" /\ val' = val
      /\ res'[t] = <<>> /\ held'[t] = list /\ list' = <<>>
  BY DEF ReleaseSwap, Goto, RInv, IInv, TypeOK, ReleasePcs, NoResults
<1>2. opBar[t] = [call |-> "release"]
  BY <1>1, CallOfOne, CallFacts DEF Release
<1>3. CallOf(pc'[t], node'[t], hd'[t], res'[t], held'[t], val')
        = Released(<<>>, list, val)
  BY <1>1, CallFacts
<1>4. <<>> \o Image(list, val) = ValuesOf(list)
  BY ImageSeq, ConcatEmptySeq, StackIs DEF RInv, IInv, TypeOK
<1>5. opBar' = [opBar EXCEPT ![t] = [call |-> "released", res |-> ValuesOf(list)]]
  BY <1>3, <1>4, CallOfOne DEF Release, Released
<1>6. ValuesOf(list)' = <<>>
  BY <1>1, StackIs DEF Image
<1> QED
  BY <1>2, <1>5, <1>6 DEF Stack!Release, Stack!releasing, Stack!released

\* A call returns what it had when it took effect.
LEMMA ReturnStep ==
  ASSUME RInv, NEW t \in Threads,
         PushCount(t) \/ PopEmpty(t) \/ PopCount(t) \/ ReleaseReturn(t)
  PROVE  Stack!Return(t)
<1>1. Push(t) \/ Pop(t) \/ Release(t)
  BY DEF Push, Pop, Release
<1>2. pc'[t] = "idle" /\ list' = list
  BY DEF PushCount, PopEmpty, PopCount, ReleaseReturn, Leave, Goto, RInv, IInv, TypeOK
<1>3. opBar' = [opBar EXCEPT ![t] = [call |-> "none"]]
  BY <1>1, <1>2, CallOfOne, CallFacts
<1>4. ValuesOf(list)' = ValuesOf(list)
  BY <1>1, <1>2, StackStays, OthersStay DEF RInv, IInv
<1>5. pc[t] \in {"push_count", "pop_empty", "pop_count", "rel_walk"}
  BY DEF PushCount, PopEmpty, PopCount, ReleaseReturn
<1>6. opBar[t].call \in {"pushed", "popped", "released"}
  <2>1. CASE pc[t] \in {"push_count", "pop_empty", "pop_count"}
    BY <1>1, <2>1, CallOfOne, CallFacts
  <2>2. CASE pc[t] = "rel_walk"
    <3>1. opBar[t] = Released(res[t], held[t], val)
      BY <1>1, <2>2, CallOfOne, CallFacts
    <3> QED
      BY <3>1 DEF Released
  <2> QED
    BY <1>5, <2>1, <2>2
<1> QED
  BY <1>3, <1>4, <1>6 DEF Stack!Return, Stack!idle

\* A step that leaves the call of t where it was leaves every call there.
LEMMA SilentIf ==
  ASSUME RInv, NEW t \in Threads, Push(t) \/ Pop(t) \/ Release(t), list' = list,
         CallOf(pc'[t], node'[t], hd'[t], res'[t], held'[t], val') = opBar[t]
  PROVE  Silent(t)
<1>1. opBar' = [opBar EXCEPT ![t] = opBar[t]]
  BY CallOfOne
<1>2. opBar' = opBar
  BY <1>1, OpBar
<1>3. ValuesOf(list)' = ValuesOf(list)
  BY StackStays, OthersStay DEF RInv, IInv
<1> QED
  BY <1>2, <1>3 DEF Silent

\* Loads, failed compare-and-swaps, the statistics and the deletion of nodes
\* change nothing that a caller sees.
LEMMA PushSilent ==
  ASSUME RInv, NEW t \in Threads, PushLoad(t) \/ PushRetry(t)
  PROVE  Silent(t)
<1>1. /\ pc[t] \in PushPcs /\ pc'[t] \in PushPcs /\ node' = node /\ val' = val /\ list' = list
      /\ Push(t)
  BY DEF PushLoad, PushRetry, Goto, RInv, IInv, TypeOK, PushPcs, shared, Push
<1>2. CallOf(pc'[t], node'[t], hd'[t], res'[t], held'[t], val') = opBar[t]
  BY <1>1, CallOfOne, CallFacts
<1> QED
  BY <1>1, <1>2, SilentIf

\* The steps of pop() before and after its swap are invisible to AtomicStack.
LEMMA PopSilent ==
  ASSUME RInv, NEW t \in Threads,
         (PopLoad(t) /\ head.ptr # NULL) \/ PopNext(t) \/ PopRetry(t) \/ PopTake(t)
  PROVE  Silent(t)
<1>1. list' = list /\ Pop(t)
  BY DEF PopLoad, PopNext, PopRetry, PopTake, Pop
<1>2. CASE pc[t] \in PopPcs
  <2>1. pc'[t] \in PopPcs
    BY <1>2 DEF PopLoad, PopNext, PopRetry, PopTake, Goto, RInv, IInv, TypeOK, PopPcs
  <2>2. CallOf(pc'[t], node'[t], hd'[t], res'[t], held'[t], val') = opBar[t]
    BY <1>1, <1>2, <2>1, CallOfOne, CallFacts
  <2> QED
    BY <1>1, <2>2, SilentIf
<1>3. CASE PopTake(t)
  <2>1. pc[t] = "pop_take" /\ pc'[t] = "pop_count" /\ res'[t] = <<val[hd[t].ptr]>>
    BY <1>3 DEF PopTake, Goto, RInv, IInv, TypeOK
  <2>2. CallOf(pc'[t], node'[t], hd'[t], res'[t], held'[t], val')
          = [call |-> "popped", res |-> val[hd[t].ptr]]
    <3>1. res'[t][1] = val[hd[t].ptr]
      BY <2>1
    <3> QED
      BY <2>1, <3>1, CallFacts
  <2>3. opBar[t] = [call |-> "popped", res |-> val[hd[t].ptr]]
    BY <1>1, <2>1, CallOfOne, CallFacts
  <2> QED
    BY <1>1, <2>2, <2>3, SilentIf
<1> QED
  BY <1>2, <1>3 DEF PopLoad, PopNext, PopRetry, PopPcs

\* The steps of release() other than its swap and its return are invisible.
LEMMA ReleaseSilent ==
  ASSUME RInv, NEW t \in Threads,
         \/ ReleaseLoad(t) \/ ReleaseRetry(t) \/ ReleaseInserts(t) \/ ReleasePops(t)
         \/ ReleaseNode(t)
  PROVE  Silent(t)
<1>1. list' = list /\ val' = val /\ Release(t)
  BY DEF ReleaseLoad, ReleaseRetry, ReleaseInserts, ReleasePops, ReleaseNode, Release, shared
<1>2. CASE ReleaseLoad(t) \/ ReleaseRetry(t)
  <2>1. pc[t] \in ReleasePcs /\ pc'[t] \in ReleasePcs
    BY <1>2 DEF ReleaseLoad, ReleaseRetry, Goto, RInv, IInv, TypeOK, ReleasePcs
  <2>2. CallOf(pc'[t], node'[t], hd'[t], res'[t], held'[t], val') = opBar[t]
    BY <1>1, <2>1, CallOfOne, CallFacts
  <2> QED
    BY <1>1, <2>2, SilentIf
<1>3. CASE ReleaseInserts(t) \/ ReleasePops(t) \/ ReleaseNode(t)
  <2>1. /\ pc[t] \in {"rel_inserts", "rel_pops", "rel_walk"}
        /\ pc'[t] \in {"rel_inserts", "rel_pops", "rel_walk"}
    BY <1>3 DEF ReleaseInserts, ReleasePops, ReleaseNode, Goto, RInv, IInv, TypeOK
  <2>2. res'[t] \o Image(held'[t], val) = res[t] \o Image(held[t], val)
    <3>1. CASE ReleaseInserts(t) \/ ReleasePops(t)
      BY <3>1 DEF ReleaseInserts, ReleasePops
    <3>2. CASE ReleaseNode(t)
      <4>1. /\ held[t] \in Seq(Nodes) /\ res[t] \in Seq(Values) /\ val \in [Nodes -> Values]
            /\ Len(held[t]) \in Nat
        BY LenProperties DEF RInv, IInv, TypeOK
      <4>2. Len(held[t]) # 0 /\ after[t] = held[t][1]
        <5>1. after[t] # NULL /\ Linked(after[t], held[t])
          BY <3>2 DEF ReleaseNode, RInv, IInv, HeldKnown
        <5> QED
          BY <4>1, <5>1 DEF Linked, NodeAt
      <4>3. res'[t] = Append(res[t], val[held[t][1]]) /\ held'[t] = Tail(held[t])
        BY <3>2, <4>2 DEF ReleaseNode, RInv, IInv, TypeOK
      <4> QED
        BY <4>1, <4>2, <4>3, ImageMove
    <3> QED
      BY <1>3, <3>1, <3>2
  <2>3. CallOf(pc'[t], node'[t], hd'[t], res'[t], held'[t], val')
          = Released(res'[t], held'[t], val)
    BY <1>1, <2>1, CallFacts
  <2>4. opBar[t] = Released(res[t], held[t], val)
    BY <1>1, <2>1, CallOfOne, CallFacts
  <2>5. Released(res'[t], held'[t], val) = Released(res[t], held[t], val)
    BY <2>2 DEF Released
  <2> QED
    BY <1>1, <2>3, <2>4, <2>5, SilentIf
<1> QED
  BY <1>2, <1>3

\* Each step of the list is one of the stack or is not seen there.
LEMMA StackStep == RInv /\ [Next]_vars => [Stack!Next]_(Stack!vars)
<1> SUFFICES ASSUME RInv, [Next]_vars PROVE [Stack!Next]_(Stack!vars)
  OBVIOUS
<1>s. \A t \in Threads : Silent(t) => UNCHANGED Stack!vars
  BY DEF Silent, Stack!vars
<1>1. ASSUME NEW t \in Threads, Push(t) PROVE [Stack!Next]_(Stack!vars)
  BY <1>1, <1>s, CallStep, PushTakesEffect, ReturnStep, PushSilent DEF Push, Stack!Next
<1>2. ASSUME NEW t \in Threads, Pop(t) PROVE [Stack!Next]_(Stack!vars)
  BY <1>2, <1>s, CallStep, PopTakesEffect, PopFindsNothing, ReturnStep, PopSilent
     DEF Pop, Stack!Next
<1>3. ASSUME NEW t \in Threads, Release(t) PROVE [Stack!Next]_(Stack!vars)
  BY <1>3, <1>s, CallStep, ReleaseTakesEffect, ReturnStep, ReleaseSilent
     DEF Release, Stack!Next
<1>4. CASE UNCHANGED vars
  BY <1>4 DEF vars, shared, locals, Stack!vars, opBar, ValuesOf
<1> QED
  BY <1>1, <1>2, <1>3, <1>4 DEF Next

\* atomic_linked_list implements the stack of AtomicStack for every number of
\* threads and addresses, although addresses are reused and next is read
\* from nodes that may be gone.
THEOREM ImplementsStack == Spec => Linearizable
<1>1. Init => Stack!Init
  <2> SUFFICES ASSUME Init PROVE Stack!Init
    OBVIOUS
  <2>1. opBar = [t \in Threads |-> [call |-> "none"]]
    BY OpBar, CallFacts DEF Init
  <2>2. ValuesOf(list) = <<>>
    BY DEF Init, ValuesOf
  <2> QED
    BY <2>1, <2>2 DEF Stack!Init, Stack!idle
<1> QED
  BY <1>1, StackStep, RInvariance, PTL DEF Spec, Linearizable, Stack!Spec
=============================================================================
