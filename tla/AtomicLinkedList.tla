--------------------------- MODULE AtomicLinkedList ---------------------------
(***************************************************************************)
(* txl::atomic_linked_list (linked_list.h) at the level of heap nodes: the *)
(* 16-byte head {ptr, ctr} that is loaded and compare-and-swapped as one   *)
(* word, nodes that are allocated, linked, unlinked, deleted and whose     *)
(* addresses the allocator hands out again, and the two statistics         *)
(* counters that are updated apart from the head.                          *)
(*                                                                         *)
(* One action is one access to shared memory.  A thread that pops reads    *)
(* `next` of a node another thread may have deleted meanwhile: that read   *)
(* returns an arbitrary pointer here.  `list` and `held` are history       *)
(* variables: which nodes are in the list, front first, and which nodes a  *)
(* thread has taken out and not deleted yet.  No guard reads them.         *)
(***************************************************************************)
EXTENDS Naturals, Sequences

CONSTANTS
    Threads,    \* threads that share one list
    Releasers,  \* those that may call release() or clear()
    Nodes,      \* addresses the allocator can return
    Values,
    NULL,       \* nullptr
    None,       \* the empty std::optional
    MaxGen      \* bound: no call starts once the head has changed this often

ASSUME NullAssumption     == NULL \notin Nodes
ASSUME ReleaserAssumption == Releasers \subseteq Threads
ASSUME BoundAssumption    == MaxGen \in Nat

VARIABLES
    head,           \* head_
    allocated,      \* the addresses that hold a live value_node
    val, next,      \* the fields of the nodes
    num_inserts, num_pops,
    pc,             \* the next step of each thread
    node,           \* emplace_front: the new node n
    hd,             \* the local variable head
    after,          \* pop: head.ptr->next as it was read
    res,            \* the result of the call, as far as it is known
    list, held      \* history variables

shared == <<head, allocated, val, next, num_inserts, num_pops>>
locals == <<pc, node, hd, after, res>>
vars   == <<shared, locals, list, held>>

Ptr   == Nodes \cup {NULL}
Alias == [ptr : Ptr, ctr : Nat]

create_alias(p) == [ptr |-> p, ctr |-> 0]
\* mutant: the generation is not counted
same_generation(n, vn) == [ptr |-> vn, ctr |-> n.ctr]
next_alias(n, vn) == [ptr |-> vn, ctr |-> n.ctr + 1]

PushPcs    == {"push_load", "push_cas"}
PopPcs     == {"pop_load", "pop_next", "pop_cas"}
ReleasePcs == {"rel_load", "rel_cas"}
Pcs == {"idle", "push_count", "pop_take", "pop_count", "pop_empty",
        "rel_inserts", "rel_pops", "rel_walk"} \cup PushPcs \cup PopPcs \cup ReleasePcs

Init ==
    /\ head = create_alias(NULL)
    /\ allocated = {}
    /\ \E v \in Values : val = [n \in Nodes |-> v]
    /\ next  = [n \in Nodes |-> NULL]
    /\ num_inserts = 0
    /\ num_pops = 0
    /\ pc    = [t \in Threads |-> "idle"]
    /\ node  = [t \in Threads |-> NULL]
    /\ hd    = [t \in Threads |-> create_alias(NULL)]
    /\ after = [t \in Threads |-> NULL]
    /\ res   = [t \in Threads |-> <<>>]
    /\ list  = <<>>
    /\ held  = [t \in Threads |-> <<>>]

Goto(t, l) == pc' = [pc EXCEPT ![t] = l]

\* A call starts: the thread is outside the list, and the bound is not reached
Enter(t, l) == pc[t] = "idle" /\ head.ctr < MaxGen /\ Goto(t, l)

\* A call returns: its local variables are gone
Leave(t) ==
    /\ Goto(t, "idle")
    /\ node'  = [node EXCEPT ![t] = NULL]
    /\ hd'    = [hd EXCEPT ![t] = create_alias(NULL)]
    /\ after' = [after EXCEPT ![t] = NULL]
    /\ res'   = [res EXCEPT ![t] = <<>>]

Load(t) == hd' = [hd EXCEPT ![t] = head]

\* __atomic_compare_exchange of head_ with weak = true: it succeeds only if
\* head_ still equals the value loaded before, and may fail even then.
\* mutant: only the pointers are compared
PointerCAS(t, new) == head.ptr = hd[t].ptr /\ head' = new
CAS(t, new) == head = hd[t] /\ head' = new

----------------------------------------------------------------------------
(* emplace_front *)

\* new value_node: the allocator returns any address that is not in use
PushNew(t) ==
    /\ Enter(t, "push_load")
    /\ \E n \in Nodes \ allocated, v \in Values :
         /\ allocated' = allocated \cup {n}
         /\ val'  = [val EXCEPT ![n] = v]
         /\ next' = [next EXCEPT ![n] = NULL]
         /\ node' = [node EXCEPT ![t] = n]
    /\ UNCHANGED <<head, num_inserts, num_pops, hd, after, res, list, held>>

\* head = load(head_); n->next = head.ptr.  The node is still private.
PushLoad(t) ==
    /\ pc[t] = "push_load"
    /\ Load(t)
    /\ next' = [next EXCEPT ![node[t]] = head.ptr]
    /\ Goto(t, "push_cas")
    /\ UNCHANGED <<head, allocated, val, num_inserts, num_pops, node, after, res, list, held>>

PushSwap(t) ==
    /\ pc[t] = "push_cas"
    /\ CAS(t, next_alias(hd[t], node[t]))
    /\ Goto(t, "push_count")
    /\ list' = <<node[t]>> \o list
    /\ UNCHANGED <<allocated, val, next, num_inserts, num_pops, node, hd, after, res, held>>

\* mutant: a failed compare-and-swap is not retried
PushGivesUp(t) == pc[t] = "push_cas" /\ Leave(t) /\ UNCHANGED <<shared, list, held>>
PushRetry(t) ==
    /\ pc[t] = "push_cas"
    /\ Goto(t, "push_load")
    /\ UNCHANGED <<shared, node, hd, after, res, list, held>>

PushCount(t) ==
    /\ pc[t] = "push_count"
    /\ num_inserts' = num_inserts + 1
    /\ Leave(t)
    /\ UNCHANGED <<head, allocated, val, next, num_pops, list, held>>

----------------------------------------------------------------------------
(* pop_and_release_front *)

PopCall(t) ==
    /\ Enter(t, "pop_load")
    /\ UNCHANGED <<shared, node, hd, after, res, list, held>>

PopLoad(t) ==
    /\ pc[t] = "pop_load"
    /\ Load(t)
    /\ Goto(t, IF head.ptr = NULL THEN "pop_empty" ELSE "pop_next")
    /\ UNCHANGED <<shared, node, after, res, list, held>>

\* return {}
PopEmpty(t) ==
    /\ pc[t] = "pop_empty"
    /\ Leave(t)
    /\ UNCHANGED <<shared, list, held>>

\* head.ptr->next: the node may be gone, and then the read returns anything
PopNext(t) ==
    /\ pc[t] = "pop_next"
    /\ \E p \in Ptr :
         /\ hd[t].ptr \in allocated => p = next[hd[t].ptr]
         /\ after' = [after EXCEPT ![t] = p]
    /\ Goto(t, "pop_cas")
    /\ UNCHANGED <<shared, node, hd, res, list, held>>

PopSwap(t) ==
    /\ pc[t] = "pop_cas"
    /\ CAS(t, next_alias(hd[t], after[t]))
    /\ Goto(t, "pop_take")
    /\ list' = Tail(list)
    /\ held' = [held EXCEPT ![t] = <<hd[t].ptr>>]
    /\ UNCHANGED <<allocated, val, next, num_inserts, num_pops, node, hd, after, res>>

\* mutant: a failed compare-and-swap passes for a successful one
PopOnce(t) ==
    pc[t] = "pop_cas" /\ Goto(t, "pop_take") /\ UNCHANGED <<shared, node, hd, after, res, list, held>>
PopRetry(t) ==
    /\ pc[t] = "pop_cas"
    /\ Goto(t, "pop_load")
    /\ UNCHANGED <<shared, node, hd, after, res, list, held>>

\* move the value out and delete the node
PopTake(t) ==
    /\ pc[t] = "pop_take"
    /\ res' = [res EXCEPT ![t] = <<val[hd[t].ptr]>>]
    /\ allocated' = allocated \ {hd[t].ptr}
    /\ held' = [held EXCEPT ![t] = <<>>]
    /\ Goto(t, "pop_count")
    /\ UNCHANGED <<head, val, next, num_inserts, num_pops, node, hd, after, list>>

PopCount(t) ==
    /\ pc[t] = "pop_count"
    /\ num_pops' = num_pops + 1
    /\ Leave(t)
    /\ UNCHANGED <<head, allocated, val, next, num_inserts, list, held>>

----------------------------------------------------------------------------
(* release, and clear which is release with an empty callback *)

ReleaseCall(t) ==
    /\ t \in Releasers
    /\ Enter(t, "rel_load")
    /\ UNCHANGED <<shared, node, hd, after, res, list, held>>

ReleaseLoad(t) ==
    /\ pc[t] = "rel_load"
    /\ Load(t)
    /\ Goto(t, "rel_cas")
    /\ UNCHANGED <<shared, node, after, res, list, held>>

ReleaseSwap(t) ==
    /\ pc[t] = "rel_cas"
    /\ CAS(t, next_alias(hd[t], NULL))
    /\ Goto(t, "rel_inserts")
    /\ list' = <<>>
    /\ held' = [held EXCEPT ![t] = list]
    /\ UNCHANGED <<allocated, val, next, num_inserts, num_pops, node, hd, after, res>>

\* mutant: as PopOnce
ReleaseOnce(t) ==
    pc[t] = "rel_cas" /\ Goto(t, "rel_inserts") /\ UNCHANGED <<shared, node, hd, after, res, list, held>>
ReleaseRetry(t) ==
    /\ pc[t] = "rel_cas"
    /\ Goto(t, "rel_load")
    /\ UNCHANGED <<shared, node, hd, after, res, list, held>>

ReleaseInserts(t) ==
    /\ pc[t] = "rel_inserts"
    /\ num_inserts' = 0
    /\ Goto(t, "rel_pops")
    /\ UNCHANGED <<head, allocated, val, next, num_pops, node, hd, after, res, list, held>>

\* num_pops_.store(0), then p_head = head.ptr
ReleasePops(t) ==
    /\ pc[t] = "rel_pops"
    /\ num_pops' = 0
    /\ Goto(t, "rel_walk")
    /\ after' = [after EXCEPT ![t] = hd[t].ptr]
    /\ UNCHANGED <<head, allocated, val, next, num_inserts, node, hd, res, list, held>>

\* on_val(p_head->val); next = p_head->next; delete p_head; p_head = next
ReleaseNode(t) ==
    /\ pc[t] = "rel_walk"
    /\ after[t] # NULL
    /\ res' = [res EXCEPT ![t] = Append(@, val[after[t]])]
    /\ allocated' = allocated \ {after[t]}
    /\ after' = [after EXCEPT ![t] = next[after[t]]]
    /\ held' = [held EXCEPT ![t] = Tail(@)]
    /\ UNCHANGED <<head, val, next, num_inserts, num_pops, pc, node, hd, list>>

ReleaseReturn(t) ==
    /\ pc[t] = "rel_walk"
    /\ after[t] = NULL
    /\ Leave(t)
    /\ UNCHANGED <<shared, list, held>>

----------------------------------------------------------------------------
Push(t) == PushNew(t) \/ PushLoad(t) \/ PushSwap(t) \/ PushRetry(t) \/ PushCount(t)

Pop(t) ==
    \/ PopCall(t) \/ PopLoad(t) \/ PopEmpty(t) \/ PopNext(t)
    \/ PopSwap(t) \/ PopRetry(t) \/ PopTake(t) \/ PopCount(t)

Release(t) ==
    \/ ReleaseCall(t) \/ ReleaseLoad(t) \/ ReleaseSwap(t) \/ ReleaseRetry(t)
    \/ ReleaseInserts(t) \/ ReleasePops(t) \/ ReleaseNode(t) \/ ReleaseReturn(t)

Next == \E t \in Threads : Push(t) \/ Pop(t) \/ Release(t)

Spec == Init /\ [][Next]_vars

----------------------------------------------------------------------------
(* Properties *)

\* Every variable holds a value of its type.
TypeOK ==
    /\ head \in Alias
    /\ allocated \subseteq Nodes
    /\ val  \in [Nodes -> Values]
    /\ next \in [Nodes -> Ptr]
    /\ num_inserts \in Nat
    /\ num_pops \in Nat
    /\ pc    \in [Threads -> Pcs]
    /\ node  \in [Threads -> Ptr]
    /\ hd    \in [Threads -> Alias]
    /\ after \in [Threads -> Ptr]
    /\ res   \in [Threads -> Seq(Values)]
    /\ list  \in Seq(Nodes)
    /\ held  \in [Threads -> Seq(Nodes)]

NodeAt(s, i) == IF i <= Len(s) THEN s[i] ELSE NULL

\* p is the first node of s and `next` leads through s to nullptr
Linked(p, s) ==
    /\ p = NodeAt(s, 1)
    /\ \A i \in 1..Len(s) : next[s[i]] = NodeAt(s, i + 1)

Distinct(s) == \A i, j \in 1..Len(s) : s[i] = s[j] => i = j

Private(t) == pc[t] \in PushPcs

\* Following next from head_ visits exactly the nodes that were pushed and not
\* yet taken, in LIFO order, and every one of them is a live node: an address
\* that was deleted and handed out again between a load of head_ and the
\* compare-and-swap never gets a stale `next` installed (the ABA problem that
\* the generation counter is there for).
ListSound ==
    /\ Linked(head.ptr, list)
    /\ Distinct(list)
    /\ \A i \in 1..Len(list) : list[i] \in allocated

\* A node that a thread took out of the list, or has not linked yet, is live
\* and belongs to that thread alone: pop's move-and-delete and release's walk
\* never touch a node that is in the list or in another thread's hands.
Exclusive ==
    \A t \in Threads :
        /\ Private(t) =>
             /\ node[t] \in allocated
             /\ \A i \in 1..Len(list) : list[i] # node[t]
        /\ Distinct(held[t])
        /\ \A i \in 1..Len(held[t]) :
             /\ held[t][i] \in allocated
             /\ \A j \in 1..Len(list) : list[j] # held[t][i]
        /\ \A u \in Threads \ {t} :
             /\ Private(t) /\ Private(u) => node[t] # node[u]
             /\ \A i \in 1..Len(held[t]) :
                  /\ Private(u) => held[t][i] # node[u]
                  /\ \A j \in 1..Len(held[u]) : held[t][i] # held[u][j]

NodesOf(s) == {s[i] : i \in 1..Len(s)}

\* No node leaks: whatever is allocated is in the list, or some thread is about
\* to link it or to delete it.
NoLeak ==
    allocated \subseteq
        NodesOf(list) \cup (UNION {NodesOf(held[t]) : t \in Threads})
                      \cup {node[t] : t \in {u \in Threads : Private(u)}}

\* What a thread knows between its load of head_ and its compare-and-swap: the
\* counter never runs backwards, equal counters mean an untouched head, and
\* then the `next` a pop has read is still the one in the node.
FreshHead ==
    \A t \in Threads :
        pc[t] \in {"push_cas", "pop_next", "pop_cas", "rel_cas"} =>
            /\ hd[t].ctr <= head.ctr
            /\ hd[t].ctr = head.ctr => hd[t] = head
            /\ pc[t] = "push_cas" => next[node[t]] = hd[t].ptr
            /\ pc[t] = "pop_cas" /\ hd[t] = head => after[t] = next[head.ptr]

\* What a thread that took nodes out knows about them.
HeldKnown ==
    \A t \in Threads :
        /\ pc[t] \in {"pop_next", "pop_cas", "pop_take"} => hd[t].ptr # NULL
        /\ \/ pc[t] = "pop_take" /\ held[t] = <<hd[t].ptr>>
           \/ pc[t] \in {"rel_inserts", "rel_pops"} /\ Linked(hd[t].ptr, held[t])
           \/ pc[t] = "rel_walk" /\ Linked(after[t], held[t])
           \/ /\ pc[t] \notin {"pop_take", "rel_inserts", "rel_pops", "rel_walk"}
              /\ held[t] = <<>>

\* The invariant that is inductive: no step of one thread breaks what another
\* thread relies on at its own place in the code.
IInv == TypeOK /\ ListSound /\ Exclusive /\ FreshHead /\ HeldKnown

----------------------------------------------------------------------------
(* Refinement: the values of the list's nodes are the abstract stack, and the *)
(* successful compare-and-swap (or the load of an empty head) is the instant  *)
(* the call takes effect.                                                     *)

ValuesOf(s) == [i \in 1..Len(s) |-> val[s[i]]]

opBar == [t \in Threads |->
    CASE pc[t] = "idle"       -> [call |-> "none"]
      [] pc[t] \in PushPcs    -> [call |-> "push", arg |-> val[node[t]]]
      [] pc[t] = "push_count" -> [call |-> "pushed"]
      [] pc[t] \in PopPcs     -> [call |-> "pop"]
      [] pc[t] = "pop_empty"  -> [call |-> "popped", res |-> None]
      [] pc[t] = "pop_take"   -> [call |-> "popped", res |-> val[hd[t].ptr]]
      [] pc[t] = "pop_count"  -> [call |-> "popped", res |-> res[t][1]]
      [] pc[t] \in ReleasePcs -> [call |-> "release"]
      [] OTHER                -> [call |-> "released", res |-> res[t] \o ValuesOf(held[t])]]

Stack == INSTANCE AtomicStack WITH stack <- ValuesOf(list), op <- opBar

\* The list is a linearizable stack: no value is lost, duplicated or handed to
\* two callers, and a release gets the list of one instant, unaffected by the
\* pushes and pops that go on while it walks the nodes.
Linearizable == Stack!Spec
=============================================================================
