------------------------------- MODULE MemoryPool -------------------------------
(***************************************************************************)
(* txl::memory_pool (memory_pool.h): chunks of whole pages cut from one    *)
(* buffer, reference counts kept in the chunks' headers, and a free list   *)
(* threaded through the headers of the free ones.  The header's first word *)
(* is a union: next_chunk while the chunk is free, num_references while it *)
(* is in use; it is one field here too.                                    *)
(*                                                                         *)
(* Every operation that changes the pool holds mutex_, so each is one      *)
(* action.  dec_ref and inc_ref read the header's type before they lock,   *)
(* but that cannot change under a caller whose own handle is counted.      *)
(* Sizes are in pages.                                                     *)
(***************************************************************************)
EXTENDS Naturals

CONSTANTS
    NumPages,
    NO_CHUNK,
    Disciplines,    \* the ways in which the clients may ask for memory; see MayAsk
    MaxHandles      \* bound on the open handles of one chunk

ASSUME PagesAssumption   == NumPages \in Nat \ {0}
ASSUME NoChunkAssumption == NO_CHUNK \in Nat /\ NO_CHUNK > NumPages + MaxHandles
ASSUME BoundAssumption   == MaxHandles \in Nat \ {0} /\ Disciplines \subseteq {"fresh", "one", "any"}

VARIABLES
    header,         \* header[p]: what page p's first bytes say if a chunk starts there
    next_alloc,     \* next_alloc_, as a page number
    free_list,
    open,           \* open[p]: the handles and chunk objects that point at page p's chunk
    discipline      \* of the clients: it never changes

vars == <<header, next_alloc, free_list, open, discipline>>

Pages == 0..NumPages - 1

Chunks == {p \in Pages : header[p].type # "raw"}

Init ==
    /\ header = [p \in Pages |-> [word |-> 0, num_pages |-> 0, type |-> "raw"]]
    /\ next_alloc = 0
    /\ free_list = NO_CHUNK
    /\ open = [p \in Pages |-> 0]
    /\ discipline \in Disciplines

----------------------------------------------------------------------------
(* The walk along the free list *)

\* What a link can hold
Links == Pages \cup 0..MaxHandles \cup {NO_CHUNK}

\* The chunks that find_free_list_chunk steps over
TooSmall(size) == {p \in Chunks : header[p].num_pages < size}

\* Where a walk comes that starts at free_list and steps over the chunks of P:
\* the smallest set that holds the start and, with a chunk of P, its successor
Closed(S, P) == free_list \in S /\ \A p \in S \cap P : header[p].word \in S
Walk(P)      == {x \in Links : \A S \in SUBSET Links : Closed(S, P) => x \in S}

\* find_free_list_chunk: the first chunk on the list that is large enough, or
\* NO_CHUNK at its end.  A link that leads to a page where no chunk starts reads
\* some client's bytes as a header, and anything may come of it; a walk that
\* comes back never ends, and there is no outcome at all.
find_free_list_chunk(size) ==
    LET stop == Walk(TooSmall(size)) \ TooSmall(size)
    IN  IF stop \subseteq Chunks \cup {NO_CHUNK} THEN stop ELSE Pages \cup {NO_CHUNK}

\* Clients that ask for memory
\*   fresh   only when no free chunk is large enough,
\*   one     only when no chunk on the free list is in use, that is, when the
\*           last one that the list served has been released,
\*   any     whenever they like.
MayAsk(size) ==
    \/ discipline = "any"
    \/ discipline = "one" /\ \A p \in Walk(Chunks) \cap Chunks : header[p].type = "free"
    \/ discipline = "fresh" /\ find_free_list_chunk(size) = {NO_CHUNK}

\* rent and allocate: get_free_chunk, then a handle of the chunk
FromFreeList(size) ==
    /\ MayAsk(size)
    /\ \E p \in find_free_list_chunk(size) \ {NO_CHUNK} :
         /\ open[p] < MaxHandles
         /\ header' = [header EXCEPT ![p] = [@ EXCEPT !.type = "mem", !.word = 1]]
         /\ open' = [open EXCEPT ![p] = @ + 1]
    /\ UNCHANGED <<next_alloc, free_list, discipline>>

\* next_alloc(num_pages) <= end_ptr()
fits(size) == next_alloc + size <= NumPages

\* mutant: one page, whatever the chunk's size
advance_one(size) == next_alloc + 1
advance(size)     == next_alloc + size

FromBuffer(size) ==
    /\ MayAsk(size)
    /\ NO_CHUNK \in find_free_list_chunk(size)
    /\ fits(size)
    /\ header' = [header EXCEPT ![next_alloc] = [word |-> 1, num_pages |-> size, type |-> "mem"]]
    /\ open' = [open EXCEPT ![next_alloc] = @ + 1]
    /\ next_alloc' = advance(size)
    /\ UNCHANGED <<free_list, discipline>>

\* mutant: the copy is not counted
no_ref(p)  == header
inc_ref(p) == IF header[p].type = "mem" THEN [header EXCEPT ![p].word = @ + 1] ELSE header

\* memory_pool_chunk's copy constructor
Copy(p) ==
    /\ open[p] \in 1..MaxHandles - 1
    /\ open' = [open EXCEPT ![p] = @ + 1]
    /\ header' = inc_ref(p)
    /\ UNCHANGED <<next_alloc, free_list, discipline>>

LastRef(p) == header[p].type = "mem" /\ header[p].word = 1

\* mutant: the chunk becomes the whole list
freed_alone(p) == [header EXCEPT ![p].type = "free", ![p].word = NO_CHUNK]
freed(p)       == [header EXCEPT ![p].type = "free", ![p].word = free_list]

\* release and memory_pool_chunk::close: dec_ref, which answers false to a chunk
\* that is not in use; the handle is empty afterwards in any case
Release(p) ==
    /\ open[p] > 0
    /\ open' = [open EXCEPT ![p] = @ - 1]
    /\ header' = CASE header[p].type # "mem" -> header
                   [] LastRef(p)             -> freed(p)
                   [] OTHER                  -> [header EXCEPT ![p].word = @ - 1]
    /\ free_list' = IF LastRef(p) THEN p ELSE free_list
    /\ UNCHANGED <<next_alloc, discipline>>

Next ==
    \/ \E size \in 1..NumPages : FromFreeList(size) \/ FromBuffer(size)
    \/ \E p \in Pages : Copy(p) \/ Release(p)

Spec == Init /\ [][Next]_vars

----------------------------------------------------------------------------
TypeOK ==
    /\ header \in [Pages -> [word : Links, num_pages : 0..NumPages, type : {"raw", "mem", "free"}]]
    /\ next_alloc \in 0..NumPages
    /\ free_list \in Pages \cup {NO_CHUNK}
    /\ open \in [Pages -> 0..MaxHandles]
    /\ discipline \in Disciplines

\* num_references of a chunk in use is the number of handles open to it, and a
\* free chunk has none: memory is not handed out while somebody still holds it.
RefsExact ==
    \A p \in Pages :
        open[p] = IF header[p].type = "mem" THEN header[p].word ELSE 0

\* The free list ends, holds every free chunk once and no chunk in use, as long
\* as get_free_chunk has not served a request from it: it does not unlink what
\* it serves.
FreeListSound ==
    discipline = "fresh" => Walk(Chunks) = {p \in Pages : header[p].type = "free"} \cup {NO_CHUNK}

\* The chunks lie side by side up to next_alloc: none reaches into another.
ChunksTile ==
    /\ \A p \in Chunks : p + header[p].num_pages <= next_alloc
    /\ \A p, q \in Chunks : p < q => p + header[p].num_pages <= q
    /\ \A n \in 0..NumPages - 1 :
         n < next_alloc => \E p \in Chunks : p <= n /\ n < p + header[p].num_pages
=============================================================================
