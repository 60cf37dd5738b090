---------------------------- MODULE MemoryPool_proofs ----------------------------
(***************************************************************************)
(* MemoryPool for any number of pages and of handles, and for clients that *)
(* do not ask for memory while a chunk of the free list is in use: those   *)
(* that do, the discipline "any", refute RefsExact.                        *)
(***************************************************************************)
EXTENDS MemoryPool, TLAPS

----------------------------------------------------------------------------
(* The walk *)

\* NO_CHUNK is no page, and no number of references.
LEMMA NoChunkApart == NO_CHUNK \notin Pages /\ NO_CHUNK \notin 0..MaxHandles
BY PagesAssumption, NoChunkAssumption, BoundAssumption DEF Pages

\* The walk comes to where it starts and to the successors of what it steps over.
LEMMA WalkCloses ==
  ASSUME TypeOK, NEW P \in SUBSET Pages
  PROVE  Closed(Walk(P), P) /\ Walk(P) \subseteq Links
<1>1. free_list \in Links /\ \A p \in Pages : header[p].word \in Links
  BY DEF TypeOK, Links
<1>2. free_list \in Walk(P)
  BY <1>1 DEF Walk, Closed
<1>3. ASSUME NEW p \in Walk(P) \cap P PROVE header[p].word \in Walk(P)
  BY <1>1, <1>3 DEF Walk, Closed
<1> QED
  BY <1>2, <1>3 DEF Walk, Closed

\* It comes nowhere else.
LEMMA WalkStays ==
  ASSUME NEW P, NEW S \in SUBSET Links, Closed(S, P)
  PROVE  Walk(P) \subseteq S
BY DEF Walk

\* A step that changes no chunk the walk comes to changes nothing of the walk.
LEMMA WalkKept ==
  ASSUME TypeOK, TypeOK', free_list' = free_list,
         \A p \in Walk(Chunks) : /\ p \in Chunks' <=> p \in Chunks
                                 /\ p \in Chunks => header'[p].word = header[p].word
  PROVE  Walk(Chunks)' = Walk(Chunks)
<1> DEFINE W == Walk(Chunks)
           V == Walk(Chunks)'
<1>1. W \subseteq Links /\ free_list \in W /\ \A p \in W \cap Chunks : header[p].word \in W
  BY WalkCloses DEF Chunks, Closed
<1>2. V \subseteq W
  <2>1. free_list' \in W /\ \A p \in W \cap Chunks' : header'[p].word \in W
    BY <1>1
  <2> QED
    BY <1>1, <2>1 DEF Walk, Closed
<1>3. W \subseteq V
  <2> SUFFICES ASSUME NEW S \in SUBSET Links, free_list' \in S,
                      \A p \in S \cap Chunks' : header'[p].word \in S
               PROVE  W \subseteq S
    BY <1>1 DEF Walk, Closed
  <2>1. Closed(S \cap W, Chunks)
    BY <1>1 DEF Closed
  <2> QED
    BY <2>1, WalkStays
<1> QED
  BY <1>2, <1>3

----------------------------------------------------------------------------
(* The inductive invariant *)

\* Links lead to chunks, as long as they are links: in a free chunk.
LinksLead ==
    /\ free_list \in Chunks \cup {NO_CHUNK}
    /\ \A p \in Pages : header[p].type = "free" => header[p].word \in Chunks \cup {NO_CHUNK}

\* No chunk starts at next_alloc or beyond.
RawAhead == \A p \in Pages : p >= next_alloc => header[p].type = "raw"

Inv == TypeOK /\ discipline # "any" /\ RefsExact /\ LinksLead /\ RawAhead /\ ChunksTile

\* A client that does not ask while a chunk of the list is in use gets a free
\* one from it.
LEMMA ServedIsFree ==
  ASSUME Inv, NEW size \in 1..NumPages, MayAsk(size),
         NEW p \in find_free_list_chunk(size) \ {NO_CHUNK}
  PROVE  p \in Pages /\ header[p].type = "free" /\ discipline = "one"
<1> USE DEF Inv
<1>1. discipline = "one" /\ \A q \in Walk(Chunks) \cap Chunks : header[q].type = "free"
  BY DEF MayAsk
<1>2. Closed(Walk(Chunks), Chunks) /\ Walk(Chunks) \subseteq Links
  BY WalkCloses DEF Chunks
<1>3. Walk(TooSmall(size)) \subseteq Walk(Chunks)
  <2>1. Closed(Walk(Chunks), TooSmall(size))
    BY <1>2 DEF Closed, TooSmall
  <2> QED
    BY <1>2, <2>1, WalkStays
<1>4. Walk(Chunks) \subseteq Chunks \cup {NO_CHUNK}
  <2> DEFINE S == Walk(Chunks) \cap (Chunks \cup {NO_CHUNK})
  <2>1. free_list \in S
    BY <1>2 DEF Closed, LinksLead
  <2>2. ASSUME NEW q \in S \cap Chunks PROVE header[q].word \in S
    BY <1>1, <1>2 DEF Closed, LinksLead, Chunks
  <2>3. Closed(S, Chunks)
    BY <2>1, <2>2 DEF Closed
  <2>4. S \in SUBSET Links
    BY <1>2
  <2> HIDE DEF S
  <2>5. Walk(Chunks) \subseteq S
    BY <2>3, <2>4, WalkStays
  <2> QED
    BY <2>5 DEF S
<1>5. p \in Walk(Chunks) \cap Chunks
  BY <1>3, <1>4 DEF find_free_list_chunk
<1> QED
  BY <1>1, <1>5 DEF Chunks

----------------------------------------------------------------------------
(* What the actions do to the chunks *)

\* A step that starts no chunk and resizes none leaves the tiling.
LEMMA TileKept ==
  ASSUME TypeOK, RawAhead, ChunksTile, next_alloc' = next_alloc, Chunks' = Chunks,
         \A p \in Chunks : header'[p].num_pages = header[p].num_pages
  PROVE  RawAhead' /\ ChunksTile'
<1>1. RawAhead'
  BY DEF RawAhead, Chunks
<1>2. ChunksTile'
  BY DEF ChunksTile
<1> QED
  BY <1>1, <1>2

\* get_free_chunk from the list
LEMMA FromFreeListKeeps ==
  ASSUME Inv, NEW size \in 1..NumPages, FromFreeList(size)
  PROVE  Inv'
<1> USE DEF Inv
<1>1. PICK p \in find_free_list_chunk(size) \ {NO_CHUNK} :
           /\ open[p] < MaxHandles
           /\ header' = [header EXCEPT ![p] = [@ EXCEPT !.type = "mem", !.word = 1]]
           /\ open' = [open EXCEPT ![p] = @ + 1]
  BY DEF FromFreeList
<1>2. UNCHANGED <<next_alloc, free_list, discipline>> /\ MayAsk(size)
  BY DEF FromFreeList
<1>3. p \in Pages /\ header[p].type = "free" /\ open[p] = 0
  BY <1>2, ServedIsFree DEF RefsExact
<1>4. /\ header'[p].type = "mem" /\ header'[p].word = 1 /\ header'[p].num_pages = header[p].num_pages
      /\ \A q \in Pages \ {p} : header'[q] = header[q]
  BY <1>1, <1>3 DEF TypeOK
<1>5. open'[p] = 1 /\ \A q \in Pages \ {p} : open'[q] = open[q]
  BY <1>1, <1>3 DEF TypeOK
<1>6. TypeOK'
  <2>1. [header[p] EXCEPT !.type = "mem", !.word = 1]
          \in [word : Links, num_pages : 0..NumPages, type : {"raw", "mem", "free"}]
    <3>1. 1 \in Links
      BY BoundAssumption DEF Links
    <3>2. header[p] \in [word : Links, num_pages : 0..NumPages, type : {"raw", "mem", "free"}]
      BY <1>3 DEF TypeOK
    <3> QED
      BY <3>1, <3>2
  <2>2. open[p] + 1 \in 0..MaxHandles
    BY <1>3, BoundAssumption
  <2> QED
    BY <1>1, <1>2, <1>3, <2>1, <2>2 DEF TypeOK
<1>7. Chunks' = Chunks
  BY <1>3, <1>4 DEF Chunks
<1>8. RefsExact'
  BY <1>4, <1>5 DEF RefsExact
<1>9. LinksLead'
  BY <1>2, <1>4, <1>7 DEF LinksLead
<1>10. RawAhead' /\ ChunksTile'
  BY <1>2, <1>4, <1>7, TileKept DEF Chunks
<1> QED
  BY <1>2, <1>6, <1>8, <1>9, <1>10

\* get_free_chunk from the buffer
LEMMA FromBufferKeeps ==
  ASSUME Inv, NEW size \in 1..NumPages, FromBuffer(size)
  PROVE  /\ Inv'
         /\ header[next_alloc].type = "raw" /\ free_list' = free_list
         /\ \A q \in Pages \ {next_alloc} : header'[q] = header[q]
<1> USE DEF Inv
<1>1. /\ next_alloc + size <= NumPages /\ next_alloc' = next_alloc + size
      /\ header' = [header EXCEPT ![next_alloc] = [word |-> 1, num_pages |-> size, type |-> "mem"]]
      /\ open' = [open EXCEPT ![next_alloc] = @ + 1]
      /\ UNCHANGED <<free_list, discipline>>
  BY DEF FromBuffer, fits, advance
<1>2. next_alloc \in Nat /\ size \in Nat /\ size > 0 /\ next_alloc \in Pages /\ next_alloc' \in 0..NumPages
  BY <1>1, PagesAssumption DEF TypeOK, Pages
<1>3. header[next_alloc].type = "raw" /\ open[next_alloc] = 0
  BY <1>2 DEF RawAhead, RefsExact
<1>4. /\ header'[next_alloc] = [word |-> 1, num_pages |-> size, type |-> "mem"]
      /\ \A q \in Pages \ {next_alloc} : header'[q] = header[q]
  BY <1>1, <1>2 DEF TypeOK
<1>5. open'[next_alloc] = 1 /\ \A q \in Pages \ {next_alloc} : open'[q] = open[q]
  BY <1>1, <1>2, <1>3 DEF TypeOK
<1>6. TypeOK'
  <2>1. [word |-> 1, num_pages |-> size, type |-> "mem"]
          \in [word : Links, num_pages : 0..NumPages, type : {"raw", "mem", "free"}]
    BY BoundAssumption DEF Links
  <2>2. open[next_alloc] + 1 \in 0..MaxHandles
    BY <1>3, BoundAssumption
  <2> QED
    BY <1>1, <1>2, <2>1, <2>2 DEF TypeOK
<1>7. Chunks' = Chunks \cup {next_alloc} /\ next_alloc \notin Chunks
  <2>1. header'[next_alloc].type = "mem"
    BY <1>4
  <2>2. \A q \in Pages \ {next_alloc} : header'[q].type = header[q].type
    BY <1>4
  <2> QED
    BY <1>2, <1>3, <2>1, <2>2 DEF Chunks
<1>8. RefsExact'
  BY <1>4, <1>5 DEF RefsExact
<1>9. LinksLead'
  BY <1>1, <1>4, <1>7 DEF LinksLead
<1>10. RawAhead'
  BY <1>1, <1>2, <1>4 DEF RawAhead, Pages
<1>11. ChunksTile'
  <2>1. \A p \in Chunks : p \in Nat /\ p < next_alloc /\ header[p].num_pages \in Nat
                          /\ header'[p] = header[p]
    BY <1>2, <1>4, <1>7 DEF RawAhead, Chunks, TypeOK, Pages
  <2>2. \A p \in Chunks : p + header[p].num_pages <= next_alloc
    BY DEF ChunksTile
  <2>3. ASSUME NEW p \in Chunks' PROVE p + header'[p].num_pages <= next_alloc'
    BY <1>1, <1>2, <1>4, <1>7, <2>1, <2>2
  <2>4. ASSUME NEW p \in Chunks', NEW q \in Chunks', p < q PROVE p + header'[p].num_pages <= q
    <3>1. p \in Chunks
      BY <1>2, <1>7, <2>1, <2>4
    <3> QED
      BY <1>7, <2>1, <2>2, <2>4, <3>1 DEF ChunksTile
  <2>5. ASSUME NEW n \in 0..NumPages - 1, n < next_alloc'
        PROVE  \E p \in Chunks' : p <= n /\ n < p + header'[p].num_pages
    <3>1. CASE n < next_alloc
      <4>1. PICK p \in Chunks : p <= n /\ n < p + header[p].num_pages
        BY <3>1 DEF ChunksTile
      <4> QED
        BY <1>7, <2>1, <4>1
    <3>2. CASE ~(n < next_alloc)
      <4>1. next_alloc <= n /\ n < next_alloc + header'[next_alloc].num_pages
        BY <1>1, <1>2, <1>4, <2>5, <3>2
      <4> QED
        BY <1>7, <4>1
    <3> QED
      BY <3>1, <3>2
  <2> QED
    BY <2>3, <2>4, <2>5 DEF ChunksTile
<1> QED
  BY <1>1, <1>3, <1>4, <1>6, <1>8, <1>9, <1>10, <1>11

\* A handle is copied, or a release leaves other handles.
LEMMA CountingKeeps ==
  ASSUME Inv, NEW p \in Pages, Copy(p) \/ (Release(p) /\ ~LastRef(p))
  PROVE  /\ Inv' /\ free_list' = free_list
         /\ header[p].type = "mem" /\ Chunks' = Chunks
         /\ \A q \in Pages \ {p} : header'[q] = header[q]
<1> USE DEF Inv
<1>1. UNCHANGED <<next_alloc, free_list, discipline>> /\ open[p] > 0
  BY BoundAssumption DEF Copy, Release, TypeOK
<1>2. header[p].type = "mem" /\ header[p].word = open[p] /\ open[p] \in 0..MaxHandles
  BY <1>1, BoundAssumption DEF RefsExact, TypeOK
<1>3. PICK n \in 1..MaxHandles : /\ open' = [open EXCEPT ![p] = n]
                                 /\ header' = [header EXCEPT ![p] = [@ EXCEPT !.word = n]]
  <2>1. CASE Copy(p)
    <3>1. open[p] + 1 \in 1..MaxHandles
      BY <1>2, <2>1, BoundAssumption DEF Copy
    <3>2. open' = [open EXCEPT ![p] = open[p] + 1] /\ header' = [header EXCEPT ![p] = [@ EXCEPT !.word = open[p] + 1]]
      BY <1>2, <2>1 DEF Copy, inc_ref
    <3> QED
      BY <3>1, <3>2
  <2>2. CASE Release(p) /\ ~LastRef(p)
    <3>1. open[p] - 1 \in 1..MaxHandles
      BY <1>1, <1>2, <2>2, BoundAssumption DEF LastRef
    <3>2. open' = [open EXCEPT ![p] = open[p] - 1] /\ header' = [header EXCEPT ![p] = [@ EXCEPT !.word = open[p] - 1]]
      BY <1>2, <2>2 DEF Release
    <3> QED
      BY <3>1, <3>2
  <2> QED
    BY <2>1, <2>2
<1>4. /\ header'[p].type = "mem" /\ header'[p].word = n /\ header'[p].num_pages = header[p].num_pages
      /\ \A q \in Pages \ {p} : header'[q] = header[q]
      /\ open'[p] = n /\ \A q \in Pages \ {p} : open'[q] = open[q]
  BY <1>2, <1>3 DEF TypeOK
<1>5. TypeOK'
  <2>1. [header[p] EXCEPT !.word = n]
          \in [word : Links, num_pages : 0..NumPages, type : {"raw", "mem", "free"}]
    BY BoundAssumption DEF TypeOK, Links
  <2>2. n \in 0..MaxHandles
    BY BoundAssumption
  <2> QED
    BY <1>1, <1>3, <2>1, <2>2 DEF TypeOK
<1>6. Chunks' = Chunks
  BY <1>2, <1>4 DEF Chunks
<1>7. RefsExact'
  BY <1>4 DEF RefsExact
<1>8. LinksLead'
  BY <1>1, <1>4, <1>6 DEF LinksLead
<1>9. RawAhead' /\ ChunksTile'
  BY <1>1, <1>4, <1>6, TileKept DEF Chunks
<1> QED
  BY <1>1, <1>2, <1>4, <1>5, <1>6, <1>7, <1>8, <1>9

\* The last handle of a chunk is released.
LEMMA FreeingKeeps ==
  ASSUME Inv, NEW p \in Pages, Release(p), LastRef(p)
  PROVE  /\ Inv' /\ free_list' = p
         /\ header[p].type = "mem" /\ header'[p].type = "free" /\ header'[p].word = free_list
         /\ Chunks' = Chunks /\ \A q \in Pages \ {p} : header'[q] = header[q]
<1> USE DEF Inv
<1>1. /\ UNCHANGED <<next_alloc, discipline>> /\ free_list' = p
      /\ header[p].type = "mem" /\ open[p] = 1
      /\ open' = [open EXCEPT ![p] = 0]
      /\ header' = [header EXCEPT ![p] = [@ EXCEPT !.type = "free", !.word = free_list]]
  <2>1. header[p].type = "mem" /\ open[p] = 1 /\ header[p].word = 1
    BY DEF LastRef, RefsExact
  <2>2. open[p] - 1 = 0
    BY <2>1
  <2> QED
    BY <2>1, <2>2 DEF Release, freed
<1>2. /\ header'[p].type = "free" /\ header'[p].word = free_list
      /\ header'[p].num_pages = header[p].num_pages
      /\ \A q \in Pages \ {p} : header'[q] = header[q]
      /\ open'[p] = 0 /\ \A q \in Pages \ {p} : open'[q] = open[q]
  BY <1>1 DEF TypeOK
<1>3. TypeOK'
  <2>1. [header[p] EXCEPT !.type = "free", !.word = free_list]
          \in [word : Links, num_pages : 0..NumPages, type : {"raw", "mem", "free"}]
    BY DEF TypeOK, Links
  <2>2. 0 \in 0..MaxHandles
    BY BoundAssumption
  <2> QED
    BY <1>1, <2>1, <2>2 DEF TypeOK
<1>4. Chunks' = Chunks /\ p \in Chunks
  BY <1>1, <1>2 DEF Chunks
<1>5. RefsExact'
  BY <1>2 DEF RefsExact
<1>6. LinksLead'
  BY <1>1, <1>2, <1>4 DEF LinksLead
<1>7. RawAhead' /\ ChunksTile'
  BY <1>1, <1>2, <1>4, TileKept DEF Chunks
<1> QED
  BY <1>1, <1>2, <1>3, <1>4, <1>5, <1>6, <1>7

\* Inv is inductive.
LEMMA InvStep == Inv /\ [Next]_vars => Inv'
<1> SUFFICES ASSUME Inv, [Next]_vars PROVE Inv'
  OBVIOUS
<1>1. ASSUME NEW size \in 1..NumPages, FromFreeList(size) \/ FromBuffer(size) PROVE Inv'
  BY <1>1, FromFreeListKeeps, FromBufferKeeps
<1>2. ASSUME NEW p \in Pages, Copy(p) \/ Release(p) PROVE Inv'
  BY <1>2, CountingKeeps, FreeingKeeps
<1>3. CASE UNCHANGED vars
  BY <1>3 DEF vars, Inv, TypeOK, RefsExact, LinksLead, RawAhead, ChunksTile, Chunks
<1> QED
  BY <1>1, <1>2, <1>3 DEF Next

\* Inv holds at first.
LEMMA InvInit == "any" \notin Disciplines /\ Init => Inv
<1> SUFFICES ASSUME "any" \notin Disciplines, Init PROVE Inv
  OBVIOUS
<1>1. TypeOK
  BY PagesAssumption, BoundAssumption DEF Init, TypeOK, Links
<1>2. Chunks = {} /\ RefsExact /\ RawAhead /\ LinksLead
  BY DEF Init, Chunks, RefsExact, RawAhead, LinksLead
<1>3. ChunksTile
  BY <1>2 DEF Init, ChunksTile
<1> QED
  BY <1>1, <1>2, <1>3 DEF Init, Inv

----------------------------------------------------------------------------
(* Theorems *)

\* While no client asks for memory when a chunk on the free list is in use, the
\* pool keeps Inv.
THEOREM PoolInvariance ==
  ASSUME "any" \notin Disciplines
  PROVE  Spec => []Inv
<1>1. Init => Inv
  BY InvInit
<1> QED
  BY <1>1, InvStep, PTL DEF Spec

\* num_references is the number of open handles, and nobody is served a chunk
\* that somebody holds.
THEOREM CountsAreExact ==
  ASSUME "any" \notin Disciplines
  PROVE  Spec => []RefsExact
<1>1. Inv => RefsExact
  BY DEF Inv
<1> QED
  BY <1>1, PoolInvariance, PTL

\* The chunks cover the buffer up to next_alloc_ without gap or overlap.
THEOREM ChunksAreApart ==
  ASSUME "any" \notin Disciplines
  PROVE  Spec => []ChunksTile
<1>1. Inv => ChunksTile
  BY DEF Inv
<1> QED
  BY <1>1, PoolInvariance, PTL

----------------------------------------------------------------------------
(* The free list of a pool that never serves from it *)

\* A step that frees no chunk, and starts none or one, leaves the list.
LEMMA FreeListStep == Inv /\ FreeListSound /\ [Next]_vars => FreeListSound'
<1> SUFFICES ASSUME Inv, FreeListSound, [Next]_vars, discipline' = "fresh" PROVE FreeListSound'
  BY DEF FreeListSound
<1> DEFINE Free == {p \in Pages : header[p].type = "free"}
<1>1. discipline = "fresh"
  BY DEF Next, FromFreeList, FromBuffer, Copy, Release, vars
<1>2. Walk(Chunks) = Free \cup {NO_CHUNK}
  BY <1>1 DEF FreeListSound
<1>3. TypeOK /\ TypeOK'
  BY InvStep DEF Inv
<1>4. ASSUME NEW size \in 1..NumPages, FromFreeList(size) PROVE FreeListSound'
  <2>1. PICK p \in find_free_list_chunk(size) \ {NO_CHUNK} : TRUE
    BY <1>4 DEF FromFreeList
  <2> QED
    BY <1>1, <1>4, <2>1, ServedIsFree DEF FromFreeList
<1>5. ASSUME NEW size \in 1..NumPages, FromBuffer(size) PROVE FreeListSound'
  <2>1. /\ header[next_alloc].type = "raw" /\ free_list' = free_list
        /\ \A q \in Pages \ {next_alloc} : header'[q] = header[q]
        /\ next_alloc \in Pages => header'[next_alloc].type = "mem"
    BY <1>3, <1>5, FromBufferKeeps DEF FromBuffer, TypeOK
  <2>2. \A p \in Walk(Chunks) : /\ p \in Chunks' <=> p \in Chunks
                                /\ p \in Chunks => header'[p].word = header[p].word
    BY <1>2, <2>1, NoChunkApart DEF Chunks
  <2>3. Walk(Chunks)' = Walk(Chunks)
    BY <1>3, <2>1, <2>2, WalkKept
  <2>4. Free' = Free
    BY <2>1
  <2> QED
    BY <1>2, <2>3, <2>4 DEF FreeListSound
<1>6. ASSUME NEW p \in Pages, Copy(p) \/ (Release(p) /\ ~LastRef(p)) PROVE FreeListSound'
  <2>1. /\ header[p].type = "mem" /\ free_list' = free_list /\ Chunks' = Chunks
        /\ \A q \in Pages \ {p} : header'[q] = header[q]
    BY <1>6, CountingKeeps
  <2>2. header'[p].type = "mem"
    BY <1>3, <1>6, <2>1 DEF Copy, Release, inc_ref, TypeOK
  <2>3. \A q \in Walk(Chunks) : q \in Chunks => header'[q].word = header[q].word
    BY <1>2, <2>1, NoChunkApart DEF Chunks
  <2>4. Walk(Chunks)' = Walk(Chunks)
    BY <1>3, <2>1, <2>3, WalkKept
  <2>5. Free' = Free
    BY <2>1, <2>2
  <2> QED
    BY <1>2, <2>4, <2>5 DEF FreeListSound
<1>7. ASSUME NEW p \in Pages, Release(p), LastRef(p) PROVE FreeListSound'
  <2>1. /\ free_list' = p /\ header[p].type = "mem" /\ header'[p].type = "free"
        /\ header'[p].word = free_list /\ Chunks' = Chunks
        /\ \A q \in Pages \ {p} : header'[q] = header[q]
    BY <1>7, FreeingKeeps
  <2>2. Free' = Free \cup {p} /\ p \notin Free /\ p # NO_CHUNK
    BY <2>1, NoChunkApart
  <2>3. free_list \in Walk(Chunks) /\ Walk(Chunks) \subseteq Links /\ p \in Links
        /\ \A q \in Walk(Chunks) \cap Chunks : header[q].word \in Walk(Chunks)
    BY <1>3, WalkCloses DEF Closed, Chunks, Links
  <2>4. \A q \in Walk(Chunks) \cap Chunks : header'[q].word = header[q].word
    BY <1>2, <2>1, <2>2 DEF Chunks
  <2>5. Walk(Chunks)' \subseteq Walk(Chunks) \cup {p}
    <3> DEFINE T == Walk(Chunks) \cup {p}
    <3>1. T \in SUBSET Links /\ free_list' \in T /\ \A q \in T \cap Chunks' : header'[q].word \in T
      BY <2>1, <2>3, <2>4
    <3> QED
      BY <3>1 DEF Walk, Closed
  <2>6. Walk(Chunks) \cup {p} \subseteq Walk(Chunks)'
    <3> SUFFICES ASSUME NEW S \in SUBSET Links, free_list' \in S,
                        \A q \in S \cap Chunks' : header'[q].word \in S
                 PROVE  Walk(Chunks) \cup {p} \subseteq S
      BY <2>3 DEF Walk, Closed
    <3>1. p \in S /\ free_list \in S
      BY <2>1 DEF Chunks
    <3> DEFINE T == S \cap Walk(Chunks)
    <3>2. T \in SUBSET Links /\ Closed(T, Chunks)
      BY <2>1, <2>3, <2>4, <3>1 DEF Closed
    <3>3. Walk(Chunks) \subseteq T
      BY <3>2, WalkStays
    <3> QED
      BY <3>1, <3>3
  <2> QED
    BY <1>2, <2>2, <2>5, <2>6 DEF FreeListSound
<1>8. CASE UNCHANGED vars
  BY <1>8 DEF vars, FreeListSound, Walk, Closed, Chunks
<1> QED
  BY <1>4, <1>5, <1>6, <1>7, <1>8 DEF Next

\* Every freed chunk is on the list, once, and the list ends, as long as nothing
\* is taken from it.
THEOREM ListHoldsTheFree ==
  ASSUME "any" \notin Disciplines
  PROVE  Spec => []FreeListSound
<1>1. Init => FreeListSound
  <2> SUFFICES ASSUME Init PROVE FreeListSound
    OBVIOUS
  <2>1. Chunks = {} /\ {p \in Pages : header[p].type = "free"} = {} /\ free_list = NO_CHUNK
    BY DEF Init, Chunks
  <2>2. Walk({}) = {NO_CHUNK}
    BY <2>1 DEF Walk, Closed, Links
  <2> QED
    BY <2>1, <2>2 DEF FreeListSound
<1> QED
  BY <1>1, FreeListStep, PoolInvariance, PTL DEF Spec
=============================================================================
