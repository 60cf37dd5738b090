----------------------------- MODULE RingBufferFile -----------------------------
(***************************************************************************)
(* txl::ring_buffer_file (ring_buffer_file.h): entries of various sizes in *)
(* a mapped file, written by one object and read by any, each object with  *)
(* a cursor of its own.  Offsets only grow; taken modulo the map's size    *)
(* they are places in it.  An entry is a header, which holds its size, and *)
(* its data; a zero header, or a rest too short for one, sends the reader  *)
(* to the start of the map.                                                *)
(*                                                                         *)
(* `store' is the file and the objects, `contents' the entries written and *)
(* what each object is to read next.  One call is one step: the writer and *)
(* the readers do not run at the same time.                                *)
(***************************************************************************)
EXTENDS Integers, SequencesExt

CONSTANTS
    MapSize, Padding,   \* entry_map().size() and ring_padding_
    Header,             \* sizeof(entry_data)
    Sizes,              \* of the entries
    MaxEntries,         \* bound: how many are written
    Writer, Readers,    \* the objects that have the file open
    NoBuffer            \* an empty buffer_ref

\* With larger entries head passes tail while it makes room; an empty entry is
\* taken for the end of a lap.
FileAssumption ==
    /\ MapSize \in Nat \ {0} /\ Padding \in Nat /\ Header \in Nat \ {0}
    /\ \A n \in Sizes : n \in Nat \ {0} /\ Padding + 2 * (Header + n) <= MapSize
    /\ Writer \notin Readers

VARIABLES store, contents
vars == <<store, contents>>

Objects == Readers \cup {Writer}
Places  == 0..MapSize - 1
Cursor(head, tail) == [head |-> head, tail |-> tail]
Zero    == <<"zero", 0, 0>>
Zeros   == [p \in Places |-> Zero]
NoCursor == Cursor(-1, -1)      \* the object is not open

Init ==
    /\ store = [cells |-> Zeros, file |-> Cursor(0, 0),
                cur |-> [x \in Objects |-> IF x = Writer THEN Cursor(0, 0) ELSE NoCursor],
                out |-> NoBuffer]
    /\ contents = [entries |-> <<>>, next |-> [x \in Objects |-> 1], out |-> NoBuffer]

----------------------------------------------------------------------------
(* The map.                                                                *)

\* what is left of the map from an offset: tail_to_end, head_to_end
ToEnd(offset) == MapSize - (offset % MapSize)

\* the header and the data of an entry, as the cells hold them
HeaderCell(n, i) == <<"header", n, i>>
DataCell(e, i)   == <<"data", e, i>>

\* cursor_entry(c)->size_, and 0 where to_alias gives a null pointer
SizeAt(cells, offset) ==
    LET p == offset % MapSize
    IN  IF ToEnd(offset) < Header \/ \A i \in 0..Header - 1 : cells[p + i] = Zero THEN 0
        ELSE cells[p][2]

\* the entry whose header and data lie intact at an offset
EntryAt(cells, offset) ==
    LET p == offset % MapSize
        n == SizeAt(cells, offset)
        intact(e) ==
            /\ n = contents.entries[e].size /\ p + Header + n <= MapSize
            /\ \A i \in 0..Header - 1 : cells[p + i] = HeaderCell(n, i)
            /\ \A i \in 0..n - 1 : cells[p + Header + i] = DataCell(e, i)
    IN  {e \in DOMAIN contents.entries : intact(e)}

Stamp(cells, offset, n) ==
    [p \in Places |->
        LET i == p - (offset % MapSize)
        IN  IF i \in 0..Header - 1 THEN (IF n = 0 THEN Zero ELSE HeaderCell(n, i)) ELSE cells[p]]

\* memory from an offset to the end of the map is zero
Fill(cells, offset) == [p \in Places |-> IF p >= (offset % MapSize) THEN Zero ELSE cells[p]]

----------------------------------------------------------------------------
(* write()                                                                 *)

\* one turn of the loop that keeps head in sync with tail
Dropped(s) ==
    LET skip  == SizeAt(s.cells, s.head) = 0
        head  == IF skip THEN s.head + ToEnd(s.head) ELSE s.head
        cells == IF skip THEN Fill(s.cells, s.head) ELSE s.cells
    IN  [cells |-> Stamp(cells, head, 0), head |-> head + Header + SizeAt(cells, head)]

\* the loop; every turn moves head, so that it takes no more turns than the map has bytes
MakeRoom(s, tail, needed) ==
    LET turn(t) == IF tail - t.head + needed + Padding >= MapSize THEN Dropped(t) ELSE t
        after[k \in 0..MapSize] == IF k = 0 THEN s ELSE turn(after[k - 1])
    IN  after[MapSize]

\* mutant: the rest of the lap is not counted
NoExtra(rest, needed) == 0
\* extra_bytes_needed: the rest of the lap, when the entry does not fit into it
Extra(rest, needed) == IF rest < needed THEN rest ELSE 0

\* mutant: a rest that has room for a header is not stamped
NeverStamped(rest) == FALSE
Stamped(rest) == rest >= Header

Write(n) ==
    /\ Len(contents.entries) < MaxEntries
    /\ LET cur    == store.cur[Writer]
           rest   == ToEnd(cur.tail)
           needed == Header + n
           fits   == rest >= needed
           room   == MakeRoom([cells |-> store.cells, head |-> cur.head], cur.tail,
                              needed + Extra(rest, needed))
           start  == IF fits THEN cur.tail ELSE cur.tail + rest
           lapped == IF ~fits /\ Stamped(rest) THEN Stamp(room.cells, cur.tail, 0) ELSE room.cells
           e      == Len(contents.entries) + 1
           data   == [p \in Places |->
                        LET i == p - (start % MapSize) - Header
                        IN  IF i \in 0..n - 1 THEN DataCell(e, i) ELSE lapped[p]]
           new    == Cursor(room.head, start + needed)
       IN  /\ store' = [store EXCEPT !.cells = Stamp(data, start, n),
                                     !.cur[Writer] = new, !.file = new, !.out = NoBuffer]
           /\ contents' = [contents EXCEPT
                !.entries = Append(@, [start |-> start, size |-> n]), !.out = NoBuffer]

----------------------------------------------------------------------------
(* read()                                                                  *)

\* mutant: a stale cursor is kept
KeepsCursor(x) == store.cur[x]
\* our cursor, brought up to date
UpToDate(x) == IF store.file.head > store.cur[x].head THEN store.file ELSE store.cur[x]

\* entry x is to read next: the one after the last it read, or the oldest kept
Due(x) ==
    {e \in DOMAIN contents.entries :
        /\ e >= contents.next[x] /\ contents.entries[e].start >= store.file.head
        /\ \A d \in contents.next[x]..e - 1 : contents.entries[d].start < store.file.head}

Read(x) ==
    /\ store.cur[x] # NoCursor
    /\ LET cur   == UpToDate(x)
           tail  == store.file.tail
           head  == IF SizeAt(store.cells, cur.head) = 0 THEN cur.head + ToEnd(cur.head) ELSE cur.head
       IN  store' =
            IF cur.head >= tail
            THEN [store EXCEPT !.cur[x] = cur, !.out = NoBuffer]
            ELSE IF head >= tail
            THEN [store EXCEPT !.cur[x] = [cur EXCEPT !.head = head], !.out = NoBuffer]
            ELSE [store EXCEPT !.cur[x] = [cur EXCEPT !.head = head + Header + SizeAt(store.cells, head)],
                               !.out = EntryAt(store.cells, head)]
    /\ LET due == Due(x)
       IN  contents' = IF due = {} THEN [contents EXCEPT !.out = NoBuffer]
                       ELSE [contents EXCEPT !.out = due, !.next[x] = (CHOOSE e \in due : TRUE) + 1]

----------------------------------------------------------------------------
\* open for reading: the cursor is the file's
Open(x) ==
    /\ x \in Readers /\ store.cur[x] = NoCursor
    /\ store' = [store EXCEPT !.cur[x] = store.file, !.out = NoBuffer]
    /\ contents' = [contents EXCEPT !.next[x] = 1, !.out = NoBuffer]

Close(x) ==
    /\ store.cur[x] # NoCursor
    /\ store' = [store EXCEPT !.cur[x] = NoCursor, !.out = NoBuffer]
    /\ contents' = [contents EXCEPT !.out = NoBuffer]

\* open for writing: mode w+ empties the file.  A reader that has it open would go
\* on with a cursor of the old file, so none has.
OpenWriter ==
    /\ \A x \in Objects : store.cur[x] = NoCursor
    /\ store' = [store EXCEPT !.cells = Zeros, !.file = Cursor(0, 0),
                              !.cur[Writer] = Cursor(0, 0), !.out = NoBuffer]
    /\ contents' = [entries |-> <<>>, next |-> [x \in Objects |-> 1], out |-> NoBuffer]

Next ==
    \/ store.cur[Writer] # NoCursor /\ \E n \in Sizes : Write(n)
    \/ \E x \in Objects : Read(x) \/ Open(x) \/ Close(x)
    \/ OpenWriter

Spec == Init /\ [][Next]_vars

----------------------------------------------------------------------------
\* Every read gives the entry that is due: the one after the last that this object
\* read, or the oldest that the writer has kept when it has lapped the reader; it
\* gives it whole, and nothing only when there is none
\* (ring_buffer_file.h:189-222).
ReadsDue == store.out = contents.out

\* Every entry from head on lies whole in the map, across the laps and the rests
\* they leave, and an entry the writer has not read itself is kept while it, the
\* padding and one more entry fit into the map (ring_buffer_file.h:224-292).
KeptWhole == \A e \in DOMAIN contents.entries :
    LET start == contents.entries[e].start
        room  == MapSize - Padding - Header - Max(Sizes)
    IN  /\ start >= store.file.head => e \in EntryAt(store.cells, start)
        /\ e >= contents.next[Writer] /\ store.file.tail - start <= room => start >= store.file.head
=============================================================================
