----------------------------------- MODULE Tar -----------------------------------
(***************************************************************************)
(* tar_file.h: tar_reader walks an archive header by header, skips blocks  *)
(* of zeros, follows a long name to the header behind it, and hands out    *)
(* entries whose data a tar_data_reader reads.                             *)
(*                                                                         *)
(* `store' is the reader over an archive that may be cut short, read with  *)
(* calls that may fail, `contents' the entries that were written to it,    *)
(* with the places of their data.  A byte of data stands for its own place *)
(* in the file.                                                            *)
(***************************************************************************)
EXTENDS Integers, SequencesExt

CONSTANTS
    Block, HeaderSize,  \* BLOCK_SIZE, and how much of one a header takes
    Members,            \* what may be archived: records of name, type, size, mtime and link
    MaxMembers,         \* bound: members of an archive
    Buffers,            \* the sizes of the buffers that data is read with
    Careful             \* no member has a long link target (typeflag K)

\* of the constants
TarAssumption ==
    Block \in Nat \ {0} /\ HeaderSize \in 1..Block /\ MaxMembers \in Nat /\ Careful \in BOOLEAN

VARIABLES store, contents
vars == <<store, contents>>

----------------------------------------------------------------------------
(* The blocks of an archive.  Names that do not fit a header precede it in *)
(* a member of their own, of type L (a link's target: K).  Sizes are       *)
(* written in octal digits; 10 is no digit.  A name is read as a C string, *)
(* which the header's next field, the mode, ends when the name fills its   *)
(* own; NUL also fills what a name leaves of it.                           *)

MaxName == 2
NUL == "NUL"
Field(name) ==
    SubSeq(name, 1, Min({Len(name), MaxName})) \o [i \in 1..MaxName - Min({Len(name), MaxName}) |-> NUL]
Mode == <<"m", NUL>>
CString(chars) == SubSeq(chars, 1, SelectInSeq(chars, LAMBDA ch : ch = NUL) - 1)

Blocks(type, size, mtime, name) == [type |-> type, size |-> size, mtime |-> mtime, name |-> name]
Zero == Blocks("0", <<>>, <<>>, <<>>)
Data == Blocks("x", <<10>>, <<10>>, <<>>)
Octal(n) == IF n < 8 THEN <<n>> ELSE <<n \div 8, n % 8>>

align(value, alignment) == (value \div alignment + (IF value % alignment # 0 THEN 1 ELSE 0)) * alignment

Long(type, name) ==
    <<Blocks(type, Octal(Len(name) + 1), <<0>>, <<NUL>>), [Data EXCEPT !.name = Append(name, NUL)]>>
Archived(m) ==
    (IF m.link = <<>> THEN <<>> ELSE Long("K", m.link))
      \o (IF Len(m.name) <= MaxName THEN <<>> ELSE Long("L", m.name))
      \o <<Blocks(m.type, Octal(m.size), m.mtime, Field(m.name) \o Mode)>>
      \o [i \in 1..align(m.size, Block) \div Block |-> Data]

\* what an archive of these members holds, with blocks of zeros after the first and last
Entries(ms) ==
    LET start[i \in 0..Len(ms)] == IF i = 0 THEN 0
            ELSE start[i - 1] + (Len(Archived(ms[i])) + (IF i = 1 THEN 2 ELSE 0)) * Block
        data(i) == start[i - 1] + Len(Archived(ms[i])) * Block - align(ms[i].size, Block)
    IN  [i \in DOMAIN ms |-> [name |-> ms[i].name, size |-> ms[i].size, type |-> ms[i].type,
                              mtime |-> ms[i].mtime, pos |-> data(i)]]
Archive(ms) ==
    FlattenSeq([i \in DOMAIN ms |-> Archived(ms[i]) \o (IF i = 1 THEN <<Zero, Zero>> ELSE <<>>)])
      \o <<Zero, Zero>>

Closed == [next |-> 0, end |-> 0, got |-> <<>>]

Init == \E ms \in SeqOf(Members, MaxMembers) : \E size \in 0..Len(Archive(ms)) * Block :
    /\ Careful => \A i \in DOMAIN ms : ms[i].link = <<>>
    /\ store = [file |-> Archive(ms), size |-> size, next_pos |-> 0, entries |-> <<>>,
                reader |-> Closed, at |-> "reading", failed |-> FALSE, misread |-> {}]
    /\ contents = Entries(ms)

----------------------------------------------------------------------------

\* convert_to, of octal digits; what is no digit makes it fail
convert_to(digits) == FoldLeft(LAMBDA dec, digit : dec * 8 + digit, 0, digits)
Decodes(digits) == \A i \in DOMAIN digits : digits[i] <= 9

\* mutant: the header and the payload are skipped, but not what fills the last block
Unaligned(pos, size) == pos + Block + size
Skipped(pos, size) == pos + align(Block + size, Block)

NoFailure == -1
Unread == -1

\* bound: one read fails
MayFail == ~store.failed

\* read_header: the block at next_pos, where its payload is, and where the next header is;
\* the read at `failing' fails
read_header(next_pos, failing) ==
    LET bytes_read == Min({HeaderSize, Max({store.size - next_pos, 0})})
        whole == bytes_read = HeaderSize
        header == IF whole /\ next_pos % Block = 0 THEN store.file[next_pos \div Block + 1] ELSE Data
        decoded == whole /\ Decodes(header.size) /\ next_pos # failing
    IN  [status |-> CASE next_pos = failing -> "read_error"
                      [] next_pos # failing /\ decoded -> "header"
                      [] next_pos # failing /\ whole /\ ~decoded -> "octal_decode_error"
                      [] next_pos # failing /\ bytes_read = 0 -> "none"
                      [] OTHER -> "partial_read",
         header |-> header, pos |-> next_pos + Block,
         size   |-> convert_to(header.size),
         next   |-> IF decoded THEN Skipped(next_pos, convert_to(header.size)) ELSE next_pos]

\* blocks of zeros are passed over
RECURSIVE skip_zeros(_, _)
skip_zeros(next_pos, failing) ==
    LET h == read_header(next_pos, failing)
    IN  IF h.status = "header" /\ h.header = Zero THEN skip_zeros(h.next, failing) ELSE h

\* read_string of the long name: its terminator is not read; when the read fails, the
\* data reader answers with the buffer as it is, all of it
long_name(h, failing) ==
    IF h.pos = failing THEN [i \in 1..h.size |-> Unread]
    ELSE SubSeq(store.file[h.pos \div Block + 1].name, 1, h.size - 1)

\* read_entry, of a caller that may go on after an error: an entry whose time is not
\* octal is passed by
ReadEntry ==
    /\ \E failing \in {store.next_pos + k * Block : k \in 0..4} \cup {NoFailure} :
       LET first == skip_zeros(store.next_pos, failing)
           long  == first.status = "header" /\ first.header.type \in {"K", "L"}
           h     == IF long THEN read_header(first.next, failing) ELSE first
           entry == [name |-> IF long THEN long_name(first, failing) ELSE CString(h.header.name),
                     size |-> h.size, type |-> h.header.type, mtime |-> h.header.mtime, pos |-> h.pos]
           misread == IF long /\ failing \in {first.pos, first.next} THEN {first.next + Block} ELSE {}
           read  == [store EXCEPT !.next_pos = h.next, !.misread = @ \cup misread,
                                     !.failed = @ \/ h.status = "read_error" \/ misread # {}]
       IN  /\ failing # NoFailure => MayFail
           /\ store' = IF h.status # "header" THEN [read EXCEPT !.at = h.status]
                    ELSE IF ~Decodes(entry.mtime) THEN [read EXCEPT !.at = "octal_decode_error"]
                    ELSE [read EXCEPT !.at = "reading", !.entries = Append(@, entry),
                                      !.reader = [next |-> h.pos, end |-> h.pos + h.size, got |-> <<>>]]
    /\ UNCHANGED contents

\* tar_data_reader::read with a buffer of n bytes, of the entry last read
\* mutant: the buffer is not cut to what remains
WholeBuffer(reader, n) == n
Remaining(reader, n) == Min({n, reader.end - reader.next})
ReadData(n) ==
    /\ LET reader == store.reader
           size   == Min({Remaining(reader, n), Max({store.size - reader.next, 0})})
       IN  /\ size > 0
           /\ store' = [store EXCEPT !.reader = [@ EXCEPT
                            !.next = @ + size, !.got = @ \o [i \in 1..size |-> reader.next + i - 1]]]
    /\ UNCHANGED contents

\* The read fails.  read_impl takes the size of a buffer out of the result all the same,
\* where the error is: with the layout of the build, it is an address, and read() answers
\* with the whole buffer, of which nothing was read.  A read of no bytes does not fail.
ReadFails(n) ==
    /\ MayFail /\ store.reader.next < store.reader.end
    /\ store' = [store EXCEPT !.failed = TRUE, !.reader.got = @ \o [i \in 1..n |-> Unread]]
    /\ UNCHANGED contents

Next == ReadEntry \/ \E n \in Buffers : ReadData(n) \/ ReadFails(n)

Spec == Init /\ [][Next]_vars

----------------------------------------------------------------------------
\* The entry is the one that was written.  A name that just fits its field runs on into
\* the mode, and a long one of which a read failed is another (tar_file.h:237-248, 259).
SameEntry(entry, written) ==
    /\ [entry EXCEPT !.name = written.name] = written
    /\ \/ entry.name = written.name
       \/ Len(written.name) = MaxName /\ IsPrefix(written.name, entry.name)
       \/ entry.pos \in store.misread

\* The reader hands out the entries that were written, but those whose time is not octal,
\* in order, with their names, long ones too, their sizes, times and the places of their
\* data, up to where the archive is cut, also when the caller goes on after an error: a
\* header that is whole is never missed, and no payload is taken for one
\* (tar_file.h:143-173, 191-204, 213-262).
EntriesExact ==
    LET due == SelectSeq(contents, LAMBDA e : Decodes(e.mtime))
    IN  /\ \A i \in DOMAIN store.entries : i \in DOMAIN due /\ SameEntry(store.entries[i], due[i])
        /\ store.at \in {"none", "partial_read"} =>
            \A i \in DOMAIN due : due[i].pos - Block + HeaderSize <= store.size => i \in DOMAIN store.entries
        /\ store.at = "octal_decode_error" =>
            \E i \in DOMAIN contents : /\ ~Decodes(contents[i].mtime)
                                      /\ contents[i].pos + align(contents[i].size, Block) = store.next_pos

\* What a data reader has read is the entry's data, from its first byte on, and never
\* what lies behind it, also around a read that fails (tar_file.h:71-79, 112-115).
DataExact ==
    store.entries # <<>> =>
        LET entry == Last(store.entries)
            got   == SelectSeq(store.reader.got, LAMBDA byte : byte # Unread)
        IN  /\ Len(got) <= entry.size
            /\ \A i \in DOMAIN got : got[i] = entry.pos + i - 1
=============================================================================
