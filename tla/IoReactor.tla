-------------------------------- MODULE IoReactor --------------------------------
(***************************************************************************)
(* txl::io_reactor (io_reactor.h): requests to read files, kept in a list  *)
(* that one I/O thread goes round, a chunk of one request at a time, and   *)
(* an io_task per request, whose wait() blocks on a condition variable     *)
(* without a predicate.                                                    *)
(*                                                                         *)
(* read_async() appends to the list without a lock, so here it is called   *)
(* while the I/O thread is not running, or on it, from a callback.  A      *)
(* file's data are the positions of its bytes; two requests may read one   *)
(* file.                                                                   *)
(***************************************************************************)
EXTENDS Naturals, FiniteSets, SequencesExt

CONSTANTS
    Requests,
    Size,       \* of each file
    Lengths,    \* that are asked for
    Chunk,      \* how much is read at a time
    Io, End     \* the I/O thread, and the end() of the list

\* of the constants
ReactorAssumption ==
    /\ \A f \in DOMAIN Size : Size[f] \in Nat
    /\ Lengths \subseteq Nat /\ Chunk \in Nat \ {0}
    /\ Io \notin Requests /\ End \notin Requests

VARIABLES
    mem,    \* run_, readers_, next_reader_, and the position of each open file
    pc,     \* of the I/O thread, and of the client of each request
    loc     \* each request: its file, its length, and the data on_data_ was given

vars == <<mem, pc, loc>>

Files == DOMAIN Size
Bytes(from, n) == [i \in 1..n |-> from + i - 1]
NoRequest == [file |-> CHOOSE f \in Files : TRUE, total |-> 0, got |-> <<>>]

Init ==
    /\ mem = [run |-> TRUE, readers |-> <<>>, next |-> End, pos |-> [f \in Files |-> 0]]
    /\ pc = [x \in Requests \cup {Io} |-> IF x = Io THEN "none" ELSE "new"]
    /\ loc = [r \in Requests |-> NoRequest]

\* which of the requests not yet made comes next is all the same
Unmade == {r \in Requests : pc[r] = "new"}
Fresh  == IF Unmade = {} THEN {} ELSE {CHOOSE r \in Unmade : TRUE}

Incomplete(r) == r \in ToSet(mem.readers)

\* read_async() by a client
ReadAsync(r) ==
    /\ pc[Io] = "none"
    /\ r \in Fresh
    /\ pc' = [pc EXCEPT ![r] = "asked"]
    /\ \E f \in Files, n \in Lengths : loc' = [loc EXCEPT ![r] = [NoRequest EXCEPT !.file = f, !.total = n]]
    /\ mem' = [mem EXCEPT !.readers = Append(@, r)]

Start ==
    /\ pc[Io] = "none"
    /\ pc' = [pc EXCEPT ![Io] = "loop"]
    /\ mem' = [mem EXCEPT !.run = TRUE]
    /\ UNCHANGED loc

Stop ==
    /\ pc[Io] # "none"
    /\ mem' = [mem EXCEPT !.run = FALSE]
    /\ UNCHANGED <<pc, loc>>

Join ==
    /\ pc[Io] = "ended"
    /\ pc' = [pc EXCEPT ![Io] = "none"]
    /\ UNCHANGED <<mem, loc>>

\* io_task::wait()
Wait(r) ==
    /\ pc[r] = "asked"
    /\ pc' = [pc EXCEPT ![r] = "blocked"]
    /\ UNCHANGED <<mem, loc>>

SpuriousWake(r) ==
    /\ pc[r] = "blocked"
    /\ pc' = [pc EXCEPT ![r] = "asked"]
    /\ UNCHANGED <<mem, loc>>

----------------------------------------------------------------------------
(* The I/O thread.                                                         *)

Loop ==
    /\ pc[Io] = "loop"
    /\ pc' = [pc EXCEPT ![Io] = IF mem.run THEN "process" ELSE "ended"]
    /\ UNCHANGED <<mem, loc>>

\* the iterator after r, round to begin(), in the list that is left
Begin(readers) == IF readers = <<>> THEN End ELSE Head(readers)
\* mutant: a reader that is not complete keeps its turn
KeepsTurn(r, readers, left) == IF r \in ToSet(left) THEN r ELSE Begin(left)
Place(r, readers) == CHOOSE i \in DOMAIN readers : readers[i] = r
After(r, readers, left) ==
    IF Place(r, readers) = Len(readers) THEN Begin(left) ELSE readers[Place(r, readers) + 1]

AtEnd ==
    /\ pc[Io] = "process"
    /\ mem.next = End
    /\ mem' = [mem EXCEPT !.next = Begin(mem.readers)]
    /\ pc' = [pc EXCEPT ![Io] = "loop"]
    /\ UNCHANGED loc

\* the request that on_data_ makes, if it makes one
Callback == {<<>>} \cup {<<r>> : r \in Fresh}

\* to_read: at most a chunk, at most what the request lacks; read() gives what the file has
\* mutant: the rest of the request is not counted
WholeChunks(r) == LET f == loc[r].file IN Min({Chunk, Size[f] - mem.pos[f]})
ReadSize(r) ==
    LET f == loc[r].file
    IN  Min({Chunk, loc[r].total - Len(loc[r].got), Size[f] - mem.pos[f]})

\* read_file_io_event::process and the step of next_reader_ in process_one_reader
\* mutant: complete when a read gives less than a chunk
ShortRead(r, got) == Len(got) >= loc[r].total \/ ReadSize(r) < Chunk
IsComplete(r, got) == Len(got) >= loc[r].total
Process ==
    /\ pc[Io] = "process"
    /\ mem.next # End
    /\ \E asked \in Callback :
          LET r       == mem.next
              f       == loc[r].file
              got     == loc[r].got \o Bytes(mem.pos[f], ReadSize(r))
              readers == mem.readers \o asked
              left    == IF IsComplete(r, got) THEN RemoveAt(readers, Place(r, readers)) ELSE readers
              woken   == IF IsComplete(r, got) /\ pc[r] = "blocked" THEN {r} ELSE {}
          IN  /\ mem' = [mem EXCEPT !.pos[f] = @ + ReadSize(r),
                                    !.readers = left,
                                    !.next = After(r, readers, left)]
              /\ \E f2 \in Files, n2 \in Lengths :
                    loc' = [q \in Requests |->
                        IF q = r THEN [loc[r] EXCEPT !.got = got]
                        ELSE IF q \in ToSet(asked) THEN [NoRequest EXCEPT !.file = f2, !.total = n2]
                        ELSE loc[q]]
              /\ pc' = [x \in DOMAIN pc |->
                    IF x = Io THEN "loop"
                    ELSE IF x \in woken THEN "returned"
                    ELSE IF x \in ToSet(asked) THEN "asked"
                    ELSE pc[x]]

Step == Loop \/ AtEnd \/ Process

Next == \/ \E r \in Requests : ReadAsync(r) \/ Wait(r) \/ SpuriousWake(r)
        \/ Start \/ Stop \/ Join \/ Step

Spec == Init /\ [][Next]_vars /\ WF_vars(Step)

----------------------------------------------------------------------------
TypeOK ==
    /\ mem.run \in BOOLEAN /\ mem.next \in Requests \cup {End}
    /\ ToSet(mem.readers) \subseteq Requests
    /\ pc[Io] \in {"none", "loop", "process", "ended"}
    /\ \A r \in Requests : pc[r] \in {"new", "asked", "blocked", "returned"}

\* The list holds each request that lacks data once and no other, and the
\* iterator is never left on a request that was erased, also when the callback
\* appends to the list that is being gone round (io_reactor.h:182-209).
ListSound ==
    /\ IsInjective(mem.readers)
    /\ \A r \in Requests : pc[r] # "new" /\ loc[r].total > 0 =>
          (r \in ToSet(mem.readers) <=> Len(loc[r].got) < loc[r].total)
    /\ mem.next \in ToSet(mem.readers) \cup {End}

\* Requests on one file share its bytes: each is given to one of them, in the
\* order of the file, and no request is given more than it asked for
\* (io_reactor.h:105-126).
BytesOnce == \A f \in Files :
    LET on == {r \in Requests : loc[r].file = f} IN
    /\ \A r \in on : Len(loc[r].got) <= loc[r].total
                     /\ \A i, j \in DOMAIN loc[r].got : i < j => loc[r].got[i] < loc[r].got[j]
    /\ UNION {ToSet(loc[r].got) : r \in on} = 0..mem.pos[f] - 1
    /\ \A r, q \in on : r # q => ToSet(loc[r].got) \cap ToSet(loc[q].got) = {}

\* the file can satisfy all who read it
Enough(f) == LET on == SetToSeq({r \in Requests : loc[r].file = f})
             IN  FoldLeft(LAMBDA sum, r : sum + loc[r].total, 0, on) <= Size[f]

\* nobody runs the reactor, or r is one of those that the file is too short for
Excused(r)   == ~mem.run \/ pc[Io] = "none" \/ ~Enough(loc[r].file)
Completed(r) == Excused(r) \/ ~Incomplete(r)
Waiting(r)   == pc[r] = "blocked" /\ Incomplete(r)
Woken(r)     == Excused(r) \/ pc[r] # "blocked"

\* While the reactor runs, a request whose file is long enough completes, even
\* next to requests that read nothing for ever from a file that is too short;
\* and a client that was waiting by then returns.
Completes == \A r \in Requests : (Incomplete(r) ~> Completed(r)) /\ (Waiting(r) ~> Woken(r))
=============================================================================
