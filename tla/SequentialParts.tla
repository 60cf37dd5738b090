---------------------------- MODULE SequentialParts ----------------------------
(***************************************************************************)
(* The parts of the library that one thread uses and that do not use each  *)
(* other: the ring buffers, the work list, the vector, the holders of      *)
(* values, copy, the resource pool and the owners of descriptors and maps. *)
(* A behaviour is one of one part, chosen at the start; the state of       *)
(* ring_buffer, that this module extends, and of the chosen other part is  *)
(* kept apart.                                                             *)
(***************************************************************************)
EXTENDS RingBuffer

CONSTANTS
    Functions, MaxFails, Layouts, Crews,                                \* WorkList
    MapSize, Padding, Header, Sizes, MaxEntries, Writer, Readers,       \* RingBufferFile
    NoBuffer,
    Raw, Shell,                                                         \* FixedVector
    Payloads, Codes, NumTypes,                                          \* Results, StorageUnion
    BufSize, MaxBytes,                                                  \* Copy
    Handles, InitSize, MaxMade, Null,                                   \* ResourcePool
    Files, Ends, Maps, MaxFds, Addresses, MAP_FAILED,                   \* Handles
    Careful     \* clients avoid the calls that the code gets wrong: see each part

VARIABLES which, store, contents

others == <<store, contents>>
allVars == <<which, vars, others>>

Work   == INSTANCE WorkList
File   == INSTANCE RingBufferFile
Vector == INSTANCE FixedVector
Result == INSTANCE Results
Union  == INSTANCE StorageUnion
Copy   == INSTANCE Copy
Pool   == INSTANCE ResourcePool
Handle == INSTANCE Handles

ASSUME PartsAssumption ==
    /\ Work!WorkAssumption /\ File!FileAssumption /\ Vector!VectorAssumption
    /\ Result!ResultAssumption /\ Union!UnionAssumption /\ Copy!CopyAssumption
    /\ Pool!PoolAssumption /\ Handle!HandlesAssumption

AnyInit ==
    /\ Init
    /\ \/ which = "ring"   /\ store = NoBuffer /\ contents = NoBuffer
       \/ which = "work"   /\ Work!Init
       \/ which = "file"   /\ File!Init
       \/ which = "vector" /\ Vector!Init
       \/ which = "result" /\ Result!Init
       \/ which = "union"  /\ Union!Init
       \/ which = "copy"   /\ Copy!Init
       \/ which = "pool"   /\ Pool!Init
       \/ which = "handle" /\ Handle!Init
    /\ which = "ring" \/ slot = [i \in Slots |-> CHOOSE v \in Values : TRUE]

AnyNext ==
    \/ which = "ring"   /\ Next        /\ UNCHANGED <<which, others>>
    \/ which = "work"   /\ Work!Next   /\ UNCHANGED <<which, vars>>
    \/ which = "file"   /\ File!Next   /\ UNCHANGED <<which, vars>>
    \/ which = "vector" /\ Vector!Next /\ UNCHANGED <<which, vars>>
    \/ which = "result" /\ Result!Next /\ UNCHANGED <<which, vars>>
    \/ which = "union"  /\ Union!Next  /\ UNCHANGED <<which, vars>>
    \/ which = "copy"   /\ Copy!Next   /\ UNCHANGED <<which, vars>>
    \/ which = "pool"   /\ Pool!Next   /\ UNCHANGED <<which, vars>>
    \/ which = "handle" /\ Handle!Next /\ UNCHANGED <<which, vars>>

\* run() is not interrupted
AnySpec ==
    /\ AnyInit /\ [][AnyNext]_allVars
    /\ WF_allVars(which = "work" /\ Work!Next /\ UNCHANGED <<which, vars>>)

----------------------------------------------------------------------------
\* work_list.h: every function is called until it succeeds or has used its retries, once
\* for each try, on whichever worker it lands, before run() returns; and the functions
\* of a chain are called in turn, first to last and round again for those that are to
\* be retried: none is called a second time while another that needs it has had no call.
EachTried == which = "work" => Work!EachTried

\* run() comes back although units are retried, workers are busy and the list is
\* empty meanwhile (work_list.h:241-274).
RunReturns == which = "work" ~> (which = "work" /\ store.at = "done")

\* ring_buffer_file.h:189-292: a reader in another mapping of the file gets each
\* entry once, whole and in order, as long as the writer has not gone over it; and
\* what the writer still counts as kept lies whole in the file.
RingFileExact == which = "file" => File!ReadsDue /\ File!KeptWhole

\* fixed_vector.h, result.h, storage_union.h: objects that are built in raw storage
\* are where their index, flags and counts say, and are those that the calls put
\* there, through insertions, erasures, moves, assignments and swaps. copy.h: what
\* arrives is what was sent, in order, as many bytes as were asked for or are there,
\* however short the reads.
StoredExact ==
    /\ which = "vector" => Vector!ElementsExact /\ Vector!SlotsSound
    /\ which = "result" => Result!HoldsLast /\ Result!NeverConfused
    /\ which = "union"  => Union!UnionExact
    /\ which = "copy"   => Copy!CopyExact

\* resource_pool.h, file_base.h, memory_map.h: each resource, descriptor and mapping
\* has one owner, or waits in the pool, and none that is in use has lost its owner.
OwnedOnce ==
    /\ which = "pool"   => Pool!OnePlace
    /\ which = "handle" => Handle!OwnedOnce
=============================================================================
