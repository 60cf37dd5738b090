--------------------------------- MODULE Handles ---------------------------------
(***************************************************************************)
(* The objects that own what the kernel gives out: file_base and the       *)
(* file, socket, pipe, event_timer and event_poller over it, each with a   *)
(* file descriptor, and memory_map with a mapping.                         *)
(*                                                                         *)
(* `store' is the variables of a program that opens, moves, closes and     *)
(* destructs them, `contents' the kernel: which descriptors and mappings   *)
(* there are (it gives out the lowest that is free), and whether a call    *)
(* has released one that its object does not own.                          *)
(***************************************************************************)
EXTENDS Integers, FiniteSets, FiniteSetsExt

CONSTANTS
    Files, Ends, Maps,  \* variables: files of any kind, the ends of a pipe_connector, maps
    MaxFds,             \* bound: descriptors of the process
    Addresses,          \* where the kernel maps
    Null, MAP_FAILED

\* of the constants
HandlesAssumption ==
    /\ MaxFds \in Nat \ {0} /\ {Null, MAP_FAILED} \cap Addresses = {}
    /\ IsFiniteSet(Files) /\ IsFiniteSet(Ends) /\ IsFiniteSet(Maps)
    /\ Files \cap Ends = {} /\ Cardinality(Ends) = 2

VARIABLES store, contents
vars == <<store, contents>>

Descriptors == Files \cup Ends
Mapping(address, size) == [map |-> address, size |-> size]
NoMap == Mapping(Null, 0)

Init ==
    /\ store = [fd |-> [f \in Descriptors |-> -1], map |-> [m \in Maps |-> NoMap]]
    /\ contents = [fds |-> {}, mapped |-> {}, stray |-> FALSE]

----------------------------------------------------------------------------
is_open(f) == store.fd[f] # -1
Free == 0..MaxFds - 1 \ contents.fds

\* ::close, which refuses -1
Closed(fd) ==
    IF fd = -1 THEN contents
    ELSE [contents EXCEPT !.fds = @ \ {fd}, !.stray = @ \/ fd \notin contents.fds]

\* open of a file, socket, timer or poller, and accept: refused when the object is open
\* already; when the kernel refuses, fd_ is -1
\* mutant: it is not refused, and the descriptor it had is forgotten
Reopened(f) == TRUE
Openable(f) == ~is_open(f)

Open(f) ==
    /\ Openable(f)
    /\ \/ /\ Free # {}
          /\ store' = [store EXCEPT !.fd[f] = Min(Free)]
          /\ contents' = [contents EXCEPT !.fds = @ \cup {Min(Free)}]
       \/ UNCHANGED vars

\* pipe_connector::open: both ends by moves from temporaries, when neither is open
OpenPipe ==
    /\ \A e \in Ends : ~is_open(e)
    /\ \E fds \in [Ends -> Free] :
        /\ Cardinality({fds[e] : e \in Ends}) = 2
        /\ store' = [store EXCEPT !.fd = [f \in Descriptors |-> IF f \in Ends THEN fds[f] ELSE @[f]]]
        /\ contents' = [contents EXCEPT !.fds = @ \cup {fds[e] : e \in Ends}]

\* close, and the destructor; fd_ is -1 after it, whatever the call answered
Close(f) ==
    /\ store' = [store EXCEPT !.fd[f] = -1]
    /\ contents' = Closed(store.fd[f])

\* f is assigned to, or destructed and constructed, from g
Move(f, g) ==
    /\ f # g
    /\ store' = [store EXCEPT !.fd[f] = store.fd[g], !.fd[g] = -1]
    /\ contents' = Closed(store.fd[f])

----------------------------------------------------------------------------
is_mapped(mapping) == mapping.map # Null /\ mapping.size # 0

\* a mapping that the kernel refuses leaves MAP_FAILED behind, and no size
OpenMap(m, size) ==
    /\ ~is_mapped(store.map[m])
    /\ \/ \E address \in Addresses \ contents.mapped :
            /\ size > 0
            /\ store' = [store EXCEPT !.map[m] = Mapping(address, size)]
            /\ contents' = [contents EXCEPT !.mapped = @ \cup {address}]
       \/ store' = [store EXCEPT !.map[m].map = MAP_FAILED] /\ UNCHANGED contents

\* munmap refuses what has no size, and then nothing is reset
Unmapped(mapping) ==
    [contents EXCEPT !.mapped = @ \ {mapping.map}, !.stray = @ \/ mapping.map \notin contents.mapped]
CloseMap(m) ==
    /\ store.map[m].size # 0
    /\ store' = [store EXCEPT !.map[m] = NoMap]
    /\ contents' = Unmapped(store.map[m])

\* assignment swaps the two, construction takes and leaves an empty one
AssignMap(m, n) ==
    /\ m # n
    /\ store' = [store EXCEPT !.map[m] = store.map[n], !.map[n] = store.map[m]]
    /\ UNCHANGED contents
ConstructMap(m, n) ==
    /\ m # n
    /\ store' = [store EXCEPT !.map[m] = store.map[n], !.map[n] = NoMap]
    /\ contents' = IF is_mapped(store.map[m]) THEN Unmapped(store.map[m]) ELSE contents

Next ==
    \/ \E f \in Files : Open(f)
    \/ OpenPipe
    \/ \E f \in Descriptors : Close(f)
    \/ \E f, g \in Files : Move(f, g)
    \/ \E f, g \in Ends : Move(f, g)
    \/ \E m \in Maps : CloseMap(m) \/ \E size \in 0..1 : OpenMap(m, size)
    \/ \E m, n \in Maps : AssignMap(m, n) \/ ConstructMap(m, n)

Spec == Init /\ [][Next]_vars

----------------------------------------------------------------------------
\* Each descriptor and each mapping that the kernel has given out is owned by exactly one
\* object, so that none leaks, and no object ever closes one that is not its own and may
\* be another's by then (file_base.h:30-70, memory_map.h:63-119, pipe.h:55-71).
OwnedOnce ==
    LET open   == {f \in Descriptors : is_open(f)}
        mapped == {m \in Maps : is_mapped(store.map[m])}
    IN  /\ {store.fd[f] : f \in open} = contents.fds
        /\ Cardinality(open) = Cardinality(contents.fds)
        /\ {store.map[m].map : m \in mapped} = contents.mapped
        /\ Cardinality(mapped) = Cardinality(contents.mapped)
        /\ ~contents.stray
=============================================================================
