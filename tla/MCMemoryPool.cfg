\* Clients that ask for a size only when no free chunk can serve it, and clients
\* that wait for the last reused chunk to come back.
CONSTANTS
    NumPages = 5
    NO_CHUNK = 99
    Disciplines = {"fresh", "one"}
    MaxHandles = 3
SPECIFICATION Spec
INVARIANTS RefsExact FreeListSound ChunksTile
\* when every page is free again, a "fresh" client has nothing left to ask for
CHECK_DEADLOCK FALSE
