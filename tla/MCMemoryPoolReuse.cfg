\* Clients that rent and release as they like.
CONSTANTS
    NumPages = 5
    NO_CHUNK = 99
    Disciplines = {"any"}
    MaxHandles = 3
SPECIFICATION Spec
INVARIANT RefsExact
