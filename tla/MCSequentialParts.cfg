\* Capacity serves ring_buffer, whose head and tail wrap apart, and fixed_vector.
\* An entry of three and one of one byte fill half a lap of the ring file.
\* copy and run() stop when they are done.
CONSTANTS
    Capacity = 4
    Values = {v1, v2}
    None = None
    Functions = {1, 2, 3}
    MaxFails = 2
    Layouts <- MCLayouts
    Crews <- MCCrews
    MapSize = 12
    Padding = 1
    Header = 2
    Sizes = {1, 3}
    MaxEntries = 5
    Writer = Writer
    Readers = {Reader}
    NoBuffer = NoBuffer
    Raw = Raw
    Shell = Shell
    Payloads = {p1, p2, p3}
    Codes = {c1, c2}
    NumTypes = 3
    BufSize = 3
    MaxBytes = 5
    Handles = {h1, h2, h3}
    InitSize = 1
    MaxMade = 4
    Null = Null
    Files = {f1, f2}
    Ends = {in, out}
    Maps = {m1, m2}
    MaxFds = 3
    Addresses = {a1, a2}
    MAP_FAILED = MAP_FAILED
    Careful = TRUE
CHECK_DEADLOCK FALSE
SPECIFICATION AnySpec
INVARIANTS LiveIsOccupied EachTried RingFileExact StoredExact OwnedOnce
PROPERTIES IsRecentQueue RunReturns
