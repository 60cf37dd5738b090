\* Three threads on the awaiter and on lazy_atomic, two on the swap and on the dispatcher;
\* three read requests on two files.
CONSTANTS
    Threads = {t1, t2, t3}
    f1 = f1
    f2 = f2
    Swappers = {t1, t2}
    Chosen = {t1}
    NoToken = NoToken
    Addresses = {a1, a2}
    Empty = Empty
    Pending = Pending
    MaxClears = 1
    MaxSpurious = 1
    Requests = {r1, r2, r3}
    Size <- MCSize
    Lengths = {1, 3}
    Chunk = 2
    Io = Io
    End = End
    Dispatchers = {t1, t2}
    Msgs = {m1, m2}
    Observers = {o1, o2}
    Shared = {o1}
SPECIFICATION AnySpec
INVARIANTS SharedTypes NoLostWakeup AtomicsExact ReactorExact DispatchExact
PROPERTIES IsSignal FactorySawReplaced CallsReturn
