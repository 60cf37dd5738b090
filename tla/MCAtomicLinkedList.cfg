\* Three threads push and pop, one of them also releases: addresses are reused
\* while another thread is between its load and its compare-and-swap.  Two
\* values tell the nodes apart.
CONSTANTS
    Threads = {t1, t2, t3}
    Releasers = {t1}
    Nodes = {n1, n2}
    Values = {v1, v2}
    NULL = NULL
    None = None
    MaxGen = 3
SPECIFICATION Spec
INVARIANTS
    ListSound
    Exclusive
    NoLeak
    IInv
PROPERTY Linearizable
\* every thread may be idle once MaxGen is reached
CHECK_DEADLOCK FALSE
