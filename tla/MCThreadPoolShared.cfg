\* Two clients post and wait while the owner also starts and stops the pool.
CONSTANTS
    j1 = j1
    j2 = j2
    NumWorkers = 2
    Clients = {c1, c2}
    Owner = c1
    Jobs = {j1, j2}
    Steps <- MCSteps
    CounterMod = 8
    MaxStarts = 1
    None = None
SPECIFICATION Spec
INVARIANTS TypeOK OnePlace PendingExact NoLostWork
\* a client need not call again, and a wait on a pool that is not running blocks
CHECK_DEADLOCK FALSE
