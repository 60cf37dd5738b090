\* One client owns the pool, posts, waits, starts, stops and restarts it.
CONSTANTS
    j1 = j1
    j2 = j2
    NumWorkers = 2
    Clients = {c1}
    Owner = c1
    Jobs = {j1, j2}
    Steps <- MCSteps
    CounterMod = 8
    MaxStarts = 2
    None = None
SPECIFICATION Spec
INVARIANTS NoLostStop WaiterNotForgotten
PROPERTIES IdleMeansDone WorkDone WaitReturns StopReturns
\* a client need not call again, and a wait on a pool that is not running blocks
CHECK_DEADLOCK FALSE
