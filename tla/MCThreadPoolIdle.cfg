\* Two clients: wait_for_idle returns too early.
CONSTANTS
    j1 = j1
    j2 = j2
    NumWorkers = 2
    Clients = {c1, c2}
    Owner = c1
    Jobs = {j1, j2}
    Steps <- MCSteps
    CounterMod = 8
    MaxStarts = 1
    None = None
SPECIFICATION Spec
PROPERTY IdleMeansDone
\* a client need not call again, and a wait on a pool that is not running blocks
CHECK_DEADLOCK FALSE
