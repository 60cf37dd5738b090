\* Two workers and three calls: the next call overlaps the end of the one before.
CONSTANTS
    Workers = {w1, w2}
    MaxChain = 2
    MaxCalls = 3
SPECIFICATION Spec
INVARIANTS OwnResult OneWriter
PROPERTY CallReturns
\* the last call may have returned, and a stopped pool may never answer
CHECK_DEADLOCK FALSE
