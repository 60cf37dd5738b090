\* A task destroyed as soon as its call has returned.
CONSTANTS
    Workers = {w1, w2}
    MaxChain = 2
    MaxCalls = 3
SPECIFICATION Spec
INVARIANT NotUsedAfterDestroy
\* the last call may have returned, and a stopped pool may never answer
CHECK_DEADLOCK FALSE
