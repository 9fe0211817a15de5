SPECIFICATION Spec
CONSTANTS
    N = 3
    Players = {1}
    Backlog = 1
INVARIANTS OneRuns
PROPERTY Woken
\* When every launcher has ended nothing is left to do.
CHECK_DEADLOCK FALSE
