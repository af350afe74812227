SPECIFICATION Spec
CONSTANTS
    Context = {c1, c2}
    Block = {0, 1, 2}
    Capacities = {2}
    MaxWrites = 4
    MaxRefused = 0
INVARIANT ReadsLatest
