SPECIFICATION FairSpec
CONSTANTS
    c1 = c1
    c2 = c2
    c3 = c3
    Context = {c1, c2, c3}
    Node = {1, 2}
    Modes = {"read", "write"}
INVARIANTS
    TypeOK
    Exclusion
    Accounting
    NoLostWakeup
    QueuesMatchStatus
PROPERTIES
    WritersKeepOrder
    ServedUnlessOvertaken
