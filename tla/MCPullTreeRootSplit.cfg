SPECIFICATION FairSpec
CONSTANTS
    c1 = c1
    c2 = c2
    c3 = c3
    Context = {c1, c2, c3}
    Value = {"a", "b"}
    Absent = "absent"
    CAPACITY = 2
    Key = {1, 2, 3, 4}
    MaxBlocks = 12
    Programs <- FileRootSplitPrograms
INVARIANT OnlyStaleSearchErrs
PROPERTY AllServed
