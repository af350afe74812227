SPECIFICATION Spec
CONSTANTS
    t1 = t1
    t2 = t2
    t3 = t3
    Thread = {t1, t2, t3}
    Value = {"a", "b"}
    Absent = "absent"
    CAPACITY = 2
    Key = {1, 2, 3, 4, 5, 6, 8}
    InitialTrees <- FullLeafOnly
    Programs <- SplitAndTwoInsertions
INVARIANT NothingLost
