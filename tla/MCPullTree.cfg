SPECIFICATION Spec
CONSTANTS
    c1 = c1
    c2 = c2
    c3 = c3
    Context = {c1, c2, c3}
    Value = {"a", "b"}
    Absent = "absent"
    CAPACITY = 2
    Key = {1, 2, 3, 4, 5, 6, 7, 8}
    MaxBlocks = 10
    Programs <- TreePrograms
SYMMETRY Symmetry
INVARIANTS
    TypeOK
    BarriersMatchTokens
    Asserts
    WritesOwned
    StoredKeysReachable
    QuietTreeIsBPlusTree
PROPERTY ImplementsDictionary
