SPECIFICATION FairSpec
CONSTANTS
    c1 = c1
    c2 = c2
    c3 = c3
    Context = {c1, c2, c3}
    Node = {1}
    Modes = {"read", "write"}
PROPERTY WriteRequestServed
