SPECIFICATION Spec
INVARIANTS
    SearchIsDictionary
    ScansAreRight
    BlocksAreTheTree
    NodesFit
