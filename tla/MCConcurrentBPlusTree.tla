----------------------- MODULE MCConcurrentBPlusTree ------------------------
EXTENDS ConcurrentBPlusTree, TLC

CONSTANTS t1, t2, t3

\* The sequential tree, to build the trees at the start and to look at the tree
\* at the end.
Sequential == INSTANCE VanillaBPlusTree
    WITH freed <- {}, Preloads <- {}, Insertions <- {}

Tree(keys) ==
    LET t == Sequential!TreeOf([i \in DOMAIN keys |-> [key |-> keys[i], val |-> "a"]])
    IN  [root |-> t.root, depth |-> t.depth, blocks |-> t.mem.blocks,
         dict |-> [k \in Key |-> IF k \in ToSet(keys) THEN "a" ELSE Absent]]

\* A full leaf; a full root above two leaves, of which the right one is full;
\* and a tree of height 3 whose first leaf is full and whose first inner node
\* has a free slot.
FullLeaf == Tree(<<2, 4>>)
FullRoot == Tree(<<2, 4, 6>>)
Height3  == Tree(<<2, 4, 6, 8, 3>>)

Trees == {FullLeaf, FullRoot, Height3}

Assign(a, b, c) == (t1 :> a) @@ (t2 :> b) @@ (t3 :> c)

\* A new key, a key at either end of the tree, and an update before a search.
InsertionsAndSearches ==
    {Assign(<<InsertCall(3, "a")>>, <<InsertCall(x, "a")>>,
            <<InsertCall(4, "b"), SearchCall(x)>>) : x \in {1, 5}}

\* One thread splits the root, two insert into the left half.
SplitAndTwoInsertions ==
    {Assign(<<InsertCall(5, "a")>>, <<InsertCall(2, "b")>>, <<InsertCall(3, "a")>>)}

FullLeafOnly == {FullLeaf}

\* When all threads have joined, the tree is one that the sequential tree could
\* be: every key that was inserted is found with its last value, the iterator
\* delivers all entries, all leaves are at depth_, no allocated block is lost,
\* and parents and children agree about the boundaries.  Unless an attempt began
\* with a height that is not the one of its root.
QuietTreeIsSequential ==
    Quiet /\ ~mismatch =>
        /\ Sequential!SearchIsDictionary
        /\ Sequential!ScansAreRight
        /\ Sequential!BlocksAreTheTree
        /\ Sequential!NodesFit

\* Nothing that was inserted is missing when all threads have joined: the test
\* of several inserting threads looks for every key that it inserted.
NothingLost == Quiet => Sequential!SearchIsDictionary

=============================================================================
