------------------------- MODULE MCVanillaBPlusTree -------------------------
(***************************************************************************)
(* The sequential tree with an odd and with an even capacity, as two       *)
(* instances of the class template.  `capacity' says which one runs.       *)
(***************************************************************************)
EXTENDS Integers, Sequences

VARIABLES capacity, root, depth, blocks, freed, cursor, dict

Entry(k, v) == [key |-> k, val |-> v]

\* Capacity 3: seven keys, from the empty tree.  A split leaves a node below
\* the underflow bound.
Odd == INSTANCE VanillaBPlusTree WITH
    CAPACITY <- 3, Key <- 1..7, Absent <- "absent",
    Preloads <- {<<>>},
    Insertions <- {Entry(k, "a") : k \in 1..7}

\* Capacity 4: the smallest tree of height 3, with a key below all others to
\* come, and one that may be updated or come back.
Even == INSTANCE VanillaBPlusTree WITH
    CAPACITY <- 4, Key <- 0..11, Absent <- "absent",
    Preloads <- {[i \in 1..11 |-> Entry(i, "a")]},
    Insertions <- {Entry(0, "a"), Entry(6, "b")}

Init ==
    \/ capacity = 3 /\ Odd!Init
    \/ capacity = 4 /\ Even!Init

Next ==
    /\ UNCHANGED capacity
    /\ \/ capacity = 3 /\ Odd!Next
       \/ capacity = 4 /\ Even!Next

Spec == Init /\ [][Next]_<<capacity, Odd!vars>>

Holds(odd, even) == IF capacity = 3 THEN odd ELSE even

\* VanillaBPlusTree::search is a look-up in the dictionary, after any insertions
\* and deletions.
SearchIsDictionary == Holds(Odd!SearchIsDictionary, Even!SearchIsDictionary)

\* The iterator delivers all entries in order, and range_search those of the
\* range, unless it begins below all keys.
ScansAreRight == Holds(Odd!ScansAreRight, Even!ScansAreRight)

\* The blocks in use are the nodes of the tree, all leaves have depth_, and every
\* other address below the cursor can be allocated again.
BlocksAreTheTree == Holds(Odd!BlocksAreTheTree, Even!BlocksAreTheTree)

\* Nodes stay within their arrays, and above the underflow bound when the
\* capacity is even, and inner nodes agree with their parents.
NodesFit == Holds(Odd!NodesFit, Even!NodesFit)

=============================================================================
