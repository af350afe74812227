----------------------------- MODULE MCPullTree -----------------------------
EXTENDS PullTree, TLC

Seqs == INSTANCE SequencesExt

CONSTANTS c1, c2, c3

\* Insertions one after the other, each awaited by sync().
Sequential(keys) ==
    Seqs!FlattenSeq([i \in DOMAIN keys |-> <<InsertRequest(keys[i], "a"), SyncRequest>>])

\* The requests of the set, in every order of arrival.
AllOrders(S) == Seqs!SetToSeqs(S)

Inserts(keys) == {InsertRequest(k, "a") : k \in keys}

On(accessor, programs) == {[device |-> accessor, requests |-> p] : p \in programs}

\* From the empty tree: five insertions in every order of arrival.
InsertPrograms == AllOrders(Inserts({1, 2, 3, 4, 5}))

\* On a tree of height 3, with a free slot in the inner node above the first
\* leaf: two insertions of new keys into that leaf, one of them below every key
\* of the tree, an update and two searches, in every order of arrival.  The
\* leaf splits and its parent absorbs the split; the root stays.
MixedPrograms ==
    {Sequential(<<3, 6, 7, 8>>) \o p :
        p \in AllOrders({InsertRequest(1, "a"), InsertRequest(4, "a"),
                         InsertRequest(3, "b"),
                         SearchRequest(3), SearchRequest(1)})}

\* Searches while the root splits: on a full leaf, and on a tree of height 2
\* whose root is full.
RootSplitPrograms ==
    {Sequential(<<1, 2>>) \o p :
        p \in AllOrders({InsertRequest(3, "a"), InsertRequest(4, "a"),
                         SearchRequest(1), SearchRequest(2)})}

TreePrograms == On("file", InsertPrograms) \cup On("nvme", MixedPrograms)
FileRootSplitPrograms == On("file", RootSplitPrograms)
NvmeRootSplitPrograms == On("nvme", RootSplitPrograms)

Symmetry == Permutations(Context)

=============================================================================
