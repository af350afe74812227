-------------------------- MODULE VanillaBPlusTree --------------------------
(***************************************************************************)
(* The sequential tree (tree/vanilla_b_plus_tree.h) on blocks, as          *)
(* in_disk_b_plus_tree runs it: one caller, recursive insertion and        *)
(* deletion over the nodes, allocation and release of blocks, the iterator *)
(* and the range search.  A call is one action.                            *)
(*                                                                         *)
(* A recursive call takes and returns the store                            *)
(*   blocks   the content of every block in use,                           *)
(*   free     freed_blk_addresses_,                                        *)
(*   cursor   the next address that was never used.                        *)
(* The code takes any freed address first and the model the smallest: the  *)
(* tree only compares addresses.                                           *)
(***************************************************************************)
EXTENDS BTreeNode, FiniteSetsExt, TLC

Seqs == INSTANCE SequencesExt

CONSTANTS Key,
          Absent            \* no value is stored

CONSTANTS Preloads,         \* sequences of entries, one of which the tree holds at first
          Insertions        \* the entries that the caller may insert

VARIABLES root, depth,      \* root_, depth_
          blocks, freed, cursor,
          dict              \* history: the value of every key, or Absent

vars == <<root, depth, blocks, freed, cursor, dict>>

-----------------------------------------------------------------------------
(* The store: file_blk_accessor and blk_node_reference *)

Store == [blocks |-> blocks, free |-> freed, cursor |-> cursor]

allocate(mem) ==
    IF mem.free # {} THEN [mem EXCEPT !.free = @ \ {Min(@)}]
    ELSE [mem EXCEPT !.cursor = @ + 1]

Allocated(mem) == IF mem.free # {} THEN Min(mem.free) ELSE mem.cursor

\* close() of a modified node writes it to its block.
close(mem, node) ==
    [mem EXCEPT !.blocks = [a \in DOMAIN @ \cup {node.self} |->
                                IF a = node.self THEN node ELSE @[a]]]

\* Mutant: the block of a merged node is not given back.
remove_leaks(mem, address) == mem

\* remove(): the block is deallocated; is_address_valid() refuses it from now on.
remove(mem, address) ==
    [mem EXCEPT !.blocks = [a \in DOMAIN @ \ {address} |-> @[a]],
                !.free = @ \cup {address}]

Commit(mem) ==
    /\ blocks' = mem.blocks
    /\ freed'  = mem.free
    /\ cursor' = mem.cursor

-----------------------------------------------------------------------------
(* Insertion *)

\* insert_with_split_support of both kinds of nodes: the store afterwards, and
\* the split of the node, if there is one.
RECURSIVE insert_with_split_support(_, _, _, _)
insert_with_split_support(mem, address, key, val) ==
    LET node == mem.blocks[address]
        Unsplit(m)  == [mem |-> m, is_split |-> FALSE]
        Splits(m, s) == [mem |-> close(close(allocate(m), s.left), s.right),
                         is_split |-> TRUE, split |-> s]
    IN
    IF node.type = LEAF
    THEN IF leaf_splits(node, key)
         THEN Splits(mem, leaf_split(node, key, val, Allocated(mem)))
         ELSE Unsplit(close(mem, leaf_insert(node, key, val)))
    ELSE LET index    == locate_child_index(node, key)
             inner    == IF index = 0 THEN lower_boundary(node, key) ELSE node
             position == IF index = 0 THEN 1 ELSE index
             below    == insert_with_split_support(mem, inner.children[position], key, val)
         IN  IF ~below.is_split THEN Unsplit(close(below.mem, inner))
             ELSE IF has_free_slot(inner)
             THEN Unsplit(close(below.mem,
                                insert_inner_node(inner, below.split.right.self,
                                                  below.split.boundary, position + 1)))
             ELSE Splits(below.mem,
                         inner_split(inner, position, below.split, Allocated(below.mem)))

\* VanillaBPlusTree::insert on a store with the given root: a split of the
\* root puts a new inner node above the two halves.
InsertedInto(mem, top, height, k, v) ==
    LET r == insert_with_split_support(mem, top, k, v)
        new_inner_node == new_root(Allocated(r.mem), r.split.left, r.split.right)
    IN  IF r.is_split
        THEN [mem |-> close(allocate(r.mem), new_inner_node),
              root |-> new_inner_node.self, depth |-> height + 1]
        ELSE [mem |-> r.mem, root |-> top, depth |-> height]

insert(k, v) ==
    LET r == InsertedInto(Store, root, depth, k, v) IN
    /\ Commit(r.mem)
    /\ root' = r.root
    /\ depth' = r.depth
    /\ dict' = [dict EXCEPT ![k] = v]

-----------------------------------------------------------------------------
(* Deletion *)

\* InnerNode::delete_key balances the child with its left sibling, the first
\* one with its right sibling.
LeftChildIndex(child_index) == IF child_index >= 2 THEN child_index - 1 ELSE child_index

balance(left, right) ==
    IF left.type = LEAF THEN leaf_balance(left, right) ELSE inner_balance(left, right)

\* Rebalancing of the children at i and i + 1 of an inner node.
Rebalanced(mem, inner, i) ==
    LET left   == mem.blocks[inner.children[i]]
        right  == mem.blocks[inner.children[i + 1]]
        merged == merges(left, right)
        pair   == balance(left, right)
        node   == inner_delete(inner, i + 1, merged,
                               IF merged THEN 0 ELSE get_leftmost_key(pair.right))
        below  == IF merged THEN remove(close(mem, pair.left), right.self)
                  ELSE close(close(mem, pair.left), pair.right)
    IN  [mem |-> close(below, node), deleted |-> TRUE,
         underflow |-> merged /\ underflows(node)]

RECURSIVE delete_from(_, _, _)
delete_from(mem, address, key) ==
    LET node == mem.blocks[address]
        NotFound == [mem |-> mem, deleted |-> FALSE, underflow |-> FALSE]
    IN
    IF node.type = LEAF
    THEN IF ~found(node, key) THEN NotFound
         ELSE LET leaf == leaf_delete(node, key)
              IN  [mem |-> close(mem, leaf), deleted |-> TRUE,
                   underflow |-> underflows(leaf)]
    ELSE LET child_index == locate_child_index(node, key)
             below == delete_from(mem, node.children[child_index], key)
         IN  IF child_index = 0 THEN NotFound
             ELSE IF ~below.underflow \/ size(node) < 2 THEN below
             ELSE Rebalanced(below.mem, node, LeftChildIndex(child_index))

\* A root that is left with one child is replaced by it.
shrinks(mem, underflow) ==
    underflow /\ mem.blocks[root].type = INNER /\ size(mem.blocks[root]) = 1

delete_key(k) ==
    LET r == delete_from(Store, root, k)
        shrunk == shrinks(r.mem, r.underflow)
    IN  /\ Commit(IF shrunk THEN remove(r.mem, root) ELSE r.mem)
        /\ root'  = IF shrunk THEN r.mem.blocks[root].children[1] ELSE root
        /\ depth' = IF shrunk THEN depth - 1 ELSE depth
        /\ dict' = [dict EXCEPT ![k] = Absent]

-----------------------------------------------------------------------------
(* Searches, the iterator and the range search *)

RECURSIVE search_from(_, _)
search_from(address, key) ==
    LET node  == blocks[address]
        index == locate_child_index(node, key)
    IN  IF node.type = LEAF THEN leaf_search(node, key, Absent)
        ELSE IF index = 0 THEN Absent
        ELSE search_from(node.children[index], key)

search(key) == search_from(root, key)

RECURSIVE get_leftmost_leaf_node(_)
get_leftmost_leaf_node(address) ==
    IF blocks[address].type = LEAF THEN address
    ELSE get_leftmost_leaf_node(blocks[address].children[1])

\* locate_key: the leaf and the offset at which the key is or would be.  When
\* the key is below the first boundary the reference stays uninitialised.
Uninitialised == [leaf |-> NULL, offset |-> 0]

RECURSIVE locate_key(_, _)
locate_key(address, key) ==
    LET node  == blocks[address]
        index == locate_child_index(node, key)
    IN  IF node.type = LEAF
        THEN [leaf |-> address, offset |-> search_key_position(node, key)]
        ELSE IF index = 0 THEN Uninitialised
        ELSE locate_key(node.children[index], key)

\* Iterator::next called until it returns false: the rest of the leaf, then the
\* leaves to the right, up to the first key outside the bound.
RECURSIVE scan(_, _, _)
scan(leaf, offset, bounded) ==
    LET node == blocks[leaf] IN
    IF offset < size(node)
    THEN LET entry == node.entries[offset + 1]
         IN  IF entry.key \in bounded THEN <<entry>> \o scan(leaf, offset + 1, bounded)
             ELSE <<>>
    ELSE IF node.right = NULL THEN <<>>
    ELSE scan(node.right, 0, bounded)

\* The entries that the iterator of get_iterator() delivers.
get_iterator == scan(get_leftmost_leaf_node(root), 0, Key)

\* The entries that the iterator of range_search() delivers.
range_search(key_low, key_high) ==
    LET start == locate_key(root, key_low)
    IN  scan(start.leaf, start.offset, {k \in Key : k <= key_high})

-----------------------------------------------------------------------------
(* The program: one caller, and a tree that init() made *)

\* init(): an empty leaf in the first block is the root.
EmptyTree ==
    [mem |-> [blocks |-> (0 :> Leaf(0, <<>>, NULL)), free |-> {}, cursor |-> 1],
     root |-> 0, depth |-> 1]

\* The tree after insertions of the given entries into the empty one.
TreeOf(entries) ==
    Seqs!FoldLeft(LAMBDA t, e : InsertedInto(t.mem, t.root, t.depth, e.key, e.val),
             EmptyTree, entries)

Init ==
    \E entries \in Preloads :
        LET t == TreeOf(entries) IN
        /\ root = t.root
        /\ depth = t.depth
        /\ blocks = t.mem.blocks
        /\ freed = t.mem.free
        /\ cursor = t.mem.cursor
        /\ dict = [k \in Key |-> LET last == Seqs!SelectLastInSeq(entries, LAMBDA e : e.key = k)
                                  IN  IF last = 0 THEN Absent ELSE entries[last].val]

\* clear() of the tree on disk: close() removes all nodes, and init() starts
\* again on a new accessor.
clear ==
    /\ Commit(EmptyTree.mem)
    /\ root' = EmptyTree.root
    /\ depth' = EmptyTree.depth
    /\ dict' = [k \in Key |-> Absent]

Next ==
    \/ \E e \in Insertions : insert(e.key, e.val)
    \/ \E k \in Key : delete_key(k)
    \/ clear

Spec == Init /\ [][Next]_vars

-----------------------------------------------------------------------------
(* Properties *)

Children(address) ==
    IF blocks[address].type = LEAF THEN {} ELSE ToSet(blocks[address].children)

RECURSIVE NodesBelow(_, _)
NodesBelow(addresses, levels) ==
    IF levels = 0 THEN addresses
    ELSE NodesBelow(UNION {Children(a) : a \in addresses}, levels - 1)

Level(n) == NodesBelow({root}, n)

Leaves == {a \in DOMAIN blocks : blocks[a].type = LEAF}

\* The entries of the dictionary from one key to another, in order.
Entries(low, high) ==
    LET val(k) == IF k \in Key THEN dict[k] ELSE Absent
    IN  SelectSeq([i \in 1..(high - low + 1) |-> [key |-> low + i - 1, val |-> val(low + i - 1)]],
                  LAMBDA entry : entry.val # Absent)

\* search() delivers what the last insertion of the key stored, and nothing
\* after its deletion, whatever splits, loans and merges have moved the key.
SearchIsDictionary == \A k \in Key : search(k) = dict[k]

\* The iterator delivers every entry once and in order, and range_search() those
\* of the range: the links between the leaves survive splits and merges.  The
\* result is undefined (an uninitialised reference is used) only when the root is
\* an inner node and the range begins below every key of the tree.
ScansAreRight ==
    /\ get_iterator = Entries(Min(Key), Max(Key))
    /\ \A low \in Key :
          IF locate_key(root, low) = Uninitialised
          THEN blocks[root].type = INNER /\ \A k \in Key : dict[k] # Absent => low < k
          ELSE \A high \in {k \in Key : low <= k} :
                  range_search(low, high) = Entries(low, high)

\* depth_ is the height of the tree on every path, the blocks in use are the
\* nodes of the tree, and an address below the cursor is in use or free, never
\* both: the merged nodes are given back, once.
BlocksAreTheTree ==
    /\ Level(depth - 1) = Leaves
    /\ UNION {Level(n) : n \in 0..(depth - 1)} = DOMAIN blocks
    /\ \A a \in DOMAIN blocks : blocks[a].self = a
    /\ DOMAIN blocks = 0..(cursor - 1) \ freed

\* No node holds more than its arrays take, every inner node but the root agrees
\* with its parent about its first key, so that no descent that begins inside
\* the tree falls off its left edge, and with an even capacity no node but the
\* root is below the bound that delete_key() and balance() defend.
NodesFit ==
    \A a \in DOMAIN blocks :
        LET node == blocks[a] IN
        /\ size(node) <= CAPACITY
        /\ CAPACITY % 2 = 0 /\ a # root => size(node) >= UNDERFLOW_BOUND
        /\ node.type = INNER =>
             \A i \in DOMAIN node.children :
                LET child == blocks[node.children[i]] IN
                child.type = INNER => child.keys[1] = node.keys[i]

=============================================================================
