----------------------------- MODULE BTreeNode ------------------------------
(***************************************************************************)
(* The nodes of the B+ tree as they are stored in blocks                   *)
(* (tree/leaf_node.h, tree/inner_node.h): what serialize() writes and      *)
(* deserialize() restores, and the algorithms on one node that an          *)
(* insertion or a search runs on the deserialized copy.                    *)
(*                                                                         *)
(* Arrays are sequences, so indexes are one more than in the code; index 0 *)
(* of a child stands for the -1 that locate_child_index returns.           *)
(***************************************************************************)
EXTENDS Integers, FiniteSetsExt, SequenceHelpers

CONSTANT CAPACITY   \* entries of a leaf, children of an inner node

ASSUME CapacityAssumption == CAPACITY \in Nat /\ CAPACITY >= 2

LEAF  == "leaf"
INNER == "inner"
NULL  == -1         \* the block address that stands for no block

Leaf(self, entries, right_sibling) ==
    [type |-> LEAF, self |-> self, entries |-> entries, right |-> right_sibling]

Inner(self, keys, children) ==
    [type |-> INNER, self |-> self, keys |-> keys, children |-> children]

\* The leaves and the inner nodes with addresses A, keys K and values V.
LeafNodes(A, K, V) ==
    [type : {LEAF}, self : A, entries : Seq([key : K, val : V]), right : A \cup {NULL}]

InnerNodes(A, K) ==
    [type : {INNER}, self : A, keys : Seq(K), children : Seq(A)]

\* An inner node has a key for each child, and at least one.
Paired(inner) == Len(inner.keys) = Len(inner.children) /\ Len(inner.keys) >= 1

\* What deserialize() makes of a zero-filled block: INNER_NODE is 0.
ZeroBlock == Inner(0, <<>>, <<>>)

size(node) == IF node.type = LEAF THEN Len(node.entries) ELSE Len(node.keys)

get_leftmost_key(node) ==
    IF node.type = LEAF THEN node.entries[1].key ELSE node.keys[1]

HalfCapacity == CAPACITY \div 2

-----------------------------------------------------------------------------
(* LeafNode *)

\* search_key_position: the number of keys before the given one is its
\* position, or the position at which it would be inserted.
search_key_position(leaf, key) ==
    Cardinality({i \in DOMAIN leaf.entries : leaf.entries[i].key < key})

found(leaf, key) == \E i \in DOMAIN leaf.entries : leaf.entries[i].key = key

\* LeafNode::insert: overwrite the value of the key, or make room for it.
leaf_insert(leaf, key, val) ==
    LET position == search_key_position(leaf, key) + 1
        entry    == [key |-> key, val |-> val]
    IN  [leaf EXCEPT !.entries = IF found(leaf, key)
                                 THEN ReplaceAt(@, position, entry)
                                 ELSE InsertAt(@, position, entry)]

\* Mutant: the leaf takes one entry too many.
leaf_splits_late(leaf, key) == ~found(leaf, key) /\ size(leaf) > CAPACITY

\* insert_with_split_support splits only when a new key meets a full leaf.
leaf_splits(leaf, key) == ~found(leaf, key) /\ size(leaf) >= CAPACITY

\* Mutant: the right half does not take over the right sibling.
leaf_split_unlinked(leaf, key, val, right_ref) ==
    LET left  == Leaf(leaf.self, SubSeq(leaf.entries, 1, HalfCapacity), right_ref)
        right == Leaf(right_ref, SubSeq(leaf.entries, HalfCapacity + 1, CAPACITY), NULL)
        first  == search_key_position(leaf, key) < HalfCapacity
        left2  == IF first THEN leaf_insert(left, key, val) ELSE left
        right2 == IF first THEN right ELSE leaf_insert(right, key, val)
    IN  [left |-> left2, right |-> right2, boundary |-> right2.entries[1].key]

\* Mutant: the leaf is split and the entry is not inserted.
leaf_split_drops(leaf, key, val, right_ref) ==
    LET left  == Leaf(leaf.self, SubSeq(leaf.entries, 1, HalfCapacity), right_ref)
        right == Leaf(right_ref, SubSeq(leaf.entries, HalfCapacity + 1, CAPACITY),
                      leaf.right)
    IN  [left |-> left, right |-> right, boundary |-> right.entries[1].key]

\* The split of a full leaf: the upper half moves to the new block, which is
\* linked to the right of the old one, and the entry goes to its half.
leaf_split(leaf, key, val, right_ref) ==
    LET left  == Leaf(leaf.self, SubSeq(leaf.entries, 1, HalfCapacity), right_ref)
        right == Leaf(right_ref, SubSeq(leaf.entries, HalfCapacity + 1, CAPACITY),
                      leaf.right)
        insert_to_first_half == search_key_position(leaf, key) < HalfCapacity
        left2  == IF insert_to_first_half THEN leaf_insert(left, key, val) ELSE left
        right2 == IF insert_to_first_half THEN right ELSE leaf_insert(right, key, val)
    IN  [left |-> left2, right |-> right2, boundary |-> right2.entries[1].key]

\* Mutant: the binary search stops before the last entry.
leaf_search_misses_last(leaf, key, absent) ==
    IF found(leaf, key) /\ search_key_position(leaf, key) + 1 < size(leaf)
    THEN leaf.entries[search_key_position(leaf, key) + 1].val
    ELSE absent

\* LeafNode::search: the value of the key, or the given default.
leaf_search(leaf, key, absent) ==
    IF found(leaf, key)
    THEN leaf.entries[search_key_position(leaf, key) + 1].val
    ELSE absent

\* Mutant: the entry before the deleted one goes, too.
leaf_delete_wide(leaf, key) ==
    [leaf EXCEPT !.entries = SelectSeq(@, LAMBDA e : e.key \notin {key - 1, key})]

\* LeafNode::delete_key: close the gap that the entry leaves.
leaf_delete(leaf, key) ==
    [leaf EXCEPT !.entries = RemoveAt(@, search_key_position(leaf, key) + 1)]

-----------------------------------------------------------------------------
(* InnerNode *)

\* locate_child_index: the last child whose key is not above the given one.
locate_child_index(inner, key) ==
    Cardinality({i \in DOMAIN inner.keys : inner.keys[i] <= key})

has_free_slot(inner) == size(inner) < CAPACITY

insert_inner_node(inner, child, boundary_key, position) ==
    [inner EXCEPT !.keys = InsertAt(@, position, boundary_key),
                  !.children = InsertAt(@, position, child)]

\* Mutant: the boundary key is left alone.
lower_boundary_forgotten(inner, key) == inner

\* key_[0] of a node is lowered when a key below all of the tree arrives.  In
\* a node without children the slot is not part of what serialize() writes.
lower_boundary(inner, key) ==
    [inner EXCEPT !.keys = IF @ = <<>> THEN @ ELSE ReplaceAt(@, 1, key)]

\* child_rep_[i], which is -1 where no child was ever stored.
child_rep(inner, i) ==
    IF i \in DOMAIN inner.children THEN inner.children[i] ELSE NULL

\* Mutant: the new child always goes to the left half.
inner_split_left(inner, position, split, right_ref) ==
    LET left  == Inner(inner.self, SubSeq(inner.keys, 1, HalfCapacity),
                       SubSeq(inner.children, 1, HalfCapacity))
        right == Inner(right_ref, SubSeq(inner.keys, HalfCapacity + 1, size(inner)),
                       SubSeq(inner.children, HalfCapacity + 1, size(inner)))
        left2 == insert_inner_node(left, split.right.self, split.boundary,
                                   locate_child_index(left, split.boundary) + 1)
    IN  [left |-> left2, right |-> right, boundary |-> right.keys[1]]

\* The split of a full inner node whose child at the given position split.
inner_split(inner, position, split, right_ref) ==
    LET left  == Inner(inner.self, SubSeq(inner.keys, 1, HalfCapacity),
                       SubSeq(inner.children, 1, HalfCapacity))
        right == Inner(right_ref, SubSeq(inner.keys, HalfCapacity + 1, size(inner)),
                       SubSeq(inner.children, HalfCapacity + 1, size(inner)))
        insert_to_first_half == position - 1 < HalfCapacity
        Host(n) == insert_inner_node(n, split.right.self, split.boundary,
                                     locate_child_index(n, split.boundary) + 1)
        left2  == IF insert_to_first_half THEN Host(left) ELSE left
        right2 == IF insert_to_first_half THEN right ELSE Host(right)
    IN  [left |-> left2, right |-> right2, boundary |-> right2.keys[1]]

\* InnerNode(left, right): the new root above the two halves of the old one.
new_root(self, left, right) ==
    Inner(self, <<get_leftmost_key(left), get_leftmost_key(right)>>,
          <<left.self, right.self>>)

-----------------------------------------------------------------------------
(* balance() of two siblings, one of which has too few entries *)

UNDERFLOW_BOUND == (CAPACITY + 1) \div 2

underflows(node) == size(node) < UNDERFLOW_BOUND

\* A sibling with entries above the bound lends one.
BorrowsFromRight(left, right) == underflows(left) /\ size(right) > UNDERFLOW_BOUND
BorrowsFromLeft(left, right)  == underflows(right) /\ size(left) > UNDERFLOW_BOUND

\* balance() returns true: the right node becomes part of the left one.
merges(left, right) == ~BorrowsFromRight(left, right) /\ ~BorrowsFromLeft(left, right)

\* How many entries of the two nodes end up in the left one.
BalancedSize(left, right) ==
    IF BorrowsFromRight(left, right) THEN size(left) + 1
    ELSE IF BorrowsFromLeft(left, right) THEN size(left) - 1
    ELSE size(left) + size(right)

\* Mutant: a merged leaf ends the list of leaves.
leaf_balance_unlinked(left, right) ==
    LET entries == left.entries \o right.entries
        cut     == BalancedSize(left, right)
    IN  [left  |-> Leaf(left.self, SubSeq(entries, 1, cut),
                        IF merges(left, right) THEN NULL ELSE left.right),
         right |-> [right EXCEPT !.entries = SubSeq(entries, cut + 1, Len(entries))]]

\* LeafNode::balance; a merge also takes over the link to the next leaf.
leaf_balance(left, right) ==
    LET entries == left.entries \o right.entries
        cut     == BalancedSize(left, right)
    IN  [left  |-> Leaf(left.self, SubSeq(entries, 1, cut),
                        IF merges(left, right) THEN right.right ELSE left.right),
         right |-> [right EXCEPT !.entries = SubSeq(entries, cut + 1, Len(entries))]]

\* Mutant: children move and their keys stay.
inner_balance_keeps_keys(left, right) ==
    LET children == left.children \o right.children
        cut      == BalancedSize(left, right)
        all      == Len(children)
        keys     == IF merges(left, right) THEN left.keys \o right.keys
                    ELSE right.keys \o left.keys
    IN  [left  |-> Inner(left.self, SubSeq(keys, 1, cut), SubSeq(children, 1, cut)),
         right |-> Inner(right.self, SubSeq(keys, cut + 1, all),
                         SubSeq(children, cut + 1, all))]

\* InnerNode::balance: keys and children move together.
inner_balance(left, right) ==
    LET keys     == left.keys \o right.keys
        children == left.children \o right.children
        cut      == BalancedSize(left, right)
        all      == Len(keys)
    IN  [left  |-> Inner(left.self, SubSeq(keys, 1, cut), SubSeq(children, 1, cut)),
         right |-> Inner(right.self, SubSeq(keys, cut + 1, all),
                         SubSeq(children, cut + 1, all))]

\* The tail of InnerNode::delete_key: after a merge the right child leaves the
\* node, otherwise its boundary follows its first key.
inner_delete(inner, right_child_index, merged, boundary) ==
    IF merged
    THEN [inner EXCEPT !.keys = RemoveAt(@, right_child_index),
                       !.children = RemoveAt(@, right_child_index)]
    ELSE [inner EXCEPT !.keys = ReplaceAt(@, right_child_index, boundary)]

=============================================================================
