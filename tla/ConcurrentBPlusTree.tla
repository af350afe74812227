------------------------ MODULE ConcurrentBPlusTree -------------------------
(***************************************************************************)
(* The thread-based tree (tree/concurrent_b_plus_tree.h) under the lock    *)
(* manager (sync/lock_manager.h): callers insert and search in threads of  *)
(* their own.  A search, and the optimistic first attempt of an insertion, *)
(* couple locks on the way down; the pessimistic attempt keeps write locks *)
(* on the whole path.                                                      *)
(*                                                                         *)
(* A thread is interrupted wherever it waits for a lock, reads root_ or    *)
(* depth_, or reads or writes a block.  A release is part of the step      *)
(* before it: it only enables others.                                      *)
(***************************************************************************)
EXTENDS BTreeNode

CONSTANTS Thread,
          Key, Value,
          Absent,           \* no value is stored
          InitialTrees,     \* the trees that exist when the threads start
          Programs          \* the calls of each thread, in order

READ  == "read"             \* READ_LOCK
WRITE == "write"            \* WRITE_LOCK

VARIABLES root, depth,      \* root_, depth_
          blocks,           \* the content of the blocks
          cursor,           \* the next block to allocate
          blocked,          \* the mutexes at which a writer keeps readers out
          th,               \* the threads
          dict,             \* history: the value that was last written for a key
          mismatch          \* history: an attempt that read the height before the
                            \* root began with a height that is not the root's

vars == <<root, depth, blocks, cursor, blocked, th, dict, mismatch>>

InsertCall(k, v) == [op |-> "insert", key |-> k, val |-> v]
SearchCall(k)    == [op |-> "search", key |-> k]
NoCall           == [op |-> "none"]

Call == [op : {"insert"}, key : Key, val : Value] \cup [op : {"search"}, key : Key]

\* The node is a leaf at height 1, or an inner node above its children.
NodeOK(node, height) ==
    \/ /\ node \in LeafNodes(Nat, Key, Value)
       /\ Len(node.entries) <= CAPACITY
       /\ height[node.self] = 1
    \/ /\ node \in InnerNodes(Nat, Key)
       /\ Paired(node) /\ Len(node.keys) <= CAPACITY
       /\ height[node.self] > 1
       /\ \A i \in 1..Len(node.children) :
             height[node.children[i]] = height[node.self] - 1

\* The blocks are a tree in which all leaves are at the same depth.
Balanced(tree) ==
    \E height \in [DOMAIN tree.blocks -> 1..tree.depth] :
        /\ tree.root \in DOMAIN tree.blocks /\ height[tree.root] = tree.depth
        /\ \A a \in DOMAIN tree.blocks :
              LET node == tree.blocks[a] IN
              /\ node.self = a
              /\ node.type = INNER => ToSet(node.children) \subseteq DOMAIN tree.blocks
              /\ NodeOK(node, height)

\* Keys are compared; the threads start on a tree that insertions have built in
\* the blocks from 0 on, and only insert and search.
ASSUME KeyAssumption == Key \subseteq Int

ASSUME TreesAssumption ==
    \A tree \in InitialTrees :
        /\ IsFiniteSet(DOMAIN tree.blocks)
        /\ DOMAIN tree.blocks = 0..(Cardinality(DOMAIN tree.blocks) - 1)
        /\ tree.depth \in Nat \ {0}
        /\ tree.dict \in [Key -> Value \cup {Absent}]
        /\ Balanced(tree)

ASSUME ProgramsAssumption ==
    \A program \in Programs : program \in [Thread -> Seq(Call)]

\* A thread between two calls.
Idle(program, answer) ==
    [pc |-> "idle", program |-> program, answer |-> answer,
     call |-> NoCall, mode |-> "none", applied |-> FALSE,
     node_id |-> NULL, is_root |-> FALSE, level |-> 0, height_first |-> FALSE,
     locks |-> <<>>, parents |-> <<>>, split |-> <<>>,
     writes |-> <<>>, new_root |-> NULL]

Init ==
    \E tree \in InitialTrees, program \in Programs :
        /\ root = tree.root
        /\ depth = tree.depth
        /\ blocks = tree.blocks
        /\ cursor = Cardinality(DOMAIN tree.blocks)
        /\ blocked = {}
        /\ th = [t \in Thread |-> Idle(program[t], Absent)]
        /\ dict = tree.dict
        /\ mismatch = FALSE

Update(t, r) == th' = [th EXCEPT ![t] = r]

-----------------------------------------------------------------------------
(* The mutexes of the lock manager, boost::shared_mutex *)

Lock(id, type) == [id |-> id, type |-> type]

Holds(t, id, type) == Lock(id, type) \in ToSet(th[t].locks)

Holders(id) == {t \in Thread : \E type \in {READ, WRITE} : Holds(t, id, type)}

\* lock_shared() goes on unless a writer has the mutex or waits for it, lock()
\* when nobody has it.
CanLock(id, type) ==
    IF type = READ THEN id \notin blocked /\ \A t \in Thread : ~Holds(t, id, WRITE)
    ELSE Holders(id) = {}

\* The mutexes that keep readers out when t is left with the given locks:
\* unlock_shared() of the last reader and unlock() let waiting readers in.
Unblocked(t, kept) ==
    blocked \ {l.id : l \in {m \in ToSet(th[t].locks) \ ToSet(kept) : Holders(m.id) = {t}}}

-----------------------------------------------------------------------------
(* The calls *)

\* insert() or search() is called.
invoke(t) ==
    /\ th[t].pc = "idle" /\ th[t].program # <<>>
    /\ LET c == Head(th[t].program) IN
       Update(t, [th[t] EXCEPT !.pc = "enter", !.program = Tail(@), !.call = c,
                               !.mode = IF c.op = "search" THEN "search"
                                        ELSE "optimistic"])
    /\ UNCHANGED <<root, depth, blocks, cursor, blocked, dict, mismatch>>

\* get_root_id(), when it is the first or the only argument to be evaluated.
get_root_id(t) ==
    /\ th[t].pc = "enter"
    /\ Update(t, [th[t] EXCEPT !.pc = IF th[t].mode = "optimistic" THEN "height" ELSE "lock",
                               !.node_id = root, !.is_root = TRUE])
    /\ UNCHANGED <<root, depth, blocks, cursor, blocked, dict, mismatch>>

\* get_height(), after get_root_id().
get_height(t) ==
    /\ th[t].pc = "height"
    /\ Update(t, [th[t] EXCEPT !.pc = "lock", !.level = depth, !.height_first = FALSE])
    /\ UNCHANGED <<root, depth, blocks, cursor, blocked, dict, mismatch>>

\* The other order of the two arguments of the optimistic attempt, which the
\* language leaves open.
get_height_first(t) ==
    /\ th[t].pc = "enter" /\ th[t].mode = "optimistic"
    /\ Update(t, [th[t] EXCEPT !.pc = "root", !.level = depth, !.height_first = TRUE])
    /\ UNCHANGED <<root, depth, blocks, cursor, blocked, dict, mismatch>>

get_root_id_last(t) ==
    /\ th[t].pc = "root"
    /\ Update(t, [th[t] EXCEPT !.pc = "lock", !.node_id = root, !.is_root = TRUE])
    /\ UNCHANGED <<root, depth, blocks, cursor, blocked, dict, mismatch>>

\* Mutant: the optimistic attempt never takes a write lock.
LockType_read(r) == IF r.mode = "pessimistic" THEN WRITE ELSE READ

\* The optimistic attempt locks the node at depth 1 for writing.
LockType(r) ==
    IF r.mode = "pessimistic" \/ (r.mode = "optimistic" /\ r.level = 1)
    THEN WRITE ELSE READ

\* Mutant: the address of the root is not compared again.
RootMoved_never(r) == FALSE

\* The root was split while the thread waited for its lock.
RootMoved(r) == r.is_root /\ root # r.node_id

\* lock() waits: new readers have to wait, too.
wait_for_lock(t) ==
    LET r == th[t] IN
    /\ r.pc = "lock"
    /\ LockType(r) = WRITE /\ ~CanLock(r.node_id, WRITE)
    /\ r.node_id \notin blocked
    /\ blocked' = blocked \cup {r.node_id}
    /\ UNCHANGED <<root, depth, blocks, cursor, th, dict, mismatch>>

\* The lock is obtained on a root that is no longer the root: start again.
lock_moved_root(t) ==
    LET r == th[t] IN
    /\ r.pc = "lock" /\ CanLock(r.node_id, LockType(r))
    /\ RootMoved(r)
    /\ Update(t, [r EXCEPT !.pc = "enter"])
    /\ blocked' = blocked \ {r.node_id}
    /\ UNCHANGED <<root, depth, blocks, cursor, dict, mismatch>>

\* Mutant: the pessimistic attempt couples locks as well.
Kept_none(r) == <<>>

\* The locks that a thread keeps when it obtains the next one.
Kept(r) == IF r.mode = "pessimistic" THEN r.locks ELSE <<>>

\* The lock is obtained; unless the attempt is pessimistic the parent's is given
\* back.
lock(t) ==
    LET r == th[t] IN
    /\ r.pc = "lock" /\ CanLock(r.node_id, LockType(r))
    /\ ~RootMoved(r)
    /\ Update(t, [r EXCEPT !.pc = "read",
                           !.locks = Append(Kept(r), Lock(r.node_id, LockType(r)))])
    /\ blocked' = Unblocked(t, Kept(r)) \ {r.node_id}
    /\ mismatch' = (mismatch \/ (r.mode = "optimistic" /\ r.is_root
                                  /\ r.height_first /\ r.level # depth))
    /\ UNCHANGED <<root, depth, blocks, cursor, dict>>

-----------------------------------------------------------------------------
(* Below the lock: the block is read *)

\* The lock of the next node is wanted.
Descend(r, child) == [r EXCEPT !.pc = "lock", !.node_id = child, !.is_root = FALSE,
                               !.level = @ - 1]

Child(node, key) == locate_child_index(node, key)

\* search_with_concurrency_control: the leaf answers, or an inner node that has
\* no child for the key.
search_answers(t) ==
    LET r    == th[t]
        node == blocks[r.node_id]
    IN
    /\ r.pc = "read" /\ r.mode = "search"
    /\ node.type = INNER => Child(node, r.call.key) = 0
    /\ Update(t, Idle(r.program, IF node.type = LEAF
                                 THEN leaf_search(node, r.call.key, Absent) ELSE Absent))
    /\ blocked' = Unblocked(t, <<>>)
    /\ UNCHANGED <<root, depth, blocks, cursor, dict, mismatch>>

\* The search, or the optimistic attempt, goes down.
read_inner(t) ==
    LET r    == th[t]
        node == blocks[r.node_id]
    IN
    /\ r.pc = "read" /\ r.mode \in {"search", "optimistic"}
    /\ node.type = INNER /\ Child(node, r.call.key) > 0
    /\ Update(t, Descend(r, node.children[Child(node, r.call.key)]))
    /\ UNCHANGED <<root, depth, blocks, cursor, blocked, dict, mismatch>>

\* Mutant: the second attempt is optimistic again.
optimistic_fails_again(t) ==
    LET r    == th[t]
        node == blocks[r.node_id]
    IN
    /\ r.pc = "read" /\ r.mode = "optimistic"
    /\ IF node.type = LEAF THEN size(node) = CAPACITY ELSE Child(node, r.call.key) = 0
    /\ Update(t, [r EXCEPT !.pc = "enter", !.locks = <<>>])
    /\ blocked' = Unblocked(t, <<>>)
    /\ UNCHANGED <<root, depth, blocks, cursor, dict, mismatch>>

\* The optimistic attempt gives up at a full leaf, even if the key is there,
\* and at a key below all of the tree.
optimistic_fails(t) ==
    LET r    == th[t]
        node == blocks[r.node_id]
    IN
    /\ r.pc = "read" /\ r.mode = "optimistic"
    /\ IF node.type = LEAF THEN size(node) = CAPACITY ELSE Child(node, r.call.key) = 0
    /\ Update(t, [r EXCEPT !.pc = "enter", !.mode = "pessimistic", !.locks = <<>>])
    /\ blocked' = Unblocked(t, <<>>)
    /\ UNCHANGED <<root, depth, blocks, cursor, dict, mismatch>>

\* Mutant: the leaf may be full.
optimistic_leaf_overflows(t) ==
    LET r    == th[t]
        node == blocks[r.node_id]
    IN
    /\ r.pc = "read" /\ r.mode = "optimistic"
    /\ node.type = LEAF
    /\ Update(t, [r EXCEPT !.pc = "write",
                           !.writes = <<leaf_insert(node, r.call.key, r.call.val)>>])
    /\ UNCHANGED <<root, depth, blocks, cursor, blocked, dict, mismatch>>

\* The optimistic attempt changes its copy of the leaf.
optimistic_leaf(t) ==
    LET r    == th[t]
        node == blocks[r.node_id]
    IN
    /\ r.pc = "read" /\ r.mode = "optimistic"
    /\ node.type = LEAF /\ size(node) < CAPACITY
    /\ Update(t, [r EXCEPT !.pc = "write",
                           !.writes = <<leaf_insert(node, r.call.key, r.call.val)>>])
    /\ UNCHANGED <<root, depth, blocks, cursor, blocked, dict, mismatch>>

\* The pessimistic attempt keeps its copy of the inner node, whose first key
\* it lowers when the key is below it.
pessimistic_inner(t) ==
    LET r     == th[t]
        node  == blocks[r.node_id]
        index == Child(node, r.call.key)
        inner == IF index = 0 THEN lower_boundary(node, r.call.key) ELSE node
        position == IF index = 0 THEN 1 ELSE index
    IN
    /\ r.pc = "read" /\ r.mode = "pessimistic"
    /\ node.type = INNER
    /\ Update(t, Descend([r EXCEPT !.parents = Append(@, [node |-> inner, position |-> position,
                                                          modified |-> index = 0])],
                         inner.children[position]))
    /\ UNCHANGED <<root, depth, blocks, cursor, blocked, dict, mismatch>>

-----------------------------------------------------------------------------
(* The pessimistic attempt on its way back *)

\* A node of the path was split: its halves have to be written and, when it was
\* the root, a new root above them.
SplitNode(r, s, was_root) ==
    LET top == cursor + 1
    IN  [r EXCEPT !.pc = "write", !.split = <<s>>,
                  !.writes = IF was_root
                             THEN <<s.left, s.right, new_root(top, s.left, s.right)>>
                             ELSE <<s.left, s.right>>,
                  !.new_root = IF was_root THEN top ELSE NULL]

\* What is left to write of a node that was not split.
Unsplit(r, writes) == [r EXCEPT !.pc = "write", !.split = <<>>, !.writes = writes]

\* insert_with_split_support on the copy of the leaf.
pessimistic_leaf(t) ==
    LET r    == th[t]
        node == blocks[r.node_id]
        key  == r.call.key
    IN
    /\ r.pc = "read" /\ r.mode = "pessimistic"
    /\ node.type = LEAF
    /\ IF leaf_splits(node, key)
       THEN /\ Update(t, SplitNode(r, leaf_split(node, key, r.call.val, cursor),
                                   r.parents = <<>>))
            /\ cursor' = cursor + (IF r.parents = <<>> THEN 2 ELSE 1)
       ELSE /\ Update(t, Unsplit(r, <<leaf_insert(node, key, r.call.val)>>))
            /\ UNCHANGED cursor
    /\ UNCHANGED <<root, depth, blocks, blocked, dict, mismatch>>

\* The child returned: take its new half into the copy of the inner node, or
\* split the node; a node whose first key was lowered is written in any case.
pessimistic_returns(t) ==
    LET r     == th[t]
        up    == Last(r.parents)
        upper == [r EXCEPT !.parents = Front(@), !.node_id = up.node.self]
        was_root == Len(r.parents) = 1
    IN
    /\ r.pc = "return" /\ r.parents # <<>>
    /\ IF r.split # <<>> /\ ~has_free_slot(up.node)
       THEN /\ Update(t, SplitNode(upper, inner_split(up.node, up.position, r.split[1], cursor),
                                   was_root))
            /\ cursor' = cursor + (IF was_root THEN 2 ELSE 1)
       ELSE /\ Update(t, Unsplit(upper,
                    IF r.split # <<>>
                    THEN <<insert_inner_node(up.node, r.split[1].right.self,
                                             r.split[1].boundary, up.position + 1)>>
                    ELSE IF up.modified THEN <<up.node>> ELSE <<>>))
            /\ UNCHANGED cursor
    /\ UNCHANGED <<root, depth, blocks, blocked, dict, mismatch>>

\* blk_accessor_->write(); the first write of an insertion is that of the leaf.
write(t) ==
    LET r    == th[t]
        node == Head(r.writes)
    IN
    /\ r.pc = "write" /\ r.writes # <<>>
    /\ blocks' = [a \in DOMAIN blocks \cup {node.self} |->
                      IF a = node.self THEN node ELSE blocks[a]]
    /\ Update(t, [r EXCEPT !.writes = Tail(@), !.applied = TRUE])
    /\ dict' = IF r.applied THEN dict ELSE [dict EXCEPT ![r.call.key] = r.call.val]
    /\ UNCHANGED <<root, depth, cursor, blocked, mismatch>>

\* update_root_node_id_and_increase_tree_height
update_root(t) ==
    LET r == th[t] IN
    /\ r.pc = "write" /\ r.writes = <<>> /\ r.new_root # NULL
    /\ root' = r.new_root
    /\ depth' = depth + 1
    /\ Update(t, [r EXCEPT !.new_root = NULL])
    /\ UNCHANGED <<blocks, cursor, blocked, dict, mismatch>>

\* release_lock() of the node that is done; the call returns to the parent's
\* level, or to the caller.
release(t) ==
    LET r == th[t] IN
    /\ r.pc = "write" /\ r.writes = <<>> /\ r.new_root = NULL
    /\ Update(t, IF r.parents = <<>> THEN Idle(r.program, r.answer)
                 ELSE [r EXCEPT !.pc = "return", !.locks = Front(@)])
    /\ blocked' = Unblocked(t, Front(r.locks))
    /\ UNCHANGED <<root, depth, blocks, cursor, dict, mismatch>>

-----------------------------------------------------------------------------

step(t) ==
    \/ invoke(t) \/ get_root_id(t) \/ get_height(t)
    \/ get_height_first(t) \/ get_root_id_last(t)
    \/ wait_for_lock(t) \/ lock_moved_root(t) \/ lock(t)
    \/ search_answers(t) \/ read_inner(t)
    \/ optimistic_fails(t) \/ optimistic_leaf(t)
    \/ pessimistic_inner(t) \/ pessimistic_leaf(t) \/ pessimistic_returns(t)
    \/ write(t) \/ update_root(t) \/ release(t)

Quiet == \A t \in Thread : th[t].pc = "idle" /\ th[t].program = <<>>

\* All threads have joined.
finished == Quiet /\ UNCHANGED vars

Next == (\E t \in Thread : step(t)) \/ finished

Spec == Init /\ [][Next]_vars

\* Threads are scheduled, and a mutex that is free long enough is obtained.
FairSpec == Spec /\ \A t \in Thread : WF_vars(step(t))

-----------------------------------------------------------------------------
(* Properties *)

\* Every variable stays in its type; no node that is stored or about to be
\* written outgrows a block, and no lock is taken at an address that holds none.
TypeOK ==
    /\ DOMAIN blocks \subseteq 0..(cursor - 1)
    /\ root \in DOMAIN blocks /\ depth \in Nat \ {0}
    /\ blocked \subseteq DOMAIN blocks
    /\ dict \in [Key -> Value \cup {Absent}]
    /\ \A a \in DOMAIN blocks : blocks[a].self = a /\ size(blocks[a]) <= CAPACITY
    /\ \A t \in Thread :
          /\ \A i \in DOMAIN th[t].locks : th[t].locks[i].id \in DOMAIN blocks
          /\ \A i \in DOMAIN th[t].writes : size(th[t].writes[i]) <= CAPACITY
          /\ th[t].answer \in Value \cup {Absent}

\* A thread that is about to write a block has the write lock of the block, or
\* the block is new and nobody knows its address.  Unless an attempt read the
\* height before the root and the root split in between; the other order is safe,
\* because the address is compared again below the lock.
WritesExclusive ==
    ~mismatch => \A t \in Thread : th[t].writes # <<>> =>
        LET id == Head(th[t].writes).self
        IN  Holds(t, id, WRITE) \/ id \notin DOMAIN blocks

\* The copies of inner nodes that a pessimistic attempt has on its stack, and
\* writes back on the way up, are the nodes as they are stored, but for the
\* first key.
CopiesAreFresh ==
    \A t \in Thread : \A i \in DOMAIN th[t].parents :
        LET copy == th[t].parents[i].node IN
        /\ blocks[copy.self].children = copy.children
        /\ Tail(blocks[copy.self].keys) = Tail(copy.keys)

\* The attempt is pessimistic and may still allocate a block.
MayAllocate(t) ==
    LET r == th[t] IN
    /\ r.mode = "pessimistic" /\ r.locks # <<>>
    /\ ~(r.pc = "write" /\ r.parents = <<>> /\ r.new_root = NULL)

\* allocate() has no lock of its own: at most one thread is where it may call it.
OneAllocator == \A t, u \in Thread : MayAllocate(t) /\ MayAllocate(u) => t = u

Calls ==
    [t \in Thread |->
        LET c == th[t].call IN
        IF c.op = "insert"
        THEN [op |-> "insert", key |-> c.key, val |-> c.val, applied |-> th[t].applied]
        ELSE c]

Dict == INSTANCE Dictionary
            WITH Slot <- Thread, call <- Calls,
                 answer <- [t \in Thread |-> th[t].answer]

\* The threads see one dictionary: an insertion takes effect when it writes the
\* leaf, and a search answers with what is stored when it reads the leaf,
\* although a split goes on above it.  Unless an attempt began with a height
\* that is not the one of its root.
ImplementsDictionary ==
    Dict!Init /\ [][~mismatch => Dict!Next]_(Dict!vars)

\* Every call returns: the locks are taken from the root downwards, so that no
\* threads wait for one another, and an attempt that meets a new root ends.
AllReturn == <>Quiet

=============================================================================
