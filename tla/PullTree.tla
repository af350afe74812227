------------------------------ MODULE PullTree ------------------------------
(***************************************************************************)
(* The pull-based B+ tree (tree/pull_based_b_plus_tree.h): one worker      *)
(* thread runs many insert and search contexts.  A context is a state      *)
(* machine; run() executes its cases until it has to wait for a barrier or *)
(* for a block I/O, and the worker resumes it when the barrier is offered  *)
(* or the I/O has completed.                                               *)
(*                                                                         *)
(* Every case of run() is an action, and current_state keeps the numbers   *)
(* of the code.  `running' is the context whose run() is on the stack of   *)
(* the worker: a chain of cases is never interrupted by another context.   *)
(* When nobody runs, the worker may admit the next request, or resume any  *)
(* context that is ready; the scheduler's order among the ready contexts   *)
(* (by tag and id, per list) is one of these orders.                       *)
(***************************************************************************)
EXTENDS BTreeNode, ContextBarrier

CONSTANTS
    Context,     \* the slots of free_context_slots_, each with its context
    Key, Value,
    Absent,      \* the answer of a search that found nothing
    Programs,    \* pairs of an accessor and a request stream, in the order of
                 \* request_queue_
    MaxBlocks    \* bound on the blocks that a run allocates

ASSUME DeviceAssumption == \A p \in Programs : p.device \in {"file", "nvme"}
ASSUME BlocksAssumption == MaxBlocks \in Nat \ {0}

VARIABLES
    device,      \* the accessor: with "file" an I/O takes effect when it is
                 \* submitted, with "nvme" at some moment before its completion
    requests,    \* what the clients have still to ask for
    root, depth, \* root_ and depth_
    cursor,      \* the allocator of the block accessor
    disk,        \* the content of every block
    io,          \* the block commands that are submitted and not completed
    barrier,     \* the barrier manager: a context_barrier per block
    ready,       \* the contexts in ready_contexts_ of the barrier manager
    ctx,         \* the fields of the contexts
    running      \* the context that the worker runs, or NoContext

vars == <<device, requests, root, depth, cursor, disk, io, barrier, ready, ctx, running>>

Block == 0..(MaxBlocks - 1)
NoContext == "no context"

InsertRequest(k, v) == [op |-> "insert", key |-> k, val |-> v]
SearchRequest(k) == [op |-> "search", key |-> k]
\* The client waits in sync() until no request is pending.
SyncRequest == [op |-> "sync"]
NoRequest == [op |-> "none"]

\* The tree after init(): an empty leaf in block 0.
FirstLeaf == 0

\* A context of the free stacks.  Fields that only an insert_context has are
\* unused in a search_context.  Fields that init() leaves alone are dead until
\* run() sets them.
FreeContext(answer) ==
    [request   |-> NoRequest,
     state     |-> 0,       \* current_state
     next      |-> NULL,    \* next_state
     node_ref  |-> NULL,
     buffer    |-> ZeroBlock,
     tokens    |-> <<>>,    \* obtained_barriers_
     answer    |-> answer,  \* *request_->value, or Absent when not found
     stale     |-> FALSE,   \* history: entered at a block that is not the root
     optimistic  |-> TRUE,
     leaf_next   |-> FALSE, \* next_visit_is_leaf_node_
     level       |-> 0,     \* current_node_level_
     free_slot   |-> FALSE, \* free_slot_available_in_parent_
     boundary_update |-> FALSE,  \* parent_boundary_update_
     refer_to_root   |-> FALSE,
     parents     |-> <<>>,  \* pending_parent_nodes_
     child_split |-> FALSE, \* child_node_split_
     split       |-> <<>>,  \* split_
     count       |-> 0,     \* write_back_completion_count_
     target      |-> 0]     \* write_back_completion_target_

Init ==
    /\ \E p \in Programs : device = p.device /\ requests = p.requests
    /\ root = FirstLeaf
    /\ depth = 1
    /\ cursor = 1
    /\ disk = [b \in Block |-> IF b = FirstLeaf THEN Leaf(b, <<>>, NULL)
                                                ELSE ZeroBlock]
    /\ io = {}
    /\ barrier = [b \in Block |-> NewBarrier]
    /\ ready = {}
    /\ ctx = [c \in Context |-> FreeContext(Absent)]
    /\ running = NoContext

-----------------------------------------------------------------------------
(* Pieces of the actions *)

\* set_next_state(s); transition_to_next_state(); return run()
Goto(r, s) == [r EXCEPT !.state = s, !.next = s]

\* set_next_state(s); return CONTEXT_TRANSIT
Await(r, s) == [r EXCEPT !.next = s]

IsFree(c) == ctx[c].request = NoRequest

\* An insert or search context at the given case of its run().
At(c, op, s) ==
    /\ running = c
    /\ ctx[c].request.op = op
    /\ ctx[c].state = s

Token(b, type) == [id |-> b, type |-> type]

\* fire_context: the contexts that removing the tokens of the set T serves get
\* their token, move to their next state and become ready.
FiredBy(t) == Fired(Removed(barrier[t.id], t.type))

ReleasedBarriers(T) ==
    [b \in Block |->
        IF \E t \in T : t.id = b
        THEN remove_barrier(barrier[b], (CHOOSE t \in T : t.id = b).type)
        ELSE barrier[b]]

FireContexts(T, contexts) ==
    [d \in Context |->
        IF \E t \in T : d \in FiredBy(t)
        THEN LET t == CHOOSE t \in T : d \in FiredBy(t)
                 type == FiredType(Removed(barrier[t.id], t.type))
             IN  [contexts[d] EXCEPT !.tokens = Append(@, Token(t.id, type)),
                                     !.state = contexts[d].next]
        ELSE contexts[d]]

\* Context c becomes r and gives back the tokens of the set T; keep are the
\* ones it still has.  release_all_barriers has keep = <<>>.
Release(c, r, T, keep) ==
    /\ barrier' = ReleasedBarriers(T)
    /\ ctx' = FireContexts(T, [ctx EXCEPT ![c] = [r EXCEPT !.tokens = keep]])
    /\ ready' = ready \cup UNION {FiredBy(t) : t \in T}

\* Context c becomes r, and no barrier changes.
Update(c, r) ==
    /\ ctx' = [ctx EXCEPT ![c] = r]
    /\ UNCHANGED <<barrier, ready>>

\* asynch_read: the file accessor reads at once, the device later.
asynch_read(c, r) ==
    IF device = "file" THEN [r EXCEPT !.buffer = disk[r.node_ref]] ELSE r

ReadCommand(c, b) ==
    [context |-> c, op |-> "read", block |-> b, node |-> ZeroBlock,
     done |-> device = "file"]

WriteCommand(c, node) ==
    [context |-> c, op |-> "write", block |-> node.self, node |-> node,
     done |-> device = "file"]

\* asynch_write of each node of the set to its block.
asynch_write(c, nodes) ==
    /\ io' = io \cup {WriteCommand(c, n) : n \in nodes}
    /\ disk' = IF device = "file"
               THEN [b \in Block |->
                       IF \E n \in nodes : n.self = b
                       THEN CHOOSE n \in nodes : n.self = b ELSE disk[b]]
               ELSE disk

\* request_read_barrier / request_write_barrier on node_ref, and the next case
\* at once when it is obtained.
RequestBarrier(c, r, type, s) ==
    LET b == r.node_ref IN
    /\ barrier' = [barrier EXCEPT ![b] = set_barrier(@, c, type)]
    /\ IF Grantable(barrier[b], type)
       THEN /\ ctx' = [ctx EXCEPT ![c] =
                         Goto([r EXCEPT !.tokens = Append(@, Token(b, type))], s)]
            /\ running' = c
       ELSE /\ ctx' = [ctx EXCEPT ![c] = Await(r, s)]
            /\ running' = NoContext
    /\ UNCHANGED <<device, requests, root, depth, cursor, disk, io, ready>>

TokenSet(c) == ToSet(ctx[c].tokens)

-----------------------------------------------------------------------------
(* insert_context::run() *)

\* Mutant: the leaf is taken with a read barrier, too.
insert_0_reads_leaf(c) ==
    LET r == ctx[c]
        s == IF r.node_ref = NULL
             THEN [r EXCEPT !.refer_to_root = TRUE, !.node_ref = root,
                            !.level = depth]
             ELSE r
    IN  /\ At(c, "insert", 0)
        /\ RequestBarrier(c, s, IF s.optimistic THEN READ ELSE WRITE, 10001)

\* case 0: a read barrier on the way down, a write barrier at the leaf and on
\* the whole path of a pessimistic insertion.
insert_0(c) ==
    LET r == ctx[c]
        s == IF r.node_ref = NULL
             THEN [r EXCEPT !.refer_to_root = TRUE, !.node_ref = root,
                            !.level = depth]
             ELSE r
        type == IF s.optimistic /\ ~s.leaf_next THEN READ ELSE WRITE
    IN  /\ At(c, "insert", 0)
        /\ RequestBarrier(c, s, type, 10001)

\* case 10001, the root was replaced while the context waited: start again.
insert_root_moved(c) ==
    LET r == ctx[c] IN
    /\ At(c, "insert", 10001)
    /\ r.refer_to_root /\ Last(r.tokens).id # root
    /\ Release(c, Goto([r EXCEPT !.node_ref = NULL], 0), TokenSet(c), <<>>)
    /\ UNCHANGED <<device, requests, root, depth, cursor, disk, io, running>>

\* Mutant: an insertion keeps the last barrier only, on the second attempt too.
Kept_last(r) == <<Last(r.tokens)>>

\* The tokens that case 10001 keeps: the block itself when optimistic, the
\* block and its parent when the parent can absorb a split, or all.
Kept(r) ==
    LET n == IF r.optimistic THEN 1
             ELSE IF r.free_slot /\ ~r.boundary_update THEN 2
             ELSE Len(r.tokens)
    IN  SubSeq(r.tokens, Len(r.tokens) - n + 1, Len(r.tokens))

\* case 10001, the barrier is on the right block.
insert_10001(c) ==
    LET r == ctx[c] IN
    /\ At(c, "insert", 10001)
    /\ r.refer_to_root => Last(r.tokens).id = root
    /\ Release(c, Goto([r EXCEPT !.refer_to_root = FALSE], 1),
               TokenSet(c) \ ToSet(Kept(r)), Kept(r))
    /\ UNCHANGED <<device, requests, root, depth, cursor, disk, io, running>>

\* case 1
insert_1(c) ==
    /\ At(c, "insert", 1)
    /\ Update(c, asynch_read(c, Await(ctx[c], 2)))
    /\ io' = io \cup {ReadCommand(c, ctx[c].node_ref)}
    /\ running' = NoContext
    /\ UNCHANGED <<device, requests, root, depth, cursor, disk>>

\* case 2, a full leaf, or a key below the first key of an inner node: the
\* optimistic attempt fails.
insert_2_fails(c) ==
    LET r == ctx[c] IN
    /\ At(c, "insert", 2)
    /\ r.optimistic
    /\ IF r.buffer.type = LEAF THEN size(r.buffer) = CAPACITY
       ELSE locate_child_index(r.buffer, r.request.key) = 0
    /\ Update(c, Goto(r, 13))
    /\ UNCHANGED <<device, requests, root, depth, cursor, disk, io, running>>

\* case 2, LEAF_NODE without a split: write the leaf back.
insert_2_leaf(c) ==
    LET r == ctx[c] IN
    /\ At(c, "insert", 2)
    /\ r.buffer.type = LEAF
    /\ ~(r.optimistic /\ size(r.buffer) = CAPACITY)
    /\ ~leaf_splits(r.buffer, r.request.key)
    /\ asynch_write(c, {leaf_insert(r.buffer, r.request.key, r.request.val)})
    /\ Update(c, Await([r EXCEPT !.child_split = FALSE, !.count = 0,
                                 !.target = 1], 10))
    /\ running' = NoContext
    /\ UNCHANGED <<device, requests, root, depth, cursor>>

\* case 2, LEAF_NODE with a split: write both halves.
insert_2_leaf_split(c) ==
    LET r == ctx[c]
        s == leaf_split(r.buffer, r.request.key, r.request.val, cursor)
    IN
    /\ At(c, "insert", 2)
    /\ r.buffer.type = LEAF
    /\ ~r.optimistic
    /\ leaf_splits(r.buffer, r.request.key)
    /\ cursor \in Block
    /\ cursor' = cursor + 1
    /\ asynch_write(c, {s.left, s.right})
    /\ Update(c, Await([r EXCEPT !.child_split = TRUE, !.split = s,
                                 !.count = 0, !.target = 2],
                       IF s.left.self = root THEN 12 ELSE 10))
    /\ running' = NoContext
    /\ UNCHANGED <<device, requests, root, depth>>

\* case 2, INNER_NODE: remember the node and go down.
insert_2_inner(c) ==
    LET r == ctx[c]
        index == locate_child_index(r.buffer, r.request.key)
        exceed_left_boundary == index = 0
        position == IF exceed_left_boundary THEN 1 ELSE index
        node == IF exceed_left_boundary
                THEN lower_boundary(r.buffer, r.request.key) ELSE r.buffer
    IN
    /\ At(c, "insert", 2)
    /\ r.buffer.type = INNER
    /\ ~(exceed_left_boundary /\ r.optimistic)
    /\ Update(c, Goto([r EXCEPT
            !.parents = Append(@, [node |-> node, position |-> position,
                                   modified |-> exceed_left_boundary]),
            !.node_ref = child_rep(node, position),
            !.free_slot = has_free_slot(node),
            !.boundary_update = exceed_left_boundary,
            !.leaf_next = (r.level = 2),
            !.level = @ - 1], 0))
    /\ UNCHANGED <<device, requests, root, depth, cursor, disk, io, running>>

\* case 9 after a split, the parent has a free slot for the new node.
insert_9_absorb(c) ==
    LET r == ctx[c]
        parent == Last(r.parents)
    IN
    /\ At(c, "insert", 9)
    /\ r.child_split /\ r.parents # <<>>
    /\ has_free_slot(parent.node)
    /\ asynch_write(c, {insert_inner_node(parent.node, r.split.right.self,
                                          r.split.boundary, parent.position + 1)})
    /\ Update(c, Await([r EXCEPT !.parents = Front(@), !.child_split = FALSE,
                                 !.node_ref = parent.node.self, !.split = <<>>,
                                 !.count = 0, !.target = 1], 10))
    /\ running' = NoContext
    /\ UNCHANGED <<device, requests, root, depth, cursor>>

\* case 9 after a split, the parent is full and splits in turn.
insert_9_split(c) ==
    LET r == ctx[c]
        parent == Last(r.parents)
        s == inner_split(parent.node, parent.position, r.split, cursor)
    IN
    /\ At(c, "insert", 9)
    /\ r.child_split /\ r.parents # <<>>
    /\ ~has_free_slot(parent.node)
    /\ cursor \in Block
    /\ cursor' = cursor + 1
    /\ asynch_write(c, {s.left, s.right})
    /\ Update(c, Await([r EXCEPT !.parents = Front(@), !.split = s,
                                 !.node_ref = parent.node.self,
                                 !.count = 0, !.target = 2],
                       IF s.left.self = root THEN 12 ELSE 10))
    /\ running' = NoContext
    /\ UNCHANGED <<device, requests, root, depth>>

ModifiedParents(r) == {i \in DOMAIN r.parents : r.parents[i].modified}

\* case 9 without a split, the loop drops unmodified parents and meets a
\* modified one: write it.
insert_9_modified(c) ==
    LET r == ctx[c]
        i == Max(ModifiedParents(r))
    IN
    /\ At(c, "insert", 9)
    /\ ~r.child_split
    /\ ModifiedParents(r) # {}
    /\ asynch_write(c, {r.parents[i].node})
    /\ Update(c, Await([r EXCEPT !.parents = SubSeq(@, 1, i - 1),
                                 !.count = 0, !.target = 1], 10))
    /\ running' = NoContext
    /\ UNCHANGED <<device, requests, root, depth, cursor>>

\* case 9 without a split, no modified parent is left.
insert_9_done(c) ==
    LET r == ctx[c] IN
    /\ At(c, "insert", 9)
    /\ ~r.child_split
    /\ ModifiedParents(r) = {}
    /\ Update(c, Goto([r EXCEPT !.parents = <<>>], 11))
    /\ UNCHANGED <<device, requests, root, depth, cursor, disk, io, running>>

\* case 10, and case 12 before its last completion: count the completion.
insert_10(c) ==
    LET r == [ctx[c] EXCEPT !.count = @ + 1]
        complete == r.count = r.target
    IN
    /\ \/ At(c, "insert", 10)
       \/ At(c, "insert", 12) /\ ~complete
    /\ Update(c, IF complete THEN Goto(r, 9) ELSE r)
    /\ running' = IF complete THEN c ELSE NoContext
    /\ UNCHANGED <<device, requests, root, depth, cursor, disk, io>>

\* Mutant: the barrier of the leaf is not given back.
insert_11_keeps_leaf(c) ==
    /\ At(c, "insert", 11)
    /\ Release(c, FreeContext(ctx[c].answer), ToSet(Front(ctx[c].tokens)), <<>>)
    /\ running' = NoContext
    /\ UNCHANGED <<device, requests, root, depth, cursor, disk, io>>

\* case 11: give back the barriers, answer the client, free the slot.
insert_11(c) ==
    /\ At(c, "insert", 11)
    /\ Release(c, FreeContext(ctx[c].answer), TokenSet(c), <<>>)
    /\ running' = NoContext
    /\ UNCHANGED <<device, requests, root, depth, cursor, disk, io>>

\* case 12, both halves of the root are written: publish the new root, then
\* write its block.
insert_12(c) ==
    LET r == ctx[c]
        node == new_root(cursor, r.split.left, r.split.right)
    IN
    /\ At(c, "insert", 12)
    /\ r.count + 1 = r.target
    /\ cursor \in Block
    /\ cursor' = cursor + 1
    /\ root' = node.self
    /\ depth' = depth + 1
    /\ asynch_write(c, {node})
    /\ Update(c, Await([r EXCEPT !.child_split = FALSE, !.split = <<>>,
                                 !.count = 0, !.target = 1], 11))
    /\ running' = NoContext
    /\ UNCHANGED <<device, requests>>

\* Mutant: the second attempt is optimistic again.
insert_13_optimistic(c) ==
    /\ At(c, "insert", 13)
    /\ Release(c, Goto([ctx[c] EXCEPT !.refer_to_root = FALSE, !.leaf_next = (depth = 1),
                                      !.level = depth, !.node_ref = NULL], 0),
               TokenSet(c), <<>>)
    /\ UNCHANGED <<device, requests, root, depth, cursor, disk, io, running>>

\* case 13: start again pessimistically.
insert_13(c) ==
    LET r == ctx[c] IN
    /\ At(c, "insert", 13)
    /\ Release(c, Goto([r EXCEPT !.optimistic = FALSE, !.free_slot = FALSE,
                                 !.refer_to_root = FALSE, !.leaf_next = (depth = 1),
                                 !.level = depth, !.node_ref = NULL], 0),
               TokenSet(c), <<>>)
    /\ UNCHANGED <<device, requests, root, depth, cursor, disk, io, running>>

insert_run(c) ==
    \/ insert_0(c)
    \/ insert_root_moved(c)
    \/ insert_10001(c)
    \/ insert_1(c)
    \/ insert_2_fails(c)
    \/ insert_2_leaf(c)
    \/ insert_2_leaf_split(c)
    \/ insert_2_inner(c)
    \/ insert_9_absorb(c)
    \/ insert_9_split(c)
    \/ insert_9_modified(c)
    \/ insert_9_done(c)
    \/ insert_10(c)
    \/ insert_11(c)
    \/ insert_12(c)
    \/ insert_13(c)

-----------------------------------------------------------------------------
(* search_context::run() *)

\* case 0
search_0(c) ==
    /\ At(c, "search", 0)
    /\ RequestBarrier(c, ctx[c], READ, 1)

\* case 1: give back the barrier of the parent, and read the block.
search_1(c) ==
    LET r == ctx[c]
        first == Len(r.tokens) = 1
        front == IF first THEN {} ELSE {r.tokens[1]}
        keep == IF first THEN r.tokens ELSE Tail(r.tokens)
        s == [r EXCEPT !.stale = @ \/ (first /\ r.node_ref # root)]
    IN
    /\ At(c, "search", 1)
    /\ Release(c, asynch_read(c, Await(s, 2)), front, keep)
    /\ io' = io \cup {ReadCommand(c, r.node_ref)}
    /\ running' = NoContext
    /\ UNCHANGED <<device, requests, root, depth, cursor, disk>>

SearchResult(r) ==
    IF r.buffer.type = LEAF THEN leaf_search(r.buffer, r.request.key, Absent)
    ELSE Absent

\* case 2, LEAF_NODE, or INNER_NODE with a key below its first one: answer.
search_2_answer(c) ==
    LET r == ctx[c] IN
    /\ At(c, "search", 2)
    /\ r.buffer.type = INNER => locate_child_index(r.buffer, r.request.key) = 0
    /\ Release(c, FreeContext(SearchResult(r)), TokenSet(c), <<>>)
    /\ running' = NoContext
    /\ UNCHANGED <<device, requests, root, depth, cursor, disk, io>>

\* case 2, INNER_NODE: go down.
search_2_inner(c) ==
    LET r == ctx[c]
        index == locate_child_index(r.buffer, r.request.key)
    IN
    /\ At(c, "search", 2)
    /\ r.buffer.type = INNER /\ index > 0
    /\ Update(c, Goto([r EXCEPT !.node_ref = r.buffer.children[index]], 0))
    /\ UNCHANGED <<device, requests, root, depth, cursor, disk, io, running>>

search_run(c) ==
    \/ search_0(c)
    \/ search_1(c)
    \/ search_2_answer(c)
    \/ search_2_inner(c)

-----------------------------------------------------------------------------
(* The worker loop, the clients and the device *)

\* insert_context::init / search_context::init
InitContext(c, request) ==
    LET r == [FreeContext(ctx[c].answer) EXCEPT !.request = request] IN
    IF request.op = "insert"
    THEN [r EXCEPT !.leaf_next = (depth = 1), !.level = depth]
    ELSE [r EXCEPT !.node_ref = root]

\* scheduler::admission, and process_new_context which runs the new context
\* before anything else.
admission(c) ==
    /\ running = NoContext
    /\ requests # <<>> /\ Head(requests) # SyncRequest
    /\ IsFree(c)
    /\ requests' = Tail(requests)
    /\ ctx' = [ctx EXCEPT ![c] = InitContext(c, Head(requests))]
    /\ running' = c
    /\ UNCHANGED <<device, root, depth, cursor, disk, io, barrier, ready>>

\* A client returns from sync(): pending_request_ is 0.
sync ==
    /\ running = NoContext
    /\ requests # <<>> /\ Head(requests) = SyncRequest
    /\ \A c \in Context : IsFree(c)
    /\ requests' = Tail(requests)
    /\ UNCHANGED <<device, root, depth, cursor, disk, io, barrier, ready, ctx, running>>

\* process_barrier_ready_context: run a context that obtained its barrier.
process_barrier_ready(c) ==
    /\ running = NoContext
    /\ c \in ready
    /\ ready' = ready \ {c}
    /\ running' = c
    /\ UNCHANGED <<device, requests, root, depth, cursor, disk, io, barrier, ctx>>

\* process_completion moves the context of a completed I/O to its next state,
\* and process_blk_ready_context runs it.  Nothing in between looks at it.
process_blk_ready(cmd) ==
    /\ running = NoContext
    /\ cmd.done
    /\ io' = io \ {cmd}
    /\ ctx' = [ctx EXCEPT ![cmd.context].state = ctx[cmd.context].next]
    /\ running' = cmd.context
    /\ UNCHANGED <<device, requests, root, depth, cursor, disk, barrier, ready>>

\* The NVMe device carries out a submitted command.
device_executes(cmd) ==
    /\ running = NoContext
    /\ ~cmd.done
    /\ io' = (io \ {cmd}) \cup {[cmd EXCEPT !.done = TRUE]}
    /\ IF cmd.op = "read"
       THEN /\ ctx' = [ctx EXCEPT ![cmd.context].buffer = disk[cmd.block]]
            /\ UNCHANGED disk
       ELSE /\ disk' = [disk EXCEPT ![cmd.block] = cmd.node]
            /\ UNCHANGED ctx
    /\ UNCHANGED <<device, requests, root, depth, cursor, barrier, ready, running>>

\* Nothing is pending: the worker polls its queues and sleeps.
Quiet == running = NoContext /\ \A c \in Context : IsFree(c)

idle ==
    /\ Quiet /\ requests = <<>>
    /\ UNCHANGED vars

Next ==
    \/ \E c \in Context : insert_run(c) \/ search_run(c)
    \/ \E c \in Context : admission(c)
    \/ sync
    \/ \E c \in Context : process_barrier_ready(c)
    \/ \E cmd \in io : process_blk_ready(cmd)
    \/ \E cmd \in io : device_executes(cmd)
    \/ idle

Spec == Init /\ [][Next]_vars

\* The worker never stops while something is ready, the probing rules of the
\* scheduler poll the device in bounded time, and the device answers.
Fairness ==
    /\ \A c \in Context : WF_vars(insert_run(c) \/ search_run(c))
    /\ \A c \in Context : WF_vars(process_barrier_ready(c))
    /\ \A c \in Context :
          WF_vars(\E cmd \in io : cmd.context = c /\ process_blk_ready(cmd))
    /\ \A c \in Context :
          WF_vars(\E cmd \in io : cmd.context = c /\ device_executes(cmd))
    /\ WF_vars(\E c \in Context : admission(c))
    /\ WF_vars(sync)

FairSpec == Spec /\ Fairness

-----------------------------------------------------------------------------
(* Types *)

Node ==
    [type : {LEAF}, self : Block, right : Block \cup {NULL},
     entries : Seq([key : Key, val : Value])]
    \cup
    [type : {INNER}, self : Block, keys : Seq(Key), children : Seq(Block)]

RequestType ==
    [op : {"insert"}, key : Key, val : Value] \cup [op : {"search"}, key : Key]
    \cup {NoRequest}

ContextType ==
    [request : RequestType, state : {0, 1, 2, 9, 10, 11, 12, 13, 10001},
     next : {NULL, 0, 1, 2, 9, 10, 11, 12, 13, 10001},
     node_ref : Block \cup {NULL}, buffer : Node,
     tokens : Seq([id : Block, type : BarrierType]),
     answer : Value \cup {Absent}, stale : BOOLEAN,
     optimistic : BOOLEAN, leaf_next : BOOLEAN, level : Nat,
     free_slot : BOOLEAN, boundary_update : BOOLEAN, refer_to_root : BOOLEAN,
     parents : Seq([node : Node, position : Nat, modified : BOOLEAN]),
     child_split : BOOLEAN,
     split : {<<>>} \cup [left : Node, right : Node, boundary : Key],
     count : 0..2, target : 0..2]

CommandType ==
    [context : Context, op : {"read", "write"}, block : Block, node : Node,
     done : BOOLEAN]

\* Every variable stays in its type; a node never outgrows a block.
TypeOK ==
    /\ root \in Block /\ depth \in 1..MaxBlocks /\ cursor \in 1..MaxBlocks
    /\ disk \in [Block -> Node]
    /\ \A b \in Block : size(disk[b]) <= CAPACITY
    /\ io \subseteq CommandType
    /\ barrier \in [Block -> Barrier(Context)]
    /\ ready \subseteq Context
    /\ ctx \in [Context -> ContextType]
    /\ running \in Context \cup {NoContext}

-----------------------------------------------------------------------------
(* What the state means *)

\* The content of a block once every submitted write has been carried out.
Stored(b) ==
    IF \E cmd \in io : cmd.op = "write" /\ cmd.block = b /\ ~cmd.done
    THEN (CHOOSE cmd \in io : cmd.op = "write" /\ cmd.block = b /\ ~cmd.done).node
    ELSE disk[b]

Entries ==
    UNION {ToSet(Stored(b).entries) : b \in {x \in Block : Stored(x).type = LEAF}}

\* The dictionary that the leaves hold.
Contents ==
    [k \in Key |-> IF \E e \in Entries : e.key = k
                   THEN (CHOOSE e \in Entries : e.key = k).val ELSE Absent]

\* The insertion of c has changed a leaf.
Applied(c) == ctx[c].next \in {9, 10, 11, 12}

Calls ==
    [c \in Context |->
        LET q == ctx[c].request IN
        CASE q.op = "none"   -> [op |-> "none"]
          [] q.op = "search" -> [op |-> "search", key |-> q.key]
          [] q.op = "insert" -> [op |-> "insert", key |-> q.key, val |-> q.val,
                                 applied |-> Applied(c)]]

Answers == [c \in Context |-> ctx[c].answer]

Dict == INSTANCE Dictionary
            WITH Slot <- Context, dict <- Contents, call <- Calls,
                 answer <- Answers

Holds(c, b, type) == \E i \in DOMAIN ctx[c].tokens : ctx[c].tokens[i] = Token(b, type)

Held(b, type) == \E c \in Context : Holds(c, b, type)

WaitsForBarrier(c) ==
    \E b \in Block : \E i \in DOMAIN barrier[b].queue : barrier[b].queue[i].context = c

\* The blocks on the way from the root to the leaf of a key.
Path(k) ==
    LET at[i \in 1..depth] ==
            IF i = 1 THEN root
            ELSE IF at[i - 1] = NULL THEN NULL
            ELSE LET node == Stored(at[i - 1]) IN
                 IF node.type = LEAF THEN at[i - 1]
                 ELSE child_rep(node, locate_child_index(node, k))
    IN  at

-----------------------------------------------------------------------------
(* Safety *)

\* BarriersMatchTokens: the counters of every barrier are the tokens that the
\* contexts hold, writers are alone, nobody is queued whom the barrier could
\* serve, and a context without a request holds and awaits nothing.
BarriersMatchTokens ==
    /\ \A b \in Block :
          /\ barrier[b].read = Cardinality({c \in Context : Holds(c, b, READ)})
          /\ barrier[b].write = Cardinality({c \in Context : Holds(c, b, WRITE)})
          /\ barrier[b].write = 0 \/ (barrier[b].write = 1 /\ barrier[b].read = 0)
          /\ barrier[b].queue # <<>> =>
                ~Grantable(barrier[b], barrier[b].queue[1].type)
    /\ \A c \in Context :
          IsFree(c) => ctx[c].tokens = <<>> /\ ~WaitsForBarrier(c)

\* Asserts: what the contexts assert about levels and barriers, and the sizes that
\* they take for granted: a leaf is met at level 1 under a write barrier, a search
\* holds at most two barriers, two tokens are there when case 10001 keeps two, and
\* a split never runs out of parents.  The assertion on last_state_1 in case 1 is
\* left out: only case 10001 goes on to case 1, in the same run(), and clears it.
Asserts ==
    \A c \in Context :
        LET r == ctx[c] IN
        /\ At(c, "insert", 2) /\ r.buffer.type = LEAF =>
              r.level = 1 /\ Last(r.tokens).type = WRITE
        /\ At(c, "search", 1) => Len(r.tokens) \in 1..2
        /\ At(c, "insert", 10001) /\ ~r.optimistic /\ r.free_slot
              /\ ~r.boundary_update => Len(r.tokens) >= 2
        /\ At(c, "insert", 9) /\ r.child_split => r.parents # <<>>
        /\ c \in ready => r.state # NULL

\* WritesOwned: while a block is being written, its writer has the write
\* barrier of the block, or nobody else can know the block because it is the new
\* half of a split.  The one exception is the write of case 12: the new root is
\* published before its block is written, and without a barrier.
WritesOwned ==
    \A cmd \in io : cmd.op = "write" =>
        LET r == ctx[cmd.context] IN
        \/ Holds(cmd.context, cmd.block, WRITE)
        \/ r.child_split /\ cmd.block = r.split.right.self
        \/ r.next = 11

\* StoredKeysReachable: at every moment a stored key is found by descending
\* from the root, unless the descent meets a block whose write barrier is held.
StoredKeysReachable ==
    \A e \in Entries :
        LET path == Path(e.key) IN
        \/ \E i \in DOMAIN path : path[i] # NULL /\ Held(path[i], WRITE)
        \/ /\ path[depth] # NULL
           /\ Stored(path[depth]).type = LEAF
           /\ e \in ToSet(Stored(path[depth]).entries)

Answering(c) ==
    /\ At(c, "search", 2)
    /\ ctx[c].buffer.type = INNER =>
          locate_child_index(ctx[c].buffer, ctx[c].request.key) = 0

\* SearchAnswersRight: a search answers with what the tree holds for its key
\* when it answers.
SearchAnswersRight ==
    \A c \in Context :
        Answering(c) => SearchResult(ctx[c]) = Contents[ctx[c].request.key]

\* OnlyStaleSearchErrs: a search that obtained its first barrier on the block
\* that was the root at that moment answers right.
OnlyStaleSearchErrs ==
    \A c \in Context :
        Answering(c) /\ ~ctx[c].stale
            => SearchResult(ctx[c]) = Contents[ctx[c].request.key]

\* The blocks of each level, the root's level first.
Levels ==
    LET at[i \in 1..depth] ==
            IF i = 1 THEN {root}
            ELSE UNION {ToSet(disk[b].children) :
                            b \in {x \in at[i - 1] : disk[x].type = INNER}}
    IN  at

\* The keys below a block, by its height above the leaves.
KeysBelow(b, height) ==
    LET below[h \in 1..height] ==
            [x \in Block |->
                IF disk[x].type = LEAF THEN {e.key : e \in ToSet(disk[x].entries)}
                ELSE IF h = 1 THEN {}
                ELSE UNION {below[h - 1][y] : y \in ToSet(disk[x].children)}]
    IN  below[height][b]

\* QuietTreeIsBPlusTree: when no request is pending the blocks form a B+ tree of
\* height depth_: all leaves are on the last level, each child has one parent,
\* the keys below the i-th child lie between the i-th and the next boundary,
\* leaves are sorted, no allocated block is lost, and right_sibling_ links the
\* leaves in key order: every leaf but the first has one left neighbour, whose
\* keys are all smaller.  Iterators walk these links.
QuietTreeIsBPlusTree ==
    Quiet =>
        /\ \A i \in 1..depth : \A b \in Levels[i] :
              /\ disk[b].self = b
              /\ (disk[b].type = LEAF) = (i = depth)
        /\ UNION {Levels[i] : i \in 1..depth} = 0..(cursor - 1)
        /\ \A i \in 1..(depth - 1) : \A b \in Levels[i] :
              LET node == disk[b] IN
              /\ node.children # <<>> /\ Len(node.keys) = Len(node.children)
              /\ \A j \in DOMAIN node.children :
                    /\ \A k \in KeysBelow(node.children[j], depth - i) :
                          /\ node.keys[j] <= k
                          /\ j < Len(node.keys) => k < node.keys[j + 1]
                    /\ \A d \in Levels[i], m \in 1..CAPACITY :
                          (m \in DOMAIN disk[d].children
                             /\ disk[d].children[m] = node.children[j])
                                => d = b /\ m = j
        /\ \A b \in Levels[depth] :
              LET e == disk[b].entries IN
              \A m, n \in DOMAIN e : m < n => e[m].key < e[n].key
        /\ {disk[b].right : b \in Levels[depth]} = (Levels[depth] \ {FirstLeaf}) \cup {NULL}
        /\ \A b \in Levels[depth] : disk[b].right # NULL =>
              \A k \in KeysBelow(b, 1), l \in KeysBelow(disk[b].right, 1) : k < l

\* ImplementsDictionary: the tree implements the dictionary that its callers
\* see.  An insertion takes effect when it changes the leaf, although its split
\* may go on for several I/Os.
ImplementsDictionary == Dict!Spec

\* AllServed: every request is answered in the end.
AllServed == <>(requests = <<>> /\ Quiet)

=============================================================================
