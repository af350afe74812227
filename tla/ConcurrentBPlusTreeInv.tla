----------------------- MODULE ConcurrentBPlusTreeInv ------------------------
(***************************************************************************)
(* The inductive invariant of the thread-based tree, and the predicates in *)
(* which its steps are described. ConcurrentBPlusTreeSteps and             *)
(* ConcurrentBPlusTreeProofs show that each of them keeps the invariant,   *)
(* and the latter has the theorems.                                        *)
(*                                                                         *)
(* The argument is that a block has a height that never changes: a split   *)
(* gives the new block the height of the old one, a new root is one above  *)
(* the old. The inductive invariant says that there are such heights, and  *)
(* what a thread may rely on at each of its steps.                         *)
(***************************************************************************)
EXTENDS ConcurrentBPlusTree

-----------------------------------------------------------------------------
(* What the algorithms on one node yield *)

\* All children of the node are in the set.
ChildrenIn(inner, S) == ToSet(inner.children) \subseteq S

\* A set of places of a sequence of length n has at most n members, and fewer
\* when it leaves a place out.  The two searches in a node count such a set, so
\* the lemmas about them assume this fact; PlacesCounted, in the module of the
\* theorems, proves it.
PlacesCount ==
    \A n \in Nat : \A T \in SUBSET (1..n) :
        Cardinality(T) \in 0..n /\ (T # 1..n => Cardinality(T) < n)

\* The node n is the inner node with one more child, and all children are in S.
Grown(n, inner, A, K, S) ==
    /\ n \in InnerNodes(A, K) /\ n.self = inner.self
    /\ Len(n.keys) = Len(inner.keys) + 1 /\ Len(n.children) = Len(inner.keys) + 1
    /\ ChildrenIn(n, S)

\* The halves of an inner node, with children in S.
Halved(s, self, right_ref, A, K, S) ==
    /\ s \in [left : InnerNodes(A, K), right : InnerNodes(A, K), boundary : K]
    /\ s.left.self = self /\ s.right.self = right_ref
    /\ Paired(s.left) /\ Len(s.left.keys) <= CAPACITY
    /\ Paired(s.right) /\ Len(s.right.keys) <= CAPACITY
    /\ ChildrenIn(s.left, S) /\ ChildrenIn(s.right, S)

-----------------------------------------------------------------------------
(* The inductive invariant *)

Node == LeafNodes(Nat, Key, Value) \cup InnerNodes(Nat, Key)

InsertCalls == [op : {"insert"}, key : Key, val : Value]
SearchCalls == [op : {"search"}, key : Key]

Answers == Value \cup {Absent}
Address == Nat \cup {NULL}
Locks   == [id : Nat, type : {READ, WRITE}]
Steps   == [node : InnerNodes(Nat, Key), position : Nat, modified : BOOLEAN]
Splits  == [left : Node, right : Node, boundary : Key]

Points == {"idle", "enter", "height", "root", "lock", "read", "write", "return"}
Modes  == {"none", "search", "optimistic", "pessimistic"}

\* What a thread remembers.
Frames ==
    [pc : Points, program : Seq(Call), answer : Answers,
     call : Call \cup {NoCall}, mode : Modes, applied : BOOLEAN,
     node_id : Address, is_root : BOOLEAN, level : Int, height_first : BOOLEAN,
     locks : Seq(Locks), parents : Seq(Steps), split : Seq(Splits),
     writes : Seq(Node), new_root : Address]

\* Nothing is locked, read or left to write.
AtRest(r) ==
    /\ r.locks = <<>> /\ r.parents = <<>> /\ r.split = <<>>
    /\ r.writes = <<>> /\ r.new_root = NULL

\* The steps of an attempt and what it has in hand at each.
Control(r) ==
    /\ r.pc \in {"idle", "enter", "height", "root"} => AtRest(r)
    /\ r.pc # "idle" => r.mode # "none"
    /\ r.mode = "search" => r.call \in SearchCalls
    /\ r.mode \in {"optimistic", "pessimistic"} => r.call \in InsertCalls
    /\ r.pc \in {"height", "root"} => r.mode = "optimistic"
    /\ r.pc = "height" => r.is_root
    /\ r.pc = "root" => r.height_first
    /\ r.pc \in {"lock", "read"} => r.split = <<>> /\ r.writes = <<>> /\ r.new_root = NULL
    /\ r.pc = "lock" /\ r.is_root => r.locks = <<>> /\ r.parents = <<>>
    /\ r.pc = "lock" /\ r.mode = "pessimistic" =>
          Len(r.locks) = Len(r.parents) /\ (r.is_root \/ r.parents # <<>>)
    /\ r.pc \in {"read", "write"} =>
          /\ Len(r.locks) = Len(r.parents) + 1
          /\ r.locks[Len(r.locks)] = Lock(r.node_id, LockType(r))
    /\ r.pc = "write" => r.mode \in {"optimistic", "pessimistic"}
    /\ r.pc = "return" =>
          /\ r.mode = "pessimistic" /\ r.parents # <<>>
          /\ Len(r.locks) = Len(r.parents)
          /\ r.writes = <<>> /\ r.new_root = NULL
    /\ r.mode # "pessimistic" => r.parents = <<>> /\ r.split = <<>> /\ r.new_root = NULL

\* A block that a thread may know of: it is written, and part of the tree.
Known(a, h) == a \in DOMAIN blocks /\ h[a] <= depth

\* The node that the thread is at.  The level of an optimistic attempt is the
\* height of the node, unless the attempt began with a stale height.
Where(r, h) ==
    /\ r.pc \in {"height", "lock", "read", "write"} => Known(r.node_id, h)
    /\ r.mode = "optimistic" =>
          /\ r.pc = "lock" /\ r.is_root /\ ~r.height_first /\ r.node_id = root =>
                r.level = depth
          /\ (r.pc = "read" \/ r.pc = "write" \/ (r.pc = "lock" /\ ~r.is_root)) /\ ~mismatch =>
                r.level = h[r.node_id]

\* The copy of an inner node is the node as it is stored but for its first key.
Copied(node) ==
    /\ node.self \in DOMAIN blocks
    /\ blocks[node.self].type = INNER
    /\ blocks[node.self].children = node.children
    /\ Tail(blocks[node.self].keys) = Tail(node.keys)

\* The locks, the heights and the copies of the nodes above.
Path(r, h) ==
    /\ r.parents # <<>> /\ r.pc \in {"lock", "read", "write"} =>
          h[r.node_id] = depth - Len(r.parents)
    /\ \A i \in 1..Len(r.parents) :
          LET up == r.parents[i] IN
          /\ i \in 1..Len(r.locks) /\ r.locks[i] = Lock(up.node.self, WRITE)
          /\ NodeOK(up.node, h)
          /\ up.position \in 1..Len(up.node.keys)
          /\ h[up.node.self] = depth + 1 - i
          /\ Copied(up.node)

\* The pessimistic attempt has the root locked until it returns, or replaces it.
RootLocked(r) ==
    r.mode = "pessimistic" /\ r.locks # <<>>
    /\ ~(r.pc = "write" /\ r.parents = <<>> /\ r.new_root = NULL) =>
        r.locks[1] = Lock(root, WRITE)

\* The block has been written, or is going to be among the first n writes.
InHand(r, a, n) == a \in DOMAIN blocks \/ \E i \in 1..n : r.writes[i].self = a

\* The split that the level above has to take in.
Splitting(r, h) ==
    r.split # <<>> =>
        LET s == r.split[1] IN
        /\ Len(r.split) = 1
        /\ r.pc \in {"write", "return"}
        /\ s.right.self \in 0..(cursor - 1)
        /\ InHand(r, s.right.self, Len(r.writes))
        /\ r.parents # <<>> => h[s.right.self] = depth - Len(r.parents)

\* What is left to write: the node that is locked, and new ones that nobody
\* else knows.
Writing(r, h) ==
    \A i \in 1..Len(r.writes) :
        LET node == r.writes[i] IN
        /\ r.pc = "write"
        /\ NodeOK(node, h)
        /\ node.self \in 0..(cursor - 1)
        /\ h[node.self] <= depth \/ node.self = r.new_root
        /\ \/ node.self = r.node_id
           \/ /\ r.mode = "pessimistic" /\ (r.parents # <<>> \/ r.new_root # NULL)
              /\ node.self \notin DOMAIN blocks
        /\ node.type = INNER =>
              /\ r.mode = "pessimistic"
              /\ \A k \in 1..Len(node.children) : InHand(r, node.children[k], i - 1)
        /\ \A j \in 1..Len(r.writes) : r.writes[j].self = node.self => i = j

\* The new root that is about to replace the old one.
Growing(r, h) ==
    r.new_root # NULL =>
        /\ r.pc = "write" /\ r.mode = "pessimistic" /\ r.parents = <<>>
        /\ r.new_root \in 0..(cursor - 1)
        /\ h[r.new_root] = depth + 1
        /\ InHand(r, r.new_root, Len(r.writes))

ThreadOK(r, h) ==
    /\ r \in Frames
    /\ Control(r) /\ Where(r, h) /\ Path(r, h) /\ RootLocked(r)
    /\ Splitting(r, h) /\ Writing(r, h) /\ Growing(r, h)

\* The stored tree.
Stored(h) ==
    /\ DOMAIN blocks \subseteq 0..(cursor - 1)
    /\ \A a \in DOMAIN blocks :
          /\ blocks[a].self = a
          /\ NodeOK(blocks[a], h)
          /\ blocks[a].type = INNER => ChildrenIn(blocks[a], DOMAIN blocks)
          /\ h[a] <= depth \/ \E t \in Thread : th[t].new_root = a
    /\ root \in DOMAIN blocks /\ h[root] = depth

\* shared_mutex: a writer is alone.
Excluded ==
    \A t, u \in Thread : \A i \in 1..Len(th[t].locks), j \in 1..Len(th[u].locks) :
        th[t].locks[i].id = th[u].locks[j].id /\ th[t].locks[i].type = WRITE => t = u

Typed ==
    /\ root \in Nat /\ depth \in Nat \ {0} /\ cursor \in Nat
    /\ blocked \subseteq DOMAIN blocks
    /\ dict \in [Key -> Answers]
    /\ mismatch \in BOOLEAN
    /\ th \in [Thread -> Frames]

Inv(h) ==
    /\ Typed /\ Stored(h) /\ Excluded
    /\ \A t \in Thread : ThreadOK(th[t], h)

Heights == [Nat -> Nat]

IInv == \E h \in Heights : Inv(h)

\* Heights that agree on the blocks that exist.
Agree(h, h2) == \A a \in 0..(cursor - 1) : h2[a] = h[a]

-----------------------------------------------------------------------------
(* The pessimistic attempt *)

\* The height of the node that the attempt is at, from the number of nodes above.
OnPath(r, h) ==
    /\ h[r.node_id] = depth - Len(r.parents)
    /\ Len(r.parents) \in Nat /\ Len(r.locks) = Len(r.parents) + 1
    /\ r.locks[Len(r.parents) + 1] = Lock(r.node_id, WRITE)
    /\ r.locks[1] = Lock(root, WRITE)
    /\ r.parents = <<>> => r.node_id = root
    /\ r.call \in InsertCalls /\ Known(r.node_id, h)

\* The copies above.
Above(r, h) ==
    \A i \in 1..Len(r.parents) :
        LET up == r.parents[i] IN
        /\ i \in 1..Len(r.locks) /\ r.locks[i] = Lock(up.node.self, WRITE)
        /\ NodeOK(up.node, h)
        /\ up.position \in 1..Len(up.node.keys)
        /\ h[up.node.self] = depth + 1 - i
        /\ Copied(up.node)

\* The attempt is about to change the copy of the node that it is at.
Changing(r, h) ==
    /\ r \in Frames /\ r.mode = "pessimistic" /\ r.new_root = NULL
    /\ OnPath(r, h) /\ Above(r, h)

\* A node whose children are all in the tree.
Complete(node) == node.type = INNER => ChildrenIn(node, DOMAIN blocks)

\* What a node that is not split leaves to write: nothing, or the changed copy.
OneWrite(W, a, h) ==
    W = <<>> \/ \E node : W = <<node>> /\ NodeOK(node, h) /\ node.self = a /\ Complete(node)

\* One half of a split node.
Half(node, a, h) == NodeOK(node, h) /\ node.self = a /\ size(node) >= 1 /\ Complete(node)

\* The new root above the two halves of the old one.
RootAbove(node, top, a, c, h) ==
    /\ NodeOK(node, h) /\ node \in Node /\ node.self = top /\ node.type = INNER
    /\ \A k \in 1..Len(node.children) : node.children[k] = a \/ node.children[k] = c

\* The blocks one below the height of a.
Below(a, h) == {b \in DOMAIN blocks : h[b] = h[a] - 1}

\* What the attempt has in hand when a call returns to the level above.
Returned(r, r0, up, h) ==
    /\ Changing(r0, h) /\ r0.locks = r.locks /\ r.new_root = NULL /\ r.writes = <<>>
    /\ NodeOK(up.node, h) /\ up.node.type = INNER /\ Complete(up.node)
    /\ up.position \in 1..Len(up.node.keys) /\ r0.node_id = up.node.self
    /\ up.node.self \in DOMAIN blocks
    /\ h[up.node.self] = depth + 1 - Len(r.parents)
    /\ (r0.parents = <<>>) <=> (Len(r.parents) = 1)

\* What t is about to write.
WriteFacts(r, node, h) ==
    /\ NodeOK(node, h) /\ node.self \in 0..(cursor - 1)
    /\ h[node.self] <= depth \/ node.self = r.new_root
    /\ \/ node.self = r.node_id
       \/ /\ r.mode = "pessimistic" /\ (r.parents # <<>> \/ r.new_root # NULL)
          /\ node.self \notin DOMAIN blocks
    /\ node.type = INNER => r.mode = "pessimistic" /\ ChildrenIn(node, DOMAIN blocks)
    /\ \A j \in 1..Len(r.writes) : r.writes[j].self = node.self => j = 1

\* The block a has a new content and the others are as they were.
Wrote(a, node) ==
    /\ DOMAIN blocks' = DOMAIN blocks \cup {a} /\ blocks'[a] = node
    /\ \A b \in DOMAIN blocks : b # a => blocks'[b] = blocks[b]

-----------------------------------------------------------------------------
(* The locks of the threads *)

\* The locks of the threads are those of blocks that are stored.
LocksStored ==
    \A t \in Thread : \A i \in 1..Len(th[t].locks) : th[t].locks[i].id \in DOMAIN blocks

==============================================================================
