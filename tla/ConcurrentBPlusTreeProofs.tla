---------------------- MODULE ConcurrentBPlusTreeProofs ----------------------
(***************************************************************************)
(* Proofs about the thread-based tree, for any number of threads, any      *)
(* programs of insertions and searches, any CAPACITY and any tree at the   *)
(* start.  The steps in which a pessimistic insertion goes down with every *)
(* lock kept, changes the leaf, and goes up again with the splits keep the *)
(* inductive invariant; with the steps of ConcurrentBPlusTreeSteps that is *)
(* all steps, and the theorems follow.                                     *)
(***************************************************************************)
EXTENDS ConcurrentBPlusTreeSteps, FiniteSetTheorems

\* Steps that name no prover are left to Zenon; SMTT marks what needs the SMT solver.
USE ZenonT(20)

-----------------------------------------------------------------------------
(* A pessimistic insertion goes down *)

LEMMA HeightOnPath ==
    ASSUME NEW h, Inv(h), NEW t \in Thread, NEW r, r = th[t], r.mode = "pessimistic", r.pc = "read"
    PROVE  OnPath(r, h)
<1>1. Control(r) /\ Path(r, h) /\ RootLocked(r) /\ Where(r, h)
  BY Parts
<1>2. Len(r.parents) \in Nat /\ r.locks \in Seq(Locks) /\ r.parents \in Seq(Steps)
  BY Parts, Fields
<1>3. /\ Len(r.locks) = Len(r.parents) + 1 /\ r.call \in InsertCalls
      /\ r.locks[Len(r.parents) + 1] = Lock(r.node_id, LockType(r))
  BY <1>1 DEF Control
<1>4. LockType(r) = WRITE
  BY DEF LockType
<1>5. r.locks # <<>>
  BY SMTT(30), <1>2, <1>3, SeqEmpty
<1>6. r.locks[1] = Lock(root, WRITE)
  BY <1>1, <1>5 DEF RootLocked
<1>7. Known(r.node_id, h)
  BY <1>1 DEF Where
<1>8. ASSUME r.parents = <<>> PROVE r.node_id = root /\ h[r.node_id] = depth - Len(r.parents)
  <2>1. Len(r.parents) = 0
    BY <1>8
  <2>2. Lock(root, WRITE) = Lock(r.node_id, WRITE)
    BY SMTT(30), <1>3, <1>4, <1>6, <2>1
  <2>3. r.node_id = root
    BY <2>2 DEF Lock
  <2>4. h[root] = depth /\ depth \in Nat
    BY DEF Inv, Stored, Typed
  <2> QED BY SMTT(30), <2>1, <2>3, <2>4
<1>9. r.parents # <<>> => h[r.node_id] = depth - Len(r.parents)
  BY <1>1 DEF Path
<1> QED BY <1>2, <1>3, <1>4, <1>6, <1>7, <1>8, <1>9 DEF OnPath

\* The copy of an inner node on the stack is the node, but for its first key.
LEMMA LoweredOK ==
    ASSUME NEW h, NEW node, NodeOK(node, h), node.type = INNER, NEW key \in Key,
           NEW inner, inner = IF Child(node, key) = 0 THEN lower_boundary(node, key) ELSE node
    PROVE  /\ NodeOK(inner, h) /\ inner \in InnerNodes(Nat, Key)
           /\ inner.self = node.self /\ inner.children = node.children
           /\ Len(inner.keys) = Len(node.keys) /\ Tail(inner.keys) = Tail(node.keys)
<1>1. node \in InnerNodes(Nat, Key)
  BY InnerOK
<1>2. inner \in InnerNodes(Nat, Key)
  BY <1>1, LowerBoundary
<1>3. /\ inner.self = node.self /\ inner.children = node.children
      /\ Len(inner.keys) = Len(node.keys) /\ Tail(inner.keys) = Tail(node.keys)
  BY SMTT(30), <1>1, LowerBoundary
<1>4. /\ Paired(node) /\ Len(node.keys) <= CAPACITY /\ h[node.self] > 1
      /\ \A i \in 1..Len(node.children) : h[node.children[i]] = h[node.self] - 1
  BY InnerOK
<1>5. Paired(inner)
  BY <1>3, <1>4 DEF Paired
<1>6. NodeOK(inner, h)
  BY <1>2, <1>3, <1>4, <1>5 DEF NodeOK
<1> QED BY <1>2, <1>3, <1>6

\* The pessimistic attempt goes down.
LEMMA PessimisticInnerKeeps ==
    ASSUME PlacesCount, NEW CONSTANT h \in Heights, Inv(h), NEW CONSTANT t \in Thread, pessimistic_inner(t)
    PROVE  Inv(h)'
<1>1. PICK r \in Frames : r = th[t]
  BY Parts
<1>2. PICK node : node = blocks[r.node_id]
  OBVIOUS
<1>3. PICK key, index : key = r.call.key /\ index = Child(node, key)
  OBVIOUS
<1>4. PICK inner : inner = IF Child(node, key) = 0 THEN lower_boundary(node, key) ELSE node
  OBVIOUS
<1>5. PICK position : position = IF index = 0 THEN 1 ELSE index
  OBVIOUS
<1>6. PICK above : above = [node |-> inner, position |-> position, modified |-> index = 0]
  OBVIOUS
<1>7. PICK P : P = Append(r.parents, above)
  OBVIOUS
<1>8. PICK a : a = inner.children[position]
  OBVIOUS
<1> DEFINE q == [r EXCEPT !.parents = P, !.pc = "lock", !.node_id = a, !.is_root = FALSE,
                          !.level = r.level - 1]
<1>9. th' = [th EXCEPT ![t] = q]
  <2>1. th' = [th EXCEPT ![t] = Descend([r EXCEPT !.parents = P], a)]
    BY <1>1, <1>2, <1>3, <1>4, <1>5, <1>6, <1>7, <1>8 DEF pessimistic_inner, Update
  <2>2. Descend([r EXCEPT !.parents = P], a) = q
    BY DEF Descend, Frames
  <2> QED BY <2>1, <2>2
<1>10. /\ r.pc = "read" /\ r.mode = "pessimistic" /\ node.type = INNER
       /\ UNCHANGED <<root, depth, blocks, cursor, blocked, dict, mismatch>>
  BY <1>1, <1>2 DEF pessimistic_inner
<1>11. /\ h[r.node_id] = depth - Len(r.parents)
       /\ Len(r.parents) \in Nat /\ Len(r.locks) = Len(r.parents) + 1
       /\ r.locks[Len(r.parents) + 1] = Lock(r.node_id, WRITE)
       /\ r.locks[1] = Lock(root, WRITE)
       /\ r.call \in InsertCalls /\ Known(r.node_id, h)
  <2>1. OnPath(r, h)
    BY <1>1, <1>10, HeightOnPath
  <2> QED BY <2>1 DEF OnPath
<1>12. NodeOK(node, h) /\ node.self = r.node_id /\ depth \in Nat
  BY <1>2, <1>11, ReadNode
<1>13. key \in Key /\ node.type = INNER
  BY <1>3, <1>10, <1>11 DEF InsertCalls
<1>14. /\ NodeOK(inner, h) /\ inner \in InnerNodes(Nat, Key)
       /\ inner.self = node.self /\ inner.children = node.children
       /\ Len(inner.keys) = Len(node.keys) /\ Tail(inner.keys) = Tail(node.keys)
  BY SMTT(30), <1>4, <1>12, <1>13, LoweredOK
<1>15. position \in 1..Len(node.children) /\ position \in 1..Len(inner.keys) /\ position \in Nat
  <2>1. /\ index \in 0..Len(node.keys)
        /\ Len(node.keys) = Len(node.children) /\ Len(node.keys) \in Nat \ {0}
    BY <1>3, <1>12, <1>13, ChildOf
  <2>2. position \in 1..Len(node.keys)
    BY SMTT(30), <1>5, <2>1
  <2> QED BY SMTT(30), <1>14, <2>1, <2>2
<1>16. Known(a, h) /\ h[a] = h[r.node_id] - 1
  <2>1. PICK k \in 1..Len(node.children) : k = position
    BY <1>15
  <2>2. Known(r.node_id, h) /\ node.type = INNER
    BY <1>11, <1>13
  <2>3. h[node.children[k]] = h[r.node_id] - 1 /\ Known(node.children[k], h)
    BY <1>2, <2>2, ReadChildren
  <2> QED BY <1>8, <1>14, <2>1, <2>3
<1>17. a \in Address /\ above \in Steps
  <2>1. a \in Nat
    BY SMTT(30), <1>16 DEF Known, Inv, Stored, Typed
  <2>2. (index = 0) \in BOOLEAN
    OBVIOUS
  <2> QED BY <1>6, <1>14, <1>15, <2>1, <2>2 DEF Address, Steps
<1>18. /\ r.parents \in Seq(Steps) /\ r.locks \in Seq(Locks) /\ r.level \in Int
       /\ Control(r) /\ Path(r, h)
  BY <1>1, Parts, Fields
<1>19. /\ P \in Seq(Steps) /\ Len(P) = Len(r.parents) + 1 /\ P # <<>>
       /\ P[Len(r.parents) + 1] = above
       /\ \A i \in 1..Len(r.parents) : P[i] = r.parents[i]
  BY SMTT(30), <1>7, <1>17, <1>18, SeqAppend
<1>20. /\ q.pc = "lock" /\ q.node_id = a /\ q.is_root = FALSE /\ q.parents = P
       /\ q.mode = r.mode /\ q.call = r.call /\ q.locks = r.locks
       /\ q.split = r.split /\ q.writes = r.writes /\ q.new_root = r.new_root
  BY DEF Frames
<1>21. q \in Frames
  <2>1. "lock" \in Points /\ r.level - 1 \in Int
    BY SMTT(30), <1>18 DEF Points
  <2> QED BY <1>17, <1>19, <2>1 DEF Frames
<1> HIDE DEF q
<1>22. q.writes = <<>> /\ q.split = <<>> /\ q.new_root = NULL
  BY <1>10, <1>18, <1>20 DEF Control
<1>23. Control(q)
  <2>1. Len(q.locks) = Len(q.parents) /\ q.parents # <<>>
    BY <1>11, <1>19, <1>20
  <2> QED BY <1>10, <1>11, <1>20, <1>22, <2>1 DEF Control
<1>24. Where(q, h)
  BY <1>10, <1>16, <1>20 DEF Where
<1>25. Path(q, h)
  <2>1. h[q.node_id] = depth - Len(q.parents)
    <3>1. /\ h[a] = h[r.node_id] - 1 /\ h[r.node_id] = depth - Len(r.parents)
          /\ depth \in Nat /\ Len(r.parents) \in Nat
      BY <1>11, <1>12, <1>16
    <3>2. q.node_id = a /\ Len(q.parents) = Len(r.parents) + 1
      BY <1>19, <1>20
    <3> QED BY SMTT(30), <3>1, <3>2
  <2>2. \A i \in 1..Len(q.parents) : i \in 1..Len(r.parents) \/ i = Len(r.parents) + 1
    BY SMTT(30), <1>11, <1>19, <1>20
  <2>3. Copied(inner)
    BY <1>2, <1>10, <1>11, <1>12, <1>14 DEF Copied, Known
  <2>4. ASSUME NEW i \in 1..Len(q.parents)
        PROVE  /\ i \in 1..Len(q.locks) /\ q.locks[i] = Lock(q.parents[i].node.self, WRITE)
               /\ NodeOK(q.parents[i].node, h)
               /\ q.parents[i].position \in 1..Len(q.parents[i].node.keys)
               /\ h[q.parents[i].node.self] = depth + 1 - i
               /\ Copied(q.parents[i].node)
    <3>1. CASE i \in 1..Len(r.parents)
      <4>1. q.parents[i] = r.parents[i] /\ q.locks = r.locks
        BY <1>19, <1>20, <3>1
      <4> QED BY <1>18, <3>1, <4>1 DEF Path
    <3>2. CASE i = Len(r.parents) + 1
      <4>1. /\ q.parents[i] = above /\ above.node = inner /\ above.position = position
            /\ q.locks[i] = Lock(r.node_id, WRITE) /\ i \in 1..Len(q.locks)
        BY SMTT(30), <1>6, <1>11, <1>19, <1>20, <3>2
      <4>2. h[inner.self] = depth + 1 - i
        BY SMTT(30), <1>11, <1>12, <1>14, <3>2
      <4> QED BY <1>12, <1>14, <1>15, <2>3, <4>1, <4>2
    <3> QED BY <2>2, <3>1, <3>2
  <2> QED BY <2>1, <2>4 DEF Path
<1>26. RootLocked(q) /\ Splitting(q, h) /\ Writing(q, h) /\ Growing(q, h)
  <2>1. Len(q.writes) = 0
    BY SMTT(30), <1>22
  <2> QED BY SMTT(30), <1>11, <1>20, <1>22, <2>1 DEF RootLocked, Splitting, Writing, Growing
<1>27. ThreadOK(q, h)
  BY <1>21, <1>23, <1>24, <1>25, <1>26 DEF ThreadOK
<1>28. /\ blocked' \subseteq DOMAIN blocks
       /\ th[t].new_root # NULL => q.new_root = th[t].new_root
       /\ \A j \in 1..Len(q.locks) : \E i \in 1..Len(th[t].locks) : th[t].locks[i] = q.locks[j]
  BY <1>1, <1>10, <1>20 DEF Inv, Typed
<1> QED BY <1>9, <1>10, <1>27, <1>28, LocalStep

-----------------------------------------------------------------------------
(* A node is changed *)

\* Its children are then in hand.
LEMMA CompleteChildren ==
    ASSUME NEW h, NEW node, NodeOK(node, h), node.type = INNER, Complete(node),
           NEW k \in 1..Len(node.children)
    PROVE  node.children[k] \in DOMAIN blocks
<1>1. node.children \in Seq(Nat)
  BY InnerOK
<1>2. ChildrenIn(node, DOMAIN blocks)
  BY DEF Complete
<1> QED BY <1>1, <1>2, ChildrenDef

\* A copy names only blocks that exist.
LEMMA CopyComplete ==
    ASSUME NEW h, Inv(h), NEW node, NodeOK(node, h), Copied(node)
    PROVE  Complete(node)
<1>1. /\ node.self \in DOMAIN blocks /\ blocks[node.self].type = INNER
      /\ blocks[node.self].children = node.children
  BY DEF Copied
<1>2. ChildrenIn(blocks[node.self], DOMAIN blocks)
  BY <1>1 DEF Inv, Stored
<1> QED BY <1>1, <1>2 DEF ChildrenIn, Complete

\* The copies keep their places when blocks are allocated.
LEMMA CopyKept ==
    ASSUME NEW h, NEW h2, Inv(h), Agree(h, h2), NEW node, NodeOK(node, h), Copied(node)
    PROVE  NodeOK(node, h2) /\ h2[node.self] = h[node.self]
<1>1. \A a \in DOMAIN blocks : h2[a] = h[a]
  BY DEF Inv, Stored, Agree
<1>2. Complete(node) /\ node.self \in DOMAIN blocks
  BY CopyComplete DEF Copied
<1>3. node.type = INNER => \A k \in 1..Len(node.children) : node.children[k] \in DOMAIN blocks
  BY <1>2, CompleteChildren
<1>4. NodeOK(node, h2)
  BY <1>1, <1>2, <1>3, NodeKept
<1> QED BY <1>1, <1>2, <1>4

\* The node is not split.
LEMMA UnsplitKeeps ==
    ASSUME NEW CONSTANT h \in Heights, Inv(h), NEW CONSTANT t \in Thread,
           NEW CONSTANT r, Changing(r, h), r.locks = th[t].locks, th[t].new_root = NULL,
           NEW CONSTANT W, OneWrite(W, r.node_id, h),
           th' = [th EXCEPT ![t] = Unsplit(r, W)],
           UNCHANGED <<root, depth, blocks, cursor, blocked, dict, mismatch>>
    PROVE  Inv(h)'
<1> DEFINE q == [r EXCEPT !.pc = "write", !.split = <<>>, !.writes = W]
<1>1. th' = [th EXCEPT ![t] = q]
  BY DEF Unsplit
<1>2. r \in Frames /\ r.mode = "pessimistic" /\ r.new_root = NULL /\ OnPath(r, h) /\ Above(r, h)
  BY DEF Changing
<1>3. /\ h[r.node_id] = depth - Len(r.parents)
      /\ Len(r.parents) \in Nat /\ Len(r.locks) = Len(r.parents) + 1
      /\ r.locks[Len(r.parents) + 1] = Lock(r.node_id, WRITE)
      /\ r.locks[1] = Lock(root, WRITE)
      /\ r.call \in InsertCalls /\ Known(r.node_id, h)
  BY <1>2 DEF OnPath
<1>4. W \in Seq(Node)
  <2>1. CASE W = <<>>
    BY SMTT(30), <2>1
  <2>2. ASSUME NEW node, W = <<node>>, NodeOK(node, h) PROVE W \in Seq(Node)
    <3>1. node \in Node
      BY <2>2, NodeCases
    <3> QED BY SMTT(30), <2>2, <3>1
  <2> QED BY <2>1, <2>2 DEF OneWrite
<1>5. /\ q.pc = "write" /\ q.split = <<>> /\ q.writes = W /\ q.parents = r.parents
      /\ q.mode = r.mode /\ q.call = r.call /\ q.locks = r.locks /\ q.node_id = r.node_id
      /\ q.new_root = r.new_root
  BY <1>2 DEF Frames
<1>6. q \in Frames
  <2>1. "write" \in Points /\ <<>> \in Seq(Splits)
    BY SMTT(30) DEF Points
  <2> QED BY <1>2, <1>4, <2>1 DEF Frames
<1> HIDE DEF q
<1>7. Control(q)
  <2>1. LockType(q) = WRITE
    BY <1>2, <1>5 DEF LockType
  <2>2. Len(q.locks) = Len(q.parents) + 1 /\ q.locks[Len(q.locks)] = Lock(q.node_id, LockType(q))
    BY <1>3, <1>5, <2>1
  <2> QED BY <1>2, <1>3, <1>5, <2>2 DEF Control
<1>8. Where(q, h)
  BY <1>2, <1>3, <1>5 DEF Where
<1>9. Path(q, h)
  BY <1>2, <1>3, <1>5 DEF Path, Above
<1>10. RootLocked(q) /\ Splitting(q, h) /\ Growing(q, h)
  BY <1>2, <1>3, <1>5 DEF RootLocked, Splitting, Growing
<1>11. Writing(q, h)
  <2>1. CASE W = <<>>
    <3>1. Len(q.writes) = 0
      BY SMTT(30), <1>5, <2>1
    <3> QED BY SMTT(30), <3>1 DEF Writing
  <2>2. ASSUME NEW node, W = <<node>>, NodeOK(node, h), node.self = r.node_id, Complete(node)
        PROVE  Writing(q, h)
    <3>1. Len(q.writes) = 1 /\ q.writes[1] = node
      BY SMTT(30), <1>5, <2>2
    <3>2. \A i \in 1..Len(q.writes) : i = 1
      BY SMTT(30), <3>1
    <3>3. node.self \in 0..(cursor - 1) /\ h[node.self] <= depth
      BY <1>3, <2>2 DEF Known, Inv, Stored
    <3>4. node.type = INNER => \A k \in 1..Len(node.children) : InHand(q, node.children[k], 0)
      BY <2>2, CompleteChildren DEF InHand
    <3> QED BY SMTT(30), <1>2, <1>5, <2>2, <3>1, <3>2, <3>3, <3>4 DEF Writing
  <2> QED BY <2>1, <2>2 DEF OneWrite
<1>12. ThreadOK(q, h)
  BY <1>6, <1>7, <1>8, <1>9, <1>10, <1>11 DEF ThreadOK
<1>13. /\ blocked' \subseteq DOMAIN blocks
       /\ \A j \in 1..Len(q.locks) : \E i \in 1..Len(th[t].locks) : th[t].locks[i] = q.locks[j]
  BY <1>5 DEF Inv, Typed
<1> QED BY <1>1, <1>12, <1>13, LocalStep

-----------------------------------------------------------------------------
(* A node is split *)

LEMMA NewRootOK ==
    ASSUME NEW h, NEW left, NEW right, NEW a, NEW c, NEW top, top \in Nat,
           Half(left, a, h), Half(right, c, h),
           h[a] \in Nat \ {0}, h[c] = h[a], h[top] = h[a] + 1,
           NEW node, node = new_root(top, left, right)
    PROVE  RootAbove(node, top, a, c, h)
<1>1. /\ left \in Node /\ right \in Node /\ size(left) >= 1 /\ size(right) >= 1
      /\ left.self = a /\ right.self = c /\ a \in Nat /\ c \in Nat
  BY NodeCases DEF Half
<1>2. get_leftmost_key(left) \in Key /\ get_leftmost_key(right) \in Key
  <2>1. get_leftmost_key(left) \in Key
    BY <1>1, LeftmostKey DEF Node
  <2>2. get_leftmost_key(right) \in Key
    BY <1>1, LeftmostKey DEF Node
  <2> QED BY <2>1, <2>2
<1> DEFINE ks == <<get_leftmost_key(left), get_leftmost_key(right)>>
           cs == <<a, c>>
<1>3. ks \in Seq(Key) /\ Len(ks) = 2
  BY SMTT(30), <1>2
<1>4. cs \in Seq(Nat) /\ Len(cs) = 2 /\ cs[1] = a /\ cs[2] = c
  BY SMTT(30), <1>1
<1>5. node = [type |-> INNER, self |-> top, keys |-> ks, children |-> cs]
  BY <1>1 DEF new_root, Inner
<1> HIDE DEF ks, cs
<1>6. node \in InnerNodes(Nat, Key)
  BY SMTT(30), <1>3, <1>4, <1>5 DEF InnerNodes
<1>7. /\ node.type = INNER /\ node.self = top /\ node \in Node
      /\ Len(node.keys) = 2 /\ Len(node.children) = 2
      /\ node.children[1] = a /\ node.children[2] = c
  BY SMTT(30), <1>3, <1>4, <1>5, <1>6 DEF Node
<1>8. \A i \in 1..Len(node.children) : node.children[i] = a \/ node.children[i] = c
  <2>1. \A i \in 1..Len(node.children) : i = 1 \/ i = 2
    BY SMTT(30), <1>7
  <2> QED BY <1>7, <2>1
<1>9. Paired(node) /\ Len(node.keys) <= CAPACITY /\ h[node.self] > 1
  BY SMTT(30), <1>7, CapacityAssumption DEF Paired
<1>10. NodeOK(node, h)
  BY SMTT(30), <1>6, <1>7, <1>8, <1>9 DEF NodeOK
<1> QED BY <1>7, <1>8, <1>10 DEF RootAbove

\* The node is split, and its halves and perhaps a new root are to be written.
LEMMA SplitKeeps ==
    ASSUME NEW CONSTANT h \in Heights, Inv(h), NEW CONSTANT t \in Thread,
           NEW CONSTANT r, Changing(r, h), r.locks = th[t].locks, th[t].new_root = NULL,
           NEW CONSTANT c, c = cursor, NEW CONSTANT h2, Agree(h, h2),
           h2[c] = h[r.node_id], h2[c + 1] = depth + 1,
           NEW CONSTANT s \in Splits, Half(s.left, r.node_id, h2), Half(s.right, c, h2),
           th' = [th EXCEPT ![t] = SplitNode(r, s, r.parents = <<>>)],
           cursor' = cursor + (IF r.parents = <<>> THEN 2 ELSE 1),
           UNCHANGED <<root, depth, blocks, blocked, dict, mismatch>>
    PROVE  Inv(h2)'
<1>1. PICK top : top = c + 1
  OBVIOUS
<1>2. PICK node : node = new_root(top, s.left, s.right)
  OBVIOUS
<1>3. PICK W : W = IF r.parents = <<>> THEN <<s.left, s.right, node>> ELSE <<s.left, s.right>>
  BY ZenonT(30)
<1>4. PICK nr : nr = IF r.parents = <<>> THEN top ELSE NULL
  OBVIOUS
<1> DEFINE q == [r EXCEPT !.pc = "write", !.split = <<s>>, !.writes = W, !.new_root = nr]
<1>5. th' = [th EXCEPT ![t] = q]
  BY <1>1, <1>2, <1>3, <1>4 DEF SplitNode
<1>6. r \in Frames /\ r.mode = "pessimistic" /\ r.new_root = NULL /\ OnPath(r, h) /\ Above(r, h)
  BY DEF Changing
<1>7. /\ h[r.node_id] = depth - Len(r.parents)
      /\ Len(r.parents) \in Nat /\ Len(r.locks) = Len(r.parents) + 1
      /\ r.locks[Len(r.parents) + 1] = Lock(r.node_id, WRITE)
      /\ r.locks[1] = Lock(root, WRITE)
      /\ r.call \in InsertCalls /\ Known(r.node_id, h)
  BY <1>6 DEF OnPath
<1>8. /\ c \in Nat /\ top \in Nat /\ depth \in Nat \ {0} /\ DOMAIN blocks \subseteq 0..(c - 1)
      /\ cursor' \in Nat /\ cursor <= cursor' /\ c \in 0..(cursor' - 1)
      /\ r.parents = <<>> => top \in 0..(cursor' - 1)
  BY SMTT(30), <1>1 DEF Inv, Stored, Typed
<1>9. /\ r.node_id \in DOMAIN blocks /\ r.node_id \in 0..(c - 1) /\ r.node_id \in 0..(cursor' - 1)
      /\ r.node_id # c /\ r.node_id # top /\ c # top /\ c # NULL /\ top # NULL
      /\ h2[r.node_id] = h[r.node_id] /\ h[r.node_id] <= depth
      /\ c \notin DOMAIN blocks /\ top \notin DOMAIN blocks
  <2>1. r.node_id \in DOMAIN blocks /\ r.node_id \in 0..(c - 1) /\ h[r.node_id] <= depth
    BY <1>7, <1>8 DEF Known
  <2>2. h2[r.node_id] = h[r.node_id]
    BY <2>1 DEF Agree
  <2> QED BY SMTT(30), <1>1, <1>8, <2>1, <2>2 DEF NULL
<1>10. /\ NodeOK(s.left, h2) /\ s.left.self = r.node_id /\ Complete(s.left)
       /\ NodeOK(s.right, h2) /\ s.right.self = c /\ Complete(s.right)
       /\ s.left \in Node /\ s.right \in Node
  BY NodeCases DEF Half
<1>11. ASSUME r.parents = <<>>
       PROVE  /\ RootAbove(node, top, r.node_id, c, h2) /\ h2[top] = depth + 1
              /\ node \in Node /\ node.self = top
  <2>1. Len(r.parents) = 0
    BY SMTT(30), <1>11
  <2>2. /\ h2[r.node_id] = depth /\ h2[r.node_id] \in Nat \ {0}
        /\ h2[c] = h2[r.node_id] /\ h2[top] = h2[r.node_id] + 1
    BY SMTT(30), <1>1, <1>7, <1>8, <1>9, <2>1
  <2>3. RootAbove(node, top, r.node_id, c, h2)
    BY <1>2, <1>8, <2>2, NewRootOK
  <2> QED BY <2>2, <2>3 DEF RootAbove
<1>12. /\ W \in Seq(Node) /\ Len(W) = (IF r.parents = <<>> THEN 3 ELSE 2)
       /\ W[1] = s.left /\ W[2] = s.right /\ (r.parents = <<>> => W[3] = node)
  <2>1. CASE r.parents = <<>>
    <3>1. W = <<s.left, s.right, node>>
      BY <1>3, <2>1
    <3> QED BY SMTT(30), <1>10, <1>11, <2>1, <3>1
  <2>2. CASE r.parents # <<>>
    <3>1. W = <<s.left, s.right>>
      BY <1>3, <2>2
    <3> QED BY SMTT(30), <1>10, <2>2, <3>1
  <2> QED BY <2>1, <2>2
<1>13. /\ q.pc = "write" /\ q.split = <<s>> /\ q.writes = W /\ q.new_root = nr
       /\ q.parents = r.parents /\ q.mode = r.mode /\ q.call = r.call /\ q.locks = r.locks
       /\ q.node_id = r.node_id
  BY <1>6 DEF Frames
<1>14. q \in Frames
  <2>1. "write" \in Points /\ <<s>> \in Seq(Splits) /\ nr \in Address
    BY SMTT(30), <1>4, <1>8 DEF Points, Address
  <2> QED BY ZenonT(30), <1>6, <1>12, <2>1 DEF Frames
<1> HIDE DEF q
<1>15. Control(q)'
  <2>1. LockType(q) = WRITE
    BY ZenonT(30), <1>6, <1>13 DEF LockType
  <2>2. Len(q.locks) = Len(q.parents) + 1 /\ q.locks[Len(q.locks)] = Lock(q.node_id, LockType(q))
    BY <1>7, <1>13, <2>1
  <2> QED BY <1>6, <1>7, <1>13, <2>2 DEF Control
<1>16. Where(q, h2)'
  <2>1. Known(r.node_id, h2)'
    BY <1>9 DEF Known
  <2> QED BY <1>6, <1>13, <2>1 DEF Where
<1>17. Path(q, h2)'
  <2>1. h2[q.node_id] = depth - Len(q.parents)
    BY <1>7, <1>9, <1>13
  <2>2. ASSUME NEW i \in 1..Len(r.parents)
        PROVE  /\ i \in 1..Len(q.locks) /\ q.locks[i] = Lock(r.parents[i].node.self, WRITE)
               /\ NodeOK(r.parents[i].node, h2)
               /\ r.parents[i].position \in 1..Len(r.parents[i].node.keys)
               /\ h2[r.parents[i].node.self] = depth + 1 - i
               /\ Copied(r.parents[i].node)'
    <3>1. PICK up : up = r.parents[i]
      OBVIOUS
    <3>2. /\ i \in 1..Len(r.locks) /\ r.locks[i] = Lock(up.node.self, WRITE)
          /\ NodeOK(up.node, h) /\ up.position \in 1..Len(up.node.keys)
          /\ h[up.node.self] = depth + 1 - i /\ Copied(up.node)
      BY <1>6, <3>1 DEF Above
    <3>3. NodeOK(up.node, h2) /\ h2[up.node.self] = h[up.node.self]
      BY <3>2, CopyKept
    <3>4. Copied(up.node)'
      BY <3>2 DEF Copied
    <3> QED BY <1>13, <3>1, <3>2, <3>3, <3>4
  <2> QED BY <1>13, <2>1, <2>2 DEF Path
<1>18. RootLocked(q)'
  BY <1>7, <1>13 DEF RootLocked
<1>19. Splitting(q, h2)'
  <2>1. Len(q.split) = 1 /\ q.split[1] = s /\ s.right.self = c
    BY SMTT(30), <1>10, <1>13
  <2>2. InHand(q, c, Len(q.writes))'
    BY SMTT(30), <1>10, <1>12, <1>13 DEF InHand
  <2> QED BY <1>7, <1>8, <1>13, <2>1, <2>2 DEF Splitting
<1>20. Growing(q, h2)'
  <2>1. CASE r.parents = <<>>
    <3>1. InHand(q, top, Len(q.writes))'
      <4>1. 3 \in 1..Len(q.writes) /\ q.writes[3] = node
        <5>1. Len(W) = 3 /\ W[3] = node
          BY <1>12, <2>1
        <5> QED BY SMTT(30), <1>13, <5>1
      <4>2. q.writes[3].self = top
        BY <1>11, <2>1, <4>1
      <4> QED BY <4>1, <4>2 DEF InHand
    <3> QED BY <1>4, <1>6, <1>8, <1>11, <1>13, <2>1, <3>1 DEF Growing
  <2>2. CASE r.parents # <<>>
    BY <1>4, <1>13, <2>2 DEF Growing
  <2> QED BY <2>1, <2>2
<1>21. Writing(q, h2)'
  <2>1. \A i \in 1..Len(q.writes) : i = 1 \/ i = 2 \/ (i = 3 /\ r.parents = <<>>)
    <3>1. CASE r.parents = <<>>
      <4>1. Len(q.writes) = 3
        BY <1>12, <1>13, <3>1
      <4> QED BY SMTT(30), <3>1, <4>1
    <3>2. CASE r.parents # <<>>
      <4>1. Len(q.writes) = 2
        BY <1>12, <1>13, <3>2
      <4> QED BY SMTT(30), <4>1
    <3> QED BY <3>1, <3>2
  <2>2. \A i, j \in 1..Len(q.writes) : q.writes[i].self = q.writes[j].self => i = j
    <3>1. q.writes[1].self = r.node_id /\ q.writes[2].self = c
      BY <1>10, <1>12, <1>13
    <3>2. r.parents = <<>> => q.writes[3].self = top
      BY <1>11, <1>12, <1>13
    <3>3. r.node_id # c /\ r.node_id # top /\ c # top
      BY <1>9
    <3> QED BY SMTT(30), <2>1, <3>1, <3>2, <3>3
  <2>3. r.parents # <<>> \/ nr # NULL
    BY <1>4, <1>9
  <2> SUFFICES ASSUME NEW CONSTANT i \in 1..Len(q.writes)
               PROVE  (/\ NodeOK(q.writes[i], h2)
                       /\ q.writes[i].self \in 0..(cursor - 1)
                       /\ h2[q.writes[i].self] <= depth \/ q.writes[i].self = q.new_root
                       /\ \/ q.writes[i].self = q.node_id
                          \/ q.writes[i].self \notin DOMAIN blocks
                       /\ q.writes[i].type = INNER =>
                             \A k \in 1..Len(q.writes[i].children) :
                                InHand(q, q.writes[i].children[k], i - 1))'
    BY ZenonT(30), <1>6, <1>13, <2>2, <2>3 DEF Writing
  <2>4. CASE i = 1
    <3>1. q.writes[i] = s.left
      BY <1>12, <1>13, <2>4
    <3>2. s.left.type = INNER => \A k \in 1..Len(s.left.children) : InHand(q, s.left.children[k], i - 1)'
      BY <1>10, CompleteChildren DEF InHand
    <3> QED BY ZenonT(30), <1>9, <1>10, <1>13, <3>1, <3>2
  <2>5. CASE i = 2
    <3>1. q.writes[i] = s.right
      BY ZenonT(30), <1>12, <1>13, <2>5
    <3>2. s.right.type = INNER => \A k \in 1..Len(s.right.children) : InHand(q, s.right.children[k], i - 1)'
      BY <1>10, CompleteChildren DEF InHand
    <3> QED BY <1>8, <1>9, <1>10, <1>13, <3>1, <3>2
  <2>6. CASE i = 3 /\ r.parents = <<>>
    <3>1. q.writes[i] = node /\ q.new_root = top
      BY <1>4, <1>12, <1>13, <2>6
    <3>2. InHand(q, r.node_id, i - 1)' /\ InHand(q, c, i - 1)'
      <4>1. 2 \in 1..(i - 1) /\ q.writes[2].self = c
        BY SMTT(30), <1>10, <1>12, <1>13, <2>6
      <4> QED BY <1>9, <4>1 DEF InHand
    <3>3. \A k \in 1..Len(node.children) : InHand(q, node.children[k], i - 1)'
      <4>1. \A k \in 1..Len(node.children) : node.children[k] = r.node_id \/ node.children[k] = c
        BY <1>11, <2>6 DEF RootAbove
      <4> QED BY <3>2, <4>1
    <3>4. NodeOK(node, h2) /\ node.self = top
      BY <1>11, <2>6 DEF RootAbove
    <3> QED BY <1>8, <1>9, <1>13, <2>6, <3>1, <3>3, <3>4
  <2> QED BY ZenonT(30), <2>1, <2>4, <2>5, <2>6
<1>22. ThreadOK(q, h2)'
  BY <1>14, <1>15, <1>16, <1>17, <1>18, <1>19, <1>20, <1>21 DEF ThreadOK
<1>23. Excluded'
  <2>1. Excluded /\ th \in [Thread -> Frames]
    BY DEF Inv, Typed
  <2>2. \A j \in 1..Len(q.locks) : \E i \in 1..Len(th[t].locks) : th[t].locks[i] = q.locks[j]
    BY <1>13
  <2> QED BY ZenonT(30), <1>5, <2>1, <2>2, FewerLocks
<1>24. blocked' \subseteq DOMAIN blocks /\ mismatch' \in BOOLEAN
  BY DEF Inv, Typed
<1> QED BY <1>5, <1>8, <1>22, <1>23, <1>24, StepKeeps

\* The blocks that a split allocates get heights: the new half that of the old
\* one, and a new root one above the old.
LEMMA NewHeights ==
    ASSUME NEW h \in Heights, Inv(h), NEW x \in Nat, NEW c, c = cursor
    PROVE  \E h2 \in Heights : /\ Agree(h, h2) /\ h2[c] = x /\ h2[c + 1] = depth + 1
<1>1. c \in Nat /\ depth \in Nat
  BY DEF Inv, Typed
<1>2. PICK h2 : h2 = [a \in Nat |-> IF a = c THEN x ELSE IF a = c + 1 THEN depth + 1 ELSE h[a]]
  OBVIOUS
<1>3. h2 \in Heights
  BY SMTT(30), <1>1, <1>2 DEF Heights
<1>4. h2[c] = x /\ h2[c + 1] = depth + 1
  BY SMTT(30), <1>1, <1>2
<1>5. Agree(h, h2)
  BY SMTT(30), <1>1, <1>2 DEF Agree
<1> QED BY <1>3, <1>4, <1>5

\* Both halves of a leaf.
LEMMA LeafHalves ==
    ASSUME PlacesCount, NEW h, NEW node, NodeOK(node, h), node.type = LEAF,
           NEW key \in Key, NEW val \in Value, leaf_splits(node, key), NEW c, c \in Nat,
           NEW h2, h2[node.self] = h[node.self], h2[c] = h[node.self],
           NEW s, s = leaf_split(node, key, val, c)
    PROVE  s \in Splits /\ Half(s.left, node.self, h2) /\ Half(s.right, c, h2)
<1>1. /\ node \in LeafNodes(Nat, Key, Value) /\ h[node.self] = 1
      /\ Len(node.entries) <= CAPACITY /\ Len(node.entries) \in Nat
  BY LeafOK
<1>2. Len(node.entries) = CAPACITY
  BY SMTT(30), <1>1, CapacityAssumption DEF leaf_splits, size
<1>3. Key \in SUBSET Int
  BY KeyAssumption
<1>4. s \in [left : LeafNodes(Nat, Key, Value), right : LeafNodes(Nat, Key, Value), boundary : Key]
  BY <1>1, <1>2, <1>3, LeafSplit
<1>5. s.left.self = node.self /\ s.right.self = c
  BY SMTT(30), <1>1, <1>2, <1>3, LeafSplit
<1>6. Len(s.left.entries) \in 1..CAPACITY /\ Len(s.right.entries) \in 1..CAPACITY
  BY SMTT(30), <1>1, <1>2, <1>3, LeafSplit
<1>7. /\ s.left \in LeafNodes(Nat, Key, Value) /\ s.right \in LeafNodes(Nat, Key, Value)
      /\ s \in Splits
  BY <1>4 DEF Splits, Node
<1>8. s.left.type = LEAF /\ s.right.type = LEAF
  BY <1>7 DEF LeafNodes
<1>9. NodeOK(s.left, h2) /\ NodeOK(s.right, h2)
  BY SMTT(30), <1>1, <1>5, <1>6, <1>7, CapacityAssumption DEF NodeOK
<1>10. Complete(s.left) /\ Complete(s.right) /\ size(s.left) >= 1 /\ size(s.right) >= 1
  BY SMTT(30), <1>6, <1>8 DEF Complete, size, LEAF, INNER
<1> QED BY <1>5, <1>7, <1>9, <1>10 DEF Half

\* The pessimistic attempt changes its copy of the leaf.
LEMMA PessimisticLeafKeeps ==
    ASSUME PlacesCount, NEW CONSTANT h \in Heights, Inv(h), NEW CONSTANT t \in Thread, pessimistic_leaf(t)
    PROVE  IInv'
<1>1. PICK r \in Frames : r = th[t]
  BY Parts
<1>2. PICK node : node = blocks[r.node_id]
  OBVIOUS
<1>3. PICK key, val, c : key = r.call.key /\ val = r.call.val /\ c = cursor
  OBVIOUS
<1>4. /\ r.pc = "read" /\ r.mode = "pessimistic" /\ node.type = LEAF
      /\ UNCHANGED <<root, depth, blocks, blocked, dict, mismatch>>
  BY ZenonT(30), <1>1, <1>2 DEF pessimistic_leaf
<1>5. OnPath(r, h)
  BY <1>1, <1>4, HeightOnPath
<1>6. Known(r.node_id, h) /\ key \in Key /\ val \in Value
  BY <1>3, <1>5 DEF OnPath, InsertCalls
<1>7. NodeOK(node, h) /\ node.self = r.node_id /\ h[r.node_id] \in Nat /\ r.node_id \in 0..(cursor - 1)
  BY <1>2, <1>6, ReadNode
<1>8. Changing(r, h) /\ r.locks = th[t].locks /\ th[t].new_root = NULL
  <2>1. Control(r) /\ Path(r, h)
    BY <1>1, Parts
  <2> QED BY <1>1, <1>4, <1>5, <2>1 DEF Changing, Control, Path, Above
<1>9. CASE ~leaf_splits(node, key)
  <2>1. PICK new : new = leaf_insert(node, key, val)
    OBVIOUS
  <2>2. th' = [th EXCEPT ![t] = Unsplit(r, <<new>>)] /\ UNCHANGED cursor
    BY <1>1, <1>2, <1>3, <1>9, <2>1 DEF pessimistic_leaf, Update
  <2>3. NodeOK(new, h) /\ new.self = node.self /\ new.type = LEAF
    BY SMTT(30), <1>4, <1>6, <1>7, <1>9, <2>1, LeafTakesIn
  <2>4. OneWrite(<<new>>, r.node_id, h)
    BY <1>7, <2>3 DEF OneWrite, Complete, LEAF, INNER
  <2>5. PICK W : W = <<new>>
    OBVIOUS
  <2>6. OneWrite(W, r.node_id, h) /\ th' = [th EXCEPT ![t] = Unsplit(r, W)]
    BY <2>2, <2>4, <2>5
  <2>7. Inv(h)'
    BY <1>4, <1>8, <2>2, <2>6, UnsplitKeeps
  <2> QED BY <2>7 DEF IInv
<1>10. CASE leaf_splits(node, key)
  <2>1. PICK s : s = leaf_split(node, key, val, c)
    OBVIOUS
  <2>2. /\ th' = [th EXCEPT ![t] = SplitNode(r, s, r.parents = <<>>)]
        /\ cursor' = cursor + (IF r.parents = <<>> THEN 2 ELSE 1)
    BY <1>1, <1>2, <1>3, <1>10, <2>1 DEF pessimistic_leaf, Update
  <2>3. PICK h2 \in Heights : Agree(h, h2) /\ h2[c] = h[r.node_id] /\ h2[c + 1] = depth + 1
    BY SMTT(30), <1>3, <1>7, NewHeights
  <2>4. c \in Nat /\ h2[node.self] = h[node.self] /\ h2[c] = h[node.self]
    BY <1>3, <1>7, <2>3 DEF Agree, Inv, Typed
  <2>5. s \in Splits /\ Half(s.left, node.self, h2) /\ Half(s.right, c, h2)
    BY <1>4, <1>6, <1>7, <1>10, <2>1, <2>4, LeafHalves
  <2>6. Inv(h2)'
    BY ZenonT(30), <1>3, <1>4, <1>7, <1>8, <2>2, <2>3, <2>5, SplitKeeps
  <2> QED BY <2>3, <2>6 DEF IInv
<1> QED BY <1>9, <1>10

-----------------------------------------------------------------------------
(* A split is taken in *)

\* The children of a complete node are one below it, and a node with such
\* children is in its place.
LEMMA ChildrenBelow ==
    ASSUME NEW h, NEW node, NodeOK(node, h), node.type = INNER, Complete(node)
    PROVE  ChildrenIn(node, Below(node.self, h))
<1>1. /\ node.children \in Seq(Nat)
      /\ \A k \in 1..Len(node.children) : h[node.children[k]] = h[node.self] - 1
  BY InnerOK
<1>2. DOMAIN node.children = 1..Len(node.children)
  BY <1>1, SeqLength
<1>3. \A k \in 1..Len(node.children) : node.children[k] \in DOMAIN blocks
  BY CompleteChildren
<1>4. \A k \in DOMAIN node.children : node.children[k] \in Below(node.self, h)
  BY <1>1, <1>2, <1>3 DEF Below
<1> QED BY <1>4 DEF ChildrenIn, ToSet

LEMMA BelowOK ==
    ASSUME NEW h, NEW a, NEW node \in InnerNodes(Nat, Key), Paired(node), Len(node.keys) <= CAPACITY,
           ChildrenIn(node, Below(a, h)), h[a] > 1,
           NEW h2, h2[node.self] = h[a], \A b \in DOMAIN blocks : h2[b] = h[b]
    PROVE  NodeOK(node, h2) /\ Complete(node)
<1>1. node.children \in Seq(Nat)
  BY DEF InnerNodes
<1>2. \A k \in 1..Len(node.children) : node.children[k] \in Below(a, h)
  BY <1>1, ChildrenDef
<1>3. \A k \in 1..Len(node.children) : h2[node.children[k]] = h2[node.self] - 1
  BY <1>2 DEF Below
<1>4. ChildrenIn(node, DOMAIN blocks)
  BY DEF ChildrenIn, Below
<1> QED BY <1>3, <1>4 DEF NodeOK, Complete

\* An inner node with a free slot takes in the new child.
LEMMA InnerTakesIn ==
    ASSUME NEW h, NEW node, NodeOK(node, h), node.type = INNER, Complete(node),
           has_free_slot(node), NEW child, child \in Nat, child \in Below(node.self, h),
           NEW key \in Key, NEW position, position \in 1..Len(node.keys),
           NEW new, new = insert_inner_node(node, child, key, position + 1)
    PROVE  NodeOK(new, h) /\ new.self = node.self /\ Complete(new)
<1>1. /\ node \in InnerNodes(Nat, Key) /\ Paired(node) /\ node.keys \in Seq(Key) /\ h[node.self] > 1
  BY InnerOK
<1>2. Len(node.keys) \in Nat /\ Len(node.keys) = Len(node.children)
  BY <1>1, SeqLength DEF Paired
<1>3. PICK p : p = position + 1
  OBVIOUS
<1>4. p \in 1..(Len(node.keys) + 1)
  BY SMTT(30), <1>2, <1>3
<1>5. ChildrenIn(node, Below(node.self, h))
  BY ChildrenBelow
<1>6. new = insert_inner_node(node, child, key, p)
  BY <1>3
<1>7. Grown(new, node, Nat, Key, Below(node.self, h))
  BY <1>1, <1>2, <1>4, <1>5, <1>6, InsertInner
<1>8. /\ new \in InnerNodes(Nat, Key) /\ new.self = node.self
      /\ Len(new.keys) = Len(node.keys) + 1 /\ Len(new.children) = Len(node.keys) + 1
      /\ ChildrenIn(new, Below(node.self, h))
  BY <1>7 DEF Grown
<1>9. Paired(new) /\ Len(new.keys) <= CAPACITY
  BY SMTT(30), <1>1, <1>2, <1>8, CapacityAssumption DEF Paired, has_free_slot, size, INNER, LEAF
<1> QED BY <1>1, <1>8, <1>9, BelowOK

\* Both halves of an inner node.
LEMMA InnerHalves ==
    ASSUME PlacesCount, NEW h, NEW node, NodeOK(node, h), node.type = INNER, Complete(node),
           ~has_free_slot(node), NEW position, position \in Int,
           NEW split \in Splits, split.right.self \in Below(node.self, h), NEW c, c \in Nat,
           NEW h2, \A b \in DOMAIN blocks : h2[b] = h[b],
           h2[node.self] = h[node.self], h2[c] = h[node.self],
           NEW s, s = inner_split(node, position, split, c)
    PROVE  s \in Splits /\ Half(s.left, node.self, h2) /\ Half(s.right, c, h2)
<1>1. /\ node \in InnerNodes(Nat, Key) /\ Paired(node) /\ node.keys \in Seq(Key) /\ h[node.self] > 1
      /\ Len(node.keys) <= CAPACITY
  BY InnerOK
<1>2. Len(node.keys) = CAPACITY /\ Len(node.children) = CAPACITY
  BY SMTT(30), <1>1, SeqLength, CapacityAssumption DEF Paired, has_free_slot, size, INNER, LEAF
<1>3. split.right.self \in Nat /\ split.boundary \in Key
  <2>1. split.right \in Node /\ split.boundary \in Key
    BY DEF Splits
  <2> QED BY <2>1 DEF Node, LeafNodes, InnerNodes
<1>4. ChildrenIn(node, Below(node.self, h))
  BY ChildrenBelow
<1>5. Halved(s, node.self, c, Nat, Key, Below(node.self, h))
  BY ZenonT(30), <1>1, <1>2, <1>3, <1>4, InnerSplit
<1>6. s.left.self = node.self /\ s.right.self = c
  BY <1>5 DEF Halved
<1>7. Paired(s.left) /\ Len(s.left.keys) <= CAPACITY /\ Paired(s.right) /\ Len(s.right.keys) <= CAPACITY
  BY <1>5 DEF Halved
<1>8. ChildrenIn(s.left, Below(node.self, h)) /\ ChildrenIn(s.right, Below(node.self, h))
  BY <1>5 DEF Halved
<1>9. /\ s.left \in InnerNodes(Nat, Key) /\ s.right \in InnerNodes(Nat, Key) /\ s \in Splits
  BY <1>5 DEF Halved, Splits, Node
<1>10. s.left.type = INNER /\ s.right.type = INNER
  BY <1>9 DEF InnerNodes
<1>11. NodeOK(s.left, h2) /\ Complete(s.left)
  BY SMTT(30), <1>1, <1>6, <1>7, <1>8, <1>9, BelowOK
<1>12. NodeOK(s.right, h2) /\ Complete(s.right)
  BY SMTT(30), <1>1, <1>6, <1>7, <1>8, <1>9, BelowOK
<1>13. size(s.left) >= 1 /\ size(s.right) >= 1
  BY <1>7, <1>10 DEF Paired, size, LEAF, INNER
<1> QED BY <1>6, <1>9, <1>11, <1>12, <1>13 DEF Half

LEMMA Returning ==
    ASSUME NEW h, Inv(h), NEW t \in Thread, NEW r \in Frames, r = th[t],
           r.pc = "return", r.parents # <<>>, NEW up, up = Last(r.parents),
           NEW r0, r0 = [r EXCEPT !.parents = Front(r.parents), !.node_id = up.node.self]
    PROVE  Returned(r, r0, up, h)
<1>1. Control(r) /\ Path(r, h) /\ RootLocked(r)
  BY Parts
<1>2. r.parents \in Seq(Steps) /\ r.locks \in Seq(Locks)
  BY Fields
<1>3. PICK n : n = Len(r.parents)
  OBVIOUS
<1>4. PICK P : P = Front(r.parents)
  OBVIOUS
<1>5. /\ P \in Seq(Steps) /\ n \in Nat \ {0} /\ Len(P) = n - 1 /\ up \in Steps
      /\ up = r.parents[n] /\ \A i \in 1..(n - 1) : P[i] = r.parents[i]
  BY ZenonT(30), <1>2, <1>3, <1>4, FrontLast
<1>6. /\ n \in 1..Len(r.locks) /\ r.locks[n] = Lock(up.node.self, WRITE)
      /\ NodeOK(up.node, h) /\ up.position \in 1..Len(up.node.keys)
      /\ h[up.node.self] = depth + 1 - n
      /\ Copied(up.node)
  <2>1. \A i \in 1..Len(r.parents) :
           /\ i \in 1..Len(r.locks) /\ r.locks[i] = Lock(r.parents[i].node.self, WRITE)
           /\ NodeOK(r.parents[i].node, h)
           /\ r.parents[i].position \in 1..Len(r.parents[i].node.keys)
           /\ h[r.parents[i].node.self] = depth + 1 - i
           /\ Copied(r.parents[i].node)
    BY <1>1 DEF Path
  <2>2. n \in 1..Len(r.parents) /\ up = r.parents[n]
    BY SMTT(30), <1>3, <1>5
  <2> QED BY <2>1, <2>2
<1>7. up.node \in InnerNodes(Nat, Key)
  BY <1>5 DEF Steps
<1>8. up.node.type = INNER /\ up.node.self \in Nat
  BY <1>7 DEF InnerNodes
<1>9. Complete(up.node) /\ up.node.self \in DOMAIN blocks
  BY <1>6, CopyComplete DEF Copied
<1>10. /\ r0.parents = P /\ r0.node_id = up.node.self /\ r0.locks = r.locks
       /\ r0.mode = r.mode /\ r0.new_root = r.new_root /\ r0.call = r.call
  BY <1>4 DEF Frames
<1>11. r0 \in Frames
  <2>1. up.node.self \in Address
    BY <1>8 DEF Address
  <2> QED BY ZenonT(30), <1>4, <1>5, <2>1 DEF Frames
<1>12. /\ r.mode = "pessimistic" /\ r.new_root = NULL /\ Len(r.locks) = n /\ r.writes = <<>>
       /\ r.call \in InsertCalls
  BY <1>1, <1>3 DEF Control
<1>13. r.locks[1] = Lock(root, WRITE)
  <2>1. r.locks # <<>>
    BY <1>2, <1>5, <1>12, SeqEmpty
  <2> QED BY <1>1, <1>12, <2>1 DEF RootLocked
<1>14. depth \in Nat
  BY DEF Inv, Typed
<1>15. OnPath(r0, h)
  <2>1. Known(up.node.self, h)
    BY SMTT(30), <1>5, <1>6, <1>9, <1>14 DEF Known
  <2>2. h[up.node.self] = depth - Len(P) /\ Len(P) \in Nat /\ n = Len(P) + 1
    BY SMTT(30), <1>5, <1>6, <1>14
  <2>3. P = <<>> => up.node.self = root
    <3>1. ASSUME P = <<>> PROVE up.node.self = root
      <4>1. n = 1
        BY SMTT(30), <2>2, <3>1
      <4>2. Lock(up.node.self, WRITE) = Lock(root, WRITE)
        BY <1>6, <1>13, <4>1
      <4> QED BY <4>2 DEF Lock
    <3> QED BY <3>1
  <2> QED BY <1>6, <1>10, <1>12, <1>13, <2>1, <2>2, <2>3 DEF OnPath
<1>16. Above(r0, h)
  <2>1. \A i \in 1..Len(r0.parents) : i \in 1..Len(r.parents) /\ r0.parents[i] = r.parents[i]
    BY SMTT(30), <1>3, <1>5, <1>10
  <2> QED BY SMTT(30), <1>1, <1>10, <2>1 DEF Above, Path
<1>17. (P = <<>>) <=> (n = 1)
  BY SMTT(30), <1>5, SeqEmpty
<1> QED BY <1>3, <1>6, <1>8, <1>9, <1>10, <1>11, <1>12, <1>15, <1>16, <1>17 DEF Returned, Changing

\* The split of the level below, when it is written.
LEMMA SplitBelow ==
    ASSUME NEW h, Inv(h), NEW t \in Thread, NEW r \in Frames, r = th[t],
           r.pc = "return", r.parents # <<>>, r.split # <<>>, r.writes = <<>>,
           NEW a, h[a] = depth + 1 - Len(r.parents)
    PROVE  /\ r.split[1] \in Splits
           /\ r.split[1].right.self \in Below(a, h) /\ r.split[1].right.self \in Nat
           /\ r.split[1].boundary \in Key
<1>1. Splitting(r, h)
  BY Parts
<1>2. r.split \in Seq(Splits) /\ Len(r.parents) \in Nat /\ Len(r.split) = 1
  BY <1>1, Fields DEF Splitting
<1>3. PICK s : s = r.split[1]
  OBVIOUS
<1>4. s \in Splits
  BY SMTT(30), <1>2, <1>3, SeqElement
<1>5. /\ s.right.self \in 0..(cursor - 1) /\ InHand(r, s.right.self, Len(r.writes))
      /\ h[s.right.self] = depth - Len(r.parents)
  BY <1>1, <1>3 DEF Splitting
<1>6. Len(r.writes) = 0
  OBVIOUS
<1>7. s.right.self \in DOMAIN blocks
  BY SMTT(30), <1>5, <1>6 DEF InHand
<1>8. depth \in Nat
  BY DEF Inv, Typed
<1>9. s.right.self \in Below(a, h)
  BY SMTT(30), <1>2, <1>5, <1>7, <1>8 DEF Below
<1>10. s.boundary \in Key
  BY <1>4 DEF Splits
<1>11. s.right.self \in Nat
  BY SMTT(30), <1>5
<1> QED BY <1>3, <1>4, <1>9, <1>10, <1>11

\* The child returned.
LEMMA PessimisticReturnsKeeps ==
    ASSUME PlacesCount, NEW CONSTANT h \in Heights, Inv(h), NEW CONSTANT t \in Thread, pessimistic_returns(t)
    PROVE  IInv'
<1>1. PICK r \in Frames : r = th[t]
  BY Parts
<1>2. PICK up : up = Last(r.parents)
  OBVIOUS
<1>3. PICK r0 : r0 = [r EXCEPT !.parents = Front(r.parents), !.node_id = up.node.self]
  OBVIOUS
<1>4. PICK c, split : c = cursor /\ split = r.split[1]
  OBVIOUS
<1>5. /\ r.pc = "return" /\ r.parents # <<>>
      /\ UNCHANGED <<root, depth, blocks, blocked, dict, mismatch>>
  BY <1>1 DEF pessimistic_returns
<1>6. Returned(r, r0, up, h)
  BY ZenonT(30), <1>1, <1>2, <1>3, <1>5, Returning
<1>7. /\ Changing(r0, h) /\ r0.locks = th[t].locks /\ th[t].new_root = NULL /\ r.writes = <<>>
      /\ NodeOK(up.node, h) /\ up.node.type = INNER /\ Complete(up.node)
      /\ up.position \in 1..Len(up.node.keys) /\ r0.node_id = up.node.self
      /\ up.node.self \in DOMAIN blocks /\ h[up.node.self] = depth + 1 - Len(r.parents)
  BY <1>1, <1>6 DEF Returned
<1>8. r.split # <<>> => /\ split \in Splits /\ split.right.self \in Below(up.node.self, h)
                        /\ split.right.self \in Nat /\ split.boundary \in Key
  BY ZenonT(30), <1>1, <1>4, <1>5, <1>7, SplitBelow
<1>9. CASE ~(r.split # <<>> /\ ~has_free_slot(up.node))
  <2>1. PICK W : W = IF r.split # <<>>
                     THEN <<insert_inner_node(up.node, split.right.self, split.boundary,
                                              up.position + 1)>>
                     ELSE IF up.modified THEN <<up.node>> ELSE <<>>
    OBVIOUS
  <2>2. th' = [th EXCEPT ![t] = Unsplit(r0, W)] /\ UNCHANGED cursor
    BY <1>1, <1>2, <1>3, <1>4, <1>9, <2>1 DEF pessimistic_returns, Update
  <2>3. OneWrite(W, r0.node_id, h)
    <3>1. CASE r.split # <<>>
      <4>1. PICK new : new = insert_inner_node(up.node, split.right.self, split.boundary,
                                               up.position + 1)
        OBVIOUS
      <4>2. NodeOK(new, h) /\ new.self = up.node.self /\ Complete(new)
        BY SMTT(30), <1>7, <1>8, <1>9, <3>1, <4>1, InnerTakesIn
      <4>3. W = <<new>>
        BY <2>1, <3>1, <4>1
      <4>4. new.self = r0.node_id
        BY <1>7, <4>2
      <4> QED BY <4>2, <4>3, <4>4 DEF OneWrite
    <3>2. CASE r.split = <<>>
      BY <1>7, <2>1, <3>2 DEF OneWrite
    <3> QED BY <3>1, <3>2
  <2>4. Inv(h)'
    BY ZenonT(30), <1>5, <1>7, <2>2, <2>3, UnsplitKeeps
  <2> QED BY <2>4 DEF IInv
<1>10. CASE r.split # <<>> /\ ~has_free_slot(up.node)
  <2>1. PICK s : s = inner_split(up.node, up.position, split, c)
    OBVIOUS
  <2>2. /\ th' = [th EXCEPT ![t] = SplitNode(r0, s, r0.parents = <<>>)]
        /\ cursor' = cursor + (IF r0.parents = <<>> THEN 2 ELSE 1)
    <3>1. (r0.parents = <<>>) = (Len(r.parents) = 1)
      BY <1>6 DEF Returned
    <3>2. /\ th' = [th EXCEPT ![t] = SplitNode(r0, s, Len(r.parents) = 1)]
          /\ cursor' = cursor + (IF Len(r.parents) = 1 THEN 2 ELSE 1)
      BY <1>1, <1>2, <1>3, <1>4, <1>10, <2>1 DEF pessimistic_returns, Update
    <3> QED BY <3>1, <3>2
  <2>3. h[r0.node_id] \in Nat
    BY <1>7, NodeCases DEF Heights
  <2>4. PICK h2 \in Heights : Agree(h, h2) /\ h2[c] = h[r0.node_id] /\ h2[c + 1] = depth + 1
    BY SMTT(30), <1>4, <2>3, NewHeights
  <2>5. c \in Nat /\ h2[c] = h[up.node.self] /\ \A b \in DOMAIN blocks : h2[b] = h[b]
    BY ZenonT(30), <1>4, <1>7, <2>4 DEF Agree, Inv, Typed, Stored
  <2>6. h2[up.node.self] = h[up.node.self] /\ up.position \in Int
    BY SMTT(30), <1>7, <2>5
  <2>7. s \in Splits /\ Half(s.left, up.node.self, h2) /\ Half(s.right, c, h2)
    <3>1. /\ NodeOK(up.node, h) /\ up.node.type = INNER /\ Complete(up.node)
          /\ ~has_free_slot(up.node) /\ up.position \in Int
          /\ split \in Splits /\ split.right.self \in Below(up.node.self, h) /\ c \in Nat
          /\ \A b \in DOMAIN blocks : h2[b] = h[b]
          /\ h2[up.node.self] = h[up.node.self] /\ h2[c] = h[up.node.self]
      BY <1>7, <1>8, <1>10, <2>5, <2>6
    <3> QED BY SMTT(30), <2>1, <3>1, InnerHalves
  <2>8. Inv(h2)'
    BY <1>4, <1>5, <1>7, <2>2, <2>4, <2>7, SplitKeeps
  <2> QED BY <2>4, <2>8 DEF IInv
<1> QED BY <1>9, <1>10

-----------------------------------------------------------------------------
(* The invariant *)

\* The fact about counted places that the searches in a node rest on.
LEMMA PlacesCounted == PlacesCount
<1> SUFFICES ASSUME NEW n \in Nat, NEW T \in SUBSET (1..n)
             PROVE  Cardinality(T) \in 0..n /\ (T # 1..n => Cardinality(T) < n)
  BY DEF PlacesCount
<1>1. IsFiniteSet(1..n) /\ Cardinality(1..n) = n
  BY SMTT(30), FS_Interval
<1>2. IsFiniteSet(T) /\ Cardinality(T) <= n /\ (n = Cardinality(T) => 1..n = T)
  BY <1>1, FS_Subset
<1>3. Cardinality(T) \in Nat
  BY <1>2, FS_CardinalityType
<1> QED BY SMTT(30), <1>2, <1>3

\* The tree that the threads start on has heights, and the threads are idle.
LEMMA InitIInv == Init => IInv
<1> SUFFICES ASSUME Init PROVE IInv
  OBVIOUS
<1>1. PICK tree \in InitialTrees, program \in Programs :
          /\ root = tree.root /\ depth = tree.depth /\ blocks = tree.blocks
          /\ cursor = Cardinality(DOMAIN tree.blocks) /\ blocked = {}
          /\ th = [t \in Thread |-> Idle(program[t], Absent)]
          /\ dict = tree.dict /\ mismatch = FALSE
  BY DEF Init
<1>2. PICK D : D = DOMAIN blocks
  OBVIOUS
<1>3. /\ IsFiniteSet(D) /\ D = 0..(cursor - 1) /\ cursor = Cardinality(D)
      /\ depth \in Nat \ {0} /\ dict \in [Key -> Answers] /\ Balanced(tree)
      /\ program \in [Thread -> Seq(Call)]
  BY <1>1, <1>2, TreesAssumption, ProgramsAssumption DEF Answers
<1>4. cursor \in Nat /\ D \subseteq Nat
  BY SMTT(30), <1>3, FS_CardinalityType
<1>5. PICK height \in [D -> 1..depth] :
          /\ root \in D /\ height[root] = depth
          /\ \A a \in D : /\ blocks[a].self = a
                          /\ blocks[a].type = INNER => ToSet(blocks[a].children) \subseteq D
                          /\ NodeOK(blocks[a], height)
  BY <1>1, <1>2, <1>3 DEF Balanced
<1>6. PICK h : h = [a \in Nat |-> IF a \in D THEN height[a] ELSE 0]
  OBVIOUS
<1>7. h \in Heights
  <2>1. \A a \in D : height[a] \in 1..depth
    BY <1>5
  <2>2. \A a \in D : height[a] \in Nat
    BY SMTT(30), <1>3, <2>1
  <2> QED BY <1>6, <2>2 DEF Heights
<1>8. \A a \in D : h[a] = height[a] /\ h[a] <= depth
  <2>1. \A a \in D : height[a] \in 1..depth
    BY <1>5
  <2>2. \A a \in D : h[a] = height[a]
    BY <1>4, <1>6
  <2> QED BY SMTT(30), <1>3, <2>1, <2>2
<1>9. Stored(h)
  <2>1. ASSUME NEW a \in D
        PROVE  /\ NodeOK(blocks[a], h)
               /\ blocks[a].type = INNER => ChildrenIn(blocks[a], D)
    <3>1. PICK node : node = blocks[a]
      OBVIOUS
    <3>2. NodeOK(node, height) /\ node.self = a
      BY <1>5, <3>1
    <3>3. node.type = INNER => ChildrenIn(node, D)
      BY <1>5, <3>1 DEF ChildrenIn
    <3>4. node.type = INNER => node.children \in Seq(Nat)
      BY <3>2, NodeCases
    <3>5. node.type = INNER => \A i \in 1..Len(node.children) :
                                   h[node.children[i]] = height[node.children[i]]
      BY <1>8, <3>3, <3>4, ChildrenDef
    <3>6. NodeOK(node, h)
      BY <1>8, <3>2, <3>5, NodeKept
    <3> QED BY <3>1, <3>3, <3>6
  <2> QED BY <1>2, <1>3, <1>5, <1>8, <2>1 DEF Stored
<1>10. ASSUME NEW t \in Thread
       PROVE  th[t] \in Frames /\ AtRest(th[t]) /\ ThreadOK(th[t], h)
  <2>1. PICK q, p : p = program[t] /\ q = Idle(p, Absent)
    OBVIOUS
  <2>2. p \in Seq(Call) /\ Absent \in Answers
    BY <1>3, <2>1 DEF Answers
  <2>3. q \in Frames
    BY <2>1, <2>2, IdleFrame
  <2>4. q.pc = "idle" /\ q.mode = "none" /\ AtRest(q)
    BY <2>1 DEF Idle, AtRest
  <2>5. Control(q) /\ Where(q, h)
    BY <2>4 DEF Control, Where, AtRest
  <2>6. ThreadOK(q, h)
    BY <2>3, <2>4, <2>5, RestOK
  <2>7. th[t] = q
    BY <1>1, <2>1
  <2> QED BY <2>3, <2>4, <2>6, <2>7
<1>11. Typed
  <2>1. th \in [Thread -> Frames]
    BY <1>1, <1>10
  <2> QED BY <1>1, <1>3, <1>4, <1>5, <2>1 DEF Typed
<1>12. Excluded
  <2>1. \A t \in Thread : Len(th[t].locks) = 0
    BY SMTT(30), <1>10 DEF AtRest
  <2> QED BY SMTT(30), <2>1 DEF Excluded
<1> QED BY <1>7, <1>9, <1>10, <1>11, <1>12 DEF IInv, Inv

\* Nothing changes.
LEMMA StutterKeeps ==
    ASSUME NEW CONSTANT h, Inv(h), UNCHANGED vars
    PROVE  Inv(h)'
<1>1. Typed'
  BY DEF vars, Inv, Typed
<1>2. Stored(h)'
  BY DEF vars, Inv, Stored
<1>3. Excluded'
  BY DEF vars, Inv, Excluded
<1>4. ASSUME NEW CONSTANT u \in Thread PROVE ThreadOK(th[u], h)'
  <2>1. /\ th'[u] = th[u] /\ UNCHANGED <<root, depth, blocks, mismatch>>
        /\ cursor' \in Nat /\ cursor <= cursor'
    BY SMTT(30) DEF vars, Inv, Typed
  <2>2. Agree(h, h)
    BY DEF Agree
  <2> QED BY <2>1, <2>2, OtherThread
<1> QED BY <1>1, <1>2, <1>3, <1>4 DEF Inv

\* Every step keeps the heights of the blocks that there are.
LEMMA NextIInv == IInv /\ [Next]_vars => IInv'
<1> SUFFICES ASSUME IInv, [Next]_vars PROVE IInv'
  OBVIOUS
<1>1. PICK h \in Heights : Inv(h)
  BY DEF IInv
<1>2. Inv(h)' => IInv'
  BY DEF IInv
<1>3. CASE UNCHANGED vars
  BY <1>1, <1>2, <1>3, StutterKeeps
<1>4. CASE finished
  BY <1>3, <1>4 DEF finished
<1>5. ASSUME NEW CONSTANT t \in Thread, step(t) PROVE IInv'
  <2>1. CASE invoke(t)
    BY <1>1, <1>2, <2>1, InvokeKeeps
  <2>2. CASE get_root_id(t) \/ get_height(t) \/ get_height_first(t) \/ get_root_id_last(t)
    BY <1>1, <1>2, <2>2, RootAndHeightKeep
  <2>3. CASE wait_for_lock(t)
    BY <1>1, <1>2, <2>3, WaitKeeps
  <2>4. CASE lock_moved_root(t)
    BY <1>1, <1>2, <2>4, RootMovedKeeps
  <2>5. CASE lock(t)
    BY <1>1, <1>2, <2>5, LockKeeps
  <2>6. CASE search_answers(t)
    BY <1>1, <1>2, <2>6, PlacesCounted, SearchAnswersKeeps
  <2>7. CASE read_inner(t)
    BY <1>1, <1>2, <2>7, PlacesCounted, ReadInnerKeeps
  <2>8. CASE optimistic_fails(t)
    BY <1>1, <1>2, <2>8, OptimisticFailsKeeps
  <2>9. CASE optimistic_leaf(t)
    BY <1>1, <1>2, <2>9, PlacesCounted, OptimisticLeafKeeps
  <2>10. CASE pessimistic_inner(t)
    BY <1>1, <1>2, <2>10, PlacesCounted, PessimisticInnerKeeps
  <2>11. CASE pessimistic_leaf(t)
    BY <1>1, <2>11, PlacesCounted, PessimisticLeafKeeps
  <2>12. CASE pessimistic_returns(t)
    BY <1>1, <2>12, PlacesCounted, PessimisticReturnsKeeps
  <2>13. CASE write(t)
    BY <1>1, <1>2, <2>13, WriteKeeps
  <2>14. CASE update_root(t)
    BY <1>1, <1>2, <2>14, UpdateRootKeeps
  <2>15. CASE release(t)
    BY <1>1, <1>2, <2>15, ReleaseKeeps
  <2> QED BY <1>5, <2>1, <2>2, <2>3, <2>4, <2>5, <2>6, <2>7, <2>8, <2>9, <2>10,
             <2>11, <2>12, <2>13, <2>14, <2>15 DEF step
<1> QED BY <1>3, <1>4, <1>5 DEF Next

\* SpecIInv: in every reachable state the blocks have heights, one less from a
\* node to its child, that no step has ever changed, and every thread is where
\* its locks and its stack of copies say.
THEOREM SpecIInv == Spec => []IInv
BY InitIInv, NextIInv, PTL DEF Spec

-----------------------------------------------------------------------------
(* The properties *)

\* What the locks of a thread become.
LEMMA NewLocks ==
    ASSUME NEW h, Inv(h), NEW t \in Thread, step(t)
    PROVE  /\ \A u \in Thread : u # t => th'[u] = th[u]
           /\ DOMAIN blocks \subseteq DOMAIN blocks'
           /\ \/ th'[t].locks = th[t].locks
              \/ th'[t].locks = <<>>
              \/ lock(t)
              \/ release(t) /\ th[t].parents # <<>>
<1>1. th \in [Thread -> Frames] /\ th[t] \in Frames
  BY DEF Inv, Typed
<1>2. CASE invoke(t)
  BY <1>1, <1>2 DEF invoke, Update, Frames
<1>3. CASE get_root_id(t)
  BY <1>1, <1>3 DEF get_root_id, Update, Frames
<1>4. CASE get_height(t)
  BY <1>1, <1>4 DEF get_height, Update, Frames
<1>5. CASE get_height_first(t)
  BY <1>1, <1>5 DEF get_height_first, Update, Frames
<1>6. CASE get_root_id_last(t)
  BY <1>1, <1>6 DEF get_root_id_last, Update, Frames
<1>7. CASE wait_for_lock(t)
  BY <1>1, <1>7 DEF wait_for_lock
<1>8. CASE lock_moved_root(t)
  BY <1>1, <1>8 DEF lock_moved_root, Update, Frames
<1>9. CASE lock(t)
  BY <1>1, <1>9 DEF lock, Update
<1>10. CASE search_answers(t)
  BY <1>1, <1>10 DEF search_answers, Update, Idle
<1>11. CASE read_inner(t)
  <2>1. PICK child : th' = [th EXCEPT ![t] = Descend(th[t], child)] /\ blocks' = blocks
    BY ZenonT(30), <1>11 DEF read_inner, Update
  <2> QED BY <1>1, <2>1 DEF Descend, Frames
<1>12. CASE optimistic_fails(t)
  BY <1>1, <1>12 DEF optimistic_fails, Update, Frames
<1>13. CASE optimistic_leaf(t)
  BY <1>1, <1>13 DEF optimistic_leaf, Update, Frames
<1>14. CASE pessimistic_inner(t)
  <2>1. PICK path, child :
            /\ th' = [th EXCEPT ![t] = Descend([th[t] EXCEPT !.parents = path], child)]
            /\ blocks' = blocks
    BY <1>14 DEF pessimistic_inner, Update
  <2> QED BY <1>1, <2>1 DEF Descend, Frames
<1>15. CASE pessimistic_leaf(t)
  BY ZenonT(30), <1>1, <1>15 DEF pessimistic_leaf, Update, SplitNode, Unsplit, Frames
<1>16. CASE pessimistic_returns(t)
  <2>1. PICK upper : upper = [th[t] EXCEPT !.parents = Front(th[t].parents),
                                            !.node_id = Last(th[t].parents).node.self]
    OBVIOUS
  <2>2. upper.locks = th[t].locks /\ {"locks", "pc", "split", "writes", "new_root"} \subseteq DOMAIN upper
    BY <1>1, <2>1 DEF Frames
  <2>3. CASE th[t].split # <<>> /\ ~has_free_slot(Last(th[t].parents).node)
    <3>1. PICK s, b : th' = [th EXCEPT ![t] = SplitNode(upper, s, b)] /\ blocks' = blocks
      BY <1>16, <2>1, <2>3 DEF pessimistic_returns, Update
    <3>2. SplitNode(upper, s, b).locks = th[t].locks
      BY <2>2 DEF SplitNode
    <3> QED BY <1>1, <3>1, <3>2
  <2>4. CASE ~(th[t].split # <<>> /\ ~has_free_slot(Last(th[t].parents).node))
    <3>1. PICK w : th' = [th EXCEPT ![t] = Unsplit(upper, w)] /\ blocks' = blocks
      BY <1>16, <2>1, <2>4 DEF pessimistic_returns, Update
    <3>2. Unsplit(upper, w).locks = th[t].locks
      BY <2>2 DEF Unsplit
    <3> QED BY <1>1, <3>1, <3>2
  <2> QED BY <2>3, <2>4
<1>17. CASE write(t)
  BY <1>1, <1>17 DEF write, Update, Frames
<1>18. CASE update_root(t)
  BY <1>1, <1>18 DEF update_root, Update, Frames
<1>19. CASE release(t)
  BY <1>1, <1>19 DEF release, Update, Idle
<1> QED BY <1>2, <1>3, <1>4, <1>5, <1>6, <1>7, <1>8, <1>9, <1>10, <1>11, <1>12, <1>13,
           <1>14, <1>15, <1>16, <1>17, <1>18, <1>19 DEF step

\* A lock is taken at a block that the thread has an address of, and no block
\* is ever freed.
LEMMA LocksStoredKept == IInv /\ LocksStored /\ [Next]_vars => LocksStored'
<1> SUFFICES ASSUME IInv, LocksStored, [Next]_vars PROVE LocksStored'
  OBVIOUS
<1>1. PICK h \in Heights : Inv(h)
  BY DEF IInv
<1>2. CASE UNCHANGED vars
  BY <1>2 DEF vars, LocksStored
<1>3. CASE finished
  BY <1>2, <1>3 DEF finished
<1>4. ASSUME NEW CONSTANT t \in Thread, step(t) PROVE LocksStored'
  <2>1. /\ \A u \in Thread : u # t => th'[u] = th[u]
        /\ DOMAIN blocks \subseteq DOMAIN blocks'
        /\ \/ th'[t].locks = th[t].locks
           \/ th'[t].locks = <<>>
           \/ lock(t)
           \/ release(t) /\ th[t].parents # <<>>
    BY <1>1, <1>4, NewLocks
  <2>2. SUFFICES \A i \in 1..Len(th'[t].locks) : th'[t].locks[i].id \in DOMAIN blocks
    BY <2>1 DEF LocksStored
  <2>3. PICK r \in Frames : r = th[t] /\ Where(r, h) /\ Control(r)
    BY <1>1, Parts
  <2>4. r.locks \in Seq(Locks) /\ th \in [Thread -> Frames]
    BY <1>1, Fields DEF Inv, Typed
  <2>5. \A i \in 1..Len(r.locks) : r.locks[i].id \in DOMAIN blocks
    BY <2>3 DEF LocksStored
  <2>6. CASE th'[t].locks = th[t].locks \/ th'[t].locks = <<>>
    BY SMTT(30), <2>3, <2>5, <2>6
  <2>7. CASE lock(t)
    <3>1. PICK kept, one : kept = Kept(r) /\ one = Lock(r.node_id, LockType(r))
      OBVIOUS
    <3>2. r.pc = "lock" /\ th'[t].locks = Append(kept, one)
      BY <2>3, <2>4, <2>7, <3>1 DEF lock, Update, Frames
    <3>3. one.id = r.node_id /\ r.node_id \in DOMAIN blocks
      BY <2>3, <3>1, <3>2 DEF Where, Known, Lock
    <3>4. kept \in Seq(Locks) /\ \A i \in 1..Len(kept) : kept[i].id \in DOMAIN blocks
      BY SMTT(30), <2>4, <2>5, <3>1 DEF Kept
    <3>5. \A i \in 1..Len(Append(kept, one)) : Append(kept, one)[i].id \in DOMAIN blocks
      <4>1. Len(kept) \in Nat /\ Len(Append(kept, one)) = Len(kept) + 1
        BY SMTT(30), <3>4
      <4>2. \A i \in 1..(Len(kept) + 1) :
                Append(kept, one)[i] = IF i = Len(kept) + 1 THEN one ELSE kept[i]
        BY SMTT(30), <3>4
      <4> QED BY SMTT(30), <3>3, <3>4, <4>1, <4>2
    <3> QED BY <3>2, <3>5
  <2>8. CASE release(t) /\ th[t].parents # <<>>
    <3>1. PICK L : L = Front(r.locks)
      OBVIOUS
    <3>2. r.pc = "write" /\ th'[t].locks = L
      BY <2>3, <2>4, <2>8, <3>1 DEF release, Update, Frames
    <3>3. Len(r.locks) = Len(r.parents) + 1 /\ Len(r.parents) \in Nat
      BY <2>3, <3>2, Fields DEF Control
    <3>4. r.locks # <<>>
      BY SMTT(30), <2>4, <3>3, SeqEmpty
    <3>5. Len(L) = Len(r.locks) - 1 /\ \A i \in 1..(Len(r.locks) - 1) : L[i] = r.locks[i]
      BY <2>4, <3>1, <3>4, FrontLast
    <3> QED BY SMTT(30), <2>5, <3>2, <3>3, <3>5
  <2> QED BY <2>1, <2>6, <2>7, <2>8
<1> QED BY <1>2, <1>3, <1>4 DEF Next

\* TypeCorrect: no node outgrows its block, no lock is taken at an address where
\* nothing is stored, and no block is written that was not allocated.
THEOREM TypeCorrect == Spec => []TypeOK
<1>1. Init => LocksStored
  <2> SUFFICES ASSUME Init PROVE LocksStored
    OBVIOUS
  <2>1. \A t \in Thread : th[t].locks = <<>>
    BY SMTT(30) DEF Init, Idle
  <2> QED BY SMTT(30), <2>1 DEF LocksStored
<1>2. IInv /\ LocksStored => TypeOK
  <2> SUFFICES ASSUME IInv, LocksStored PROVE TypeOK
    OBVIOUS
  <2>1. PICK h \in Heights : Inv(h)
    BY DEF IInv
  <2>2. Typed /\ Stored(h)
    BY <2>1 DEF Inv
  <2>3. \A a \in DOMAIN blocks : blocks[a].self = a /\ size(blocks[a]) <= CAPACITY
    BY <2>2, NodeCases DEF Stored
  <2>4. ASSUME NEW t \in Thread
        PROVE  /\ \A i \in DOMAIN th[t].locks : th[t].locks[i].id \in DOMAIN blocks
               /\ \A i \in DOMAIN th[t].writes : size(th[t].writes[i]) <= CAPACITY
               /\ th[t].answer \in Answers
    <3>1. th[t] \in Frames /\ Writing(th[t], h)
      BY <2>1, Parts
    <3>2. /\ th[t].locks \in Seq(Locks) /\ th[t].writes \in Seq(Node)
          /\ th[t].answer \in Answers
      BY <3>1, Fields
    <3>3. /\ DOMAIN th[t].locks = 1..Len(th[t].locks)
          /\ DOMAIN th[t].writes = 1..Len(th[t].writes)
      BY <3>2, SeqLength
    <3>4. \A i \in 1..Len(th[t].writes) : NodeOK(th[t].writes[i], h)
      BY <3>1 DEF Writing
    <3>5. \A i \in 1..Len(th[t].writes) : size(th[t].writes[i]) <= CAPACITY
      BY <3>4, NodeCases
    <3> QED BY <3>2, <3>3, <3>5 DEF LocksStored
  <2> QED BY <2>2, <2>3, <2>4 DEF TypeOK, Typed, Stored, Answers
<1> QED BY <1>1, <1>2, SpecIInv, LocksStoredKept, PTL DEF Spec

\* WritesExclusiveHolds: a block that others may know is written under its write
\* lock, unless an attempt started with a height that is not that of its root.
\* The level of an optimistic attempt is the height of the node it is at, and a
\* leaf is where that is 1.
THEOREM WritesExclusiveHolds == Spec => []WritesExclusive
<1>1. IInv => WritesExclusive
  <2> SUFFICES ASSUME IInv, ~mismatch, NEW t \in Thread, th[t].writes # <<>>
               PROVE  LET id == Head(th[t].writes).self
                      IN  Holds(t, id, WRITE) \/ id \notin DOMAIN blocks
    BY DEF WritesExclusive
  <2>1. PICK h \in Heights : Inv(h)
    BY DEF IInv
  <2>2. PICK r \in Frames : r = th[t]
    BY <2>1, Parts
  <2>3. PICK node : node = r.writes[1]
    OBVIOUS
  <2>4. WriteFacts(r, node, h) /\ r.pc = "write" /\ Head(th[t].writes) = node
    <3>1. Head(r.writes) = r.writes[1]
      BY SMTT(30), <2>2, Fields, SeqHeadTail
    <3> QED BY <2>1, <2>2, <2>3, <3>1, FirstWrite
  <2>5. CASE node.self # r.node_id
    BY <2>4, <2>5 DEF WriteFacts
  <2>6. CASE node.self = r.node_id
    <3>1. Control(r) /\ Where(r, h) /\ r.locks \in Seq(Locks) /\ Len(r.parents) \in Nat
      BY <2>1, <2>2, Parts, Fields
    <3>2. /\ Len(r.locks) = Len(r.parents) + 1
          /\ r.locks[Len(r.locks)] = Lock(r.node_id, LockType(r))
          /\ r.mode \in {"optimistic", "pessimistic"}
      BY <2>4, <3>1 DEF Control
    <3>3. LockType(r) = WRITE
      <4>1. CASE r.mode = "optimistic"
        <5>1. NodeOK(node, h) /\ node.type # INNER
          BY <2>4, <4>1 DEF WriteFacts
        <5>2. h[node.self] = 1
          BY <5>1, NodeCases
        <5>3. r.level = 1
          BY <2>4, <2>6, <3>1, <4>1, <5>2 DEF Where
        <5> QED BY <4>1, <5>3 DEF LockType
      <4>2. CASE r.mode = "pessimistic"
        BY <4>2 DEF LockType
      <4> QED BY <3>2, <4>1, <4>2
    <3>4. Len(r.locks) \in DOMAIN r.locks
      BY SMTT(30), <3>1, <3>2, SeqLength
    <3>5. Lock(node.self, WRITE) \in ToSet(r.locks)
      BY <2>6, <3>2, <3>3, <3>4 DEF ToSet
    <3> QED BY <2>2, <2>4, <3>5 DEF Holds
  <2> QED BY <2>5, <2>6
<1> QED BY <1>1, SpecIInv, PTL

\* CopiesFresh: nobody else changes the inner nodes of which a pessimistic
\* attempt has copies on its stack before it writes them back.
THEOREM CopiesFresh == Spec => []CopiesAreFresh
<1>1. IInv => CopiesAreFresh
  <2> SUFFICES ASSUME IInv, NEW t \in Thread, NEW i \in DOMAIN th[t].parents
               PROVE  LET copy == th[t].parents[i].node IN
                      /\ blocks[copy.self].children = copy.children
                      /\ Tail(blocks[copy.self].keys) = Tail(copy.keys)
    BY DEF CopiesAreFresh
  <2>1. PICK h \in Heights : Inv(h)
    BY DEF IInv
  <2>2. Path(th[t], h) /\ th[t].parents \in Seq(Steps)
    BY <2>1, Parts, Fields
  <2>3. i \in 1..Len(th[t].parents)
    BY <2>2, SeqLength
  <2> QED BY ZenonT(30), <2>2, <2>3 DEF Path, Copied
<1> QED BY <1>1, SpecIInv, PTL

\* OneAllocatorHolds: the write lock of the root, which a pessimistic attempt
\* keeps until no node above it can split any more, serialises allocate().
THEOREM OneAllocatorHolds == Spec => []OneAllocator
<1>1. IInv => OneAllocator
  <2> SUFFICES ASSUME IInv, NEW t \in Thread, NEW u \in Thread,
                      MayAllocate(t), MayAllocate(u)
               PROVE  t = u
    BY DEF OneAllocator
  <2>1. PICK h \in Heights : Inv(h)
    BY DEF IInv
  <2> QED BY <2>1, AllocatorAlone
<1> QED BY <1>1, SpecIInv, PTL

==============================================================================
