---------------------- MODULE ConcurrentBPlusTreeSteps -----------------------
(***************************************************************************)
(* What the proofs about the thread-based tree rest on, for every CAPACITY *)
(* and all keys, values and addresses.  First what the algorithms on one   *)
(* node return, preserve and bound, and what all steps of the threads have *)
(* in common.  Then the steps of searches and of optimistic insertions,    *)
(* and those that both kinds of insertion end with, keep the inductive     *)
(* invariant: calls, locks, the way down, the change of a leaf, the        *)
(* writes, the new root and the release of the locks.                      *)
(***************************************************************************)
EXTENDS ConcurrentBPlusTreeInv, TLAPS

\* Steps that name no prover are left to Zenon; SMTT marks what needs the SMT solver.
USE ZenonT(20)

-----------------------------------------------------------------------------
(* Sequences *)

\* The places of a sequence.
LEMMA SeqLength ==
    ASSUME NEW S, NEW s \in Seq(S)
    PROVE  Len(s) \in Nat /\ DOMAIN s = 1..Len(s)
BY SMTT(30)

\* What is at a place.
LEMMA SeqElement ==
    ASSUME NEW S, NEW s \in Seq(S), NEW i \in 1..Len(s)
    PROVE  s[i] \in S
BY SMTT(30)

\* The empty sequence is the one of length 0.
LEMMA SeqEmpty ==
    ASSUME NEW S
    PROVE  /\ <<>> \in Seq(S) /\ Len(<<>>) = 0
           /\ \A s \in Seq(S) : s # <<>> => Len(s) \in Nat \ {0}
BY SMTT(30)

\* A sequence with one element more.
LEMMA SeqAppend ==
    ASSUME NEW S, NEW s \in Seq(S), NEW e \in S
    PROVE  /\ Append(s, e) \in Seq(S) /\ Append(s, e) # <<>>
           /\ Len(Append(s, e)) = Len(s) + 1
           /\ \A i \in 1..Len(s) : Append(s, e)[i] = s[i]
           /\ Append(s, e)[Len(s) + 1] = e
BY SMTT(30)

\* The first element, and the sequence without it.
LEMMA SeqHeadTail ==
    ASSUME NEW S, NEW s \in Seq(S), s # <<>>
    PROVE  /\ Head(s) \in S /\ Tail(s) \in Seq(S)
           /\ Len(Tail(s)) = Len(s) - 1
           /\ \A i \in 1..Len(Tail(s)) : Tail(s)[i] = s[i + 1]
BY SMTT(30)

\* A part of a sequence; it is empty when it ends before it begins.
LEMMA SeqPart ==
    ASSUME NEW S, NEW s, NEW m \in Int, NEW n \in Int, \A i \in m..n : s[i] \in S
    PROVE  /\ SubSeq(s, m, n) \in Seq(S)
           /\ Len(SubSeq(s, m, n)) = IF m <= n THEN n - m + 1 ELSE 0
           /\ \A i \in 1..(n - m + 1) : SubSeq(s, m, n)[i] = s[m + i - 1]
BY SMTT(30)

\* One sequence behind another.
LEMMA SeqConcat ==
    ASSUME NEW S, NEW s \in Seq(S), NEW t \in Seq(S)
    PROVE  /\ s \o t \in Seq(S) /\ Len(s \o t) = Len(s) + Len(t)
           /\ \A i \in 1..(Len(s) + Len(t)) :
                 (s \o t)[i] = IF i <= Len(s) THEN s[i] ELSE t[i - Len(s)]
BY SMTT(30)

\* A sequence with another element in one place.
LEMMA SeqReplace ==
    ASSUME NEW S, NEW s \in Seq(S), NEW i \in 1..Len(s), NEW e \in S
    PROVE  /\ [s EXCEPT ![i] = e] \in Seq(S)
           /\ Len([s EXCEPT ![i] = e]) = Len(s)
           /\ \A j \in 1..Len(s) : [s EXCEPT ![i] = e][j] = IF j = i THEN e ELSE s[j]
BY SMTT(30)

\* Sequences with the same elements in the same places.
LEMMA SeqSame ==
    ASSUME NEW S, NEW s \in Seq(S), NEW t \in Seq(S),
           Len(s) = Len(t), \A i \in 1..Len(s) : s[i] = t[i]
    PROVE  s = t
BY SMTT(30)

\* An element is inserted at a place of the sequence, or behind its end.
LEMMA InsertAtDef ==
    ASSUME NEW S, NEW s \in Seq(S), NEW i \in 1..(Len(s) + 1), NEW e \in S
    PROVE  /\ InsertAt(s, i, e) \in Seq(S)
           /\ Len(InsertAt(s, i, e)) = Len(s) + 1
           /\ \A j \in 1..(Len(s) + 1) :
                 InsertAt(s, i, e)[j] = IF j < i THEN s[j]
                                        ELSE IF j = i THEN e ELSE s[j - 1]
           /\ \A j \in 1..(Len(s) + 1) :
                 InsertAt(s, i, e)[j] = e \/ \E k \in 1..Len(s) : InsertAt(s, i, e)[j] = s[k]
<1> DEFINE a == SubSeq(s, 1, i - 1)
           b == SubSeq(s, i, Len(s))
<1>1. /\ a \in Seq(S) /\ Len(a) = i - 1
      /\ \A j \in 1..(i - 1) : a[j] = s[j]
  <2>1. \A j \in 1..(i - 1) : s[j] \in S
    BY SMTT(30), SeqLength, SeqElement
  <2> QED BY SMTT(30), <2>1, SeqPart, SeqLength
<1>2. /\ b \in Seq(S) /\ Len(b) = Len(s) - i + 1
      /\ \A j \in 1..(Len(s) - i + 1) : b[j] = s[i + j - 1]
  <2>1. \A j \in i..Len(s) : s[j] \in S
    BY SMTT(30), SeqLength, SeqElement
  <2> QED BY SMTT(30), <2>1, SeqPart, SeqLength
<1>3. <<e>> \in Seq(S) /\ Len(<<e>>) = 1 /\ <<e>>[1] = e
  BY SMTT(30)
<1> HIDE DEF a, b
<1>4. /\ a \o <<e>> \in Seq(S)
      /\ Len(a \o <<e>>) = i
      /\ \A j \in 1..i : (a \o <<e>>)[j] = IF j < i THEN s[j] ELSE e
  BY SMTT(30), <1>1, <1>3, SeqConcat, SeqLength
<1>5. /\ (a \o <<e>>) \o b \in Seq(S)
      /\ Len((a \o <<e>>) \o b) = Len(s) + 1
      /\ \A j \in 1..(Len(s) + 1) :
            ((a \o <<e>>) \o b)[j] = IF j < i THEN s[j] ELSE IF j = i THEN e ELSE s[j - 1]
  <2> DEFINE c == a \o <<e>>
  <2>1. /\ c \in Seq(S) /\ Len(c) = i
        /\ \A j \in 1..i : c[j] = IF j < i THEN s[j] ELSE e
    BY <1>4
  <2> HIDE DEF c
  <2>2. /\ c \o b \in Seq(S)
        /\ Len(c \o b) = Len(s) + 1
        /\ \A j \in 1..(Len(c) + Len(b)) : (c \o b)[j] = IF j <= Len(c) THEN c[j] ELSE b[j - Len(c)]
    <3>1. Len(s) \in Nat /\ Len(c) + Len(b) = Len(s) + 1
      BY SMTT(30), <1>2, <2>1, SeqLength
    <3>2. /\ c \o b \in Seq(S)
          /\ Len(c \o b) = Len(c) + Len(b)
          /\ \A j \in 1..(Len(c) + Len(b)) :
                (c \o b)[j] = IF j <= Len(c) THEN c[j] ELSE b[j - Len(c)]
      BY <1>2, <2>1, SeqConcat
    <3> QED BY <3>1, <3>2
  <2>3. ASSUME NEW j \in 1..(Len(s) + 1)
        PROVE  (c \o b)[j] = IF j < i THEN s[j] ELSE IF j = i THEN e ELSE s[j - 1]
    <3>1. j \in 1..(Len(c) + Len(b)) /\ Len(s) \in Nat
      BY SMTT(30), <1>2, <2>1, SeqLength
    <3>2. CASE j <= i
      BY SMTT(30), <3>1, <3>2, <2>1, <2>2
    <3>3. CASE j > i
      <4>1. j - i \in 1..(Len(s) - i + 1) /\ i + (j - i) - 1 = j - 1
        BY SMTT(30), <3>1, <3>3
      <4>2. b[j - i] = s[j - 1]
        BY <1>2, <4>1
      <4> QED BY SMTT(30), <3>1, <3>3, <4>2, <2>1, <2>2
    <3> QED BY SMTT(30), <3>1, <3>2, <3>3
  <2> QED BY <2>2, <2>3 DEF c
<1>6. InsertAt(s, i, e) = (a \o <<e>>) \o b
  BY DEF InsertAt, a, b
<1>7. ASSUME NEW j \in 1..(Len(s) + 1)
      PROVE  InsertAt(s, i, e)[j] = e \/ \E k \in 1..Len(s) : InsertAt(s, i, e)[j] = s[k]
  <2>1. Len(s) \in Nat
    BY SeqLength
  <2>2. CASE j < i
    <3>1. j \in 1..Len(s)
      BY SMTT(30), <2>1, <2>2
    <3>2. InsertAt(s, i, e)[j] = s[j]
      BY <2>2, <1>5, <1>6
    <3> QED BY <3>1, <3>2
  <2>3. CASE j = i
    BY SMTT(30), <2>1, <2>3, <1>5, <1>6
  <2>4. CASE j > i
    <3>1. j - 1 \in 1..Len(s) /\ ~(j < i) /\ j # i
      BY SMTT(30), <2>1, <2>4
    <3>2. InsertAt(s, i, e)[j] = s[j - 1]
      BY <3>1, <1>5, <1>6
    <3> QED BY <3>1, <3>2
  <2> QED BY SMTT(30), <2>1, <2>2, <2>3, <2>4
<1> QED BY <1>5, <1>6, <1>7

\* A sequence that is not empty without its last element, and that element.
LEMMA FrontLast ==
    ASSUME NEW S, NEW s \in Seq(S), s # <<>>
    PROVE  /\ Front(s) \in Seq(S)
           /\ Len(s) \in Nat \ {0}
           /\ Len(Front(s)) = Len(s) - 1
           /\ \A i \in 1..(Len(s) - 1) : Front(s)[i] = s[i]
           /\ Last(s) \in S
           /\ Last(s) = s[Len(s)]
<1>1. Len(s) \in Nat \ {0}
  BY SeqEmpty
<1>2. \A j \in 1..(Len(s) - 1) : s[j] \in S
  BY SMTT(30), <1>1, SeqElement
<1>3. Len(s) \in 1..Len(s)
  BY SMTT(30), <1>1
<1>4. Last(s) \in S
  BY <1>3, SeqElement DEF Last
<1>5. /\ Front(s) \in Seq(S)
      /\ Len(Front(s)) = Len(s) - 1
      /\ \A i \in 1..(Len(s) - 1) : Front(s)[i] = s[i]
  <2> DEFINE n == Len(s) - 1
  <2>1. n \in Nat /\ \A j \in 1..n : s[j] \in S
    BY SMTT(30), <1>1, <1>2
  <2> HIDE DEF n
  <2>2. /\ SubSeq(s, 1, n) \in Seq(S)
        /\ Len(SubSeq(s, 1, n)) = n
        /\ \A i \in 1..n : SubSeq(s, 1, n)[i] = s[i]
    BY SMTT(30), <2>1, SeqPart
  <2> QED BY <2>2 DEF n, Front
<1> QED BY <1>1, <1>4, <1>5 DEF Last

-----------------------------------------------------------------------------
(* Leaves *)

\* search_key_position is a place in the leaf when the key is there, and else a
\* place in it or right behind it.
LEMMA KeyPosition ==
    ASSUME PlacesCount, NEW A, NEW K \in SUBSET Int, NEW V, NEW leaf \in LeafNodes(A, K, V), NEW key \in K
    PROVE  /\ search_key_position(leaf, key) \in 0..Len(leaf.entries)
           /\ found(leaf, key) => search_key_position(leaf, key) < Len(leaf.entries)
<1> DEFINE T == {i \in DOMAIN leaf.entries : leaf.entries[i].key < key}
<1>1. /\ leaf.entries \in Seq([key : K, val : V])
      /\ Len(leaf.entries) \in Nat /\ DOMAIN leaf.entries = 1..Len(leaf.entries)
  BY SeqLength DEF LeafNodes
<1>2. T \in SUBSET (1..Len(leaf.entries))
  BY <1>1
<1>3. ASSUME found(leaf, key) PROVE T # 1..Len(leaf.entries)
  <2>1. PICK i \in DOMAIN leaf.entries : leaf.entries[i].key = key
    BY <1>3 DEF found
  <2>2. i \notin T /\ i \in 1..Len(leaf.entries)
    BY SMTT(30), <2>1, <1>1
  <2> QED BY <2>2
<1> HIDE DEF T
<1>4. Cardinality(T) \in 0..Len(leaf.entries) /\ (T # 1..Len(leaf.entries) => Cardinality(T) < Len(leaf.entries))
  BY <1>1, <1>2 DEF PlacesCount
<1>5. search_key_position(leaf, key) = Cardinality(T)
  BY DEF search_key_position, T
<1> QED BY <1>3, <1>4, <1>5

\* LeafNode::insert yields a leaf in the same place, with one entry more when
\* the key is new.
LEMMA LeafInsert ==
    ASSUME PlacesCount, NEW A, NEW K \in SUBSET Int, NEW V,
           NEW leaf \in LeafNodes(A, K, V), NEW key \in K, NEW val \in V
    PROVE  /\ leaf_insert(leaf, key, val) \in LeafNodes(A, K, V)
           /\ leaf_insert(leaf, key, val).self = leaf.self
           /\ leaf_insert(leaf, key, val).right = leaf.right
           /\ Len(leaf_insert(leaf, key, val).entries) =
                 IF found(leaf, key) THEN Len(leaf.entries) ELSE Len(leaf.entries) + 1
<1> DEFINE n     == search_key_position(leaf, key) + 1
           entry == [key |-> key, val |-> val]
           after == IF found(leaf, key) THEN ReplaceAt(leaf.entries, n, entry)
                    ELSE InsertAt(leaf.entries, n, entry)
           E     == [key : K, val : V]
<1>1. leaf.entries \in Seq(E) /\ Len(leaf.entries) \in Nat /\ entry \in E
  BY SeqLength DEF LeafNodes
<1>2. n \in 1..(Len(leaf.entries) + 1) /\ (found(leaf, key) => n \in 1..Len(leaf.entries))
  BY SMTT(30), <1>1, KeyPosition
<1>3. leaf_insert(leaf, key, val) = [leaf EXCEPT !.entries = after]
  BY DEF leaf_insert
<1> HIDE DEF n, entry, E
<1>4. after \in Seq(E)
      /\ Len(after) = IF found(leaf, key) THEN Len(leaf.entries) ELSE Len(leaf.entries) + 1
  <2>1. CASE found(leaf, key)
    <3>1. after = [leaf.entries EXCEPT ![n] = entry]
      BY <2>1 DEF ReplaceAt
    <3>2. n \in 1..Len(leaf.entries)
      BY <2>1, <1>2
    <3>3. [leaf.entries EXCEPT ![n] = entry] \in Seq(E)
          /\ Len([leaf.entries EXCEPT ![n] = entry]) = Len(leaf.entries)
      BY SMTT(30), <1>1, <3>2, SeqReplace
    <3> QED BY <2>1, <3>1, <3>3
  <2>2. CASE ~found(leaf, key)
    BY SMTT(30), <2>2, <1>1, <1>2, InsertAtDef
  <2> QED BY <2>1, <2>2
<1> HIDE DEF after
<1> QED BY <1>3, <1>4 DEF LeafNodes, E

\* LeafNode::search answers with a stored value or the default.
LEMMA LeafSearch ==
    ASSUME PlacesCount, NEW A, NEW K \in SUBSET Int, NEW V, NEW leaf \in LeafNodes(A, K, V),
           NEW key \in K, NEW absent
    PROVE  leaf_search(leaf, key, absent) \in V \cup {absent}
<1>1. leaf.entries \in Seq([key : K, val : V]) /\ Len(leaf.entries) \in Nat
  BY SeqLength DEF LeafNodes
<1>2. CASE found(leaf, key)
  <2>1. search_key_position(leaf, key) + 1 \in 1..Len(leaf.entries)
    BY SMTT(30), <1>1, <1>2, KeyPosition
  <2>2. leaf.entries[search_key_position(leaf, key) + 1] \in [key : K, val : V]
    BY <1>1, <2>1, SeqElement
  <2> QED BY <1>2, <2>2 DEF leaf_search
<1>3. CASE ~found(leaf, key)
  BY <1>3 DEF leaf_search
<1> QED BY <1>2, <1>3

\* HalfCapacity leaves entries in both halves and room in both.
LEMMA Halves ==
    /\ HalfCapacity \in Nat /\ CAPACITY \in Nat
    /\ 1 <= HalfCapacity /\ HalfCapacity + 1 <= CAPACITY
    /\ CAPACITY - HalfCapacity + 1 <= CAPACITY
BY SMTT(30), CapacityAssumption DEF HalfCapacity

\* A part of a sequence.
LEMMA Part ==
    ASSUME NEW S, NEW s \in Seq(S), NEW m \in Nat \ {0}, NEW n \in Nat, n <= Len(s), m <= n
    PROVE  /\ SubSeq(s, m, n) \in Seq(S)
           /\ Len(SubSeq(s, m, n)) = n - m + 1
           /\ \A i \in 1..(n - m + 1) : SubSeq(s, m, n)[i] = s[m + i - 1]
<1>1. \A i \in m..n : s[i] \in S
  BY SMTT(30), SeqElement, SeqLength
<1> QED BY SMTT(30), <1>1, SeqPart

\* The split of a full leaf yields two leaves that are neither empty nor too
\* large, the old one in its place and the new one at the new address.
LEMMA LeafSplit ==
    ASSUME PlacesCount, NEW A, NEW K \in SUBSET Int, NEW V,
           NEW leaf \in LeafNodes(A, K, V), NEW key \in K, NEW val \in V, NEW right_ref \in A,
           Len(leaf.entries) = CAPACITY,
           NEW s, s = leaf_split(leaf, key, val, right_ref)
    PROVE  /\ s \in [left : LeafNodes(A, K, V), right : LeafNodes(A, K, V), boundary : K]
           /\ s.left.self = leaf.self /\ s.right.self = right_ref
           /\ s.left.right = right_ref /\ s.right.right = leaf.right
           /\ Len(s.left.entries) \in 1..CAPACITY
           /\ Len(s.right.entries) \in 1..CAPACITY
<1> DEFINE E     == [key : K, val : V]
           es1   == SubSeq(leaf.entries, 1, HalfCapacity)
           es2   == SubSeq(leaf.entries, HalfCapacity + 1, CAPACITY)
           left  == Leaf(leaf.self, es1, right_ref)
           right == Leaf(right_ref, es2, leaf.right)
           first == search_key_position(leaf, key) < HalfCapacity
           left2  == IF first THEN leaf_insert(left, key, val) ELSE left
           right2 == IF first THEN right ELSE leaf_insert(right, key, val)
<1>1. leaf.entries \in Seq(E)
  BY DEF LeafNodes
<1> HIDE DEF E
<1>2. es1 \in Seq(E) /\ Len(es1) = HalfCapacity
  <2>1. /\ 1 \in Nat \ {0} /\ HalfCapacity \in Nat
        /\ HalfCapacity <= Len(leaf.entries) /\ 1 <= HalfCapacity
    BY SMTT(30), Halves
  <2>2. es1 \in Seq(E) /\ Len(es1) = HalfCapacity - 1 + 1
    BY SMTT(30), <1>1, <2>1, Part
  <2> QED BY SMTT(30), <2>1, <2>2
<1>3. es2 \in Seq(E) /\ Len(es2) = CAPACITY - HalfCapacity
  <2>1. /\ HalfCapacity + 1 \in Nat \ {0} /\ CAPACITY \in Nat
        /\ CAPACITY <= Len(leaf.entries) /\ HalfCapacity + 1 <= CAPACITY
    BY SMTT(30), Halves
  <2>2. es2 \in Seq(E) /\ Len(es2) = CAPACITY - (HalfCapacity + 1) + 1
    BY SMTT(30), <1>1, <2>1, Part
  <2> QED BY SMTT(30), <2>1, <2>2, Halves
<1> HIDE DEF es1, es2
<1>4. /\ left \in LeafNodes(A, K, V) /\ left.self = leaf.self /\ left.right = right_ref
      /\ Len(left.entries) = HalfCapacity
  BY <1>2 DEF Leaf, LeafNodes, E
<1>5. /\ right \in LeafNodes(A, K, V) /\ right.self = right_ref /\ right.right = leaf.right
      /\ Len(right.entries) = CAPACITY - HalfCapacity
  BY <1>3 DEF Leaf, LeafNodes, E
<1>6. s = [left |-> left2, right |-> right2, boundary |-> right2.entries[1].key]
  BY DEF leaf_split, es1, es2
<1> HIDE DEF left, right, first
<1>7. /\ left2 \in LeafNodes(A, K, V) /\ left2.self = leaf.self /\ left2.right = right_ref
      /\ Len(left2.entries) \in 1..CAPACITY
  <2>1. CASE first
    <3>1. /\ leaf_insert(left, key, val) \in LeafNodes(A, K, V)
          /\ leaf_insert(left, key, val).self = leaf.self
          /\ leaf_insert(left, key, val).right = right_ref
          /\ Len(leaf_insert(left, key, val).entries) \in {HalfCapacity, HalfCapacity + 1}
      BY SMTT(30), <1>4, LeafInsert
    <3> QED BY SMTT(30), <2>1, <3>1, Halves
  <2>2. CASE ~first
    BY SMTT(30), <2>2, <1>4, Halves
  <2> QED BY <2>1, <2>2
<1>8. /\ right2 \in LeafNodes(A, K, V) /\ right2.self = right_ref /\ right2.right = leaf.right
      /\ Len(right2.entries) \in 1..CAPACITY
  <2>1. CASE ~first
    <3>1. /\ leaf_insert(right, key, val) \in LeafNodes(A, K, V)
          /\ leaf_insert(right, key, val).self = right_ref
          /\ leaf_insert(right, key, val).right = leaf.right
          /\ Len(leaf_insert(right, key, val).entries)
                \in {CAPACITY - HalfCapacity, CAPACITY - HalfCapacity + 1}
      BY SMTT(30), <1>5, LeafInsert
    <3> QED BY SMTT(30), <2>1, <3>1, Halves
  <2>2. CASE first
    BY SMTT(30), <2>2, <1>5, Halves
  <2> QED BY <2>1, <2>2
<1> HIDE DEF left2, right2
<1>9. right2.entries[1].key \in K
  <2>1. right2.entries \in Seq(E) /\ 1 \in 1..Len(right2.entries)
    BY SMTT(30), <1>8, Halves DEF LeafNodes, E
  <2>2. right2.entries[1] \in E
    BY <2>1, SeqElement
  <2> QED BY <2>2 DEF E
<1>10. QED BY SMTT(30), <1>6, <1>7, <1>8, <1>9

-----------------------------------------------------------------------------
(* Inner nodes *)

\* locate_child_index is the index of a child, or 0.
LEMMA ChildIndex ==
    ASSUME PlacesCount, NEW A, NEW K, NEW inner \in InnerNodes(A, K), NEW key
    PROVE  locate_child_index(inner, key) \in 0..Len(inner.keys)
<1>1. Len(inner.keys) \in Nat /\ DOMAIN inner.keys = 1..Len(inner.keys)
  BY SeqLength DEF InnerNodes
<1>2. {i \in DOMAIN inner.keys : inner.keys[i] <= key} \in SUBSET (1..Len(inner.keys))
  BY <1>1
<1> QED BY <1>1, <1>2 DEF PlacesCount, locate_child_index

\* Lowering key_[0] changes no other key and no child.
LEMMA LowerBoundary ==
    ASSUME NEW A, NEW K, NEW inner \in InnerNodes(A, K), NEW key \in K
    PROVE  /\ lower_boundary(inner, key) \in InnerNodes(A, K)
           /\ lower_boundary(inner, key).self = inner.self
           /\ lower_boundary(inner, key).children = inner.children
           /\ Len(lower_boundary(inner, key).keys) = Len(inner.keys)
           /\ Tail(lower_boundary(inner, key).keys) = Tail(inner.keys)
<1> DEFINE ks == IF inner.keys = <<>> THEN inner.keys ELSE ReplaceAt(inner.keys, 1, key)
<1>1. inner.keys \in Seq(K) /\ Len(inner.keys) \in Nat
  BY SeqLength DEF InnerNodes
<1>2. lower_boundary(inner, key) = [inner EXCEPT !.keys = ks]
  BY DEF lower_boundary
<1>3. ks \in Seq(K) /\ Len(ks) = Len(inner.keys) /\ Tail(ks) = Tail(inner.keys)
  <2>1. CASE inner.keys = <<>>
    BY <1>1, <2>1
  <2>2. CASE inner.keys # <<>>
    <3>1. 1 \in 1..Len(inner.keys)
      BY SMTT(30), <1>1, <2>2, SeqEmpty
    <3>2. /\ ks \in Seq(K) /\ Len(ks) = Len(inner.keys)
          /\ \A j \in 1..Len(inner.keys) : ks[j] = IF j = 1 THEN key ELSE inner.keys[j]
      BY SMTT(30), <2>2, <3>1, <1>1, SeqReplace DEF ReplaceAt
    <3> HIDE DEF ks
    <3>3. ks # <<>>
      BY SMTT(30), <3>1, <3>2
    <3>4. /\ Tail(ks) \in Seq(K) /\ Len(Tail(ks)) = Len(ks) - 1
          /\ \A i \in 1..Len(Tail(ks)) : Tail(ks)[i] = ks[i + 1]
      BY <3>2, <3>3, SeqHeadTail
    <3>5. /\ Tail(inner.keys) \in Seq(K) /\ Len(Tail(inner.keys)) = Len(inner.keys) - 1
          /\ \A i \in 1..Len(Tail(inner.keys)) : Tail(inner.keys)[i] = inner.keys[i + 1]
      BY <1>1, <2>2, SeqHeadTail
    <3>6. \A i \in 1..Len(Tail(ks)) : Tail(ks)[i] = Tail(inner.keys)[i]
      BY SMTT(30), <1>1, <3>1, <3>2, <3>4, <3>5
    <3>7. Tail(ks) = Tail(inner.keys)
      BY SMTT(30), <3>2, <3>4, <3>5, <3>6, SeqSame
    <3> QED BY <3>2, <3>7
  <2> QED BY <2>1, <2>2
<1> HIDE DEF ks
<1> QED BY <1>2, <1>3 DEF InnerNodes

\* A child and its boundary are inserted together.
LEMMA InsertInner ==
    ASSUME NEW A, NEW K, NEW inner \in InnerNodes(A, K), NEW child \in A, NEW key \in K,
           NEW position \in 1..(Len(inner.keys) + 1),
           Len(inner.keys) = Len(inner.children),
           NEW S, ChildrenIn(inner, S), child \in S,
           NEW n, n = insert_inner_node(inner, child, key, position)
    PROVE  Grown(n, inner, A, K, S)
<1> DEFINE ks0 == inner.keys
           cs0 == inner.children
           ks == InsertAt(ks0, position, key)
           cs == InsertAt(cs0, position, child)
<1>1. /\ ks0 \in Seq(K) /\ cs0 \in Seq(A) /\ Len(ks0) = Len(cs0)
      /\ position \in 1..(Len(ks0) + 1) /\ position \in 1..(Len(cs0) + 1)
      /\ DOMAIN cs0 = 1..Len(cs0) /\ Len(cs0) \in Nat
  BY SeqLength DEF InnerNodes
<1>2. n = [inner EXCEPT !.keys = ks, !.children = cs]
  BY DEF insert_inner_node
<1> HIDE DEF ks0, cs0
<1>3. ks \in Seq(K) /\ Len(ks) = Len(ks0) + 1
  <2>1. ks0 \in Seq(K) /\ position \in 1..(Len(ks0) + 1)
    BY <1>1
  <2> QED BY SMTT(30), <2>1, InsertAtDef
<1>4. /\ cs \in Seq(A) /\ Len(cs) = Len(cs0) + 1
      /\ \A j \in 1..(Len(cs0) + 1) : cs[j] = child \/ \E k \in 1..Len(cs0) : cs[j] = cs0[k]
  <2>1. cs0 \in Seq(A) /\ position \in 1..(Len(cs0) + 1)
    BY <1>1
  <2> QED BY SMTT(30), <2>1, InsertAtDef
<1> HIDE DEF ks, cs
<1>6. n \in InnerNodes(A, K) /\ n.self = inner.self /\ n.keys = ks /\ n.children = cs
  BY <1>2, <1>3, <1>4 DEF InnerNodes
<1>7. DOMAIN cs = 1..(Len(cs0) + 1)
  BY <1>4, SeqLength
<1>8. ToSet(cs) \subseteq ToSet(cs0) \cup {child}
  BY <1>1, <1>4, <1>7 DEF ToSet
<1>9. ChildrenIn(n, S)
  BY <1>6, <1>8 DEF ChildrenIn, cs0
<1> QED BY <1>1, <1>3, <1>4, <1>6, <1>9 DEF ks0, cs0, Grown

\* A half of an inner node that is split: it may have to take the new child.
LEMMA InnerHalf ==
    ASSUME PlacesCount, NEW A, NEW K, NEW n \in InnerNodes(A, K), NEW S, ChildrenIn(n, S),
           Len(n.keys) = Len(n.children), Len(n.keys) \in 1..(CAPACITY - 1),
           NEW child \in A, child \in S, NEW key \in K, NEW takes \in BOOLEAN, NEW h,
           h = IF takes
               THEN insert_inner_node(n, child, key, locate_child_index(n, key) + 1)
               ELSE n
    PROVE  /\ h \in InnerNodes(A, K) /\ h.self = n.self
           /\ Paired(h) /\ Len(h.keys) <= CAPACITY
           /\ ChildrenIn(h, S)
<1> DEFINE p == locate_child_index(n, key) + 1
<1>1. Len(n.keys) \in Nat /\ CAPACITY \in Nat
  BY SeqLength, CapacityAssumption DEF InnerNodes
<1>2. p \in 1..(Len(n.keys) + 1)
  BY SMTT(30), <1>1, ChildIndex
<1>3. h = IF takes THEN insert_inner_node(n, child, key, p) ELSE n
  OBVIOUS
<1> HIDE DEF p
<1>4. CASE takes
  <2>1. h = insert_inner_node(n, child, key, p)
    BY <1>3, <1>4
  <2>2. Grown(h, n, A, K, S)
    BY <1>2, <2>1, InsertInner
  <2> QED BY SMTT(30), <1>1, <2>2 DEF Grown, Paired
<1>5. CASE ~takes
  BY SMTT(30), <1>1, <1>5 DEF Paired
<1> QED BY <1>4, <1>5

\* The split of a full inner node yields two inner nodes that are neither empty
\* nor too large; the children of the node and the new child are distributed.
LEMMA InnerSplit ==
    ASSUME PlacesCount, NEW A, NEW K, NEW inner \in InnerNodes(A, K), NEW position \in Int,
           NEW split, split.right.self \in A, split.boundary \in K, NEW right_ref \in A,
           Len(inner.keys) = CAPACITY, Len(inner.children) = CAPACITY,
           NEW S, ChildrenIn(inner, S), split.right.self \in S,
           NEW s, s = inner_split(inner, position, split, right_ref)
    PROVE  Halved(s, inner.self, right_ref, A, K, S)
<1> DEFINE ks1 == SubSeq(inner.keys, 1, HalfCapacity)
           cs1 == SubSeq(inner.children, 1, HalfCapacity)
           ks2 == SubSeq(inner.keys, HalfCapacity + 1, size(inner))
           cs2 == SubSeq(inner.children, HalfCapacity + 1, size(inner))
           left  == Inner(inner.self, ks1, cs1)
           right == Inner(right_ref, ks2, cs2)
           child == split.right.self
           key   == split.boundary
           Host(n) == insert_inner_node(n, child, key, locate_child_index(n, key) + 1)
           first  == position - 1 < HalfCapacity
           left2  == IF first THEN Host(left) ELSE left
           second == ~first
           right2 == IF second THEN Host(right) ELSE right
<1>1. /\ inner.keys \in Seq(K) /\ inner.children \in Seq(A)
      /\ DOMAIN inner.children = 1..CAPACITY /\ size(inner) = CAPACITY
  BY SeqLength DEF InnerNodes, size, LEAF, INNER
<1>2. /\ 1 \in Nat \ {0} /\ HalfCapacity \in Nat /\ HalfCapacity <= CAPACITY
      /\ 1 <= HalfCapacity
      /\ HalfCapacity + 1 \in Nat \ {0} /\ CAPACITY \in Nat /\ CAPACITY <= CAPACITY
      /\ HalfCapacity + 1 <= CAPACITY
  BY SMTT(30), Halves
<1>3. /\ ks1 \in Seq(K) /\ Len(ks1) = HalfCapacity - 1 + 1
      /\ cs1 \in Seq(A) /\ Len(cs1) = HalfCapacity - 1 + 1
      /\ \A i \in 1..(HalfCapacity - 1 + 1) : cs1[i] = inner.children[1 + i - 1]
  BY SMTT(30), <1>1, <1>2, Part
<1>4. /\ ks2 \in Seq(K) /\ Len(ks2) = CAPACITY - (HalfCapacity + 1) + 1
      /\ cs2 \in Seq(A) /\ Len(cs2) = CAPACITY - (HalfCapacity + 1) + 1
      /\ \A i \in 1..(CAPACITY - (HalfCapacity + 1) + 1) :
            cs2[i] = inner.children[HalfCapacity + 1 + i - 1]
  BY SMTT(30), <1>1, <1>2, Part
<1>5. s = [left |-> left2, right |-> right2, boundary |-> right2.keys[1]]
  BY DEF inner_split
<1>6. child \in A /\ child \in S /\ key \in K /\ first \in BOOLEAN /\ second \in BOOLEAN
  BY SMTT(30)
<1> HIDE DEF ks1, ks2, cs1, cs2
<1>7. /\ Len(ks1) = HalfCapacity /\ Len(cs1) = HalfCapacity
      /\ ToSet(cs1) \subseteq S
  <2>1. Len(ks1) = HalfCapacity /\ Len(cs1) = HalfCapacity
    BY SMTT(30), <1>2, <1>3
  <2>2. DOMAIN cs1 = 1..HalfCapacity
    BY <1>3, <2>1, SeqLength
  <2>3. \A i \in 1..HalfCapacity : i \in 1..CAPACITY /\ cs1[i] = inner.children[i]
    BY SMTT(30), <1>2, <1>3
  <2> QED BY <1>1, <2>1, <2>2, <2>3 DEF ToSet, ChildrenIn
<1>8. /\ Len(ks2) = CAPACITY - HalfCapacity /\ Len(cs2) = CAPACITY - HalfCapacity
      /\ ToSet(cs2) \subseteq S
  <2>1. Len(ks2) = CAPACITY - HalfCapacity /\ Len(cs2) = CAPACITY - HalfCapacity
    BY SMTT(30), <1>2, <1>4
  <2>2. DOMAIN cs2 = 1..(CAPACITY - HalfCapacity)
    BY <1>4, <2>1, SeqLength
  <2>3. \A i \in 1..(CAPACITY - HalfCapacity) :
           HalfCapacity + i \in 1..CAPACITY /\ cs2[i] = inner.children[HalfCapacity + i]
    BY SMTT(30), <1>2, <1>4
  <2> QED BY <1>1, <2>1, <2>2, <2>3 DEF ToSet, ChildrenIn
<1>9. /\ left \in InnerNodes(A, K) /\ left.self = inner.self
      /\ left.keys = ks1 /\ left.children = cs1
  BY <1>3 DEF Inner, InnerNodes
<1>10. /\ right \in InnerNodes(A, K) /\ right.self = right_ref
       /\ right.keys = ks2 /\ right.children = cs2
  BY <1>4 DEF Inner, InnerNodes
<1> HIDE DEF left, right, first, second, child, key
<1>11. /\ Len(left.keys) = Len(left.children) /\ Len(left.keys) \in 1..(CAPACITY - 1)
       /\ ChildrenIn(left, S)
  BY SMTT(30), <1>2, <1>7, <1>9 DEF ChildrenIn
<1>12. /\ Len(right.keys) = Len(right.children) /\ Len(right.keys) \in 1..(CAPACITY - 1)
       /\ ChildrenIn(right, S)
  BY SMTT(30), <1>2, <1>8, <1>10 DEF ChildrenIn
<1>13. left2 = IF first THEN insert_inner_node(left, child, key, locate_child_index(left, key) + 1)
               ELSE left
  OBVIOUS
<1>14. right2 = IF second
                THEN insert_inner_node(right, child, key, locate_child_index(right, key) + 1)
                ELSE right
  OBVIOUS
<1> HIDE DEF left2, right2, Host
<1>15. /\ left2 \in InnerNodes(A, K) /\ left2.self = left.self
       /\ Paired(left2) /\ Len(left2.keys) <= CAPACITY /\ ChildrenIn(left2, S)
  BY SMTT(30), <1>6, <1>9, <1>11, <1>13, InnerHalf
<1>16. /\ right2 \in InnerNodes(A, K) /\ right2.self = right.self
       /\ Paired(right2) /\ Len(right2.keys) <= CAPACITY /\ ChildrenIn(right2, S)
  BY SMTT(30), <1>6, <1>10, <1>12, <1>14, InnerHalf
<1>17. right2.keys[1] \in K
  <2>1. right2.keys \in Seq(K) /\ 1 \in 1..Len(right2.keys)
    BY SMTT(30), <1>16, SeqLength DEF Paired, InnerNodes
  <2> QED BY <2>1, SeqElement
<1> QED BY SMTT(30), <1>5, <1>9, <1>10, <1>15, <1>16, <1>17 DEF Halved

\* The first key of a node that is not empty is a key.
LEMMA LeftmostKey ==
    ASSUME NEW A, NEW K, NEW V, NEW node \in LeafNodes(A, K, V) \cup InnerNodes(A, K),
           size(node) >= 1
    PROVE  get_leftmost_key(node) \in K
<1>1. CASE node \in LeafNodes(A, K, V)
  <2> DEFINE E == [key : K, val : V]
  <2>1. node.entries \in Seq(E) /\ node.type = LEAF
    BY <1>1 DEF LeafNodes
  <2> HIDE DEF E
  <2>2. 1 \in 1..Len(node.entries)
    BY SMTT(30), <2>1, SeqLength DEF size
  <2>3. node.entries[1] \in E
    BY <2>1, <2>2, SeqElement
  <2> QED BY <2>1, <2>3 DEF get_leftmost_key, E
<1>2. CASE node \in InnerNodes(A, K)
  <2>1. /\ node.keys \in Seq(K) /\ node.type # LEAF
        /\ Len(node.keys) \in Nat /\ Len(node.keys) >= 1
    BY <1>2, SeqLength DEF InnerNodes, size, LEAF, INNER
  <2> QED BY SMTT(30), <2>1, SeqElement DEF get_leftmost_key
<1> QED BY <1>1, <1>2

-----------------------------------------------------------------------------
(* What the steps have in common *)

\* The parts of the invariant for one thread.
LEMMA Parts ==
    ASSUME NEW h, Inv(h), NEW t \in Thread
    PROVE  /\ th[t] \in Frames
           /\ Control(th[t]) /\ Where(th[t], h) /\ Path(th[t], h) /\ RootLocked(th[t])
           /\ Splitting(th[t], h) /\ Writing(th[t], h) /\ Growing(th[t], h)
BY DEF Inv, ThreadOK

\* What a thread has in hand is well typed.
LEMMA Fields ==
    ASSUME NEW r \in Frames
    PROVE  /\ r.pc \in Points /\ r.program \in Seq(Call) /\ r.answer \in Answers
           /\ r.call \in Call \cup {NoCall} /\ r.mode \in Modes /\ r.applied \in BOOLEAN
           /\ r.node_id \in Address /\ r.is_root \in BOOLEAN /\ r.level \in Int
           /\ r.height_first \in BOOLEAN /\ r.locks \in Seq(Locks)
           /\ r.parents \in Seq(Steps) /\ r.split \in Seq(Splits)
           /\ r.writes \in Seq(Node) /\ r.new_root \in Address
           /\ Len(r.locks) \in Nat /\ Len(r.parents) \in Nat
           /\ Len(r.split) \in Nat /\ Len(r.writes) \in Nat
<1>1. /\ r.pc \in Points /\ r.program \in Seq(Call) /\ r.answer \in Answers
      /\ r.call \in Call \cup {NoCall} /\ r.mode \in Modes /\ r.applied \in BOOLEAN
      /\ r.node_id \in Address /\ r.is_root \in BOOLEAN /\ r.level \in Int
      /\ r.height_first \in BOOLEAN /\ r.locks \in Seq(Locks)
      /\ r.parents \in Seq(Steps) /\ r.split \in Seq(Splits)
      /\ r.writes \in Seq(Node) /\ r.new_root \in Address
  BY DEF Frames
<1>2. /\ Len(r.locks) \in Nat /\ Len(r.parents) \in Nat
      /\ Len(r.split) \in Nat /\ Len(r.writes) \in Nat
  BY <1>1, SeqLength
<1> QED BY <1>1, <1>2

\* A thread that waits for its next call.
LEMMA IdleFrame ==
    ASSUME NEW program \in Seq(Call), NEW answer \in Answers
    PROVE  Idle(program, answer) \in Frames
<1>1. "idle" \in Points /\ "none" \in Modes /\ NULL \in Address
  BY DEF Points, Modes, Address
<1>2. 0 \in Int
  BY SMT
<1>3. \A S : <<>> \in Seq(S)
  BY SMT
<1>4. FALSE \in BOOLEAN /\ NoCall \in Call \cup {NoCall}
  OBVIOUS
<1>5. /\ <<>> \in Seq(Locks) /\ <<>> \in Seq(Steps)
      /\ <<>> \in Seq(Splits) /\ <<>> \in Seq(Node)
  BY <1>3
<1> QED BY ZenonT(30), <1>1, <1>2, <1>4, <1>5 DEF Frames, Idle

\* Two threads that may allocate would both have the write lock of the root.
LEMMA AllocatorAlone ==
    ASSUME NEW h, Inv(h), NEW t \in Thread, NEW u \in Thread,
           MayAllocate(t), MayAllocate(u)
    PROVE  t = u
<1>1. \A v \in {t, u} : /\ th[v].locks[1] = Lock(root, WRITE)
                        /\ 1 \in 1..Len(th[v].locks)
  <2> SUFFICES ASSUME NEW v \in Thread, MayAllocate(v)
               PROVE  th[v].locks[1] = Lock(root, WRITE) /\ 1 \in 1..Len(th[v].locks)
    OBVIOUS
  <2>1. RootLocked(th[v]) /\ th[v].locks \in Seq(Locks)
    BY Parts, Fields
  <2>2. th[v].locks # <<>>
    BY DEF MayAllocate
  <2>3. 1 \in 1..Len(th[v].locks)
    BY SMTT(30), <2>1, <2>2, SeqEmpty
  <2> QED BY <2>1, <2>3 DEF MayAllocate, RootLocked
<1>2. /\ th[t].locks[1].id = th[u].locks[1].id
      /\ th[t].locks[1].type = WRITE
  BY SMTT(30), <1>1 DEF Lock
<1> QED BY <1>1, <1>2 DEF Inv, Excluded

\* A node keeps its place when the heights of the blocks it names are kept.
LEMMA NodeKept ==
    ASSUME NEW h, NEW h2, NEW node, NodeOK(node, h), h2[node.self] = h[node.self],
           node.type = INNER => \A i \in 1..Len(node.children) :
                                   h2[node.children[i]] = h[node.children[i]]
    PROVE  NodeOK(node, h2)
<1>1. CASE node \in LeafNodes(Nat, Key, Value)
  <2>1. node \notin InnerNodes(Nat, Key)
    BY <1>1 DEF LeafNodes, InnerNodes, LEAF, INNER
  <2> QED BY <1>1, <2>1 DEF NodeOK
<1>2. CASE node \notin LeafNodes(Nat, Key, Value)
  <2>1. node \in InnerNodes(Nat, Key)
    BY <1>2 DEF NodeOK
  <2>2. node.type = INNER
    BY <2>1 DEF InnerNodes
  <2> QED BY <1>2, <2>1, <2>2 DEF NodeOK
<1> QED BY <1>1, <1>2

\* The children of an inner node.
LEMMA ChildrenDef ==
    ASSUME NEW S, NEW node, ChildrenIn(node, S), node.children \in Seq(Nat)
    PROVE  \A i \in 1..Len(node.children) : node.children[i] \in S
<1>1. DOMAIN node.children = 1..Len(node.children)
  BY SeqLength
<1> QED BY <1>1 DEF ChildrenIn, ToSet

\* A node is a leaf or an inner node with children.
LEMMA NodeCases ==
    ASSUME NEW h, NEW node, NodeOK(node, h)
    PROVE  /\ node \in Node
           /\ node.self \in Nat
           /\ size(node) <= CAPACITY
           /\ node.type \in {LEAF, INNER}
           /\ node.type = LEAF => /\ node \in LeafNodes(Nat, Key, Value)
                                  /\ Len(node.entries) <= CAPACITY
                                  /\ h[node.self] = 1
           /\ node.type = INNER => /\ node \in InnerNodes(Nat, Key)
                                   /\ node.children \in Seq(Nat) /\ node.keys \in Seq(Key)
                                   /\ Paired(node) /\ Len(node.keys) <= CAPACITY
                                   /\ h[node.self] > 1
                                   /\ \A i \in 1..Len(node.children) :
                                         h[node.children[i]] = h[node.self] - 1
<1>1. CASE node \in LeafNodes(Nat, Key, Value)
  <2>1. node.type = LEAF /\ node.self \in Nat
    BY <1>1 DEF LeafNodes
  <2>2. node \notin InnerNodes(Nat, Key)
    BY <2>1 DEF InnerNodes, LEAF, INNER
  <2> QED BY <1>1, <2>1, <2>2 DEF NodeOK, Node, size, LEAF, INNER
<1>2. CASE node \notin LeafNodes(Nat, Key, Value)
  <2>1. node \in InnerNodes(Nat, Key)
    BY <1>2 DEF NodeOK
  <2>2. node.type = INNER /\ node.self \in Nat /\ node.children \in Seq(Nat) /\ node.keys \in Seq(Key)
    BY <2>1 DEF InnerNodes
  <2> QED BY <1>2, <2>1, <2>2 DEF NodeOK, Node, size, LEAF, INNER
<1> QED BY <1>1, <1>2

\* The two cases one by one.
LEMMA LeafOK ==
    ASSUME NEW h, NEW node, NodeOK(node, h), node.type = LEAF
    PROVE  /\ node \in LeafNodes(Nat, Key, Value)
           /\ Len(node.entries) <= CAPACITY /\ Len(node.entries) \in Nat
           /\ h[node.self] = 1
<1>1. node \in LeafNodes(Nat, Key, Value)
  BY NodeCases
<1>2. Len(node.entries) \in Nat
  BY <1>1, SeqLength DEF LeafNodes
<1> QED BY <1>2, NodeCases

LEMMA InnerOK ==
    ASSUME NEW h, NEW node, NodeOK(node, h), node.type = INNER
    PROVE  /\ node \in InnerNodes(Nat, Key)
           /\ node.children \in Seq(Nat) /\ node.keys \in Seq(Key)
           /\ Paired(node) /\ Len(node.keys) <= CAPACITY
           /\ h[node.self] > 1
           /\ \A i \in 1..Len(node.children) : h[node.children[i]] = h[node.self] - 1
BY NodeCases

\* The ids given out by a smaller cursor are among those of a larger one.
LEMMA RangeGrows ==
    ASSUME NEW m \in Nat, NEW n \in Nat, m <= n
    PROVE  \A a \in 0..(m - 1) : a \in 0..(n - 1)
BY SMTT(30)

\* A thread is not affected by a step of another one that neither writes nor
\* replaces the root, although it may allocate.
LEMMA OtherThread ==
    ASSUME NEW CONSTANT h, NEW CONSTANT h2, Inv(h), Agree(h, h2),
           NEW CONSTANT u \in Thread, th'[u] = th[u],
           UNCHANGED <<root, depth, blocks>>, cursor' \in Nat, cursor <= cursor',
           mismatch => mismatch'
    PROVE  ThreadOK(th[u], h2)'
<1>1. PICK r \in Frames : r = th[u] /\ r = th'[u]
  BY Parts
<1>2. /\ Control(r) /\ Where(r, h) /\ Path(r, h) /\ RootLocked(r)
      /\ Splitting(r, h) /\ Writing(r, h) /\ Growing(r, h)
  BY <1>1, Parts
<1>3. /\ DOMAIN blocks \subseteq 0..(cursor - 1) /\ cursor \in Nat
      /\ \A a \in DOMAIN blocks : h2[a] = h[a]
      /\ \A a \in DOMAIN blocks : NodeOK(blocks[a], h) /\ (blocks[a].type = INNER => ChildrenIn(blocks[a], DOMAIN blocks))
  BY DEF Inv, Stored, Typed, Agree
<1>4. \A a \in 0..(cursor - 1) : a \in 0..(cursor' - 1) /\ h2[a] = h[a]
  <2>1. cursor \in Nat /\ cursor' \in Nat /\ cursor <= cursor'
    BY <1>3
  <2>2. \A a \in 0..(cursor - 1) : a \in 0..(cursor' - 1)
    BY <2>1, RangeGrows
  <2> QED BY <2>2 DEF Agree
<1>5. Where(r, h2)'
  BY <1>2, <1>3 DEF Where, Known
<1>6. Path(r, h2)'
  <2>1. ASSUME NEW i \in 1..Len(r.parents)
        PROVE  /\ NodeOK(r.parents[i].node, h2)
               /\ h2[r.parents[i].node.self] = h[r.parents[i].node.self]
    <3> DEFINE n == r.parents[i].node
    <3>1. NodeOK(n, h) /\ Copied(n)
      BY <1>2 DEF Path
    <3> HIDE DEF n
    <3>2. /\ n.self \in DOMAIN blocks /\ blocks[n.self].type = INNER
          /\ blocks[n.self].children = n.children
      BY <3>1 DEF Copied
    <3>3. n.children \in Seq(Nat) /\ \A k \in 1..Len(n.children) : n.children[k] \in DOMAIN blocks
      <4>1. blocks[n.self].children \in Seq(Nat)
        BY <1>3, <3>2, NodeCases
      <4>2. ChildrenIn(blocks[n.self], DOMAIN blocks)
        BY <1>3, <3>2
      <4> QED BY <3>2, <4>1, <4>2, ChildrenDef
    <3>4. NodeOK(n, h2)
      BY <1>3, <3>1, <3>2, <3>3, NodeKept
    <3> QED BY <1>3, <3>2, <3>4 DEF n
  <2>2. r.parents # <<>> /\ r.pc \in {"lock", "read", "write"} => h2[r.node_id] = h[r.node_id]
    BY <1>2, <1>3 DEF Where, Known
  <2>3. \A i \in 1..Len(r.parents) : Copied(r.parents[i].node)'
    BY <1>2 DEF Path, Copied
  <2> QED BY <1>2, <2>1, <2>2, <2>3 DEF Path
<1>7. RootLocked(r)'
  BY <1>2 DEF RootLocked
<1>8. \A a, n : InHand(r, a, n) => InHand(r, a, n)'
  BY DEF InHand
<1>9. Splitting(r, h2)'
  BY ZenonT(30), <1>2, <1>4, <1>8 DEF Splitting
<1>10. Writing(r, h2)'
  <2> SUFFICES ASSUME NEW i \in 1..Len(r.writes)
               PROVE  (LET node == r.writes[i] IN
                        /\ r.pc = "write"
                        /\ NodeOK(node, h2)
                        /\ node.self \in 0..(cursor - 1)
                        /\ h2[node.self] <= depth \/ node.self = r.new_root
                        /\ \/ node.self = r.node_id
                           \/ /\ r.mode = "pessimistic" /\ (r.parents # <<>> \/ r.new_root # NULL)
                              /\ node.self \notin DOMAIN blocks
                        /\ node.type = INNER =>
                              /\ r.mode = "pessimistic"
                              /\ \A k \in 1..Len(node.children) : InHand(r, node.children[k], i - 1)
                        /\ \A j \in 1..Len(r.writes) : r.writes[j].self = node.self => i = j)'
    BY DEF Writing
  <2> DEFINE n == r.writes[i]
  <2>1. /\ r.pc = "write" /\ NodeOK(n, h) /\ n.self \in 0..(cursor - 1)
        /\ h[n.self] <= depth \/ n.self = r.new_root
        /\ \/ n.self = r.node_id
           \/ /\ r.mode = "pessimistic" /\ (r.parents # <<>> \/ r.new_root # NULL)
              /\ n.self \notin DOMAIN blocks
        /\ n.type = INNER =>
              /\ r.mode = "pessimistic"
              /\ \A k \in 1..Len(n.children) : InHand(r, n.children[k], i - 1)
        /\ \A j \in 1..Len(r.writes) : r.writes[j].self = n.self => i = j
    BY <1>2 DEF Writing
  <2>2. ASSUME n.type = INNER, NEW k \in 1..Len(n.children)
        PROVE  h2[n.children[k]] = h[n.children[k]]
    <3>1. InHand(r, n.children[k], i - 1)
      BY <2>1, <2>2
    <3>2. CASE n.children[k] \in DOMAIN blocks
      BY <1>3, <3>2
    <3>3. CASE \E j \in 1..(i - 1) : r.writes[j].self = n.children[k]
      <4>1. PICK j \in 1..(i - 1) : r.writes[j].self = n.children[k]
        BY <3>3
      <4>2. j \in 1..Len(r.writes)
        BY SMTT(30), <4>1, Fields
      <4>3. r.writes[j].self \in 0..(cursor - 1)
        BY <1>2, <4>2 DEF Writing
      <4> QED BY <1>4, <4>1, <4>3
    <3> QED BY <3>1, <3>2, <3>3 DEF InHand
  <2>3. h2[n.self] = h[n.self] /\ n.self \in 0..(cursor' - 1)
    BY <1>4, <2>1
  <2> HIDE DEF n
  <2>4. NodeOK(n, h2)
    BY <2>1, <2>2, <2>3, NodeKept
  <2> QED BY <1>8, <2>1, <2>3, <2>4 DEF n
<1>11. Growing(r, h2)'
  BY <1>2, <1>4, <1>8 DEF Growing
<1>12. Control(r)'
  BY <1>2 DEF Control, AtRest, LockType
<1> QED BY <1>1, <1>5, <1>6, <1>7, <1>9, <1>10, <1>11, <1>12 DEF ThreadOK

\* The stored tree is not affected by such a step.
LEMMA StoredKept ==
    ASSUME NEW CONSTANT h, NEW CONSTANT h2, Inv(h), Agree(h, h2),
           UNCHANGED <<root, depth, blocks>>, cursor' \in Nat, cursor <= cursor',
           \A u \in Thread : th[u].new_root # NULL => th'[u].new_root = th[u].new_root
    PROVE  Stored(h2)'
<1>1. /\ DOMAIN blocks \subseteq 0..(cursor - 1) /\ cursor \in Nat
      /\ \A a \in DOMAIN blocks : h2[a] = h[a] /\ a # NULL
  BY SMTT(30) DEF Inv, Stored, Typed, Agree, NULL
<1>2. ASSUME NEW a \in DOMAIN blocks
      PROVE  /\ blocks[a].self = a
             /\ NodeOK(blocks[a], h2)
             /\ blocks[a].type = INNER => ChildrenIn(blocks[a], DOMAIN blocks)
             /\ h2[a] <= depth \/ \E t \in Thread : th'[t].new_root = a
  <2>1. /\ blocks[a].self = a /\ NodeOK(blocks[a], h)
        /\ blocks[a].type = INNER => ChildrenIn(blocks[a], DOMAIN blocks)
        /\ h[a] <= depth \/ \E t \in Thread : th[t].new_root = a
    BY DEF Inv, Stored
  <2>2. ASSUME blocks[a].type = INNER, NEW k \in 1..Len(blocks[a].children)
        PROVE  h2[blocks[a].children[k]] = h[blocks[a].children[k]]
    <3>1. blocks[a].children \in Seq(Nat)
      BY <2>1, <2>2, NodeCases
    <3>2. blocks[a].children[k] \in DOMAIN blocks
      BY <2>1, <2>2, <3>1, ChildrenDef
    <3> QED BY <1>1, <3>2
  <2>3. NodeOK(blocks[a], h2)
    BY <1>1, <2>1, <2>2, NodeKept
  <2>4. h2[a] <= depth \/ \E t \in Thread : th'[t].new_root = a
    BY <1>1, <2>1
  <2> QED BY <2>1, <2>3, <2>4
<1>3. root \in DOMAIN blocks /\ h2[root] = depth
  BY <1>1 DEF Inv, Stored
<1>4. DOMAIN blocks \subseteq 0..(cursor' - 1)
  BY SMTT(30), <1>1
<1> QED BY <1>2, <1>3, <1>4 DEF Stored

\* Locks may be given back.
LEMMA FewerLocks ==
    ASSUME Excluded, th \in [Thread -> Frames],
           NEW CONSTANT t \in Thread, NEW CONSTANT q, th' = [th EXCEPT ![t] = q],
           \A j \in 1..Len(q.locks) : \E i \in 1..Len(th[t].locks) : th[t].locks[i] = q.locks[j]
    PROVE  Excluded'
<1> SUFFICES ASSUME NEW v \in Thread, NEW u \in Thread,
                    NEW i \in 1..Len(th'[v].locks), NEW j \in 1..Len(th'[u].locks),
                    th'[v].locks[i].id = th'[u].locks[j].id, th'[v].locks[i].type = WRITE
             PROVE  v = u
  BY SMTT(30) DEF Excluded
<1>1. \A w \in Thread : \A k \in 1..Len(th'[w].locks) :
         \E m \in 1..Len(th[w].locks) : th[w].locks[m] = th'[w].locks[k]
  BY ZenonT(30)
<1>2. PICK i2 \in 1..Len(th[v].locks) : th[v].locks[i2] = th'[v].locks[i]
  BY <1>1
<1>3. PICK j2 \in 1..Len(th[u].locks) : th[u].locks[j2] = th'[u].locks[j]
  BY <1>1
<1> QED BY ZenonT(30), <1>2, <1>3 DEF Excluded

\* The invariant after a step of t that neither writes nor replaces the root.
LEMMA StepKeeps ==
    ASSUME NEW CONSTANT h, NEW CONSTANT h2, Inv(h), Agree(h, h2),
           NEW CONSTANT t \in Thread, NEW CONSTANT q, th' = [th EXCEPT ![t] = q],
           UNCHANGED <<root, depth, blocks, dict>>, cursor' \in Nat, cursor <= cursor',
           blocked' \subseteq DOMAIN blocks,
           mismatch => mismatch', mismatch' \in BOOLEAN,
           th[t].new_root # NULL => q.new_root = th[t].new_root,
           Excluded', ThreadOK(q, h2)'
    PROVE  Inv(h2)'
<1>1. th \in [Thread -> Frames] /\ Typed
  BY DEF Inv, Typed
<1>2. q \in Frames
  BY DEF ThreadOK
<1>3. Typed'
  BY <1>1, <1>2 DEF Typed
<1>4. Stored(h2)'
  <2>1. \A u \in Thread : th[u].new_root # NULL => th'[u].new_root = th[u].new_root
    BY <1>1
  <2> QED BY <2>1, StoredKept
<1>5. ASSUME NEW CONSTANT u \in Thread PROVE ThreadOK(th[u], h2)'
  <2>1. CASE u = t
    <3>1. th'[u] = q
      BY <1>1, <2>1
    <3> QED BY <3>1 DEF ThreadOK
  <2>2. CASE u # t
    <3>1. th'[u] = th[u]
      BY <1>1, <2>2
    <3> QED BY <3>1, OtherThread
  <2> QED BY <2>1, <2>2
<1> QED BY <1>3, <1>4, <1>5 DEF Inv

\* The same when t holds on to the locks that it has, or to some of them, and
\* nothing else changes.
LEMMA LocalStep ==
    ASSUME NEW CONSTANT h, Inv(h), NEW CONSTANT t \in Thread, NEW CONSTANT q,
           th' = [th EXCEPT ![t] = q],
           UNCHANGED <<root, depth, blocks, cursor, dict, mismatch>>,
           blocked' \subseteq DOMAIN blocks,
           th[t].new_root # NULL => q.new_root = th[t].new_root,
           \A j \in 1..Len(q.locks) : \E i \in 1..Len(th[t].locks) : th[t].locks[i] = q.locks[j],
           ThreadOK(q, h)
    PROVE  Inv(h)'
<1>1. Excluded' /\ cursor \in Nat /\ mismatch \in BOOLEAN
  BY FewerLocks DEF Inv, Typed
<1>2. ThreadOK(q, h)'
  <2>1. Control(q)' <=> Control(q)
    BY DEF Control, AtRest, LockType
  <2>2. Where(q, h)' <=> Where(q, h)
    BY DEF Where, Known
  <2>3. Path(q, h)' <=> Path(q, h)
    BY DEF Path, Copied
  <2>4. RootLocked(q)' <=> RootLocked(q)
    BY DEF RootLocked
  <2>5. Splitting(q, h)' <=> Splitting(q, h)
    BY DEF Splitting, InHand
  <2>6. Writing(q, h)' <=> Writing(q, h)
    BY SMTT(30) DEF Writing, InHand
  <2>7. Growing(q, h)' <=> Growing(q, h)
    BY DEF Growing, InHand
  <2> QED BY <2>1, <2>2, <2>3, <2>4, <2>5, <2>6, <2>7 DEF ThreadOK
<1>3. Agree(h, h)
  BY DEF Agree
<1>4. cursor' \in Nat /\ cursor <= cursor' /\ mismatch' \in BOOLEAN
  BY SMTT(30), <1>1
<1> QED BY <1>1, <1>2, <1>3, <1>4, StepKeeps

-----------------------------------------------------------------------------
(* The node that a step reads *)

\* The block that is read: a node of the tree.
LEMMA ReadNode ==
    ASSUME NEW h, h \in Heights, Inv(h), NEW a, Known(a, h), NEW node, node = blocks[a]
    PROVE  /\ NodeOK(node, h) /\ node.self = a
           /\ a \in Nat /\ a \in 0..(cursor - 1) /\ h[a] <= depth /\ h[a] \in Nat /\ depth \in Nat
<1>1. /\ a \in DOMAIN blocks /\ h[a] <= depth /\ cursor \in Nat /\ depth \in Nat
      /\ DOMAIN blocks \subseteq 0..(cursor - 1)
      /\ NodeOK(node, h) /\ node.self = a
  BY DEF Known, Inv, Stored, Typed
<1> QED BY SMTT(30), <1>1 DEF Heights

\* The children of the inner node that is read.
LEMMA ReadChildren ==
    ASSUME NEW h, h \in Heights, Inv(h), NEW a, Known(a, h), NEW node, node = blocks[a],
           node.type = INNER, NEW k \in 1..Len(node.children)
    PROVE  /\ node.children[k] \in DOMAIN blocks
           /\ h[node.children[k]] = h[a] - 1
           /\ Known(node.children[k], h)
<1>1. NodeOK(node, h) /\ node.self = a /\ h[a] <= depth /\ h[a] \in Nat /\ depth \in Nat
  BY ReadNode
<1>2. node.children \in Seq(Nat) /\ h[node.children[k]] = h[node.self] - 1
  BY <1>1, InnerOK
<1>3. ChildrenIn(node, DOMAIN blocks)
  BY DEF Known, Inv, Stored
<1>4. node.children[k] \in DOMAIN blocks
  BY <1>2, <1>3, ChildrenDef
<1> QED BY SMTT(30), <1>1, <1>2, <1>4 DEF Known

\* The child that a key leads to.
LEMMA ChildOf ==
    ASSUME PlacesCount, NEW h, NEW node, NodeOK(node, h), node.type = INNER, NEW key
    PROVE  /\ Child(node, key) \in 0..Len(node.keys)
           /\ Len(node.keys) = Len(node.children) /\ Len(node.keys) \in Nat \ {0}
<1>1. node \in InnerNodes(Nat, Key) /\ Paired(node) /\ node.keys \in Seq(Key)
  BY NodeCases
<1>2. Child(node, key) \in 0..Len(node.keys)
  BY <1>1, ChildIndex DEF Child
<1> QED BY SMTT(30), <1>1, <1>2, SeqLength DEF Paired

\* A leaf that need not be split takes the entry in.
LEMMA LeafTakesIn ==
    ASSUME PlacesCount, NEW h, NEW node, NodeOK(node, h), node.type = LEAF,
           NEW key \in Key, NEW val \in Value, ~leaf_splits(node, key),
           NEW new, new = leaf_insert(node, key, val)
    PROVE  NodeOK(new, h) /\ new.self = node.self /\ new.type = LEAF /\ new \in Node
<1>1. /\ node \in LeafNodes(Nat, Key, Value) /\ h[node.self] = 1
      /\ Len(node.entries) <= CAPACITY /\ Len(node.entries) \in Nat
  BY LeafOK
<1>2. Key \in SUBSET Int
  BY KeyAssumption
<1>3. new \in LeafNodes(Nat, Key, Value) /\ new.self = node.self
  BY SMTT(30), <1>1, <1>2, LeafInsert
<1>4. Len(new.entries) = IF found(node, key) THEN Len(node.entries) ELSE Len(node.entries) + 1
  BY SMTT(30), <1>1, <1>2, LeafInsert
<1>5. ~found(node, key) => Len(node.entries) < CAPACITY
  BY SMTT(30), <1>1, CapacityAssumption DEF leaf_splits, size
<1>6. Len(new.entries) <= CAPACITY
  BY SMTT(30), <1>1, <1>4, <1>5, CapacityAssumption
<1>7. new.type = LEAF /\ new \in Node
  BY <1>3 DEF Node, LeafNodes
<1> QED BY <1>1, <1>3, <1>6, <1>7 DEF NodeOK

-----------------------------------------------------------------------------
(* The calls *)

\* A thread with nothing in hand.
LEMMA RestOK ==
    ASSUME NEW CONSTANT h, NEW r \in Frames, AtRest(r), Control(r), Where(r, h)
    PROVE  ThreadOK(r, h)
<1>1. Len(r.parents) = 0 /\ Len(r.writes) = 0 /\ Len(r.locks) = 0
  BY DEF AtRest
<1> QED BY SMTT(30), <1>1 DEF ThreadOK, AtRest, Path, RootLocked, Splitting, Writing, Growing

\* The step of a thread at rest that stays at rest.
LEMMA RestStep ==
    ASSUME NEW CONSTANT h, Inv(h), NEW CONSTANT t \in Thread, NEW CONSTANT q \in Frames,
           th' = [th EXCEPT ![t] = q],
           UNCHANGED <<root, depth, blocks, cursor, dict, mismatch>>,
           blocked' \subseteq DOMAIN blocks,
           AtRest(q), th[t].new_root = NULL, Control(q), Where(q, h)
    PROVE  Inv(h)'
<1>1. ThreadOK(q, h)
  BY RestOK
<1>2. \A j \in 1..Len(q.locks) : \E i \in 1..Len(th[t].locks) : th[t].locks[i] = q.locks[j]
  BY SMTT(30) DEF AtRest
<1> QED BY <1>1, <1>2, LocalStep

\* A call is an insertion or a search.
LEMMA InvokeKeeps ==
    ASSUME NEW CONSTANT h, Inv(h), NEW CONSTANT t \in Thread, invoke(t)
    PROVE  Inv(h)'
<1>1. PICK r \in Frames : r = th[t]
  BY Parts
<1>2. PICK c : c = Head(r.program)
  OBVIOUS
<1> DEFINE q == [r EXCEPT !.pc = "enter", !.program = Tail(@), !.call = c,
                          !.mode = IF c.op = "search" THEN "search" ELSE "optimistic"]
<1>3. /\ r.pc = "idle" /\ r.program # <<>> /\ th' = [th EXCEPT ![t] = q]
      /\ UNCHANGED <<root, depth, blocks, cursor, blocked, dict, mismatch>>
  BY <1>1, <1>2 DEF invoke, Update
<1>4. r.program \in Seq(Call) /\ Control(r)
  BY <1>1, Parts, Fields
<1>5. c \in Call /\ Tail(r.program) \in Seq(Call)
  BY <1>2, <1>3, <1>4, SeqHeadTail
<1>6. AtRest(r)
  BY <1>3, <1>4 DEF Control
<1>7. /\ q.pc = "enter" /\ q.call = c /\ q.locks = r.locks /\ q.parents = r.parents
      /\ q.split = r.split /\ q.writes = r.writes /\ q.new_root = r.new_root
      /\ q.mode = IF c.op = "search" THEN "search" ELSE "optimistic"
  BY DEF Frames
<1>8. q \in Frames
  BY <1>5 DEF Frames, Points, Modes
<1> HIDE DEF q
<1>9. AtRest(q)
  BY <1>6, <1>7 DEF AtRest
<1>10. Control(q)
  <2>1. q.mode = "search" => q.call \in SearchCalls
    BY <1>5, <1>7 DEF Call, SearchCalls
  <2>2. q.mode = "optimistic" => q.call \in InsertCalls
    BY <1>5, <1>7 DEF Call, InsertCalls
  <2>3. q.mode \in {"search", "optimistic"} /\ q.pc = "enter" /\ q.parents = <<>>
        /\ q.split = <<>> /\ q.new_root = NULL
    BY <1>7, <1>9 DEF AtRest
  <2> QED BY <1>9, <2>1, <2>2, <2>3 DEF Control
<1>11. Where(q, h)
  BY <1>7 DEF Where
<1>12. ThreadOK(q, h)
  BY <1>8, <1>9, <1>10, <1>11, RestOK
<1>13. /\ blocked' \subseteq DOMAIN blocks
       /\ th[t].new_root # NULL => q.new_root = th[t].new_root
       /\ \A j \in 1..Len(q.locks) : \E i \in 1..Len(th[t].locks) : th[t].locks[i] = q.locks[j]
  BY <1>1, <1>3, <1>7 DEF Inv, Typed
<1> QED BY <1>3, <1>12, <1>13, LocalStep

\* get_root_id() and get_height(), in either order.
LEMMA RootAndHeightKeep ==
    ASSUME NEW CONSTANT h, Inv(h), NEW CONSTANT t \in Thread,
           get_root_id(t) \/ get_height(t) \/ get_height_first(t) \/ get_root_id_last(t)
    PROVE  Inv(h)'
<1>1. PICK r \in Frames : r = th[t]
  BY Parts
<1>2. PICK rt, d : rt = root /\ d = depth
  OBVIOUS
<1>3. /\ Control(r) /\ Where(r, h) /\ Known(rt, h) /\ rt \in Nat /\ d \in Int
      /\ UNCHANGED <<root, depth, blocks, cursor, blocked, dict, mismatch>>
      /\ blocked' \subseteq DOMAIN blocks
      /\ r.pc \in {"enter", "height", "root"}
  <2>1. Control(r) /\ Where(r, h)
    BY <1>1, Parts
  <2>2. Known(rt, h) /\ rt \in Nat /\ d \in Int
    BY SMTT(30), <1>2 DEF Inv, Typed, Stored, Known
  <2>3. /\ UNCHANGED <<root, depth, blocks, cursor, blocked, dict, mismatch>>
        /\ r.pc \in {"enter", "height", "root"}
    BY <1>1 DEF get_root_id, get_height, get_height_first, get_root_id_last
  <2> QED BY <2>1, <2>2, <2>3 DEF Inv, Typed
<1>4. AtRest(r) /\ r.mode # "none"
  BY <1>3 DEF Control
<1>5. CASE get_root_id(t)
  <2> DEFINE q == [r EXCEPT !.pc = IF r.mode = "optimistic" THEN "height" ELSE "lock",
                            !.node_id = rt, !.is_root = TRUE]
  <2>1. th' = [th EXCEPT ![t] = q]
    BY <1>1, <1>2, <1>5 DEF get_root_id, Update
  <2>2. /\ q.pc = IF r.mode = "optimistic" THEN "height" ELSE "lock"
        /\ q.node_id = rt /\ q.is_root = TRUE
        /\ q.mode = r.mode /\ q.call = r.call /\ q.locks = r.locks /\ q.parents = r.parents
        /\ q.split = r.split /\ q.writes = r.writes /\ q.new_root = r.new_root
    BY DEF Frames
  <2>3. q \in Frames
    BY ZenonT(30), <1>3 DEF Frames, Points, Address
  <2> HIDE DEF q
  <2>4. AtRest(q) /\ th[t].new_root = NULL
    BY <1>1, <1>4, <2>2 DEF AtRest
  <2>5. Control(q)
    BY <1>3, <1>4, <2>2, <2>4 DEF Control, AtRest
  <2>6. Where(q, h)
    BY <1>3, <2>2 DEF Where
  <2> QED BY <1>3, <2>1, <2>3, <2>4, <2>5, <2>6, RestStep
<1>6. CASE get_height(t)
  <2> DEFINE q == [r EXCEPT !.pc = "lock", !.level = d, !.height_first = FALSE]
  <2>1. th' = [th EXCEPT ![t] = q] /\ r.pc = "height"
    BY <1>1, <1>2, <1>6 DEF get_height, Update
  <2>2. /\ q.pc = "lock" /\ q.level = d
        /\ q.node_id = r.node_id /\ q.is_root = r.is_root
        /\ q.mode = r.mode /\ q.call = r.call /\ q.locks = r.locks /\ q.parents = r.parents
        /\ q.split = r.split /\ q.writes = r.writes /\ q.new_root = r.new_root
    BY DEF Frames
  <2>3. q \in Frames
    BY ZenonT(30), <1>3 DEF Frames, Points
  <2> HIDE DEF q
  <2>4. AtRest(q) /\ th[t].new_root = NULL
    BY <1>1, <1>4, <2>2 DEF AtRest
  <2>5. Control(q)
    BY <1>3, <1>4, <2>1, <2>2, <2>4 DEF Control, AtRest
  <2>6. Where(q, h)
    BY <1>2, <1>3, <2>1, <2>2 DEF Where, Control
  <2> QED BY <1>3, <2>1, <2>3, <2>4, <2>5, <2>6, RestStep
<1>7. CASE get_height_first(t)
  <2> DEFINE q == [r EXCEPT !.pc = "root", !.level = d, !.height_first = TRUE]
  <2>1. th' = [th EXCEPT ![t] = q] /\ r.mode = "optimistic"
    BY <1>1, <1>2, <1>7 DEF get_height_first, Update
  <2>2. /\ q.pc = "root" /\ q.height_first = TRUE
        /\ q.mode = r.mode /\ q.call = r.call /\ q.locks = r.locks /\ q.parents = r.parents
        /\ q.split = r.split /\ q.writes = r.writes /\ q.new_root = r.new_root
    BY DEF Frames
  <2>3. q \in Frames
    BY ZenonT(30), <1>3 DEF Frames, Points
  <2> HIDE DEF q
  <2>4. AtRest(q) /\ th[t].new_root = NULL
    BY <1>1, <1>4, <2>2 DEF AtRest
  <2>5. Control(q)
    BY <1>3, <1>4, <2>1, <2>2, <2>4 DEF Control, AtRest
  <2>6. Where(q, h)
    BY <2>2 DEF Where
  <2> QED BY <1>3, <2>1, <2>3, <2>4, <2>5, <2>6, RestStep
<1>8. CASE get_root_id_last(t)
  <2> DEFINE q == [r EXCEPT !.pc = "lock", !.node_id = rt, !.is_root = TRUE]
  <2>1. th' = [th EXCEPT ![t] = q] /\ r.pc = "root"
    BY <1>1, <1>2, <1>8 DEF get_root_id_last, Update
  <2>2. /\ q.pc = "lock" /\ q.node_id = rt /\ q.is_root = TRUE
        /\ q.height_first = r.height_first /\ q.level = r.level
        /\ q.mode = r.mode /\ q.call = r.call /\ q.locks = r.locks /\ q.parents = r.parents
        /\ q.split = r.split /\ q.writes = r.writes /\ q.new_root = r.new_root
    BY DEF Frames
  <2>3. q \in Frames
    BY ZenonT(30), <1>3 DEF Frames, Points, Address
  <2> HIDE DEF q
  <2>4. AtRest(q) /\ th[t].new_root = NULL
    BY <1>1, <1>4, <2>2 DEF AtRest
  <2>5. Control(q)
    BY <1>3, <1>4, <2>1, <2>2, <2>4 DEF Control, AtRest
  <2>6. Where(q, h)
    BY <1>3, <2>1, <2>2 DEF Where, Control
  <2> QED BY <1>3, <2>1, <2>3, <2>4, <2>5, <2>6, RestStep
<1> QED BY <1>5, <1>6, <1>7, <1>8

-----------------------------------------------------------------------------
(* The locks *)

\* lock() has to wait.
LEMMA WaitKeeps ==
    ASSUME NEW CONSTANT h, Inv(h), NEW CONSTANT t \in Thread, wait_for_lock(t)
    PROVE  Inv(h)'
<1>1. PICK r \in Frames : r = th[t]
  BY Parts
<1>2. /\ r.pc = "lock" /\ blocked' = blocked \cup {r.node_id}
      /\ UNCHANGED <<root, depth, blocks, cursor, th, dict, mismatch>>
  BY <1>1 DEF wait_for_lock
<1>3. th' = [th EXCEPT ![t] = r]
  BY <1>1, <1>2 DEF Inv, Typed
<1>4. ThreadOK(r, h)
  BY <1>1 DEF Inv
<1>5. blocked' \subseteq DOMAIN blocks
  BY <1>2, <1>4 DEF Inv, Typed, ThreadOK, Where, Known
<1> QED BY ZenonT(30), <1>1, <1>2, <1>3, <1>4, <1>5, LocalStep

\* The root moved while the thread waited.
LEMMA RootMovedKeeps ==
    ASSUME NEW CONSTANT h, Inv(h), NEW CONSTANT t \in Thread, lock_moved_root(t)
    PROVE  Inv(h)'
<1>1. PICK r \in Frames : r = th[t]
  BY Parts
<1> DEFINE q == [r EXCEPT !.pc = "enter"]
<1>2. /\ r.pc = "lock" /\ r.is_root /\ blocked' = blocked \ {r.node_id}
      /\ UNCHANGED <<root, depth, blocks, cursor, dict, mismatch>>
      /\ th' = [th EXCEPT ![t] = q]
  BY <1>1 DEF lock_moved_root, RootMoved, Update
<1>3. Control(r)
  BY <1>1, Parts
<1>4. AtRest(r) /\ r.mode # "none"
  BY <1>2, <1>3 DEF Control, AtRest
<1>5. /\ q.pc = "enter"
      /\ q.mode = r.mode /\ q.call = r.call /\ q.locks = r.locks /\ q.parents = r.parents
      /\ q.split = r.split /\ q.writes = r.writes /\ q.new_root = r.new_root
  BY DEF Frames
<1>6. q \in Frames
  BY ZenonT(30) DEF Frames, Points
<1> HIDE DEF q
<1>7. AtRest(q) /\ th[t].new_root = NULL
  BY <1>1, <1>4, <1>5 DEF AtRest
<1>8. Control(q)
  BY <1>3, <1>4, <1>5, <1>7 DEF Control, AtRest
<1>9. Where(q, h)
  BY <1>5 DEF Where
<1>10. blocked' \subseteq DOMAIN blocks
  BY <1>2 DEF Inv, Typed
<1> QED BY <1>2, <1>6, <1>7, <1>8, <1>9, <1>10, RestStep

\* A thread that has a lock in its list holds it.
LEMMA LockHeld ==
    ASSUME NEW h, Inv(h), NEW v \in Thread, NEW i \in 1..Len(th[v].locks)
    PROVE  /\ Holds(v, th[v].locks[i].id, th[v].locks[i].type)
           /\ v \in Holders(th[v].locks[i].id)
<1>1. th[v].locks \in Seq(Locks)
  BY Parts, Fields
<1>2. th[v].locks[i] \in Locks /\ i \in DOMAIN th[v].locks
  BY <1>1, SeqElement, SeqLength
<1>3. th[v].locks[i] = Lock(th[v].locks[i].id, th[v].locks[i].type)
      /\ th[v].locks[i].type \in {READ, WRITE}
  BY <1>2 DEF Locks, Lock
<1>4. th[v].locks[i] \in ToSet(th[v].locks)
  BY <1>2 DEF ToSet
<1>5. Holds(v, th[v].locks[i].id, th[v].locks[i].type)
  BY <1>3, <1>4 DEF Holds
<1> QED BY <1>3, <1>5 DEF Holders

\* A lock is only obtained when that excludes nobody.
LEMMA LockExcludes ==
    ASSUME NEW CONSTANT h, Inv(h), NEW CONSTANT t \in Thread, NEW CONSTANT q,
           th' = [th EXCEPT ![t] = q],
           NEW CONSTANT n, NEW CONSTANT type, CanLock(n, type),
           \A j \in 1..Len(q.locks) :
              \/ q.locks[j] = Lock(n, type)
              \/ \E i \in 1..Len(th[t].locks) : th[t].locks[i] = q.locks[j]
    PROVE  Excluded'
<1>0. th \in [Thread -> Frames] /\ Excluded
  BY DEF Inv, Typed
<1> SUFFICES ASSUME NEW v \in Thread, NEW u \in Thread,
                    NEW i \in 1..Len(th'[v].locks), NEW j \in 1..Len(th'[u].locks),
                    th'[v].locks[i].id = th'[u].locks[j].id, th'[v].locks[i].type = WRITE,
                    v # u
             PROVE  FALSE
  BY DEF Excluded
<1>1. \A w \in Thread : \A k \in 1..Len(th'[w].locks) :
         \/ w = t /\ th'[w].locks[k] = Lock(n, type)
         \/ \E m \in 1..Len(th[w].locks) : th[w].locks[m] = th'[w].locks[k]
  BY <1>0
<1>2. CASE v = t /\ th'[v].locks[i] = Lock(n, type)
  <2>1. type = WRITE /\ th'[u].locks[j].id = n /\ u # t
    BY SMTT(30), <1>2 DEF Lock
  <2>2. PICK m \in 1..Len(th[u].locks) : th[u].locks[m] = th'[u].locks[j]
    BY <1>1, <2>1
  <2>3. u \in Holders(n)
    BY <2>1, <2>2, LockHeld
  <2> QED BY <2>1, <2>3 DEF CanLock, READ, WRITE
<1>3. CASE u = t /\ th'[u].locks[j] = Lock(n, type)
  <2>1. th'[v].locks[i].id = n /\ v # t
    BY SMTT(30), <1>3 DEF Lock
  <2>2. PICK m \in 1..Len(th[v].locks) : th[v].locks[m] = th'[v].locks[i]
    BY <1>1, <2>1
  <2>3. v \in Holders(n) /\ Holds(v, n, WRITE)
    BY <2>1, <2>2, LockHeld
  <2> QED BY <2>3 DEF CanLock
<1>4. CASE ~(v = t /\ th'[v].locks[i] = Lock(n, type)) /\ ~(u = t /\ th'[u].locks[j] = Lock(n, type))
  <2>1. PICK m \in 1..Len(th[v].locks) : th[v].locks[m] = th'[v].locks[i]
    BY <1>1, <1>4
  <2>2. PICK k \in 1..Len(th[u].locks) : th[u].locks[k] = th'[u].locks[j]
    BY <1>1, <1>4
  <2> QED BY <1>0, <2>1, <2>2 DEF Excluded
<1> QED BY <1>2, <1>3, <1>4

\* The lock is obtained.
LEMMA LockKeeps ==
    ASSUME NEW CONSTANT h, Inv(h), NEW CONSTANT t \in Thread, lock(t)
    PROVE  Inv(h)'
<1>1. PICK r \in Frames : r = th[t]
  BY Parts
<1> DEFINE n    == r.node_id
           type == LockType(r)
           L    == Append(Kept(r), Lock(n, type))
           q    == [r EXCEPT !.pc = "read", !.locks = L]
<1>2. /\ r.pc = "lock" /\ CanLock(n, type) /\ (r.is_root => root = n)
      /\ th' = [th EXCEPT ![t] = q]
      /\ blocked' \subseteq blocked
      /\ mismatch' = (mismatch \/ (r.mode = "optimistic" /\ r.is_root
                                    /\ r.height_first /\ r.level # depth))
      /\ UNCHANGED <<root, depth, blocks, cursor, dict>>
  BY <1>1 DEF lock, RootMoved, Update, Unblocked
<1>3. /\ Control(r) /\ Where(r, h) /\ Path(r, h) /\ RootLocked(r)
      /\ Splitting(r, h) /\ Writing(r, h) /\ Growing(r, h)
  BY <1>1, Parts
<1>4. /\ r.locks \in Seq(Locks) /\ r.parents \in Seq(Steps) /\ Len(r.parents) \in Nat
      /\ Len(r.locks) \in Nat /\ r.writes = <<>> /\ r.split = <<>> /\ r.new_root = NULL
  BY <1>2, <1>3, Fields DEF Control
<1>5. Known(n, h) /\ n \in Nat
  BY SMTT(30), <1>2, <1>3 DEF Where, Known, Inv, Stored, Typed
<1>6. type \in {READ, WRITE} /\ Lock(n, type) \in Locks
  BY <1>5 DEF LockType, Lock, Locks
<1>7. /\ Kept(r) \in Seq(Locks) /\ Len(Kept(r)) = Len(r.parents)
      /\ \A i \in 1..Len(Kept(r)) : Kept(r)[i] = r.locks[i] /\ i \in 1..Len(r.locks)
  <2>1. CASE r.mode = "pessimistic"
    BY <1>2, <1>3, <1>4, <2>1 DEF Kept, Control
  <2>2. CASE r.mode # "pessimistic"
    <3>1. Kept(r) = <<>> /\ r.parents = <<>>
      BY <1>3, <2>2 DEF Kept, Control
    <3> QED BY SMTT(30), <3>1
  <2> QED BY <2>1, <2>2
<1>8. /\ L \in Seq(Locks) /\ Len(L) = Len(r.parents) + 1
      /\ L[Len(r.parents) + 1] = Lock(n, type)
      /\ \A i \in 1..Len(r.parents) : L[i] = r.locks[i] /\ i \in 1..Len(r.locks)
  <2>1. /\ L \in Seq(Locks) /\ Len(L) = Len(Kept(r)) + 1
        /\ L[Len(Kept(r)) + 1] = Lock(n, type)
        /\ \A i \in 1..Len(Kept(r)) : L[i] = Kept(r)[i]
    BY SMTT(30), <1>6, <1>7, SeqAppend
  <2> QED BY <1>7, <2>1
<1>9. /\ q.pc = "read" /\ q.locks = L
      /\ q.mode = r.mode /\ q.call = r.call /\ q.level = r.level /\ q.parents = r.parents
      /\ q.node_id = n /\ q.is_root = r.is_root /\ q.height_first = r.height_first
      /\ q.split = r.split /\ q.writes = r.writes /\ q.new_root = r.new_root
  BY DEF Frames
<1> HIDE DEF L
<1>10. q \in Frames
  BY ZenonT(30), <1>8 DEF Frames, Points
<1>11. LockType(q) = type
  BY <1>9 DEF LockType
<1> HIDE DEF n, type, q
<1>12. Control(q)'
  <2>1. Len(q.locks) = Len(q.parents) + 1 /\ q.locks[Len(q.locks)] = Lock(q.node_id, LockType(q))
    BY <1>8, <1>9, <1>11
  <2> QED BY <1>2, <1>3, <1>4, <1>9, <2>1 DEF Control, LockType
<1>13. Where(q, h)'
  <2>1. Known(n, h)'
    BY <1>2, <1>5 DEF Known
  <2>2. ASSUME q.mode = "optimistic", ~mismatch' PROVE q.level = h[n]
    <3>1. CASE r.is_root
      <4>1. root = n /\ h[root] = depth
        BY <1>2, <3>1 DEF Inv, Stored
      <4>2. r.level = depth
        BY <1>2, <1>3, <1>9, <2>2, <3>1, <4>1 DEF Where, n
      <4> QED BY <1>9, <4>1, <4>2
    <3>2. CASE ~r.is_root
      BY <1>2, <1>3, <1>9, <2>2, <3>2 DEF Where, n
    <3> QED BY <3>1, <3>2
  <2> QED BY <1>9, <2>1, <2>2 DEF Where
<1>14. Path(q, h)'
  <2>1. \A i \in 1..Len(q.parents) : i \in 1..Len(q.locks) /\ q.locks[i] = r.locks[i]
    BY SMTT(30), <1>4, <1>8, <1>9
  <2>2. q.parents # <<>> => h[q.node_id] = depth - Len(q.parents)
    BY <1>2, <1>3, <1>9 DEF Path, n
  <2> QED BY ZenonT(30), <1>2, <1>3, <1>9, <2>1, <2>2 DEF Path, Copied
<1>15. RootLocked(q)'
  <2> SUFFICES ASSUME q.mode = "pessimistic" PROVE q.locks[1] = Lock(root, WRITE)
    BY <1>2 DEF RootLocked
  <2>1. r.mode = "pessimistic" /\ type = WRITE
    BY <1>9 DEF LockType, type
  <2>2. CASE r.is_root
    <3>1. r.parents = <<>> /\ root = n
      BY <1>2, <1>3, <2>2 DEF Control
    <3> QED BY SMTT(30), <1>8, <1>9, <2>1, <3>1
  <2>3. CASE ~r.is_root
    <3>1. r.parents # <<>> /\ Len(r.locks) = Len(r.parents)
      BY <1>2, <1>3, <2>1, <2>3 DEF Control
    <3>2. 1 \in 1..Len(r.parents) /\ r.locks # <<>>
      BY SMTT(30), <1>4, <3>1, SeqEmpty
    <3>3. r.locks[1] = Lock(root, WRITE)
      BY <1>2, <1>3, <2>1, <3>2 DEF RootLocked
    <3> QED BY <1>8, <1>9, <3>2, <3>3
  <2> QED BY <2>2, <2>3
<1>16. Splitting(q, h)' /\ Writing(q, h)' /\ Growing(q, h)'
  <2>1. q.split = <<>> /\ Len(q.writes) = 0 /\ q.new_root = NULL
    BY SMTT(30), <1>4, <1>9
  <2> QED BY SMTT(30), <2>1 DEF Splitting, Writing, Growing
<1>17. ThreadOK(q, h)'
  BY <1>10, <1>12, <1>13, <1>14, <1>15, <1>16 DEF ThreadOK
<1>18. Excluded'
  <2>1. \A j \in 1..Len(q.locks) :
           \/ q.locks[j] = Lock(n, type)
           \/ \E i \in 1..Len(th[t].locks) : th[t].locks[i] = q.locks[j]
    BY SMTT(30), <1>1, <1>4, <1>8, <1>9
  <2>2. th' = [th EXCEPT ![t] = q] /\ CanLock(n, type)
    BY <1>2, <1>6
  <2> QED BY <2>1, <2>2, LockExcludes
<1>19. /\ Agree(h, h) /\ cursor' \in Nat /\ cursor <= cursor'
       /\ blocked' \subseteq DOMAIN blocks
       /\ mismatch => mismatch' 
       /\ mismatch' \in BOOLEAN
       /\ th[t].new_root # NULL => q.new_root = th[t].new_root
  BY SMTT(30), <1>1, <1>2, <1>4 DEF Agree, Inv, Typed
<1> QED BY <1>2, <1>17, <1>18, <1>19, StepKeeps

-----------------------------------------------------------------------------
(* Below the lock *)

\* A search ends.
LEMMA SearchAnswersKeeps ==
    ASSUME PlacesCount, NEW CONSTANT h \in Heights, Inv(h), NEW CONSTANT t \in Thread, search_answers(t)
    PROVE  Inv(h)'
<1>1. PICK r \in Frames : r = th[t]
  BY Parts
<1>2. PICK node : node = blocks[r.node_id]
  OBVIOUS
<1>3. PICK answer : answer = IF node.type = LEAF
                             THEN leaf_search(node, r.call.key, Absent) ELSE Absent
  OBVIOUS
<1> DEFINE q == Idle(r.program, answer)
<1>4. /\ r.pc = "read" /\ r.mode = "search"
      /\ th' = [th EXCEPT ![t] = q]
      /\ blocked' \subseteq blocked
      /\ UNCHANGED <<root, depth, blocks, cursor, dict, mismatch>>
  BY <1>1, <1>2, <1>3 DEF search_answers, Update, Unblocked
<1>5. Control(r) /\ Where(r, h)
  BY <1>1, Parts
<1>6. answer \in Answers
  <2>1. CASE node.type = LEAF
    <3>1. Known(r.node_id, h) /\ r.call \in SearchCalls
      BY ZenonT(30), <1>4, <1>5 DEF Where, Control
    <3>2. NodeOK(node, h)
      BY <1>2, <3>1, ReadNode
    <3>3. node \in LeafNodes(Nat, Key, Value) /\ r.call.key \in Key
      BY <2>1, <3>1, <3>2, NodeCases DEF SearchCalls
    <3>4. leaf_search(node, r.call.key, Absent) \in Value \cup {Absent}
      BY ZenonT(30), <3>3, KeyAssumption, LeafSearch
    <3> QED BY <1>3, <2>1, <3>4 DEF Answers
  <2>2. CASE node.type # LEAF
    BY <1>3, <2>2 DEF Answers
  <2> QED BY <2>1, <2>2
<1>7. r.program \in Seq(Call) /\ r.new_root = NULL
  BY <1>4, <1>5, Fields DEF Control
<1>8. q \in Frames
  BY <1>6, <1>7, IdleFrame
<1>9. q.pc = "idle" /\ q.mode = "none" /\ AtRest(q)
  BY DEF Idle, AtRest
<1> HIDE DEF q
<1>10. Control(q)
  BY <1>9 DEF Control, AtRest
<1>11. Where(q, h)
  BY <1>9 DEF Where
<1>12. blocked' \subseteq DOMAIN blocks /\ th[t].new_root = NULL
  BY <1>1, <1>4, <1>7 DEF Inv, Typed
<1> QED BY <1>4, <1>8, <1>9, <1>10, <1>11, <1>12, RestStep

\* The optimistic attempt gives up.
LEMMA OptimisticFailsKeeps ==
    ASSUME NEW CONSTANT h \in Heights, Inv(h), NEW CONSTANT t \in Thread, optimistic_fails(t)
    PROVE  Inv(h)'
<1>1. PICK r \in Frames : r = th[t]
  BY Parts
<1> DEFINE q == [r EXCEPT !.pc = "enter", !.mode = "pessimistic", !.locks = <<>>]
<1>2. /\ r.pc = "read" /\ r.mode = "optimistic"
      /\ th' = [th EXCEPT ![t] = q]
      /\ blocked' \subseteq blocked
      /\ UNCHANGED <<root, depth, blocks, cursor, dict, mismatch>>
  BY <1>1 DEF optimistic_fails, Update, Unblocked
<1>3. Control(r)
  BY <1>1, Parts
<1>4. /\ q.pc = "enter" /\ q.mode = "pessimistic" /\ q.locks = <<>> /\ q.call = r.call
      /\ q.parents = r.parents
      /\ q.split = r.split /\ q.writes = r.writes /\ q.new_root = r.new_root
  BY DEF Frames
<1>5. q \in Frames
  <2>1. "enter" \in Points /\ "pessimistic" \in Modes /\ <<>> \in Seq(Locks)
    BY SMTT(30) DEF Points, Modes
  <2> QED BY ZenonT(30), <2>1 DEF Frames
<1> HIDE DEF q
<1>6. AtRest(q) /\ r.new_root = NULL /\ r.call \in InsertCalls
  BY <1>2, <1>3, <1>4 DEF AtRest, Control
<1>7. Control(q)
  BY <1>4, <1>6 DEF Control
<1>8. Where(q, h)
  BY <1>4 DEF Where
<1>9. blocked' \subseteq DOMAIN blocks /\ th[t].new_root = NULL
  BY <1>1, <1>2, <1>6 DEF Inv, Typed
<1> QED BY <1>2, <1>5, <1>6, <1>7, <1>8, <1>9, RestStep

\* The search, or the optimistic attempt, goes down.
LEMMA ReadInnerKeeps ==
    ASSUME PlacesCount, NEW CONSTANT h \in Heights, Inv(h), NEW CONSTANT t \in Thread, read_inner(t)
    PROVE  Inv(h)'
<1>1. PICK r \in Frames : r = th[t]
  BY Parts
<1>2. PICK node : node = blocks[r.node_id]
  OBVIOUS
<1>3. PICK a : a = node.children[Child(node, r.call.key)]
  OBVIOUS
<1> DEFINE q == Descend(r, a)
<1>4. /\ r.pc = "read" /\ r.mode \in {"search", "optimistic"}
      /\ node.type = INNER /\ Child(node, r.call.key) > 0
      /\ th' = [th EXCEPT ![t] = q]
      /\ UNCHANGED <<root, depth, blocks, cursor, blocked, dict, mismatch>>
  BY <1>1, <1>2, <1>3 DEF read_inner, Update
<1>5. Control(r) /\ Where(r, h) /\ r.level \in Int
  BY <1>1, Parts, Fields
<1>6. Known(r.node_id, h)
  BY <1>4, <1>5 DEF Where
<1>7. NodeOK(node, h)
  BY <1>2, <1>6, ReadNode
<1>8. Child(node, r.call.key) \in 1..Len(node.children)
  <2>1. /\ Child(node, r.call.key) \in 0..Len(node.keys)
        /\ Len(node.keys) = Len(node.children) /\ Len(node.keys) \in Nat \ {0}
    BY <1>4, <1>7, ChildOf
  <2> QED BY SMTT(30), <1>4, <2>1
<1>9. Known(a, h) /\ h[a] = h[r.node_id] - 1 /\ h[r.node_id] \in Nat
  <2>1. h[r.node_id] \in Nat
    BY <1>2, <1>6, ReadNode
  <2>2. PICK k \in 1..Len(node.children) : k = Child(node, r.call.key)
    BY <1>8
  <2>3. node.type = INNER
    BY <1>4
  <2>4. h[node.children[k]] = h[r.node_id] - 1 /\ Known(node.children[k], h)
    BY <1>2, <1>6, <2>3, ReadChildren
  <2> QED BY <1>3, <2>1, <2>2, <2>4
<1>10. a \in Nat
  BY SMTT(30), <1>9 DEF Known, Inv, Stored, Typed
<1>11. /\ q.pc = "lock" /\ q.node_id = a /\ q.is_root = FALSE /\ q.level = r.level - 1
       /\ q.mode = r.mode /\ q.call = r.call /\ q.locks = r.locks /\ q.parents = r.parents
       /\ q.split = r.split /\ q.writes = r.writes /\ q.new_root = r.new_root
  BY DEF Frames, Descend
<1>12. q \in Frames
  <2>1. "lock" \in Points /\ a \in Address /\ r.level - 1 \in Int
    BY SMTT(30), <1>5, <1>10 DEF Points, Address
  <2> QED BY ZenonT(30), <2>1 DEF Frames, Descend
<1> HIDE DEF q
<1>13. q.parents = <<>> /\ q.writes = <<>> /\ q.split = <<>> /\ q.new_root = NULL
  BY <1>4, <1>5, <1>11 DEF Control
<1>14. Control(q)
  BY ZenonT(30), <1>4, <1>5, <1>11, <1>13 DEF Control
<1>15. Where(q, h)
  BY ZenonT(30), <1>4, <1>5, <1>9, <1>11 DEF Where
<1>16. Path(q, h) /\ RootLocked(q) /\ Splitting(q, h) /\ Writing(q, h) /\ Growing(q, h)
  <2>1. Len(q.parents) = 0 /\ Len(q.writes) = 0 /\ q.mode # "pessimistic"
    BY <1>4, <1>11, <1>13
  <2> QED BY SMTT(30), <1>13, <2>1 DEF Path, RootLocked, Splitting, Writing, Growing
<1>17. ThreadOK(q, h)
  BY <1>12, <1>14, <1>15, <1>16 DEF ThreadOK
<1>18. /\ blocked' \subseteq DOMAIN blocks
       /\ th[t].new_root # NULL => q.new_root = th[t].new_root
       /\ \A j \in 1..Len(q.locks) : \E i \in 1..Len(th[t].locks) : th[t].locks[i] = q.locks[j]
  BY ZenonT(30), <1>1, <1>4, <1>11 DEF Inv, Typed
<1> QED BY ZenonT(30), <1>4, <1>17, <1>18, LocalStep

\* The optimistic attempt changes its copy of the leaf.
LEMMA OptimisticLeafKeeps ==
    ASSUME PlacesCount, NEW CONSTANT h \in Heights, Inv(h), NEW CONSTANT t \in Thread, optimistic_leaf(t)
    PROVE  Inv(h)'
<1>1. PICK r \in Frames : r = th[t]
  BY Parts
<1>2. PICK node : node = blocks[r.node_id]
  OBVIOUS
<1>3. PICK new : new = leaf_insert(node, r.call.key, r.call.val)
  OBVIOUS
<1> DEFINE q == [r EXCEPT !.pc = "write", !.writes = <<new>>]
<1>4. /\ r.pc = "read" /\ r.mode = "optimistic"
      /\ node.type = LEAF /\ size(node) < CAPACITY
      /\ th' = [th EXCEPT ![t] = q]
      /\ UNCHANGED <<root, depth, blocks, cursor, blocked, dict, mismatch>>
  BY <1>1, <1>2, <1>3 DEF optimistic_leaf, Update
<1>5. Control(r) /\ Where(r, h)
  BY <1>1, Parts
<1>6. Known(r.node_id, h) /\ r.call \in InsertCalls
  BY <1>4, <1>5 DEF Where, Control
<1>7. /\ NodeOK(node, h) /\ node.self = r.node_id /\ r.node_id \in 0..(cursor - 1)
      /\ h[r.node_id] <= depth
  BY <1>2, <1>6, ReadNode
<1>8. r.call.key \in Key /\ r.call.val \in Value /\ ~leaf_splits(node, r.call.key)
  <2>1. Len(node.entries) \in Nat
    BY <1>4, <1>7, LeafOK
  <2>2. node.type = LEAF /\ size(node) < CAPACITY
    BY <1>4
  <2>3. ~(size(node) >= CAPACITY)
    BY SMTT(30), <2>1, <2>2, CapacityAssumption DEF size
  <2> QED BY <1>6, <2>3 DEF leaf_splits, InsertCalls
<1>9. NodeOK(new, h) /\ new.self = node.self /\ new.type = LEAF /\ new \in Node
  BY SMTT(30), <1>3, <1>4, <1>7, <1>8, LeafTakesIn
<1>11. /\ q.pc = "write" /\ q.writes = <<new>> /\ q.node_id = r.node_id /\ q.is_root = r.is_root
       /\ q.level = r.level /\ q.height_first = r.height_first
       /\ q.mode = r.mode /\ q.call = r.call /\ q.locks = r.locks /\ q.parents = r.parents
       /\ q.split = r.split /\ q.new_root = r.new_root
  BY DEF Frames
<1>12. q \in Frames
  <2>1. "write" \in Points /\ <<new>> \in Seq(Node)
    BY SMTT(30), <1>9 DEF Points
  <2> QED BY ZenonT(30), <2>1 DEF Frames
<1> HIDE DEF q
<1>13. q.parents = <<>> /\ q.split = <<>> /\ q.new_root = NULL
  BY <1>4, <1>5, <1>11 DEF Control
<1>14. Control(q)
  <2>1. LockType(q) = LockType(r)
    BY <1>11 DEF LockType
  <2> QED BY ZenonT(30), <1>4, <1>5, <1>11, <1>13, <2>1 DEF Control
<1>15. Where(q, h)
  BY <1>4, <1>5, <1>11 DEF Where
<1>16. Path(q, h) /\ RootLocked(q) /\ Splitting(q, h) /\ Growing(q, h)
  <2>1. Len(q.parents) = 0 /\ q.mode # "pessimistic"
    BY <1>4, <1>11, <1>13
  <2> QED BY SMTT(30), <1>13, <2>1 DEF Path, RootLocked, Splitting, Growing
<1>17. Writing(q, h)
  <2>1. Len(q.writes) = 1 /\ q.writes[1] = new
    BY SMTT(30), <1>11
  <2>2. \A i \in 1..Len(q.writes) : i = 1
    BY SMTT(30), <2>1
  <2> QED BY ZenonT(30), <1>7, <1>9, <1>11, <2>1, <2>2 DEF Writing, LEAF, INNER
<1>18. ThreadOK(q, h)
  BY <1>12, <1>14, <1>15, <1>16, <1>17 DEF ThreadOK
<1>19. /\ blocked' \subseteq DOMAIN blocks
       /\ th[t].new_root # NULL => q.new_root = th[t].new_root
       /\ \A j \in 1..Len(q.locks) : \E i \in 1..Len(th[t].locks) : th[t].locks[i] = q.locks[j]
  BY <1>1, <1>4, <1>11 DEF Inv, Typed
<1> QED BY ZenonT(30), <1>4, <1>18, <1>19, LocalStep

-----------------------------------------------------------------------------
(* A block is written *)

LEMMA FirstWrite ==
    ASSUME NEW h, Inv(h), NEW t \in Thread, NEW r \in Frames, r = th[t], r.writes # <<>>,
           NEW node, node = r.writes[1]
    PROVE  WriteFacts(r, node, h) /\ 1 \in 1..Len(r.writes) /\ r.pc = "write"
<1>1. Writing(r, h)
  BY Parts
<1>2. r.writes \in Seq(Node)
  BY Fields
<1>3. 1 \in 1..Len(r.writes)
  BY SMTT(30), <1>2, SeqEmpty
<1>4. /\ r.pc = "write" /\ NodeOK(node, h) /\ node.self \in 0..(cursor - 1)
      /\ h[node.self] <= depth \/ node.self = r.new_root
      /\ \/ node.self = r.node_id
         \/ /\ r.mode = "pessimistic" /\ (r.parents # <<>> \/ r.new_root # NULL)
            /\ node.self \notin DOMAIN blocks
      /\ node.type = INNER =>
            /\ r.mode = "pessimistic"
            /\ \A k \in 1..Len(node.children) : InHand(r, node.children[k], 1 - 1)
      /\ \A j \in 1..Len(r.writes) : r.writes[j].self = node.self => 1 = j
  BY <1>1, <1>3 DEF Writing
<1>5. ASSUME node.type = INNER PROVE ChildrenIn(node, DOMAIN blocks)
  <2>1. \A k \in 1..Len(node.children) : node.children[k] \in DOMAIN blocks
    BY SMTT(30), <1>4, <1>5 DEF InHand
  <2>2. node.children \in Seq(Nat)
    BY <1>4, <1>5, InnerOK
  <2>3. DOMAIN node.children = 1..Len(node.children)
    BY <2>2, SeqLength
  <2> QED BY <2>1, <2>3 DEF ChildrenIn, ToSet
<1> QED BY ZenonT(30), <1>3, <1>4, <1>5 DEF WriteFacts

LEMMA CopyUnwritten ==
    ASSUME NEW CONSTANT a, NEW CONSTANT node, Wrote(a, node),
           NEW CONSTANT n, Copied(n), n.self # a
    PROVE  Copied(n)'
BY DEF Wrote, Copied

\* A fresh block is only written by the one thread that may allocate.
LEMMA FreshAlone ==
    ASSUME NEW h, Inv(h), NEW t \in Thread, NEW r \in Frames, r = th[t], r.pc = "write",
           r.mode = "pessimistic", r.parents # <<>> \/ r.new_root # NULL
    PROVE  MayAllocate(t)
<1>1. Control(r) /\ r.locks \in Seq(Locks) /\ Len(r.parents) \in Nat
  BY ZenonT(30), Parts, Fields
<1>2. Len(r.locks) = Len(r.parents) + 1
  BY <1>1 DEF Control
<1>3. r.locks # <<>>
  BY SMTT(30), <1>1, <1>2, SeqEmpty
<1> QED BY <1>3 DEF MayAllocate

\* Another thread is not affected: its copies are of nodes that it has locked,
\* and its new blocks are its own.
LEMMA WriteOther ==
    ASSUME NEW CONSTANT h \in Heights, Inv(h), NEW CONSTANT t \in Thread,
           NEW CONSTANT r \in Frames, r = th[t], r.writes # <<>>,
           NEW CONSTANT node, node = r.writes[1], Wrote(node.self, node),
           UNCHANGED <<root, depth, cursor, mismatch>>,
           NEW CONSTANT u \in Thread, u # t, th'[u] = th[u]
    PROVE  ThreadOK(th[u], h)'
<1>1. PICK v \in Frames : v = th[u] /\ v = th'[u]
  BY Parts
<1>2. /\ Control(v) /\ Where(v, h) /\ Path(v, h) /\ RootLocked(v)
      /\ Splitting(v, h) /\ Writing(v, h) /\ Growing(v, h)
  BY <1>1, Parts
<1>3. WriteFacts(r, node, h) /\ r.pc = "write"
  BY FirstWrite
<1>4. DOMAIN blocks \subseteq DOMAIN blocks'
  BY DEF Wrote
<1>5. \A b, n : InHand(v, b, n) => InHand(v, b, n)'
  BY <1>4 DEF InHand
<1>6. Control(v)' /\ RootLocked(v)'
  <2>1. Control(v)'
    BY ZenonT(30), <1>2 DEF Control, AtRest, LockType
  <2>2. RootLocked(v)'
    BY ZenonT(30), <1>2 DEF RootLocked
  <2> QED BY <2>1, <2>2
<1>7. Where(v, h)'
  <2>1. \A b : Known(b, h) => Known(b, h)'
    BY ZenonT(30), <1>4 DEF Known
  <2> QED BY ZenonT(30), <1>2, <2>1 DEF Where
<1>8. Path(v, h)'
  <2>1. ASSUME NEW CONSTANT i \in 1..Len(v.parents) PROVE Copied(v.parents[i].node)'
    <3>1. PICK up : up = v.parents[i]
      BY ZenonT(30)
    <3>2. i \in 1..Len(v.locks) /\ v.locks[i] = Lock(up.node.self, WRITE) /\ Copied(up.node)
      BY ZenonT(30), <1>2, <3>1 DEF Path
    <3>3. up.node.self # node.self
      <4> SUFFICES ASSUME up.node.self = node.self PROVE FALSE
        BY ZenonT(30)
      <4>1. node.self \in DOMAIN blocks
        BY <3>2 DEF Copied
      <4>2. node.self = r.node_id
        BY ZenonT(30), <1>3, <4>1 DEF WriteFacts
      <4>3. Control(r) /\ Len(r.parents) \in Nat
        BY ZenonT(30), Parts, Fields
      <4>4. /\ Len(r.locks) = Len(r.parents) + 1
            /\ r.locks[Len(r.locks)] = Lock(r.node_id, LockType(r))
        BY ZenonT(30), <1>3, <4>3 DEF Control
      <4>5. PICK j : j = Len(r.locks)
        BY ZenonT(30)
      <4>6. j \in 1..Len(th[t].locks) /\ th[t].locks[j].id = r.node_id
        BY SMTT(30), <4>3, <4>4, <4>5 DEF Lock
      <4>7. i \in 1..Len(th[u].locks) /\ th[u].locks[i].id = node.self /\ th[u].locks[i].type = WRITE
        BY SMTT(30), <1>1, <3>2 DEF Lock
      <4> QED BY ZenonT(30), <4>2, <4>6, <4>7 DEF Inv, Excluded
    <3>4. Copied(up.node)'
      BY <3>2, <3>3, CopyUnwritten
    <3> QED BY ZenonT(30), <3>1, <3>4
  <2> QED BY ZenonT(30), <1>2, <2>1 DEF Path
<1>9. Splitting(v, h)'
  BY ZenonT(30), <1>2, <1>5 DEF Splitting
<1>10. Growing(v, h)'
  BY ZenonT(30), <1>2, <1>5 DEF Growing
<1>11. Writing(v, h)'
  <2> SUFFICES ASSUME NEW CONSTANT i \in 1..Len(v.writes)
               PROVE  (LET n == v.writes[i] IN
                        /\ v.pc = "write"
                        /\ NodeOK(n, h)
                        /\ n.self \in 0..(cursor - 1)
                        /\ h[n.self] <= depth \/ n.self = v.new_root
                        /\ \/ n.self = v.node_id
                           \/ /\ v.mode = "pessimistic" /\ (v.parents # <<>> \/ v.new_root # NULL)
                              /\ n.self \notin DOMAIN blocks
                        /\ n.type = INNER =>
                              /\ v.mode = "pessimistic"
                              /\ \A k \in 1..Len(n.children) : InHand(v, n.children[k], i - 1)
                        /\ \A j \in 1..Len(v.writes) : v.writes[j].self = n.self => i = j)'
    BY ZenonT(30) DEF Writing
  <2>1. PICK n : n = v.writes[i]
    OBVIOUS
  <2>2. /\ v.pc = "write" /\ NodeOK(n, h) /\ n.self \in 0..(cursor - 1)
        /\ h[n.self] <= depth \/ n.self = v.new_root
        /\ \/ n.self = v.node_id
           \/ /\ v.mode = "pessimistic" /\ (v.parents # <<>> \/ v.new_root # NULL)
              /\ n.self \notin DOMAIN blocks
        /\ n.type = INNER =>
              /\ v.mode = "pessimistic"
              /\ \A k \in 1..Len(n.children) : InHand(v, n.children[k], i - 1)
        /\ \A j \in 1..Len(v.writes) : v.writes[j].self = n.self => i = j
    BY ZenonT(30), <1>2, <2>1 DEF Writing
  <2>3. ASSUME v.mode = "pessimistic", v.parents # <<>> \/ v.new_root # NULL,
               n.self \notin DOMAIN blocks
        PROVE  n.self \notin DOMAIN blocks'
    <3> SUFFICES ASSUME n.self = node.self PROVE FALSE
      BY <2>3 DEF Wrote
    <3>1. MayAllocate(u)
      BY <1>1, <2>2, <2>3, FreshAlone
    <3>2. r.node_id \in DOMAIN blocks
      <4>1. Where(r, h)
        BY ZenonT(30), Parts
      <4> QED BY <1>3, <4>1 DEF Where, Known
    <3>3. r.mode = "pessimistic" /\ (r.parents # <<>> \/ r.new_root # NULL)
      BY ZenonT(30), <1>3, <2>3, <3>2 DEF WriteFacts
    <3>4. MayAllocate(t)
      BY <1>3, <3>3, FreshAlone
    <3> QED BY ZenonT(30), <3>1, <3>4, AllocatorAlone
  <2> QED BY ZenonT(30), <1>5, <2>1, <2>2, <2>3
<1> QED BY <1>1, <1>6, <1>7, <1>8, <1>9, <1>10, <1>11 DEF ThreadOK

\* The thread that writes.
LEMMA WriteOwn ==
    ASSUME NEW CONSTANT h \in Heights, Inv(h), NEW CONSTANT t \in Thread,
           NEW CONSTANT r \in Frames, r = th[t], r.writes # <<>>,
           NEW CONSTANT node, node = r.writes[1], Wrote(node.self, node),
           UNCHANGED <<root, depth, cursor, mismatch>>,
           NEW CONSTANT q, q = [r EXCEPT !.writes = Tail(r.writes), !.applied = TRUE]
    PROVE  ThreadOK(q, h)'
<1>1. /\ Control(r) /\ Where(r, h) /\ Path(r, h) /\ RootLocked(r)
      /\ Splitting(r, h) /\ Writing(r, h) /\ Growing(r, h)
  BY Parts
<1>2. WriteFacts(r, node, h) /\ r.pc = "write"
  BY FirstWrite
<1>3. PICK W : W = Tail(r.writes)
  OBVIOUS
<1>4. /\ W \in Seq(Node) /\ Len(r.writes) \in Nat \ {0} /\ Len(W) = Len(r.writes) - 1
      /\ \A i \in 1..Len(W) : W[i] = r.writes[i + 1]
  <2>1. r.writes \in Seq(Node)
    BY Fields
  <2> QED BY <1>3, <2>1, SeqHeadTail, SeqEmpty
<1>5. /\ q.writes = W /\ q.pc = r.pc /\ q.parents = r.parents /\ q.split = r.split
      /\ q.mode = r.mode /\ q.call = r.call /\ q.locks = r.locks /\ q.node_id = r.node_id
      /\ q.new_root = r.new_root /\ q.level = r.level /\ q.is_root = r.is_root
      /\ q.height_first = r.height_first
  BY <1>3 DEF Frames
<1>6. q \in Frames
  BY <1>3, <1>4 DEF Frames
<1>7. DOMAIN blocks \subseteq DOMAIN blocks' /\ node.self \in DOMAIN blocks'
  BY DEF Wrote
<1>8. ASSUME NEW CONSTANT b, NEW CONSTANT n \in 1..Len(r.writes), InHand(r, b, n)
      PROVE  InHand(q, b, n - 1)'
  <2>1. CASE b \in DOMAIN blocks
    BY <1>7, <2>1 DEF InHand
  <2>2. ASSUME NEW i \in 1..n, r.writes[i].self = b PROVE InHand(q, b, n - 1)'
    <3>1. CASE i = 1
      BY <1>7, <2>2, <3>1 DEF InHand
    <3>2. CASE i # 1
      <4>1. i - 1 \in 1..(n - 1) /\ i - 1 \in 1..Len(W) /\ (i - 1) + 1 = i
        BY SMTT(30), <1>4, <1>8, <2>2, <3>2
      <4>2. W[i - 1] = r.writes[i]
        BY <1>4, <4>1
      <4>3. q.writes[i - 1].self = b
        BY <1>5, <2>2, <4>2
      <4> QED BY <4>1, <4>3 DEF InHand
    <3> QED BY <3>1, <3>2
  <2> QED BY <1>8, <2>1, <2>2 DEF InHand
<1>9. Control(q)' /\ RootLocked(q)'
  <2>1. LockType(q) = LockType(r)
    BY <1>5 DEF LockType
  <2>2. Control(q)'
    BY <1>1, <1>2, <1>5, <2>1 DEF Control, LockType
  <2>3. RootLocked(q)'
    BY <1>1, <1>5 DEF RootLocked
  <2> QED BY <2>2, <2>3
<1>10. Where(q, h)'
  <2>1. Known(r.node_id, h)'
    BY <1>1, <1>2, <1>7 DEF Known, Where
  <2> QED BY <1>1, <1>2, <1>5, <2>1 DEF Where
<1>11. Path(q, h)'
  <2>1. ASSUME NEW CONSTANT i \in 1..Len(r.parents) PROVE Copied(r.parents[i].node)'
    <3>1. PICK up : up = r.parents[i]
      OBVIOUS
    <3>2. Copied(up.node) /\ h[up.node.self] = depth + 1 - i
      BY <1>1, <3>1 DEF Path
    <3>3. up.node.self # node.self
      <4>1. r.parents # <<>> /\ Len(r.parents) \in Nat /\ depth \in Nat
        BY SMTT(30), <2>1, Fields DEF Inv, Typed
      <4>2. h[r.node_id] = depth - Len(r.parents)
        BY <1>1, <1>2, <4>1 DEF Path
      <4>3. up.node.self # r.node_id
        BY SMTT(30), <3>2, <4>1, <4>2
      <4>4. up.node.self \in DOMAIN blocks
        BY <3>2 DEF Copied
      <4> QED BY <1>2, <4>3, <4>4 DEF WriteFacts
    <3>4. Copied(up.node)'
      BY <3>2, <3>3, CopyUnwritten
    <3> QED BY <3>1, <3>4
  <2> QED BY SMTT(30), <1>1, <1>2, <1>5, <2>1 DEF Path
<1>12. PICK last : last = Len(r.writes)
  BY ZenonT(30)
<1>13. last \in 1..Len(r.writes) /\ last - 1 = Len(q.writes)
  BY SMTT(30), <1>4, <1>5, <1>12
<1>14. Splitting(q, h)'
  <2>1. ASSUME r.split # <<>> PROVE InHand(q, r.split[1].right.self, last - 1)'
    <3>1. PICK b : b = r.split[1].right.self
      OBVIOUS
    <3>2. InHand(r, b, last)
      BY <1>1, <1>12, <2>1, <3>1 DEF Splitting
    <3>3. InHand(q, b, last - 1)'
      BY <1>8, <1>13, <3>2
    <3> QED BY <3>1, <3>3
  <2> QED BY <1>1, <1>5, <1>13, <2>1 DEF Splitting
<1>15. Growing(q, h)'
  <2>1. ASSUME r.new_root # NULL PROVE InHand(q, r.new_root, last - 1)'
    <3>1. InHand(r, r.new_root, last)
      BY <1>1, <1>12, <2>1 DEF Growing
    <3> QED BY <1>8, <1>13, <3>1
  <2> QED BY <1>1, <1>5, <1>13, <2>1 DEF Growing
<1>16. Writing(q, h)'
  <2> SUFFICES ASSUME NEW CONSTANT i \in 1..Len(q.writes)
               PROVE  (LET n == q.writes[i] IN
                        /\ q.pc = "write"
                        /\ NodeOK(n, h)
                        /\ n.self \in 0..(cursor - 1)
                        /\ h[n.self] <= depth \/ n.self = q.new_root
                        /\ \/ n.self = q.node_id
                           \/ /\ q.mode = "pessimistic" /\ (q.parents # <<>> \/ q.new_root # NULL)
                              /\ n.self \notin DOMAIN blocks
                        /\ n.type = INNER =>
                              /\ q.mode = "pessimistic"
                              /\ \A k \in 1..Len(n.children) : InHand(q, n.children[k], i - 1)
                        /\ \A j \in 1..Len(q.writes) : q.writes[j].self = n.self => i = j)'
    BY DEF Writing
  <2>8. i \in 1..Len(W)
    BY <1>5
  <2>1. PICK n, m : n = W[i] /\ m = i + 1
    OBVIOUS
  <2>2. n = r.writes[m] /\ m \in 1..Len(r.writes) /\ m # 1 /\ m - 1 = i
    BY SMTT(30), <1>4, <2>1, <2>8
  <2>3. /\ NodeOK(n, h) /\ n.self \in 0..(cursor - 1)
        /\ h[n.self] <= depth \/ n.self = r.new_root
        /\ \/ n.self = r.node_id
           \/ /\ r.mode = "pessimistic" /\ (r.parents # <<>> \/ r.new_root # NULL)
              /\ n.self \notin DOMAIN blocks
        /\ n.type = INNER =>
              /\ r.mode = "pessimistic"
              /\ \A k \in 1..Len(n.children) : InHand(r, n.children[k], m - 1)
        /\ \A j \in 1..Len(r.writes) : r.writes[j].self = n.self => m = j
    BY <1>1, <2>2 DEF Writing
  <2>4. n.self # node.self
    BY <1>2, <2>2 DEF WriteFacts
  <2>5. n.self \notin DOMAIN blocks => n.self \notin DOMAIN blocks'
    BY <2>4 DEF Wrote
  <2>6. ASSUME n.type = INNER, NEW CONSTANT k \in 1..Len(n.children)
        PROVE  InHand(q, n.children[k], i - 1)'
    <3>1. PICK b : b = n.children[k]
      OBVIOUS
    <3>2. InHand(r, b, i) /\ i \in 1..Len(r.writes)
      BY SMTT(30), <1>4, <2>2, <2>3, <2>6, <2>8, <3>1
    <3>3. InHand(q, b, i - 1)'
      BY <1>8, <3>2
    <3> QED BY <3>1, <3>3
  <2>7. ASSUME NEW j \in 1..Len(W), W[j].self = n.self PROVE i = j
    <3>1. j + 1 \in 1..Len(r.writes) /\ r.writes[j + 1].self = n.self
      BY SMTT(30), <1>4, <2>7
    <3>2. m = j + 1
      BY <2>3, <3>1
    <3> QED BY SMTT(30), <1>4, <2>2, <2>8, <3>2
  <2>9. q.writes = W /\ cursor' = cursor /\ depth' = depth /\ q.pc = "write"
    BY <1>2, <1>5
  <2>10. q.mode = r.mode /\ q.parents = r.parents /\ q.new_root = r.new_root /\ q.node_id = r.node_id
    BY <1>5
  <2>11. q.writes[i] = n /\ \A j \in 1..Len(q.writes) : q.writes[j].self = n.self => i = j
    BY <2>1, <2>7, <2>9
  <2> QED BY <2>3, <2>5, <2>6, <2>9, <2>10, <2>11
<1> QED BY <1>6, <1>9, <1>10, <1>11, <1>14, <1>15, <1>16 DEF ThreadOK

\* The stored tree with the node that is written.
LEMMA WriteStored ==
    ASSUME NEW CONSTANT h \in Heights, Inv(h), NEW CONSTANT t \in Thread,
           NEW CONSTANT r \in Frames, r = th[t], r.writes # <<>>,
           NEW CONSTANT node, node = r.writes[1], Wrote(node.self, node),
           UNCHANGED <<root, depth, cursor>>,
           \A u \in Thread : th'[u].new_root = th[u].new_root
    PROVE  Stored(h)'
<1>1. WriteFacts(r, node, h)
  BY FirstWrite
<1>2. /\ DOMAIN blocks \subseteq 0..(cursor - 1)
      /\ DOMAIN blocks' = DOMAIN blocks \cup {node.self}
  BY DEF Inv, Stored, Wrote
<1>3. DOMAIN blocks' \subseteq 0..(cursor' - 1)
  BY ZenonT(30), <1>1, <1>2 DEF WriteFacts
<1>4. ASSUME NEW b \in DOMAIN blocks'
      PROVE  /\ blocks'[b].self = b
             /\ NodeOK(blocks'[b], h)
             /\ blocks'[b].type = INNER => ChildrenIn(blocks'[b], DOMAIN blocks')
             /\ h[b] <= depth \/ \E u \in Thread : th'[u].new_root = b
  <2>1. CASE b = node.self
    <3>1. blocks'[b] = node
      BY <2>1 DEF Wrote
    <3>2. node.type = INNER => ChildrenIn(node, DOMAIN blocks')
      BY ZenonT(30), <1>1, <1>2 DEF WriteFacts, ChildrenIn
    <3>3. h[b] <= depth \/ \E u \in Thread : th'[u].new_root = b
      BY <1>1, <2>1 DEF WriteFacts
    <3> QED BY ZenonT(30), <1>1, <2>1, <3>1, <3>2, <3>3 DEF WriteFacts
  <2>2. CASE b # node.self
    <3>1. b \in DOMAIN blocks /\ blocks'[b] = blocks[b]
      BY <1>2, <2>2 DEF Wrote
    <3>2. /\ blocks[b].self = b /\ NodeOK(blocks[b], h)
          /\ blocks[b].type = INNER => ChildrenIn(blocks[b], DOMAIN blocks)
          /\ h[b] <= depth \/ \E u \in Thread : th[u].new_root = b
      BY ZenonT(30), <3>1 DEF Inv, Stored
    <3>3. blocks[b].type = INNER => ChildrenIn(blocks[b], DOMAIN blocks')
      BY ZenonT(30), <1>2, <3>2 DEF ChildrenIn
    <3> QED BY <3>1, <3>2, <3>3
  <2> QED BY <2>1, <2>2
<1>5. root \in DOMAIN blocks' /\ h[root] = depth
  BY ZenonT(30), <1>2 DEF Inv, Stored
<1> QED BY <1>3, <1>4, <1>5 DEF Stored

\* blk_accessor_->write()
LEMMA WriteKeeps ==
    ASSUME NEW CONSTANT h \in Heights, Inv(h), NEW CONSTANT t \in Thread, write(t)
    PROVE  Inv(h)'
<1>1. PICK r \in Frames : r = th[t]
  BY Parts
<1>2. PICK node : node = Head(r.writes)
  OBVIOUS
<1>3. PICK q : q = [r EXCEPT !.writes = Tail(r.writes), !.applied = TRUE]
  OBVIOUS
<1>4. /\ r.pc = "write" /\ r.writes # <<>> /\ th' = [th EXCEPT ![t] = q]
      /\ blocks' = [a \in DOMAIN blocks \cup {node.self} |->
                       IF a = node.self THEN node ELSE blocks[a]]
      /\ dict' = (IF r.applied THEN dict ELSE [dict EXCEPT ![r.call.key] = r.call.val])
      /\ UNCHANGED <<root, depth, cursor, blocked, mismatch>>
  BY <1>1, <1>2, <1>3 DEF write, Update
<1>5. node = r.writes[1]
  BY SMTT(30), <1>2, <1>4, SeqHeadTail, Fields
<1>6. Wrote(node.self, node)
  BY <1>4 DEF Wrote
<1>7. th \in [Thread -> Frames] /\ Typed /\ Excluded
  BY DEF Inv, Typed
<1>8. /\ \A u \in Thread : th'[u] = IF u = t THEN q ELSE th[u]
      /\ q.locks = r.locks /\ q.new_root = r.new_root
  <2>1. q.locks = r.locks /\ q.new_root = r.new_root
    BY <1>3 DEF Frames
  <2> QED BY <1>4, <1>7, <2>1
<1>9. ThreadOK(q, h)'
  BY ZenonT(30), <1>1, <1>3, <1>4, <1>5, <1>6, WriteOwn
<1>10. ASSUME NEW CONSTANT u \in Thread PROVE ThreadOK(th[u], h)'
  <2>1. CASE u = t
    <3>1. th'[u] = q
      BY <1>8, <2>1
    <3> QED BY <1>9, <3>1 DEF ThreadOK
  <2>2. CASE u # t
    <3>1. th'[u] = th[u]
      BY <1>8, <2>2
    <3> QED BY ZenonT(30), <1>1, <1>4, <1>5, <1>6, <2>2, <3>1, WriteOther
  <2> QED BY <2>1, <2>2
<1>11. Stored(h)'
  <2>1. \A u \in Thread : th'[u].new_root = th[u].new_root
    BY <1>1, <1>8
  <2> QED BY ZenonT(30), <1>1, <1>4, <1>5, <1>6, <2>1, WriteStored
<1>12. Excluded'
  <2>1. \A u \in Thread : th'[u].locks = th[u].locks
    BY <1>1, <1>8
  <2> QED BY SMTT(30), <1>7, <2>1 DEF Excluded
<1>13. Typed'
  <2>1. dict' \in [Key -> Answers]
    <3>1. Control(r)
      BY <1>1, Parts
    <3>2. r.call \in InsertCalls
      BY <1>4, <3>1 DEF Control
    <3>3. r.call.key \in Key /\ r.call.val \in Answers
      BY <3>2 DEF InsertCalls, Answers
    <3>4. dict \in [Key -> Answers]
      BY <1>7 DEF Typed
    <3> QED BY <1>4, <3>3, <3>4
  <2>2. th' \in [Thread -> Frames]
    BY <1>4, <1>7, <1>9 DEF ThreadOK
  <2>3. blocked' \subseteq DOMAIN blocks'
    BY <1>4, <1>6, <1>7 DEF Typed, Wrote
  <2> QED BY <1>4, <1>7, <2>1, <2>2, <2>3 DEF Typed
<1> QED BY <1>10, <1>11, <1>12, <1>13 DEF Inv

-----------------------------------------------------------------------------
(* The root is replaced, the locks are given back *)

\* update_root_node_id_and_increase_tree_height, as another thread sees it: the
\* thread that has the root locked is the only one with a path.
LEMMA RootOther ==
    ASSUME NEW CONSTANT h \in Heights, Inv(h), NEW CONSTANT t \in Thread, MayAllocate(t),
           NEW CONSTANT u \in Thread, u # t, th'[u] = th[u],
           UNCHANGED <<blocks, cursor, mismatch>>, depth' = depth + 1, h[root'] = depth + 1
    PROVE  ThreadOK(th[u], h)' /\ th[u].new_root = NULL
<1>1. PICK v \in Frames : v = th[u] /\ v = th'[u]
  BY ZenonT(30), Parts
<1>2. /\ Control(v) /\ Where(v, h) /\ Path(v, h) /\ RootLocked(v)
      /\ Splitting(v, h) /\ Writing(v, h) /\ Growing(v, h)
  BY <1>1, Parts
<1>3. PICK d \in Nat : d = depth
  BY DEF Inv, Typed
<1>4. ~MayAllocate(u)
  BY AllocatorAlone
<1>5. v.locks \in Seq(Locks) /\ Len(v.locks) \in Nat /\ Len(v.parents) \in Nat /\ v.parents \in Seq(Steps)
  BY Fields
<1>6. v.new_root = NULL
  <2> SUFFICES ASSUME v.new_root # NULL PROVE FALSE
    OBVIOUS
  <2>1. v.pc = "write" /\ v.mode = "pessimistic"
    BY <1>2 DEF Growing
  <2> QED BY <1>1, <1>4, <2>1, FreshAlone
<1>7. v.parents = <<>>
  <2> SUFFICES ASSUME v.parents # <<>> PROVE FALSE
    OBVIOUS
  <2>1. v.mode = "pessimistic"
    BY ZenonT(30), <1>2 DEF Control
  <2>2. 1 \in 1..Len(v.parents)
    BY SMTT(30), <1>5, SeqEmpty
  <2>3. 1 \in 1..Len(v.locks)
    BY <1>2, <2>2 DEF Path
  <2>4. v.locks # <<>>
    BY SMTT(30), <2>3
  <2> QED BY <1>1, <1>4, <2>1, <2>4 DEF MayAllocate
<1>8. Len(v.parents) = 0
  BY SMTT(30), <1>7
<1>9. Control(v)'
  BY ZenonT(30), <1>2 DEF Control, AtRest, LockType
<1>10. \A a : Known(a, h) => h[a] \in Nat /\ h[a] <= d /\ a # root'
  <2>1. \A a \in DOMAIN blocks : a \in Nat
    BY SMTT(30) DEF Inv, Stored, Typed
  <2>2. \A a \in Nat : h[a] \in Nat
    BY DEF Heights
  <2> QED BY SMTT(30), <1>3, <2>1, <2>2 DEF Known
<1>11. Where(v, h)'
  <2>1. ASSUME NEW CONSTANT a, Known(a, h) PROVE Known(a, h)'
    BY SMTT(30), <1>3, <1>10, <2>1 DEF Known
  <2>2. v.pc \in {"height", "lock", "read", "write"} => Known(v.node_id, h) /\ v.node_id # root'
    BY ZenonT(30), <1>2, <1>10 DEF Where
  <2>3. v.pc \in {"height", "lock", "read", "write"} => Known(v.node_id, h)'
    BY ZenonT(30), <2>1, <2>2
  <2> QED BY ZenonT(30), <1>2, <2>2, <2>3 DEF Where
<1>12. Path(v, h)' /\ RootLocked(v)'
  <2>1. Path(v, h)'
    BY SMTT(30), <1>7, <1>8 DEF Path
  <2>2. RootLocked(v)'
    BY <1>1, <1>4 DEF RootLocked, MayAllocate
  <2> QED BY <2>1, <2>2
<1>13. Splitting(v, h)'
  BY ZenonT(30), <1>2, <1>7 DEF Splitting, InHand
<1>14. Growing(v, h)'
  BY <1>6 DEF Growing
<1>15. Writing(v, h)'
  <2> SUFFICES ASSUME NEW CONSTANT i \in 1..Len(v.writes)
               PROVE  (LET n == v.writes[i] IN
                        /\ v.pc = "write"
                        /\ NodeOK(n, h)
                        /\ n.self \in 0..(cursor - 1)
                        /\ h[n.self] <= depth \/ n.self = v.new_root
                        /\ \/ n.self = v.node_id
                           \/ /\ v.mode = "pessimistic" /\ (v.parents # <<>> \/ v.new_root # NULL)
                              /\ n.self \notin DOMAIN blocks
                        /\ n.type = INNER =>
                              /\ v.mode = "pessimistic"
                              /\ \A k \in 1..Len(n.children) : InHand(v, n.children[k], i - 1)
                        /\ \A j \in 1..Len(v.writes) : v.writes[j].self = n.self => i = j)'
    BY DEF Writing
  <2>1. PICK n : n = v.writes[i]
    OBVIOUS
  <2>2. /\ v.pc = "write" /\ NodeOK(n, h) /\ n.self \in 0..(cursor - 1)
        /\ h[n.self] <= depth \/ n.self = v.new_root
        /\ \/ n.self = v.node_id
           \/ /\ v.mode = "pessimistic" /\ (v.parents # <<>> \/ v.new_root # NULL)
              /\ n.self \notin DOMAIN blocks
        /\ n.type = INNER =>
              /\ v.mode = "pessimistic"
              /\ \A k \in 1..Len(n.children) : InHand(v, n.children[k], i - 1)
        /\ \A j \in 1..Len(v.writes) : v.writes[j].self = n.self => i = j
    BY ZenonT(30), <1>2, <2>1 DEF Writing
  <2>3. \A k : InHand(v, n.children[k], i - 1) => InHand(v, n.children[k], i - 1)'
    BY DEF InHand
  <2>4. h[n.self] <= depth' \/ n.self = v.new_root
    <3>1. h[n.self] \in Nat
      BY SMTT(30), <2>2 DEF Heights
    <3> QED BY SMTT(30), <1>3, <2>2, <3>1
  <2> QED BY ZenonT(30), <2>1, <2>2, <2>3, <2>4
<1>16. ThreadOK(v, h)'
  BY <1>9, <1>11, <1>12, <1>13, <1>14, <1>15 DEF ThreadOK
<1> QED BY <1>1, <1>6, <1>16 DEF ThreadOK

\* The new root is stored when it becomes the root, and one above the old one.
LEMMA UpdateRootKeeps ==
    ASSUME NEW CONSTANT h \in Heights, Inv(h), NEW CONSTANT t \in Thread, update_root(t)
    PROVE  Inv(h)'
<1>1. PICK r \in Frames : r = th[t]
  BY Parts
<1>2. PICK q : q = [r EXCEPT !.new_root = NULL]
  BY ZenonT(30)
<1>3. PICK d \in Nat : d = depth
  BY DEF Inv, Typed
<1>4. /\ r.pc = "write" /\ r.writes = <<>> /\ r.new_root # NULL
      /\ root' = r.new_root /\ depth' = d + 1 /\ th' = [th EXCEPT ![t] = q]
      /\ UNCHANGED <<blocks, cursor, blocked, dict, mismatch>>
  BY <1>1, <1>2, <1>3 DEF update_root, Update
<1>5. Control(r) /\ Where(r, h) /\ Splitting(r, h) /\ Growing(r, h)
  BY <1>1, Parts
<1>6. Len(r.writes) = 0
  BY SMTT(30), <1>4
<1>7. /\ r.mode = "pessimistic" /\ r.parents = <<>>
      /\ r.new_root \in DOMAIN blocks /\ h[r.new_root] = d + 1
  BY SMTT(30), <1>3, <1>4, <1>5, <1>6 DEF Growing, InHand
<1>8. MayAllocate(t)
  BY <1>1, <1>4, <1>7, FreshAlone
<1>9. th \in [Thread -> Frames] /\ Typed /\ Stored(h) /\ Excluded
  BY DEF Inv, Typed
<1>10. /\ q.pc = "write" /\ q.mode = "pessimistic" /\ q.parents = <<>> /\ q.writes = <<>>
       /\ q.new_root = NULL /\ q.locks = r.locks /\ q.split = r.split /\ q.call = r.call
       /\ q.node_id = r.node_id /\ q.level = r.level /\ q.is_root = r.is_root
  BY <1>2, <1>4, <1>7 DEF Frames
<1>11. q \in Frames
  <2>1. NULL \in Address
    BY DEF Address
  <2> QED BY <1>2, <2>1 DEF Frames
<1>12. \A u \in Thread : th'[u] = IF u = t THEN q ELSE th[u]
  BY <1>4, <1>9
<1>13. ThreadOK(q, h)'
  <2>1. Len(q.writes) = 0 /\ Len(q.parents) = 0
    BY <1>10
  <2>2. Control(q)'
    BY ZenonT(30), <1>5, <1>4, <1>7, <1>10 DEF Control, LockType
  <2>3. Where(q, h)'
    <3>1. Known(r.node_id, h)
      BY ZenonT(30), <1>4, <1>5 DEF Where
    <3>2. r.node_id \in Nat
      BY SMTT(30), <1>9, <3>1 DEF Known, Stored, Typed
    <3>3. h[r.node_id] \in Nat
      BY <3>2 DEF Heights
    <3>4. Known(r.node_id, h)'
      BY SMTT(30), <1>3, <1>4, <3>1, <3>3 DEF Known
    <3> QED BY ZenonT(30), <1>10, <3>4 DEF Where
  <2>4. Path(q, h)' /\ RootLocked(q)' /\ Writing(q, h)' /\ Growing(q, h)'
    BY SMTT(30), <1>10, <2>1 DEF Path, RootLocked, Writing, Growing
  <2>5. Splitting(q, h)'
    BY <1>4, <1>5, <1>6, <1>10, <2>1 DEF Splitting, InHand
  <2> QED BY <1>11, <2>2, <2>3, <2>4, <2>5 DEF ThreadOK
<1>14. ASSUME NEW CONSTANT u \in Thread, u # t
       PROVE  ThreadOK(th[u], h)' /\ th[u].new_root = NULL
  <2>1. th'[u] = th[u]
    BY <1>12, <1>14
  <2> QED BY ZenonT(30), <1>3, <1>4, <1>7, <1>8, <1>14, <2>1, RootOther
<1>15. ASSUME NEW CONSTANT u \in Thread PROVE ThreadOK(th[u], h)'
  <2>1. CASE u = t
    <3>1. th'[u] = q
      BY <1>12, <2>1
    <3> QED BY <1>13, <3>1 DEF ThreadOK
  <2>2. CASE u # t
    BY <1>14, <2>2
  <2> QED BY <2>1, <2>2
<1>16. Stored(h)'
  <2>1. ASSUME NEW a \in DOMAIN blocks PROVE h[a] <= d + 1
    <3>1. a \in Nat /\ a # NULL
      <4>1. DOMAIN blocks \subseteq 0..(cursor - 1)
        BY <1>9 DEF Stored
      <4> QED BY SMTT(30), <4>1 DEF NULL
    <3>2. h[a] \in Nat
      BY <3>1 DEF Heights
    <3>3. h[a] <= d \/ \E u \in Thread : th[u].new_root = a
      BY <1>3, <1>9 DEF Stored
    <3>4. ASSUME NEW u \in Thread, th[u].new_root = a PROVE h[a] <= d + 1
      <4>1. u = t
        BY <1>14, <3>1, <3>4
      <4> QED BY SMTT(30), <1>1, <1>7, <3>4, <4>1
    <3> QED BY SMTT(30), <3>2, <3>3, <3>4
  <2> QED BY ZenonT(30), <1>4, <1>7, <1>9, <2>1 DEF Stored
<1>17. Excluded'
  <2>1. \A u \in Thread : th'[u].locks = th[u].locks
    BY <1>1, <1>10, <1>12
  <2> QED BY SMTT(30), <1>9, <2>1 DEF Excluded
<1>18. Typed'
  <2>1. th' \in [Thread -> Frames]
    BY <1>4, <1>9, <1>11
  <2>2. r.new_root \in Nat
    BY SMTT(30), <1>7, <1>9 DEF Stored, Typed
  <2>3. d + 1 \in Nat \ {0}
    BY SMTT(30)
  <2> QED BY <1>4, <1>9, <2>1, <2>2, <2>3 DEF Typed
<1> QED BY <1>15, <1>16, <1>17, <1>18 DEF Inv

\* release_lock() on the way back.
LEMMA ReleaseKeeps ==
    ASSUME NEW CONSTANT h \in Heights, Inv(h), NEW CONSTANT t \in Thread, release(t)
    PROVE  Inv(h)'
<1>1. PICK r \in Frames : r = th[t]
  BY Parts
<1>2. /\ r.pc = "write" /\ r.writes = <<>> /\ r.new_root = NULL
      /\ th' = [th EXCEPT ![t] = IF r.parents = <<>> THEN Idle(r.program, r.answer)
                                 ELSE [r EXCEPT !.pc = "return", !.locks = Front(@)]]
      /\ blocked' \subseteq blocked
      /\ UNCHANGED <<root, depth, blocks, cursor, dict, mismatch>>
  BY <1>1 DEF release, Update, Unblocked
<1>3. blocked' \subseteq DOMAIN blocks /\ th[t].new_root = NULL
  BY <1>1, <1>2 DEF Inv, Typed
<1>4. CASE r.parents = <<>>
  <2> DEFINE q == Idle(r.program, r.answer)
  <2>1. th' = [th EXCEPT ![t] = q]
    BY <1>2, <1>4
  <2>2. r.program \in Seq(Call) /\ r.answer \in Answers
    BY Fields
  <2>3. q \in Frames
    BY <2>2, IdleFrame
  <2>4. q.pc = "idle" /\ q.mode = "none" /\ AtRest(q)
    BY DEF Idle, AtRest
  <2> HIDE DEF q
  <2>5. Control(q)
    BY ZenonT(30), <2>4 DEF Control, AtRest
  <2>6. Where(q, h)
    BY <2>4 DEF Where
  <2> QED BY ZenonT(30), <1>2, <1>3, <2>1, <2>3, <2>4, <2>5, <2>6, RestStep
<1>5. CASE r.parents # <<>>
  <2>1. PICK L : L = Front(r.locks)
    OBVIOUS
  <2> DEFINE q == [r EXCEPT !.pc = "return", !.locks = L]
  <2>2. th' = [th EXCEPT ![t] = q]
    BY <1>2, <1>5, <2>1
  <2>3. /\ Control(r) /\ Where(r, h) /\ Path(r, h) /\ RootLocked(r) /\ Splitting(r, h)
        /\ r.locks \in Seq(Locks) /\ Len(r.parents) \in Nat /\ r.parents \in Seq(Steps)
    BY <1>1, Parts, Fields
  <2>4. r.mode = "pessimistic" /\ Len(r.locks) = Len(r.parents) + 1
    BY <1>2, <1>5, <2>3 DEF Control
  <2>5. r.locks # <<>> /\ Len(r.parents) # 0
    BY SMTT(30), <1>5, <2>3, <2>4, SeqEmpty
  <2>6. /\ L \in Seq(Locks) /\ Len(L) = Len(r.parents)
        /\ \A i \in 1..Len(L) : i \in 1..Len(r.locks) /\ L[i] = r.locks[i]
    <3>1. /\ L \in Seq(Locks) /\ Len(L) = Len(r.locks) - 1
          /\ \A i \in 1..(Len(r.locks) - 1) : L[i] = r.locks[i]
      BY <2>1, <2>3, <2>5, FrontLast
    <3>2. Len(L) = Len(r.parents) /\ Len(r.locks) - 1 = Len(r.parents) /\ Len(r.parents) \in Nat
      BY SMTT(30), <2>3, <2>4, <3>1
    <3> QED BY SMTT(30), <2>4, <3>1, <3>2
  <2>7. /\ q.pc = "return" /\ q.locks = L /\ q.mode = r.mode /\ q.call = r.call
        /\ q.parents = r.parents /\ q.split = r.split /\ q.writes = r.writes
        /\ q.new_root = r.new_root
    BY DEF Frames
  <2>8. q \in Frames
    <3>1. "return" \in Points
      BY DEF Points
    <3> QED BY ZenonT(30), <2>6, <3>1 DEF Frames
  <2> HIDE DEF q
  <2>9. Control(q)
    BY <1>2, <1>5, <2>3, <2>4, <2>6, <2>7 DEF Control
  <2>10. Where(q, h)
    BY <2>4, <2>7 DEF Where
  <2>11. Path(q, h)
    <3>1. \A i \in 1..Len(r.parents) : i \in 1..Len(L) /\ L[i] = r.locks[i]
      BY <2>6
    <3> QED BY ZenonT(30), <2>3, <2>7, <3>1 DEF Path
  <2>12. RootLocked(q)
    <3>1. r.locks[1] = Lock(root, WRITE)
      BY <1>5, <2>3, <2>4, <2>5 DEF RootLocked
    <3>2. L[1] = r.locks[1]
      BY SMTT(30), <2>3, <2>5, <2>6
    <3> QED BY ZenonT(30), <2>7, <3>1, <3>2 DEF RootLocked
  <2>13. Splitting(q, h)
    BY <1>2, <2>3, <2>7 DEF Splitting, InHand
  <2>14. Writing(q, h) /\ Growing(q, h)
    <3>1. Len(q.writes) = 0
      BY SMTT(30), <1>2, <2>7
    <3> QED BY SMTT(30), <1>2, <2>7, <3>1 DEF Writing, Growing
  <2>15. ThreadOK(q, h)
    BY <2>8, <2>9, <2>10, <2>11, <2>12, <2>13, <2>14 DEF ThreadOK
  <2>16. \A j \in 1..Len(q.locks) : \E i \in 1..Len(th[t].locks) : th[t].locks[i] = q.locks[j]
    BY <1>1, <2>6, <2>7
  <2> QED BY ZenonT(30), <1>2, <1>3, <2>2, <2>15, <2>16, LocalStep
<1> QED BY <1>4, <1>5

==============================================================================
