-------------------------- MODULE BlkStorageProofs ---------------------------
(***************************************************************************)
(* Proofs about what the four accessors have in common: the block cache    *)
(* over the device, and the commands of the clients.  Nothing here depends *)
(* on the number of clients, blocks and writes or on the capacity.         *)
(***************************************************************************)
EXTENDS NvmeBlkAccessor, TLAPS

\* Steps that name no prover are left to Zenon; SMTT marks what needs the SMT solver.
USE ZenonT(20)

-----------------------------------------------------------------------------
(* Sequences *)

\* Two sequences, one after the other.
LEMMA Concatenated ==
    ASSUME NEW S, NEW s \in Seq(S), NEW t \in Seq(S)
    PROVE  /\ s \o t \in Seq(S) /\ Len(s \o t) = Len(s) + Len(t)
           /\ \A i \in 1..(Len(s) + Len(t)) :
                 (s \o t)[i] = IF i <= Len(s) THEN s[i] ELSE t[i - Len(s)]
BY SMTT(30)

\* A sequence without one of its elements.
LEMMA RemoveAtDef ==
    ASSUME NEW S, NEW s \in Seq(S), NEW i \in 1..Len(s)
    PROVE  /\ RemoveAt(s, i) \in Seq(S)
           /\ Len(RemoveAt(s, i)) = Len(s) - 1
           /\ \A j \in 1..(Len(s) - 1) :
                 RemoveAt(s, i)[j] = IF j < i THEN s[j] ELSE s[j + 1]
<1> DEFINE a == SubSeq(s, 1, i - 1)
           b == SubSeq(s, i + 1, Len(s))
<1>0. Len(s) \in Nat /\ \A j \in 1..Len(s) : s[j] \in S
  BY SMTT(30)
<1>1. /\ a \in Seq(S) /\ Len(a) = i - 1
      /\ \A j \in 1..(i - 1) : a[j] = s[j]
  BY SMTT(30), <1>0
<1>2. /\ b \in Seq(S) /\ Len(b) = Len(s) - i
      /\ \A j \in 1..(Len(s) - i) : b[j] = s[i + j]
  BY SMTT(30), <1>0
<1> HIDE DEF a, b
<1>3. /\ a \o b \in Seq(S) /\ Len(a \o b) = Len(s) - 1
      /\ \A j \in 1..(Len(s) - 1) : (a \o b)[j] = IF j < i THEN s[j] ELSE s[j + 1]
  <2>1. /\ a \o b \in Seq(S) /\ Len(a \o b) = Len(a) + Len(b)
        /\ \A j \in 1..(Len(a) + Len(b)) :
              (a \o b)[j] = IF j <= Len(a) THEN a[j] ELSE b[j - Len(a)]
    BY <1>1, <1>2, Concatenated
  <2>2. ASSUME NEW j \in 1..(Len(s) - 1)
        PROVE  (a \o b)[j] = IF j < i THEN s[j] ELSE s[j + 1]
    <3>1. CASE j < i
      BY SMTT(30), <1>0, <1>1, <1>2, <2>1, <3>1
    <3>2. CASE ~(j < i)
      <4>1. j - (i - 1) \in 1..(Len(s) - i) /\ i + (j - (i - 1)) = j + 1
        BY SMTT(30), <1>0, <3>2
      <4>2. b[j - (i - 1)] = s[j + 1]
        BY <1>2, <4>1
      <4> QED BY SMTT(30), <1>0, <1>1, <1>2, <2>1, <3>2, <4>2
    <3> QED BY <3>1, <3>2
  <2> QED BY SMTT(30), <1>0, <1>1, <1>2, <2>1, <2>2
<1> QED BY <1>3 DEF RemoveAt, a, b

\* A sequence with a new first element.
LEMMA Prefixed ==
    ASSUME NEW S, NEW s \in Seq(S), NEW e \in S
    PROVE  /\ <<e>> \o s \in Seq(S)
           /\ Len(<<e>> \o s) = Len(s) + 1
           /\ (<<e>> \o s)[1] = e
           /\ \A j \in 2..(Len(s) + 1) : (<<e>> \o s)[j] = s[j - 1]
<1>0. Len(s) \in Nat /\ <<e>> \in Seq(S) /\ Len(<<e>>) = 1 /\ <<e>>[1] = e
  BY SMTT(30)
<1>1. /\ <<e>> \o s \in Seq(S) /\ Len(<<e>> \o s) = Len(s) + 1
      /\ \A j \in 1..(1 + Len(s)) :
            (<<e>> \o s)[j] = IF j <= 1 THEN <<e>>[j] ELSE s[j - 1]
  BY SMTT(30), <1>0
<1> QED BY SMTT(30), <1>0, <1>1

\* A sequence that is not empty without its last element, and that element.
LEMMA FrontLast ==
    ASSUME NEW S, NEW s \in Seq(S), Len(s) > 0
    PROVE  /\ Front(s) \in Seq(S)
           /\ Len(Front(s)) = Len(s) - 1
           /\ \A i \in 1..(Len(s) - 1) : Front(s)[i] = s[i]
           /\ Last(s) = s[Len(s)]
<1>1. Len(s) \in Nat /\ \A j \in 1..Len(s) : s[j] \in S
  BY SMTT(30)
<1> DEFINE n == Len(s) - 1
<1>2. n \in Nat /\ \A j \in 1..n : s[j] \in S
  BY SMTT(30), <1>1
<1> HIDE DEF n
<1>3. /\ SubSeq(s, 1, n) \in Seq(S) /\ Len(SubSeq(s, 1, n)) = n
      /\ \A i \in 1..n : SubSeq(s, 1, n)[i] = s[i]
  BY SMTT(30), <1>2
<1> QED BY <1>3 DEF n, Front, Last

-----------------------------------------------------------------------------
(* The cache *)

\* A cache of blocks of B: no block has two units.
CacheOK(C, B) ==
    /\ C \in Seq(CacheUnit(B, Data))
    /\ \A i, j \in 1..Len(C) : C[i].id = C[j].id => i = j

\* The places of a cache hold units.
LEMMA Places ==
    ASSUME NEW B, NEW C, CacheOK(C, B)
    PROVE  /\ Len(C) \in Nat /\ DOMAIN C = 1..Len(C)
           /\ \A i \in 1..Len(C) : C[i] \in CacheUnit(B, Data)
BY SMTT(30) DEF CacheOK

\* The unit at a place is the one that get() returns for its block.
LEMMA UnitAt ==
    ASSUME NEW B, NEW C, CacheOK(C, B), NEW i \in 1..Len(C), NEW x, C[i].id = x
    PROVE  is_cached(C, x) /\ get(C, x) = C[i] /\ Position(C, x) = i
<1>1. DOMAIN C = 1..Len(C)
  BY Places
<1>2. \A j \in DOMAIN C : C[j].id = x => j = i
  BY <1>1 DEF CacheOK
<1>3. (CHOOSE j \in DOMAIN C : C[j].id = x) = i
  BY <1>1, <1>2
<1> QED BY <1>1, <1>3 DEF get, Position, is_cached

\* A cached block has a place.
LEMMA PlaceOf ==
    ASSUME NEW B, NEW C, CacheOK(C, B), NEW x, is_cached(C, x)
    PROVE  \E i \in 1..Len(C) : C[i].id = x /\ get(C, x) = C[i] /\ Position(C, x) = i
<1>1. PICK i \in 1..Len(C) : C[i].id = x
  BY Places DEF is_cached
<1> QED BY SMTT(30), <1>1, UnitAt

\* C2 holds of block x what C holds of it.
Agree(C, C2, x) ==
    /\ is_cached(C2, x) <=> is_cached(C, x)
    /\ is_cached(C, x) => get(C2, x) = get(C, x)

\* invalidate() takes out the unit of one block.
LEMMA Invalidated ==
    ASSUME NEW B, NEW C, CacheOK(C, B), NEW b, NEW C2, C2 = invalidate(C, b)
    PROVE  /\ CacheOK(C2, B)
           /\ Len(C2) = IF is_cached(C, b) THEN Len(C) - 1 ELSE Len(C)
           /\ ~is_cached(C2, b)
           /\ \A x : x # b => Agree(C, C2, x)
<1>1. CASE ~is_cached(C, b)
  BY <1>1 DEF invalidate, Agree
<1>2. CASE is_cached(C, b)
  <2>1. PICK k \in 1..Len(C) : C[k].id = b /\ Position(C, b) = k
    BY SMTT(30), <1>2, PlaceOf
  <2>2. C2 = RemoveAt(C, k) /\ C \in Seq(CacheUnit(B, Data)) /\ Len(C) \in Nat
    BY <1>2, <2>1, Places DEF invalidate, CacheOK
  <2>3. /\ C2 \in Seq(CacheUnit(B, Data)) /\ Len(C2) = Len(C) - 1
        /\ \A j \in 1..(Len(C) - 1) : C2[j] = IF j < k THEN C[j] ELSE C[j + 1]
    BY <2>1, <2>2, RemoveAtDef
  <2>4. \A i, j \in 1..Len(C) : C[i].id = C[j].id => i = j
    BY DEF CacheOK
  <2>5. ASSUME NEW i \in 1..Len(C2)
        PROVE  /\ C2[i].id # b
               /\ \E m \in 1..Len(C) : C2[i] = C[m] /\ m = IF i < k THEN i ELSE i + 1
    <3>1. CASE i < k
      BY SMTT(30), <2>1, <2>2, <2>3, <2>4, <3>1
    <3>2. CASE ~(i < k)
      <4>1. i + 1 \in 1..Len(C) /\ C2[i] = C[i + 1] /\ i + 1 # k
        BY SMTT(30), <2>1, <2>2, <2>3, <3>2
      <4> QED BY <2>1, <2>4, <3>2, <4>1
    <3> QED BY <3>1, <3>2
  <2>6. ASSUME NEW m \in 1..Len(C), m # k
        PROVE  \E i \in 1..Len(C2) : C2[i] = C[m]
    <3>1. CASE m < k
      BY SMTT(30), <2>1, <2>2, <2>3, <3>1
    <3>2. CASE ~(m < k)
      <4>1. m - 1 \in 1..(Len(C) - 1) /\ ~(m - 1 < k) /\ (m - 1) + 1 = m
        BY SMTT(30), <2>1, <2>2, <2>6, <3>2
      <4>2. C2[m - 1] = C[m]
        BY <2>3, <4>1
      <4> QED BY <2>3, <4>1, <4>2
    <3> QED BY <3>1, <3>2
  <2>7. CacheOK(C2, B)
    <3>1. ASSUME NEW i \in 1..Len(C2), NEW j \in 1..Len(C2), C2[i].id = C2[j].id
          PROVE  i = j
      <4>1. PICK m \in 1..Len(C) : C2[i] = C[m] /\ m = IF i < k THEN i ELSE i + 1
        BY <2>5
      <4>2. PICK n \in 1..Len(C) : C2[j] = C[n] /\ n = IF j < k THEN j ELSE j + 1
        BY <2>5
      <4>3. m = n
        BY <2>4, <3>1, <4>1, <4>2
      <4> QED BY SMTT(30), <2>1, <2>2, <2>3, <4>1, <4>2, <4>3
    <3> QED BY <2>3, <3>1 DEF CacheOK
  <2>8. ~is_cached(C2, b)
    BY SMTT(30), <2>5, <2>7, PlaceOf
  <2>9. ASSUME NEW x, x # b PROVE Agree(C, C2, x)
    <3>1. ASSUME is_cached(C2, x)
          PROVE  is_cached(C, x) /\ get(C2, x) = get(C, x)
      <4>1. PICK i \in 1..Len(C2) : C2[i].id = x /\ get(C2, x) = C2[i]
        BY SMTT(30), <2>7, <3>1, PlaceOf
      <4>2. PICK m \in 1..Len(C) : C2[i] = C[m]
        BY <2>5
      <4> QED BY <4>1, <4>2, UnitAt
    <3>2. ASSUME is_cached(C, x)
          PROVE  is_cached(C2, x)
      <4>1. PICK m \in 1..Len(C) : C[m].id = x
        BY SMTT(30), <3>2, PlaceOf
      <4>2. PICK i \in 1..Len(C2) : C2[i] = C[m]
        BY <2>1, <2>6, <2>9, <4>1
      <4> QED BY <2>7, <4>1, <4>2, UnitAt
    <3> QED BY <3>1, <3>2 DEF Agree
  <2> QED BY <1>2, <2>3, <2>7, <2>8, <2>9
<1> QED BY <1>1, <1>2

\* C2 is C with u before it.
Follows(C, C2, u, B) ==
    /\ C2 \in Seq(CacheUnit(B, Data)) /\ Len(C2) = Len(C) + 1
    /\ C2[1] = u /\ \A j \in 2..(Len(C) + 1) : C2[j] = C[j - 1]

\* A unit of a block that is not cached goes to the front.
LEMMA PutFirst ==
    ASSUME NEW B, NEW C, CacheOK(C, B), NEW u \in CacheUnit(B, Data), ~is_cached(C, u.id),
           NEW C2, Follows(C, C2, u, B)
    PROVE  /\ CacheOK(C2, B)
           /\ Len(C2) = Len(C) + 1
           /\ is_cached(C2, u.id) /\ get(C2, u.id) = u
           /\ \A x : x # u.id => Agree(C, C2, x)
           /\ \A j \in 1..Len(C) : C2[j + 1] = C[j]
<1>1. /\ C2 \in Seq(CacheUnit(B, Data)) /\ Len(C2) = Len(C) + 1
      /\ C2[1] = u /\ \A j \in 2..(Len(C) + 1) : C2[j] = C[j - 1]
  BY DEF Follows
<1>2. Len(C) \in Nat /\ \A i \in 1..Len(C) : C[i].id # u.id
  BY Places, UnitAt
<1>3. ASSUME NEW j \in 1..Len(C) PROVE j + 1 \in 1..Len(C2) /\ C2[j + 1] = C[j]
  <2>1. j + 1 \in 2..(Len(C) + 1) /\ (j + 1) - 1 = j
    BY SMTT(30), <1>2
  <2> QED BY SMTT(30), <1>1, <1>2, <2>1
<1>4. ASSUME NEW i \in 1..Len(C2), i # 1
      PROVE  \E m \in 1..Len(C) : C2[i] = C[m] /\ i = m + 1
  <2>1. i - 1 \in 1..Len(C) /\ C2[i] = C[i - 1] /\ i = (i - 1) + 1
    BY SMTT(30), <1>1, <1>2, <1>4
  <2> QED BY <2>1
<1>5. CacheOK(C2, B)
  <2>1. \A i, j \in 1..Len(C) : C[i].id = C[j].id => i = j
    BY DEF CacheOK
  <2>2. ASSUME NEW i \in 1..Len(C2), NEW j \in 1..Len(C2), C2[i].id = C2[j].id
        PROVE  i = j
    BY SMTT(30), <1>1, <1>2, <1>4, <2>1, <2>2
  <2> QED BY <1>1, <2>2 DEF CacheOK
<1>6. 1 \in 1..Len(C2)
  BY SMTT(30), <1>1, <1>2
<1>7. is_cached(C2, u.id) /\ get(C2, u.id) = u
  BY SMTT(30), <1>1, <1>5, <1>6, UnitAt
<1>8. ASSUME NEW x, x # u.id PROVE Agree(C, C2, x)
  <2>1. ASSUME is_cached(C2, x)
        PROVE  is_cached(C, x) /\ get(C2, x) = get(C, x)
    <3>1. PICK i \in 1..Len(C2) : C2[i].id = x /\ get(C2, x) = C2[i]
      BY SMTT(30), <1>5, <2>1, PlaceOf
    <3>2. PICK m \in 1..Len(C) : C2[i] = C[m]
      BY <1>1, <1>4, <1>8, <3>1
    <3> QED BY <3>1, <3>2, UnitAt
  <2>2. ASSUME is_cached(C, x)
        PROVE  is_cached(C2, x)
    <3>1. PICK m \in 1..Len(C) : C[m].id = x
      BY SMTT(30), <2>2, PlaceOf
    <3> QED BY <1>3, <1>5, <3>1, UnitAt
  <2> QED BY <2>1, <2>2 DEF Agree
<1> QED BY <1>1, <1>3, <1>5, <1>7, <1>8

\* The unit of a cached block moves to the front, perhaps with other data.
LEMMA Touched ==
    ASSUME NEW B, NEW C, CacheOK(C, B), NEW u \in CacheUnit(B, Data), is_cached(C, u.id),
           NEW C2, C2 = Touch(C, u)
    PROVE  /\ CacheOK(C2, B)
           /\ Len(C2) = Len(C)
           /\ is_cached(C2, u.id) /\ get(C2, u.id) = u
           /\ \A x : x # u.id => Agree(C, C2, x)
<1>1. PICK D : D = invalidate(C, u.id)
  OBVIOUS
<1>2. /\ CacheOK(D, B) /\ Len(D) = Len(C) - 1 /\ ~is_cached(D, u.id)
      /\ \A x : x # u.id => Agree(C, D, x)
  BY <1>1, Invalidated
<1>3. C2 = <<u>> \o D
  BY <1>1 DEF Touch
<1>4. Follows(D, C2, u, B)
  BY SMTT(30), <1>2, <1>3, Prefixed DEF Follows, CacheOK
<1>5. /\ CacheOK(C2, B) /\ Len(C2) = Len(D) + 1
      /\ is_cached(C2, u.id) /\ get(C2, u.id) = u
      /\ \A x : x # u.id => Agree(D, C2, x)
  BY SMTT(30), <1>2, <1>4, PutFirst
<1>6. Len(C) \in Nat /\ Len(D) \in Nat
  BY <1>2, Places
<1>7. \A x : x # u.id => Agree(C, C2, x)
  BY <1>2, <1>5 DEF Agree
<1> QED BY SMTT(30), <1>2, <1>5, <1>6, <1>7

\* evict_unit() takes out the last unit.
LEMMA Dropped ==
    ASSUME NEW B, NEW C, CacheOK(C, B), Len(C) > 0, NEW D, D = Front(C), NEW v, v = Last(C)
    PROVE  /\ CacheOK(D, B) /\ Len(D) = Len(C) - 1
           /\ \A j \in 1..(Len(C) - 1) : D[j] = C[j]
           /\ v \in CacheUnit(B, Data) /\ is_cached(C, v.id) /\ get(C, v.id) = v
           /\ ~is_cached(D, v.id)
           /\ \A x : x # v.id => Agree(C, D, x)
<1>1. /\ D \in Seq(CacheUnit(B, Data)) /\ Len(D) = Len(C) - 1
      /\ \A i \in 1..(Len(C) - 1) : D[i] = C[i]
      /\ v = C[Len(C)]
  BY FrontLast DEF CacheOK
<1>2. /\ Len(C) \in Nat /\ Len(C) \in 1..Len(C)
      /\ \A i \in 1..(Len(C) - 1) : i \in 1..Len(C) /\ i # Len(C)
  BY SMTT(30), Places
<1>3. v \in CacheUnit(B, Data) /\ is_cached(C, v.id) /\ get(C, v.id) = v
  BY SMTT(30), <1>1, <1>2, Places, UnitAt
<1>4. \A i, j \in 1..Len(C) : C[i].id = C[j].id => i = j
  BY DEF CacheOK
<1>5. CacheOK(D, B)
  BY SMTT(30), <1>1, <1>2, <1>4 DEF CacheOK
<1>6. ~is_cached(D, v.id)
  <2> SUFFICES ASSUME is_cached(D, v.id) PROVE FALSE
    OBVIOUS
  <2>1. PICK i \in 1..Len(D) : D[i].id = v.id
    BY SMTT(30), <1>5, PlaceOf
  <2> QED BY <1>1, <1>2, <1>4, <2>1
<1>7. ASSUME NEW x, x # v.id PROVE Agree(C, D, x)
  <2>1. ASSUME is_cached(D, x)
        PROVE  is_cached(C, x) /\ get(D, x) = get(C, x)
    <3>1. PICK i \in 1..Len(D) : D[i].id = x /\ get(D, x) = D[i]
      BY SMTT(30), <1>5, <2>1, PlaceOf
    <3>2. i \in 1..Len(C) /\ C[i] = D[i]
      BY <1>1, <1>2
    <3> QED BY <3>1, <3>2, UnitAt
  <2>2. ASSUME is_cached(C, x)
        PROVE  is_cached(D, x)
    <3>1. PICK i \in 1..Len(C) : C[i].id = x
      BY SMTT(30), <2>2, PlaceOf
    <3>2. i \in 1..Len(D) /\ C[i] = D[i]
      BY SMTT(30), <1>1, <1>2, <1>7, <3>1
    <3> QED BY <1>5, <3>1, <3>2, UnitAt
  <2> QED BY <2>1, <2>2 DEF Agree
<1> QED BY <1>1, <1>3, <1>5, <1>6, <1>7

\* What write() makes of the cache C, of capacity k, for block b.
Stores(C, C2, b, d, y, k, B) ==
    /\ CacheOK(C2, B) /\ Len(C2) <= k
    /\ is_cached(C2, b)
    /\ get(C2, b).data = d
    /\ get(C2, b).dirty = IF is_cached(C, b) THEN get(C, b).dirty ELSE y
    /\ \A x : x # b /\ ~(Evicted(C, b, k) /\ x = evict_unit(C).id) => Agree(C, C2, x)
    /\ Evicted(C, b, k) => ~is_cached(C2, evict_unit(C).id)

\* The unit that has to go is one of another block.
Victim(C, b, v, B) ==
    /\ v \in CacheUnit(B, Data) /\ v.id # b
    /\ is_cached(C, v.id) /\ get(C, v.id) = v

LEMMA Written ==
    ASSUME NEW B, NEW C, CacheOK(C, B), NEW k \in Nat \ {0}, Len(C) <= k,
           NEW b \in B, NEW d \in Data, NEW y \in BOOLEAN,
           NEW C2, C2 = write(C, b, d, y, k)
    PROVE  /\ Stores(C, C2, b, d, y, k, B)
           /\ Evicted(C, b, k) => Victim(C, b, evict_unit(C), B)
<1>0. Len(C) \in Nat
  BY Places
<1>1. CASE is_cached(C, b)
  <2>1. PICK u : u = [get(C, b) EXCEPT !.data = d]
    OBVIOUS
  <2>2. get(C, b) \in CacheUnit(B, Data) /\ get(C, b).id = b
    BY SMTT(30), <1>1, PlaceOf, Places
  <2>3. u \in CacheUnit(B, Data) /\ u.id = b /\ u.data = d /\ u.dirty = get(C, b).dirty
    BY <2>1, <2>2 DEF CacheUnit
  <2>4. C2 = Touch(C, u) /\ ~Evicted(C, b, k)
    BY <1>1, <2>1 DEF write, Evicted
  <2>5. /\ CacheOK(C2, B) /\ Len(C2) = Len(C) /\ is_cached(C2, b) /\ get(C2, b) = u
        /\ \A x : x # b => Agree(C, C2, x)
    BY SMTT(30), <1>1, <2>3, <2>4, Touched
  <2> QED BY <1>1, <2>3, <2>4, <2>5 DEF Stores
<1>2. CASE ~is_cached(C, b)
  <2>1. PICK u : u = [id |-> b, dirty |-> y, data |-> d]
    OBVIOUS
  <2>2. u \in CacheUnit(B, Data) /\ u.id = b /\ u.data = d /\ u.dirty = y
    BY <2>1 DEF CacheUnit
  <2>3. Follows(C, <<u>> \o C, u, B)
    BY SMTT(30), <2>2, Prefixed DEF Follows, CacheOK
  <2>4. CASE ~Evicted(C, b, k)
    <3>1. C2 = <<u>> \o C /\ Len(C) + 1 <= k
      BY SMTT(30), <1>0, <1>2, <2>1, <2>4 DEF write, Evicted, Inserted
    <3>2. /\ CacheOK(C2, B) /\ Len(C2) = Len(C) + 1 /\ is_cached(C2, b) /\ get(C2, b) = u
          /\ \A x : x # b => Agree(C, C2, x)
      BY SMTT(30), <1>2, <2>2, <2>3, <3>1, PutFirst
    <3> QED BY <1>2, <2>2, <2>4, <3>1, <3>2 DEF Stores
  <2>5. CASE Evicted(C, b, k)
    <3>1. Len(C) = k /\ Len(C) > 0
      BY SMTT(30), <1>0, <2>5 DEF Evicted
    <3>2. PICK D, v : D = Front(C) /\ v = Last(C)
      OBVIOUS
    <3>3. /\ CacheOK(D, B) /\ Len(D) = Len(C) - 1
          /\ \A j \in 1..(Len(C) - 1) : D[j] = C[j]
          /\ v \in CacheUnit(B, Data) /\ is_cached(C, v.id) /\ get(C, v.id) = v
          /\ ~is_cached(D, v.id)
          /\ \A x : x # v.id => Agree(C, D, x)
      BY <3>1, <3>2, Dropped
    <3>4. v.id # b /\ ~is_cached(D, b) /\ v = evict_unit(C)
      BY <1>2, <3>2, <3>3 DEF Agree, evict_unit
    <3>5. PICK W : W = <<u>> \o C
      OBVIOUS
    <3>6. C2 = Front(W)
      BY <1>2, <2>1, <2>5, <3>5 DEF write, Inserted
    <3>7. /\ W \in Seq(CacheUnit(B, Data)) /\ Len(W) = Len(C) + 1
          /\ W[1] = u /\ \A j \in 2..(Len(C) + 1) : W[j] = C[j - 1]
      BY <2>3, <3>5 DEF Follows
    <3>8. /\ C2 \in Seq(CacheUnit(B, Data)) /\ Len(C2) = Len(C)
          /\ \A i \in 1..Len(C) : C2[i] = W[i]
      <4>1. Len(W) > 0 /\ Len(W) - 1 = Len(C)
        BY SMTT(30), <1>0, <3>7
      <4> QED BY SMTT(30), <3>6, <3>7, <4>1, FrontLast
    <3>9. Follows(D, C2, u, B)
      <4>1. C2[1] = u /\ Len(C2) = Len(D) + 1
        BY SMTT(30), <1>0, <3>1, <3>3, <3>7, <3>8
      <4>2. ASSUME NEW j \in 2..(Len(D) + 1) PROVE C2[j] = D[j - 1]
        <5>1. j \in 1..Len(C) /\ j \in 2..(Len(C) + 1) /\ j - 1 \in 1..(Len(C) - 1)
          BY SMTT(30), <1>0, <3>1, <3>3
        <5> QED BY <3>3, <3>7, <3>8, <5>1
      <4> QED BY <3>8, <4>1, <4>2 DEF Follows
    <3>10. /\ CacheOK(C2, B) /\ is_cached(C2, b) /\ get(C2, b) = u
           /\ \A x : x # b => Agree(D, C2, x)
      BY SMTT(30), <2>2, <3>3, <3>4, <3>9, PutFirst
    <3>11. \A x : x # b /\ x # v.id => Agree(C, C2, x)
      BY <3>3, <3>10 DEF Agree
    <3>12. ~is_cached(C2, v.id)
      BY <3>3, <3>4, <3>10 DEF Agree
    <3>13. Stores(C, C2, b, d, y, k, B)
      <4>1. Len(C2) <= k
        BY <1>0, <3>1, <3>8
      <4>2. /\ get(C2, b).data = d
            /\ get(C2, b).dirty = IF is_cached(C, b) THEN get(C, b).dirty ELSE y
        BY <1>2, <2>2, <3>10
      <4>3. /\ \A x : x # b /\ ~(Evicted(C, b, k) /\ x = evict_unit(C).id) => Agree(C, C2, x)
            /\ ~is_cached(C2, evict_unit(C).id)
        BY <2>5, <3>4, <3>11, <3>12
      <4> QED BY <3>10, <4>1, <4>2, <4>3 DEF Stores
    <3> QED BY <3>3, <3>4, <3>13 DEF Victim
  <2> QED BY <2>4, <2>5
<1> QED BY <1>1, <1>2

\* A cache has as many units as there are blocks in it, and a block that is not
\* cached finds room in a cache that could hold all blocks.
CacheFits(C, B) ==
    /\ Cardinality({C[i].id : i \in DOMAIN C}) = Len(C)
    /\ IsFiniteSet(B) => \A b \in B, k \in Nat : k >= Cardinality(B) => ~Evicted(C, b, k)

CachesFit == \A B : \A C : CacheOK(C, B) => CacheFits(C, B)

-----------------------------------------------------------------------------
(* The memory that the clients see *)

\* The commands of the clients (cmd), the content of the blocks B as a new call
\* would find it (view) and on the device (dk), the content that was last
\* written (lt), and the blocks whose content was lost (ls).
Requests(B) == [op : {"read", "write"}, block : B, data : Data, done : BOOLEAN]

MemTyped(cmd, view, dk, lt, ls, B) ==
    /\ cmd \in [Context -> Requests(B) \cup {[op |-> "none"]}]
    /\ view \in [B -> Data] /\ dk \in [B -> Data] /\ lt \in [B -> Data]
    /\ ls \subseteq B

\* A block is written by one client while no other command on it is pending.
Apart(cmd) ==
    \A c, d \in Context :
        cmd[c].op = "write" /\ cmd[d].op # "none" /\ cmd[c].block = cmd[d].block => c = d

\* A write carries the content that was written last, a read has returned it or
\* will find it on the device.
CommandOK(r, dk, lt, ls) ==
    /\ r.op = "write" => r.data = lt[r.block]
    /\ r.op = "read" /\ r.done /\ r.block \notin ls => r.data = lt[r.block]
    /\ r.op = "read" /\ ~r.done => r.data = 0 /\ (r.block \notin ls => dk[r.block] = lt[r.block])

BeingWritten(cmd, b) ==
    \E c \in Context : cmd[c].op = "write" /\ cmd[c].block = b /\ ~cmd[c].done

\* A new call finds what was written last.
Fresh(cmd, view, lt, ls, B) ==
    \A b \in B : b \notin ls /\ ~BeingWritten(cmd, b) => view[b] = lt[b]

Memory(cmd, view, dk, lt, ls, B) ==
    /\ MemTyped(cmd, view, dk, lt, ls, B)
    /\ Apart(cmd)
    /\ \A c \in Context : CommandOK(cmd[c], dk, lt, ls)
    /\ Fresh(cmd, view, lt, ls, B)

\* The steps of the memory.  They leave alone what they do not name.
Request(op, b, d, done) == [op |-> op, block |-> b, data |-> d, done |-> done]
Open(op, b, d) == Request(op, b, d, FALSE)
Done(op, b, d) == Request(op, b, d, TRUE)

With(cmd, c, r) == [cmd EXCEPT ![c] = r]

NoWriter(cmd, b) == \A c \in Context : cmd[c].op = "write" => cmd[c].block # b
NoClient(cmd, b) == \A c \in Context : cmd[c].op # "none" => cmd[c].block # b

BeginsRead(c, b, cmd, dk, lt, ls, cmd2) ==
    /\ cmd[c].op = "none" /\ NoWriter(cmd, b)
    /\ b \notin ls => dk[b] = lt[b]
    /\ cmd2 = With(cmd, c, Open("read", b, 0))

ReadsAtOnce(c, b, cmd, view, cmd2) ==
    /\ cmd[c].op = "none" /\ NoWriter(cmd, b)
    /\ cmd2 = With(cmd, c, Done("read", b, view[b]))

PerformsRead(c, b, x, cmd, lt, ls, cmd2) ==
    /\ cmd[c] = Open("read", b, 0)
    /\ x \in Data /\ (b \notin ls => x = lt[b])
    /\ cmd2 = With(cmd, c, Done("read", b, x))

Completes(c, cmd, cmd2) ==
    /\ cmd[c].op # "none" /\ cmd[c].done
    /\ cmd2 = With(cmd, c, [op |-> "none"])

BeginsWrite(c, b, n, cmd, lt, ls, cmd2, lt2, ls2) ==
    /\ cmd[c].op = "none" /\ NoClient(cmd, b) /\ n \in Data
    /\ cmd2 = With(cmd, c, Open("write", b, n))
    /\ lt2 = [lt EXCEPT ![b] = n]
    /\ ls2 \subseteq ls /\ ls \subseteq ls2 \cup {b}

WritesAtOnce(c, b, n, cmd, view, lt, ls, cmd2, view2, lt2, ls2, B) ==
    /\ cmd[c].op = "none" /\ NoClient(cmd, b) /\ n \in Data
    /\ cmd2 = With(cmd, c, Done("write", b, n))
    /\ lt2 = [lt EXCEPT ![b] = n]
    /\ view2 \in [B -> Data] /\ view2[b] = n
    /\ \A x \in B : x # b /\ x \notin ls2 => view2[x] = view[x]
    /\ ls2 \subseteq B /\ ls \subseteq ls2 \cup {b}

PerformsWrite(c, b, d, cmd, view, dk, cmd2, view2, dk2) ==
    /\ cmd[c] = Open("write", b, d)
    /\ cmd2 = With(cmd, c, Done("write", b, d))
    /\ view2 = [view EXCEPT ![b] = d]
    /\ dk2 = [dk EXCEPT ![b] = d]

\* Blocks move between the cache and the device.
Moves(view, dk, ls, view2, dk2, ls2, B) ==
    /\ view2 \in [B -> Data] /\ dk2 \in [B -> Data]
    /\ ls \subseteq ls2 /\ ls2 \subseteq B
    /\ \A x \in B : x \notin ls2 => view2[x] = view[x] /\ dk2[x] = dk[x]

\* One client has another command, which is kept apart from the others.
LEMMA CommandChanged ==
    ASSUME NEW B, NEW cmd \in [Context -> Requests(B) \cup {[op |-> "none"]}], Apart(cmd),
           NEW c \in Context, NEW r \in Requests(B) \cup {[op |-> "none"]},
           r.op # "none" => \A d \in Context : d # c /\ cmd[d].op = "write" => cmd[d].block # r.block,
           r.op = "write" => \A d \in Context : d # c /\ cmd[d].op # "none" => cmd[d].block # r.block,
           NEW cmd2, cmd2 = With(cmd, c, r)
    PROVE  /\ cmd2 \in [Context -> Requests(B) \cup {[op |-> "none"]}] /\ Apart(cmd2)
           /\ cmd2[c] = r /\ \A d \in Context : d # c => cmd2[d] = cmd[d]
<1>1. /\ cmd2 \in [Context -> Requests(B) \cup {[op |-> "none"]}]
      /\ cmd2[c] = r /\ \A d \in Context : d # c => cmd2[d] = cmd[d]
  BY DEF With
<1>2. ASSUME NEW d \in Context, NEW e \in Context, cmd2[d].op = "write", cmd2[e].op # "none",
             cmd2[d].block = cmd2[e].block
      PROVE  d = e
  <2>1. CASE d = c
    BY <1>1, <1>2, <2>1
  <2>2. CASE d # c /\ e = c
    BY <1>1, <1>2, <2>2
  <2>3. CASE d # c /\ e # c
    BY <1>1, <1>2, <2>3 DEF Apart
  <2> QED BY <2>1, <2>2, <2>3
<1> QED BY <1>1, <1>2 DEF Apart

\* A read begins, or is carried out.
LEMMA ReadKeeps ==
    ASSUME NEW B, NEW cmd, NEW view, NEW dk, NEW lt, NEW ls, Memory(cmd, view, dk, lt, ls, B),
           NEW c \in Context, NEW b \in B, NEW cmd2,
           \/ BeginsRead(c, b, cmd, dk, lt, ls, cmd2)
           \/ ReadsAtOnce(c, b, cmd, view, cmd2)
           \/ \E x : PerformsRead(c, b, x, cmd, lt, ls, cmd2)
    PROVE  Memory(cmd2, view, dk, lt, ls, B)
<1>1. /\ cmd \in [Context -> Requests(B) \cup {[op |-> "none"]}] /\ Apart(cmd)
      /\ view \in [B -> Data] /\ 0 \in Data
  BY SMTT(30), BoundsAssumption DEF Memory, MemTyped, Data
<1>2. NoWriter(cmd, b)
  <2>1. ASSUME NEW x, PerformsRead(c, b, x, cmd, lt, ls, cmd2) PROVE NoWriter(cmd, b)
    <3>1. cmd[c].op = "read" /\ cmd[c].block = b
      BY SMTT(30), <2>1 DEF PerformsRead, Request, Open
    <3> QED BY <1>1, <3>1 DEF Apart, NoWriter
  <2> QED BY <2>1 DEF BeginsRead, ReadsAtOnce
<1>3. ~BeingWritten(cmd, b)
  BY <1>2 DEF NoWriter, BeingWritten
<1>4. PICK x, y : /\ cmd2 = With(cmd, c, Request("read", b, x, y))
                  /\ x \in Data /\ y \in BOOLEAN
                  /\ y /\ b \notin ls => x = lt[b]
                  /\ ~y => x = 0 /\ (b \notin ls => dk[b] = lt[b])
  <2>1. CASE BeginsRead(c, b, cmd, dk, lt, ls, cmd2)
    BY <1>1, <2>1 DEF BeginsRead, Open
  <2>2. CASE ReadsAtOnce(c, b, cmd, view, cmd2)
    <3>1. view[b] \in Data /\ (b \notin ls => view[b] = lt[b])
      BY <1>1, <1>3 DEF Memory, Fresh
    <3> QED BY <2>2, <3>1 DEF ReadsAtOnce, Done
  <2>3. ASSUME NEW x, PerformsRead(c, b, x, cmd, lt, ls, cmd2)
        PROVE  /\ cmd2 = With(cmd, c, Request("read", b, x, TRUE))
               /\ x \in Data /\ (b \notin ls => x = lt[b])
    BY <2>3 DEF PerformsRead, Done
  <2> QED BY <2>1, <2>2, <2>3
<1>5. PICK r : r = Request("read", b, x, y)
  OBVIOUS
<1>6. r \in Requests(B) /\ r.op = "read" /\ r.block = b /\ r.data = x /\ r.done = y
  BY <1>4, <1>5 DEF Request, Requests
<1>7. /\ cmd2 \in [Context -> Requests(B) \cup {[op |-> "none"]}] /\ Apart(cmd2)
      /\ cmd2[c] = r /\ \A d \in Context : d # c => cmd2[d] = cmd[d]
  <2>1. \A d \in Context : d # c /\ cmd[d].op = "write" => cmd[d].block # r.block
    BY <1>2, <1>6 DEF NoWriter
  <2>2. cmd2 = With(cmd, c, r)
    BY <1>4, <1>5
  <2> QED BY SMTT(30), <1>1, <1>6, <2>1, <2>2, CommandChanged
<1>8. \A d \in Context : CommandOK(cmd2[d], dk, lt, ls)
  <2>1. CommandOK(r, dk, lt, ls)
    BY <1>4, <1>6 DEF CommandOK
  <2> QED BY <1>7, <2>1 DEF Memory
<1>9. \A e \in B : BeingWritten(cmd, e) => BeingWritten(cmd2, e)
  <2>1. \A d \in Context : cmd[d].op = "write" /\ ~cmd[d].done => d # c
    <3>1. ASSUME NEW z, PerformsRead(c, b, z, cmd, lt, ls, cmd2) PROVE cmd[c].op = "read"
      BY SMTT(30), <3>1 DEF PerformsRead, Request, Open
    <3> QED BY <3>1 DEF BeginsRead, ReadsAtOnce
  <2> QED BY <1>7, <2>1 DEF BeingWritten
<1>10. Fresh(cmd2, view, lt, ls, B)
  BY <1>9 DEF Memory, Fresh
<1> QED BY <1>7, <1>8, <1>10 DEF Memory, MemTyped

\* A command is over.
LEMMA CompleteKeeps ==
    ASSUME NEW B, NEW cmd, NEW view, NEW dk, NEW lt, NEW ls, Memory(cmd, view, dk, lt, ls, B),
           NEW c \in Context, NEW cmd2, Completes(c, cmd, cmd2)
    PROVE  Memory(cmd2, view, dk, lt, ls, B)
<1>1. cmd \in [Context -> Requests(B) \cup {[op |-> "none"]}] /\ Apart(cmd)
  BY DEF Memory, MemTyped
<1>2. PICK r : r = [op |-> "none"]
  OBVIOUS
<1>3. r \in Requests(B) \cup {[op |-> "none"]} /\ r.op = "none" /\ cmd2 = With(cmd, c, r)
  BY <1>2 DEF Completes
<1>4. /\ cmd2 \in [Context -> Requests(B) \cup {[op |-> "none"]}] /\ Apart(cmd2)
      /\ cmd2[c] = r /\ \A d \in Context : d # c => cmd2[d] = cmd[d]
  BY SMTT(30), <1>1, <1>3, CommandChanged
<1>5. \A d \in Context : CommandOK(cmd2[d], dk, lt, ls)
  <2>1. CommandOK(r, dk, lt, ls)
    BY <1>3 DEF CommandOK
  <2> QED BY <1>4, <2>1 DEF Memory
<1>6. \A e \in B : BeingWritten(cmd, e) => BeingWritten(cmd2, e)
  BY <1>4 DEF BeingWritten, Completes
<1>7. Fresh(cmd2, view, lt, ls, B)
  BY <1>6 DEF Memory, Fresh
<1> QED BY <1>4, <1>5, <1>7 DEF Memory, MemTyped

\* A write begins, or is made in the cache.
LEMMA WriteKeeps ==
    ASSUME NEW B, NEW cmd, NEW view, NEW dk, NEW lt, NEW ls, Memory(cmd, view, dk, lt, ls, B),
           NEW c \in Context, NEW b \in B, NEW n, NEW cmd2, NEW view2, NEW lt2, NEW ls2,
           \/ BeginsWrite(c, b, n, cmd, lt, ls, cmd2, lt2, ls2) /\ view2 = view
           \/ WritesAtOnce(c, b, n, cmd, view, lt, ls, cmd2, view2, lt2, ls2, B)
    PROVE  Memory(cmd2, view2, dk, lt2, ls2, B)
<1>1. /\ cmd \in [Context -> Requests(B) \cup {[op |-> "none"]}] /\ Apart(cmd)
      /\ view \in [B -> Data] /\ lt \in [B -> Data] /\ dk \in [B -> Data] /\ ls \subseteq B
  BY DEF Memory, MemTyped
<1>2. PICK y \in BOOLEAN :
        /\ cmd[c].op = "none" /\ NoClient(cmd, b) /\ n \in Data
        /\ cmd2 = With(cmd, c, Request("write", b, n, y))
        /\ lt2 = [lt EXCEPT ![b] = n]
        /\ ls2 \subseteq B /\ ls \subseteq ls2 \cup {b} /\ view2 \in [B -> Data]
        /\ y => view2[b] = n
        /\ \A x \in B : x # b /\ x \notin ls2 => view2[x] = view[x]
  <2>1. CASE BeginsWrite(c, b, n, cmd, lt, ls, cmd2, lt2, ls2) /\ view2 = view
    BY <1>1, <2>1 DEF BeginsWrite, Open
  <2>2. CASE WritesAtOnce(c, b, n, cmd, view, lt, ls, cmd2, view2, lt2, ls2, B)
    BY <1>1, <2>2 DEF WritesAtOnce, Done
  <2> QED BY <2>1, <2>2
<1>3. PICK r : r = Request("write", b, n, y)
  OBVIOUS
<1>4. r \in Requests(B) /\ r.op = "write" /\ r.block = b /\ r.data = n /\ r.done = y
  BY <1>2, <1>3 DEF Request, Requests
<1>5. /\ cmd2 \in [Context -> Requests(B) \cup {[op |-> "none"]}] /\ Apart(cmd2)
      /\ cmd2[c] = r /\ \A d \in Context : d # c => cmd2[d] = cmd[d]
  <2>1. \A d \in Context : d # c /\ cmd[d].op # "none" => cmd[d].block # r.block
    BY <1>2, <1>4 DEF NoClient
  <2>2. \A d \in Context : d # c /\ cmd[d].op = "write" => cmd[d].block # r.block
    BY <2>1
  <2>3. cmd2 = With(cmd, c, r)
    BY <1>2, <1>3
  <2>4. r \in Requests(B) \cup {[op |-> "none"]}
    BY <1>4
  <2> QED BY SMTT(30), <1>1, <2>1, <2>2, <2>3, <2>4, CommandChanged
<1>6. lt2 \in [B -> Data] /\ lt2[b] = n /\ \A x \in B : x # b => lt2[x] = lt[x]
  BY <1>1, <1>2
<1>7. \A d \in Context : CommandOK(cmd2[d], dk, lt2, ls2)
  <2>1. CommandOK(r, dk, lt2, ls2)
    BY <1>4, <1>6 DEF CommandOK
  <2>2. ASSUME NEW d \in Context PROVE CommandOK(cmd[d], dk, lt2, ls2)
    <3>1. /\ CommandOK(cmd[d], dk, lt, ls)
          /\ cmd[d] \in Requests(B) \cup {[op |-> "none"]}
      BY DEF Memory, MemTyped
    <3>2. CASE cmd[d].op = "none"
      BY <3>2 DEF CommandOK
    <3>3. CASE cmd[d].op # "none"
      <4>1. cmd[d].block # b /\ cmd[d].block \in B
        BY SMTT(30), <1>2, <3>1, <3>3 DEF NoClient, Requests
      <4>2. /\ lt2[cmd[d].block] = lt[cmd[d].block]
            /\ cmd[d].block \in ls => cmd[d].block \in ls2
        BY <1>2, <1>6, <4>1
      <4> QED BY <3>1, <4>2 DEF CommandOK
    <3> QED BY <3>2, <3>3
  <2> QED BY <1>5, <2>1, <2>2
<1>8. Fresh(cmd2, view2, lt2, ls2, B)
  <2> SUFFICES ASSUME NEW x \in B, x \notin ls2, ~BeingWritten(cmd2, x)
               PROVE  view2[x] = lt2[x]
    BY DEF Fresh
  <2>1. CASE x = b
    BY SMTT(30), <1>2, <1>4, <1>5, <1>6, <2>1 DEF BeingWritten
  <2>2. CASE x # b
    <3>1. ~BeingWritten(cmd, x) /\ x \notin ls
      BY <1>2, <1>5, <2>2 DEF BeingWritten
    <3>2. view[x] = lt[x]
      BY <3>1 DEF Memory, Fresh
    <3> QED BY <1>2, <1>6, <2>2, <3>2
  <2> QED BY <2>1, <2>2
<1> QED BY <1>1, <1>2, <1>5, <1>6, <1>7, <1>8 DEF Memory, MemTyped

\* A write is carried out on the device.
LEMMA WriteDoneKeeps ==
    ASSUME NEW B, NEW cmd, NEW view, NEW dk, NEW lt, NEW ls, Memory(cmd, view, dk, lt, ls, B),
           NEW c \in Context, NEW b \in B, NEW n, NEW cmd2, NEW view2, NEW dk2,
           PerformsWrite(c, b, n, cmd, view, dk, cmd2, view2, dk2)
    PROVE  Memory(cmd2, view2, dk2, lt, ls, B)
<1>1. /\ cmd \in [Context -> Requests(B) \cup {[op |-> "none"]}] /\ Apart(cmd)
      /\ view \in [B -> Data] /\ lt \in [B -> Data] /\ dk \in [B -> Data] /\ ls \subseteq B
      /\ \A d \in Context : CommandOK(cmd[d], dk, lt, ls)
  BY DEF Memory, MemTyped
<1>2. cmd[c].op = "write" /\ cmd[c].block = b /\ cmd[c].data = n /\ cmd[c] \in Requests(B)
  <2>1. cmd[c] = [op |-> "write", block |-> b, data |-> n, done |-> FALSE]
    BY DEF PerformsWrite, Request, Open
  <2>2. cmd[c].op = "write" /\ cmd[c].block = b /\ cmd[c].data = n
    BY SMTT(30), <2>1
  <2>3. cmd[c] \in Requests(B) \cup {[op |-> "none"]} /\ [op |-> "none"].op # "write"
    BY <1>1
  <2> QED BY <2>2, <2>3
<1>3. n \in Data /\ n = lt[b]
  BY <1>1, <1>2 DEF CommandOK, Requests
<1>4. PICK r : r = Done("write", b, n)
  OBVIOUS
<1>5. r \in Requests(B) /\ r.op = "write" /\ r.block = b /\ r.data = n /\ r.done = TRUE
  BY <1>3, <1>4 DEF Request, Done, Requests
<1>6. \A d \in Context : d # c /\ cmd[d].op # "none" => cmd[d].block # b
  BY <1>1, <1>2 DEF Apart
<1>7. /\ cmd2 \in [Context -> Requests(B) \cup {[op |-> "none"]}] /\ Apart(cmd2)
      /\ cmd2[c] = r /\ \A d \in Context : d # c => cmd2[d] = cmd[d]
  <2>1. \A d \in Context : d # c /\ cmd[d].op = "write" => cmd[d].block # r.block
    BY <1>5, <1>6
  <2>2. \A d \in Context : d # c /\ cmd[d].op # "none" => cmd[d].block # r.block
    BY <1>5, <1>6
  <2>3. cmd2 = With(cmd, c, r)
    BY <1>4 DEF PerformsWrite
  <2> QED BY SMTT(30), <1>1, <1>5, <2>1, <2>2, <2>3, CommandChanged
<1>8. /\ view2 \in [B -> Data] /\ dk2 \in [B -> Data] /\ view2[b] = n
      /\ \A x \in B : x # b => view2[x] = view[x] /\ dk2[x] = dk[x]
  BY <1>1, <1>3 DEF PerformsWrite
<1>9. ASSUME NEW d \in Context PROVE CommandOK(cmd2[d], dk2, lt, ls)
  <2>1. CASE d = c
    BY <1>3, <1>5, <1>7, <2>1 DEF CommandOK
  <2>2. CASE d # c /\ cmd[d].op = "none"
    BY <1>7, <2>2 DEF CommandOK
  <2>3. CASE d # c /\ cmd[d].op # "none"
    <3>1. cmd[d].block # b /\ cmd[d].block \in B
      BY SMTT(30), <1>1, <1>6, <2>3 DEF Requests
    <3>2. dk2[cmd[d].block] = dk[cmd[d].block]
      BY <1>8, <3>1
    <3>3. CommandOK(cmd[d], dk2, lt, ls)
      BY <1>1, <3>2 DEF CommandOK
    <3> QED BY <1>7, <2>3, <3>3
  <2> QED BY <2>1, <2>2, <2>3
<1>10. Fresh(cmd2, view2, lt, ls, B)
  <2> SUFFICES ASSUME NEW x \in B, x \notin ls, ~BeingWritten(cmd2, x)
               PROVE  view2[x] = lt[x]
    BY DEF Fresh
  <2>1. CASE x = b
    BY <1>3, <1>8, <2>1
  <2>2. CASE x # b
    <3>1. ~BeingWritten(cmd, x)
      BY <1>2, <1>7, <2>2 DEF BeingWritten
    <3>2. view[x] = lt[x]
      BY <3>1 DEF Memory, Fresh
    <3> QED BY <1>8, <2>2, <3>2
  <2> QED BY <2>1, <2>2
<1> QED BY <1>1, <1>7, <1>8, <1>9, <1>10 DEF Memory, MemTyped

\* Blocks move between the cache and the device.
LEMMA MoveKeeps ==
    ASSUME NEW B, NEW cmd, NEW view, NEW dk, NEW lt, NEW ls, Memory(cmd, view, dk, lt, ls, B),
           NEW view2, NEW dk2, NEW ls2, Moves(view, dk, ls, view2, dk2, ls2, B)
    PROVE  Memory(cmd, view2, dk2, lt, ls2, B)
<1>1. MemTyped(cmd, view2, dk2, lt, ls2, B)
  BY DEF Memory, MemTyped, Moves
<1>2. ASSUME NEW d \in Context PROVE CommandOK(cmd[d], dk2, lt, ls2)
  <2>1. CommandOK(cmd[d], dk, lt, ls) /\ cmd[d] \in Requests(B) \cup {[op |-> "none"]}
    BY DEF Memory, MemTyped
  <2>2. CASE cmd[d].op = "none"
    BY <2>2 DEF CommandOK
  <2>3. CASE cmd[d].op # "none"
    <3>1. cmd[d].block \in B
      BY SMTT(30), <2>1, <2>3 DEF Requests
    <3> QED BY <2>1, <3>1 DEF CommandOK, Moves
  <2> QED BY <2>2, <2>3
<1>3. Fresh(cmd, view2, lt, ls2, B)
  BY DEF Memory, Fresh, Moves
<1> QED BY <1>1, <1>2, <1>3 DEF Memory

\* The steps of the memory together.
MemStep(cmd, view, dk, lt, ls, cmd2, view2, dk2, lt2, ls2, B) ==
    \/ /\ view2 = view /\ dk2 = dk /\ lt2 = lt /\ ls2 = ls
       /\ \E c \in Context :
             \/ Completes(c, cmd, cmd2)
             \/ \E b \in B :
                   \/ BeginsRead(c, b, cmd, dk, lt, ls, cmd2)
                   \/ ReadsAtOnce(c, b, cmd, view, cmd2)
                   \/ \E x \in Data : PerformsRead(c, b, x, cmd, lt, ls, cmd2)
    \/ /\ dk2 = dk
       /\ \E c \in Context, b \in B, n \in Data :
             \/ BeginsWrite(c, b, n, cmd, lt, ls, cmd2, lt2, ls2) /\ view2 = view
             \/ WritesAtOnce(c, b, n, cmd, view, lt, ls, cmd2, view2, lt2, ls2, B)
    \/ /\ lt2 = lt /\ ls2 = ls
       /\ \E c \in Context, b \in B, n \in Data :
             PerformsWrite(c, b, n, cmd, view, dk, cmd2, view2, dk2)
    \/ cmd2 = cmd /\ lt2 = lt /\ Moves(view, dk, ls, view2, dk2, ls2, B)

\* The memory stays consistent.
LEMMA StepKeeps ==
    ASSUME NEW B, NEW cmd, NEW view, NEW dk, NEW lt, NEW ls, Memory(cmd, view, dk, lt, ls, B),
           NEW cmd2, NEW view2, NEW dk2, NEW lt2, NEW ls2,
           MemStep(cmd, view, dk, lt, ls, cmd2, view2, dk2, lt2, ls2, B)
    PROVE  Memory(cmd2, view2, dk2, lt2, ls2, B)
<1>1. CASE /\ view2 = view /\ dk2 = dk /\ lt2 = lt /\ ls2 = ls
           /\ \E c \in Context :
                 \/ Completes(c, cmd, cmd2)
                 \/ \E b \in B :
                       \/ BeginsRead(c, b, cmd, dk, lt, ls, cmd2)
                       \/ ReadsAtOnce(c, b, cmd, view, cmd2)
                       \/ \E x \in Data : PerformsRead(c, b, x, cmd, lt, ls, cmd2)
  BY <1>1, CompleteKeeps, ReadKeeps
<1>2. CASE /\ dk2 = dk
           /\ \E c \in Context, b \in B, n \in Data :
                 \/ BeginsWrite(c, b, n, cmd, lt, ls, cmd2, lt2, ls2) /\ view2 = view
                 \/ WritesAtOnce(c, b, n, cmd, view, lt, ls, cmd2, view2, lt2, ls2, B)
  BY <1>2, WriteKeeps
<1>3. CASE /\ lt2 = lt /\ ls2 = ls
           /\ \E c \in Context, b \in B, n \in Data :
                 PerformsWrite(c, b, n, cmd, view, dk, cmd2, view2, dk2)
  BY <1>3, WriteDoneKeeps
<1>4. CASE cmd2 = cmd /\ lt2 = lt /\ Moves(view, dk, ls, view2, dk2, ls2, B)
  BY <1>4, MoveKeeps
<1> QED BY <1>1, <1>2, <1>3, <1>4 DEF MemStep

-----------------------------------------------------------------------------
(* The cache over the device *)

\* The content of the blocks B as a new call finds it.
View(C, dk, B) == [b \in B |-> IF is_cached(C, b) THEN get(C, b).data ELSE dk[b]]

\* No unit of the cache has to be written when it goes.
Clean(C) == \A i \in DOMAIN C : ~C[i].dirty

\* The device has what the cache has.
Saved(C, dk, B) == \A b \in B : is_cached(C, b) => get(C, b).data = dk[b]

\* What all accessors have in common.
Storage(C, k, dk, cmd, lt, ls, n, B) ==
    /\ CacheOK(C, B) /\ k \in Nat \ {0} /\ Len(C) <= k
    /\ n \in Data
    /\ Memory(cmd, View(C, dk, B), dk, lt, ls, B)
    /\ k >= Cardinality(B) => ls = {}

\* A cache that holds of every block what another one holds of it.
SameUnits(C, C2) == \A x : Agree(C, C2, x)

\* No unit is dirty when none that get() returns is.
LEMMA CleanUnits ==
    ASSUME NEW B, NEW C, CacheOK(C, B)
    PROVE  /\ Clean(C) => \A x : is_cached(C, x) => ~get(C, x).dirty
           /\ (\A x : is_cached(C, x) => ~get(C, x).dirty) => Clean(C)
<1>1. ASSUME Clean(C), NEW x, is_cached(C, x) PROVE ~get(C, x).dirty
  <2>1. PICK i \in 1..Len(C) : get(C, x) = C[i]
    BY SMTT(30), <1>1, PlaceOf
  <2> QED BY <1>1, <2>1, Places DEF Clean
<1>2. ASSUME \A x : is_cached(C, x) => ~get(C, x).dirty, NEW i \in DOMAIN C PROVE ~C[i].dirty
  <2>1. i \in 1..Len(C)
    BY Places
  <2>2. is_cached(C, C[i].id) /\ get(C, C[i].id) = C[i]
    BY <2>1, UnitAt
  <2> QED BY <1>2, <2>2
<1> QED BY <1>1, <1>2 DEF Clean

\* The unit of a cached block.
LEMMA UnitOf ==
    ASSUME NEW B, NEW C, CacheOK(C, B), NEW x, is_cached(C, x)
    PROVE  get(C, x) \in CacheUnit(B, Data) /\ get(C, x).id = x /\ x \in B
<1>1. PICK i \in 1..Len(C) : C[i].id = x /\ get(C, x) = C[i]
  BY SMTT(30), PlaceOf
<1>2. C[i] \in CacheUnit(B, Data)
  BY Places
<1> QED BY <1>1, <1>2 DEF CacheUnit

LEMMA ViewTyped ==
    ASSUME NEW B, NEW C, CacheOK(C, B), NEW dk \in [B -> Data]
    PROVE  View(C, dk, B) \in [B -> Data]
<1>1. ASSUME NEW b \in B
      PROVE  (IF is_cached(C, b) THEN get(C, b).data ELSE dk[b]) \in Data
  BY UnitOf DEF CacheUnit
<1> QED BY <1>1 DEF View

LEMMA SameView ==
    ASSUME NEW B, NEW C, CacheOK(C, B), NEW C2, CacheOK(C2, B), SameUnits(C, C2), NEW dk
    PROVE  /\ View(C2, dk, B) = View(C, dk, B)
           /\ Clean(C) => Clean(C2)
           /\ Saved(C, dk, B) => Saved(C2, dk, B)
<1>1. \A x : /\ is_cached(C2, x) <=> is_cached(C, x)
             /\ is_cached(C, x) => get(C2, x) = get(C, x)
  BY DEF SameUnits, Agree
<1>2. View(C2, dk, B) = View(C, dk, B)
  BY <1>1 DEF View
<1>3. Clean(C) => Clean(C2)
  BY <1>1, CleanUnits
<1>4. Saved(C, dk, B) => Saved(C2, dk, B)
  BY <1>1 DEF Saved
<1> QED BY <1>2, <1>3, <1>4

\* A cached block is read.
LEMMA TouchEffect ==
    ASSUME NEW B, NEW C, CacheOK(C, B), NEW b, is_cached(C, b), NEW C2, C2 = Touch(C, get(C, b))
    PROVE  CacheOK(C2, B) /\ Len(C2) = Len(C) /\ SameUnits(C, C2)
<1>1. PICK u : u = get(C, b)
  OBVIOUS
<1>2. u \in CacheUnit(B, Data) /\ u.id = b
  BY <1>1, UnitOf
<1>3. /\ CacheOK(C2, B) /\ Len(C2) = Len(C)
      /\ is_cached(C2, u.id) /\ get(C2, u.id) = u
      /\ \A x : x # u.id => Agree(C, C2, x)
  BY SMTT(30), <1>1, <1>2, Touched
<1> QED BY <1>1, <1>2, <1>3 DEF Agree, SameUnits

\* A block leaves a cache that has nothing that the device does not have.
LEMMA InvalidateEffect ==
    ASSUME NEW B, NEW C, CacheOK(C, B), NEW b \in B, NEW C2, C2 = invalidate(C, b),
           NEW dk, Saved(C, dk, B)
    PROVE  /\ CacheOK(C2, B) /\ Len(C2) <= Len(C)
           /\ View(C2, dk, B) = View(C, dk, B)
           /\ Clean(C) => Clean(C2)
           /\ Saved(C2, dk, B)
           /\ ~is_cached(C2, b)
           /\ \A x : is_cached(C2, x) => is_cached(C, x)
<1>1. /\ CacheOK(C2, B) /\ ~is_cached(C2, b)
      /\ Len(C2) = IF is_cached(C, b) THEN Len(C) - 1 ELSE Len(C)
      /\ \A x : x # b => Agree(C, C2, x)
  BY SMTT(30), Invalidated
<1>2. \A x : is_cached(C2, x) => is_cached(C, x) /\ get(C2, x) = get(C, x)
  BY <1>1 DEF Agree
<1>3. \A x \in B : x # b => (is_cached(C2, x) <=> is_cached(C, x))
  BY <1>1 DEF Agree
<1>4. View(C2, dk, B) = View(C, dk, B)
  BY <1>1, <1>2, <1>3 DEF View, Saved
<1>5. Len(C2) <= Len(C)
  BY SMTT(30), <1>1, Places
<1>6. Clean(C) => Clean(C2)
  BY <1>1, <1>2, CleanUnits
<1>7. Saved(C2, dk, B)
  BY <1>2 DEF Saved
<1> QED BY <1>1, <1>2, <1>4, <1>5, <1>6, <1>7

\* Content that only the evicted unit of write() has.
Loses(C, b, k, dk) == Evicted(C, b, k) /\ evict_unit(C).data # dk[evict_unit(C).id]

\* write() of block b, seen by new calls.
Puts(C, C2, b, d, y, k, dk, B) ==
    /\ CacheOK(C2, B) /\ Len(C2) <= k
    /\ View(C2, dk, B) \in [B -> Data]
    /\ View(C2, dk, B)[b] = d
    /\ \A x \in B : x # b /\ ~(Loses(C, b, k, dk) /\ x = evict_unit(C).id) =>
          View(C2, dk, B)[x] = View(C, dk, B)[x]
    /\ Clean(C) /\ ~y => Clean(C2)
    /\ Saved(C, dk, B) /\ d = dk[b] => Saved(C2, dk, B) /\ ~Loses(C, b, k, dk)
    /\ \A x : is_cached(C2, x) => x = b \/ is_cached(C, x)
    /\ Evicted(C, b, k) => evict_unit(C) \in CacheUnit(B, Data) /\ evict_unit(C).id # b
    /\ k >= Cardinality(B) => ~Evicted(C, b, k)

LEMMA WriteEffect ==
    ASSUME CachesFit, NEW B, IsFiniteSet(B), NEW C, CacheOK(C, B), NEW k \in Nat \ {0}, Len(C) <= k,
           NEW b \in B, NEW d \in Data, NEW y \in BOOLEAN, NEW dk \in [B -> Data],
           NEW C2, C2 = write(C, b, d, y, k)
    PROVE  Puts(C, C2, b, d, y, k, dk, B)
<1>1. Stores(C, C2, b, d, y, k, B)
  BY Written
<1>2. CacheOK(C2, B) /\ Len(C2) <= k /\ is_cached(C2, b) /\ get(C2, b).data = d
  BY <1>1 DEF Stores
<1>3. PICK v : v = evict_unit(C)
  OBVIOUS
<1>4. Evicted(C, b, k) => Victim(C, b, v, B)
  BY <1>3, Written
<1>5. /\ \A x : x # b /\ ~(Evicted(C, b, k) /\ x = v.id) => Agree(C, C2, x)
      /\ Evicted(C, b, k) => ~is_cached(C2, v.id)
  BY <1>1, <1>3 DEF Stores
<1>6. \A x : is_cached(C2, x) => x = b \/ (is_cached(C, x) /\ get(C2, x) = get(C, x))
  BY <1>5 DEF Agree
<1>7. View(C2, dk, B) \in [B -> Data] /\ View(C2, dk, B)[b] = d
  BY SMTT(30), <1>2, ViewTyped DEF View
<1>8. ASSUME NEW x \in B, x # b, ~(Loses(C, b, k, dk) /\ x = v.id)
      PROVE  View(C2, dk, B)[x] = View(C, dk, B)[x]
  <2>1. CASE ~(Evicted(C, b, k) /\ x = v.id)
    BY <1>5, <1>8, <2>1 DEF Agree, View
  <2>2. CASE Evicted(C, b, k) /\ x = v.id
    <3>1. v.data = dk[x]
      BY <1>3, <1>8, <2>2 DEF Loses
    <3>2. is_cached(C, x) /\ get(C, x) = v /\ ~is_cached(C2, x)
      BY <1>4, <1>5, <2>2 DEF Victim
    <3> QED BY <3>1, <3>2 DEF View
  <2> QED BY <2>1, <2>2
<1>9. ASSUME Clean(C), ~y PROVE Clean(C2)
  <2>1. ~get(C2, b).dirty
    BY <1>1, <1>9, CleanUnits DEF Stores
  <2>2. \A x : is_cached(C2, x) => ~get(C2, x).dirty
    BY <1>6, <1>9, <2>1, CleanUnits
  <2> QED BY <1>2, <2>2, CleanUnits
<1>10. ASSUME Saved(C, dk, B), d = dk[b] PROVE Saved(C2, dk, B) /\ ~Loses(C, b, k, dk)
  <2>1. Saved(C2, dk, B)
    BY <1>2, <1>6, <1>10 DEF Saved
  <2>2. ~Loses(C, b, k, dk)
    BY <1>3, <1>4, <1>10 DEF Loses, Victim, Saved, CacheUnit
  <2> QED BY <2>1, <2>2
<1>11. Evicted(C, b, k) => v \in CacheUnit(B, Data) /\ v.id # b
  BY <1>4 DEF Victim
<1>12. k >= Cardinality(B) => ~Evicted(C, b, k)
  BY DEF CachesFit, CacheFits
<1> QED BY <1>2, <1>3, <1>6, <1>7, <1>8, <1>9, <1>10, <1>11, <1>12 DEF Puts

-----------------------------------------------------------------------------
(* The steps of the accessors on the cache, the device and the commands *)

\* The storage stays consistent by a step of the memory.
Keeps(C, k, dk, cmd, lt, ls, C2, dk2, cmd2, lt2, ls2, n2, B) ==
    /\ Storage(C2, k, dk2, cmd2, lt2, ls2, n2, B)
    /\ MemStep(cmd, View(C, dk, B), dk, lt, ls, cmd2, View(C2, dk2, B), dk2, lt2, ls2, B)

\* What is left to show of a step.
LEMMA KeptBy ==
    ASSUME NEW B, NEW C, NEW k, NEW dk, NEW cmd, NEW lt, NEW ls, NEW n,
           Storage(C, k, dk, cmd, lt, ls, n, B),
           NEW C2, NEW dk2, NEW cmd2, NEW lt2, NEW ls2, NEW n2 \in Data,
           MemStep(cmd, View(C, dk, B), dk, lt, ls, cmd2, View(C2, dk2, B), dk2, lt2, ls2, B),
           CacheOK(C2, B), Len(C2) <= k, k >= Cardinality(B) => ls2 = {}
    PROVE  Keeps(C, k, dk, cmd, lt, ls, C2, dk2, cmd2, lt2, ls2, n2, B)
<1>1. PICK v, v2 : v = View(C, dk, B) /\ v2 = View(C2, dk2, B)
  OBVIOUS
<1>2. Memory(cmd, v, dk, lt, ls, B) /\ MemStep(cmd, v, dk, lt, ls, cmd2, v2, dk2, lt2, ls2, B)
  BY <1>1 DEF Storage
<1>3. Memory(cmd2, v2, dk2, lt2, ls2, B)
  BY <1>2, StepKeeps
<1> QED BY <1>1, <1>3 DEF Storage, Keeps

\* A read of a cached block.
LEMMA HitKeeps ==
    ASSUME NEW B, NEW C, NEW k, NEW dk, NEW cmd, NEW lt, NEW ls, NEW n,
           Storage(C, k, dk, cmd, lt, ls, n, B),
           NEW c \in Context, NEW b \in B, cmd[c].op = "none", NoWriter(cmd, b),
           is_cached(C, b), NEW C2, C2 = Touch(C, get(C, b)),
           NEW cmd2, cmd2 = With(cmd, c, Done("read", b, get(C, b).data))
    PROVE  Keeps(C, k, dk, cmd, lt, ls, C2, dk, cmd2, lt, ls, n, B)
<1>1. CacheOK(C2, B) /\ Len(C2) = Len(C) /\ View(C2, dk, B) = View(C, dk, B)
  BY TouchEffect, SameView DEF Storage
<1>2. View(C, dk, B)[b] = get(C, b).data
  BY DEF View
<1>3. ReadsAtOnce(c, b, cmd, View(C, dk, B), cmd2)
  BY <1>2 DEF ReadsAtOnce
<1>4. MemStep(cmd, View(C, dk, B), dk, lt, ls, cmd2, View(C2, dk, B), dk, lt, ls, B)
  BY <1>1, <1>3 DEF MemStep
<1> QED BY <1>1, <1>4, KeptBy DEF Storage

\* A read of a block that has to come from the device.
LEMMA MissKeeps ==
    ASSUME NEW B, NEW C, NEW k, NEW dk, NEW cmd, NEW lt, NEW ls, NEW n,
           Storage(C, k, dk, cmd, lt, ls, n, B),
           NEW c \in Context, NEW b \in B, cmd[c].op = "none", NoWriter(cmd, b),
           is_cached(C, b) => get(C, b).data = dk[b],
           NEW cmd2, cmd2 = With(cmd, c, Open("read", b, 0))
    PROVE  Keeps(C, k, dk, cmd, lt, ls, C, dk, cmd2, lt, ls, n, B)
<1>1. View(C, dk, B)[b] = dk[b]
  BY DEF View
<1>2. b \notin ls => dk[b] = lt[b]
  <2>1. ~BeingWritten(cmd, b)
    BY DEF NoWriter, BeingWritten
  <2> QED BY <1>1, <2>1 DEF Storage, Memory, Fresh
<1>3. BeginsRead(c, b, cmd, dk, lt, ls, cmd2)
  BY <1>2 DEF BeginsRead
<1>4. MemStep(cmd, View(C, dk, B), dk, lt, ls, cmd2, View(C, dk, B), dk, lt, ls, B)
  BY <1>3 DEF MemStep
<1> QED BY <1>4, KeptBy DEF Storage

\* A write that waits for the device; what the cache has of the block is given
\* up or not.
LEMMA BeginKeeps ==
    ASSUME NEW B, NEW C, NEW k, NEW dk, NEW cmd, NEW lt, NEW ls, NEW n,
           Storage(C, k, dk, cmd, lt, ls, n, B),
           NEW c \in Context, NEW b \in B, NEW m \in Data, cmd[c].op = "none", NoClient(cmd, b),
           NEW C2, C2 = C \/ (C2 = invalidate(C, b) /\ Saved(C, dk, B)),
           NEW cmd2, cmd2 = With(cmd, c, Open("write", b, m)),
           NEW lt2, lt2 = [lt EXCEPT ![b] = m], NEW ls2, ls2 = ls \ {b}
    PROVE  Keeps(C, k, dk, cmd, lt, ls, C2, dk, cmd2, lt2, ls2, m, B)
<1>1. CacheOK(C2, B) /\ Len(C2) <= Len(C) /\ View(C2, dk, B) = View(C, dk, B)
  BY SMTT(30), Places, InvalidateEffect DEF Storage
<1>2. BeginsWrite(c, b, m, cmd, lt, ls, cmd2, lt2, ls2)
  BY DEF BeginsWrite
<1>3. MemStep(cmd, View(C, dk, B), dk, lt, ls, cmd2, View(C2, dk, B), dk, lt2, ls2, B)
  BY <1>1, <1>2 DEF MemStep
<1>4. Len(C2) <= k
  <2>1. Len(C) \in Nat /\ Len(C2) \in Nat /\ k \in Nat /\ Len(C) <= k
    BY <1>1, Places DEF Storage
  <2> QED BY SMTT(30), <1>1, <2>1
<1> QED BY <1>1, <1>3, <1>4, KeptBy DEF Storage

\* A write that is over when it is in the cache.
LEMMA CachedWriteKeeps ==
    ASSUME NEW B, IsFiniteSet(B), NEW C, NEW k, NEW dk, NEW cmd, NEW lt, NEW ls, NEW n,
           Storage(C, k, dk, cmd, lt, ls, n, B),
           NEW c \in Context, NEW b \in B, NEW m \in Data, cmd[c].op = "none", NoClient(cmd, b),
           NEW y \in BOOLEAN, NEW C2, Puts(C, C2, b, m, y, k, dk, B),
           NEW cmd2, cmd2 = With(cmd, c, Done("write", b, m)),
           NEW lt2, lt2 = [lt EXCEPT ![b] = m],
           NEW ls2, ls2 \subseteq B, ls \subseteq ls2 \cup {b},
           Loses(C, b, k, dk) => evict_unit(C).id \in ls2,
           k >= Cardinality(B) => ls2 = {}
    PROVE  Keeps(C, k, dk, cmd, lt, ls, C2, dk, cmd2, lt2, ls2, m, B)
<1>1. CacheOK(C2, B) /\ Len(C2) <= k
  BY DEF Puts
<1>2. WritesAtOnce(c, b, m, cmd, View(C, dk, B), lt, ls, cmd2, View(C2, dk, B), lt2, ls2, B)
  BY DEF WritesAtOnce, Puts
<1>3. MemStep(cmd, View(C, dk, B), dk, lt, ls, cmd2, View(C2, dk, B), dk, lt2, ls2, B)
  BY <1>2 DEF MemStep
<1> QED BY <1>1, <1>3, KeptBy

\* A read gets its data from the device, or from the cache by now.
LEMMA ReadDoneKeeps ==
    ASSUME NEW B, NEW C, NEW k, NEW dk, NEW cmd, NEW lt, NEW ls, NEW n,
           Storage(C, k, dk, cmd, lt, ls, n, B),
           NEW c \in Context, NEW b \in B, NEW d, cmd[c] = Open("read", b, d),
           NEW C2, NEW x,
           \/ C2 = C /\ x = dk[b]
           \/ is_cached(C, b) /\ C2 = Touch(C, get(C, b)) /\ x = get(C, b).data,
           NEW cmd2, cmd2 = With(cmd, c, Done("read", b, x))
    PROVE  Keeps(C, k, dk, cmd, lt, ls, C2, dk, cmd2, lt, ls, n, B)
<1>1. CacheOK(C2, B) /\ Len(C2) = Len(C) /\ View(C2, dk, B) = View(C, dk, B)
  BY SMTT(30), TouchEffect, SameView DEF Storage
<1>2. /\ cmd[c].op = "read" /\ cmd[c].block = b /\ ~cmd[c].done /\ cmd[c].data = d
      /\ CommandOK(cmd[c], dk, lt, ls) /\ dk \in [B -> Data]
  <2>1. PICK r : r = Open("read", b, d)
    OBVIOUS
  <2>2. r.op = "read" /\ r.block = b /\ ~r.done /\ r.data = d
    BY <2>1 DEF Request, Open
  <2>3. CommandOK(cmd[c], dk, lt, ls) /\ dk \in [B -> Data]
    BY DEF Storage, Memory, MemTyped
  <2> QED BY <2>1, <2>2, <2>3
<1>3. d = 0 /\ (b \notin ls => dk[b] = lt[b])
  BY <1>2 DEF CommandOK
<1>4. x \in Data /\ (b \notin ls => x = lt[b])
  <2>1. CASE x = dk[b]
    BY <1>2, <1>3, <2>1
  <2>2. CASE is_cached(C, b) /\ x = get(C, b).data
    <3>1. x \in Data /\ View(C, dk, B)[b] = x
      BY <2>2, UnitOf DEF CacheUnit, Storage, View
    <3>2. ~BeingWritten(cmd, b)
      BY <1>2 DEF Storage, Memory, Apart, BeingWritten
    <3> QED BY <3>1, <3>2 DEF Storage, Memory, Fresh
  <2> QED BY <2>1, <2>2
<1>5. PerformsRead(c, b, x, cmd, lt, ls, cmd2)
  BY <1>3, <1>4 DEF PerformsRead
<1>6. MemStep(cmd, View(C, dk, B), dk, lt, ls, cmd2, View(C2, dk, B), dk, lt, ls, B)
  BY <1>1, <1>4, <1>5 DEF MemStep
<1> QED BY <1>1, <1>6, KeptBy DEF Storage

\* The device carries out a write of a block that is not cached.
LEMMA WrittenKeeps ==
    ASSUME NEW B, NEW C, NEW k, NEW dk, NEW cmd, NEW lt, NEW ls, NEW n,
           Storage(C, k, dk, cmd, lt, ls, n, B),
           NEW c \in Context, NEW b \in B, NEW d, cmd[c] = Open("write", b, d),
           ~is_cached(C, b), NEW dk2, dk2 = [dk EXCEPT ![b] = d],
           NEW cmd2, cmd2 = With(cmd, c, Done("write", b, d))
    PROVE  Keeps(C, k, dk, cmd, lt, ls, C, dk2, cmd2, lt, ls, n, B)
<1>1. dk \in [B -> Data] /\ cmd[c] \in Requests(B) \cup {[op |-> "none"]}
  BY DEF Storage, Memory, MemTyped
<1>2. d \in Data
  <2>1. PICK r : r = Open("write", b, d)
    OBVIOUS
  <2>2. r.op = "write" /\ r.data = d
    BY <2>1 DEF Request, Open
  <2>3. [op |-> "none"].op # "write"
    OBVIOUS
  <2> QED BY <1>1, <2>1, <2>2, <2>3 DEF Requests
<1>3. View(C, dk2, B) = [View(C, dk, B) EXCEPT ![b] = d]
  BY <1>1 DEF View
<1>4. PerformsWrite(c, b, d, cmd, View(C, dk, B), dk, cmd2, View(C, dk2, B), dk2)
  BY <1>3 DEF PerformsWrite
<1>5. MemStep(cmd, View(C, dk, B), dk, lt, ls, cmd2, View(C, dk2, B), dk2, lt, ls, B)
  BY <1>2, <1>4 DEF MemStep
<1> QED BY <1>5, KeptBy DEF Storage

\* The client takes note of the end of its command.
LEMMA EndKeeps ==
    ASSUME NEW B, NEW C, NEW k, NEW dk, NEW cmd, NEW lt, NEW ls, NEW n,
           Storage(C, k, dk, cmd, lt, ls, n, B),
           NEW c \in Context, cmd[c].op # "none", cmd[c].done,
           NEW cmd2, cmd2 = With(cmd, c, [op |-> "none"])
    PROVE  Keeps(C, k, dk, cmd, lt, ls, C, dk, cmd2, lt, ls, n, B)
<1>1. Completes(c, cmd, cmd2)
  BY DEF Completes
<1>2. MemStep(cmd, View(C, dk, B), dk, lt, ls, cmd2, View(C, dk, B), dk, lt, ls, B)
  BY <1>1 DEF MemStep
<1> QED BY <1>2, KeptBy DEF Storage

\* What a command has read or written goes into the cache.  The block of the
\* unit that is evicted for it is lost when the device has other content.
Fills(C, k, dk, cmd, lt, ls, C2, ls2, n, b, d, B) ==
    /\ Keeps(C, k, dk, cmd, lt, ls, C2, dk, cmd, lt, ls2, n, B)
    /\ Puts(C, C2, b, d, FALSE, k, dk, B)
    /\ b \in B /\ d \in Data
    /\ b \notin ls => d = View(C, dk, B)[b]

LEMMA FillKeeps ==
    ASSUME CachesFit, NEW B, IsFiniteSet(B), NEW C, NEW k, NEW dk, NEW cmd, NEW lt, NEW ls, NEW n,
           Storage(C, k, dk, cmd, lt, ls, n, B),
           NEW c \in Context, cmd[c].op # "none", cmd[c].done,
           NEW b, b = cmd[c].block, NEW d, d = cmd[c].data,
           NEW C2, C2 = write(C, b, d, FALSE, k),
           NEW ls2, ls2 = IF Loses(C, b, k, dk) THEN ls \cup {evict_unit(C).id} ELSE ls
    PROVE  Fills(C, k, dk, cmd, lt, ls, C2, ls2, n, b, d, B)
<1>1. /\ dk \in [B -> Data] /\ cmd[c] \in Requests(B) /\ ls \subseteq B /\ k \in Nat \ {0}
      /\ CacheOK(C, B) /\ Len(C) <= k /\ n \in Data
  BY SMTT(30) DEF Storage, Memory, MemTyped
<1>2. b \in B /\ d \in Data /\ cmd[c].op \in {"read", "write"}
  BY <1>1 DEF Requests
<1>3. Puts(C, C2, b, d, FALSE, k, dk, B)
  BY <1>1, <1>2, WriteEffect
<1>4. b \notin ls => d = View(C, dk, B)[b]
  <2>1. ~BeingWritten(cmd, b)
    BY <1>2 DEF Storage, Memory, Apart, BeingWritten
  <2>2. b \notin ls => View(C, dk, B)[b] = lt[b]
    BY <1>2, <2>1 DEF Storage, Memory, Fresh
  <2>3. b \notin ls => d = lt[b]
    BY <1>2 DEF Storage, Memory, CommandOK
  <2> QED BY <2>2, <2>3
<1>5. ls \subseteq ls2 /\ ls2 \subseteq B /\ (k >= Cardinality(B) => ls2 = {})
  <2>1. CASE Loses(C, b, k, dk)
    BY <1>1, <1>3, <2>1 DEF Puts, Loses, CacheUnit
  <2>2. CASE ~Loses(C, b, k, dk)
    BY <1>1, <2>2 DEF Storage
  <2> QED BY <2>1, <2>2
<1>6. \A x \in B : x \notin ls2 => View(C2, dk, B)[x] = View(C, dk, B)[x]
  BY <1>3, <1>4, <1>5 DEF Puts
<1>7. Moves(View(C, dk, B), dk, ls, View(C2, dk, B), dk, ls2, B)
  BY <1>1, <1>3, <1>5, <1>6 DEF Moves, Puts
<1>8. MemStep(cmd, View(C, dk, B), dk, lt, ls, cmd, View(C2, dk, B), dk, lt, ls2, B)
  BY <1>7 DEF MemStep
<1>9. CacheOK(C2, B) /\ Len(C2) <= k
  BY <1>3 DEF Puts
<1>10. Keeps(C, k, dk, cmd, lt, ls, C2, dk, cmd, lt, ls2, n, B)
  BY <1>1, <1>5, <1>8, <1>9, KeptBy
<1> QED BY <1>2, <1>3, <1>4, <1>10 DEF Fills

\* The cache gives up a block that the device has, or nothing happens.
LEMMA DropKeeps ==
    ASSUME NEW B, NEW C, NEW k, NEW dk, NEW cmd, NEW lt, NEW ls, NEW n,
           Storage(C, k, dk, cmd, lt, ls, n, B), NEW b \in B,
           NEW C2, C2 = C \/ (C2 = invalidate(C, b) /\ Saved(C, dk, B))
    PROVE  Keeps(C, k, dk, cmd, lt, ls, C2, dk, cmd, lt, ls, n, B)
<1>1. CacheOK(C2, B) /\ Len(C2) <= Len(C) /\ View(C2, dk, B) = View(C, dk, B)
  BY SMTT(30), Places, InvalidateEffect DEF Storage
<1>2. View(C, dk, B) \in [B -> Data] /\ dk \in [B -> Data] /\ ls \subseteq B
  BY DEF Storage, Memory, MemTyped
<1>3. MemStep(cmd, View(C, dk, B), dk, lt, ls, cmd, View(C2, dk, B), dk, lt, ls, B)
  BY <1>1, <1>2 DEF MemStep, Moves
<1>4. Len(C2) <= k
  <2>1. Len(C) \in Nat /\ Len(C2) \in Nat /\ k \in Nat /\ Len(C) <= k
    BY <1>1, Places DEF Storage
  <2> QED BY SMTT(30), <1>1, <2>1
<1> QED BY <1>1, <1>3, <1>4, KeptBy DEF Storage

=============================================================================
