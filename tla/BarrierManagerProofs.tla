------------------------ MODULE BarrierManagerProofs ------------------------
(***************************************************************************)
(* Proofs about BarrierManager for every finite set of contexts, every set *)
(* of block addresses and every choice of request types.                   *)
(*                                                                         *)
(* No invariant of the manager is inductive alone.  Exclusion needs the    *)
(* counters to be right, since the code grants on the counters and not on  *)
(* the tokens; the counters stay right only if a fired context held no     *)
(* token and occurs once in the queue, which is what QueuedOnce and        *)
(* QueuedHoldsNone say.                                                    *)
(***************************************************************************)
EXTENDS BarrierManager, FiniteSetTheorems, FunctionTheorems, SequenceTheorems,
        WellFoundedInduction, TLAPS

\* Steps that name no prover are left to Zenon; SMTT marks what needs the SMT solver.
USE ZenonT(20)

-----------------------------------------------------------------------------
(* One barrier, for every set of contexts and every queue *)

\* Every queue has a longest prefix of READ requests, so the CHOOSE that
\* stands for the loop of offer_barrier picks it.
LEMMA ReadPrefixDef ==
  ASSUME NEW C, NEW q \in Seq(Request(C))
  PROVE  /\ ReadPrefix(q) \in 0..Len(q)
         /\ \A i \in 1..ReadPrefix(q) : q[i].type = READ
         /\ ReadPrefix(q) < Len(q) => q[ReadPrefix(q) + 1].type = WRITE
<1> DEFINE W == {i \in 1..Len(q) : q[i].type = WRITE}
           P(k) == /\ \A i \in 1..k : q[i].type = READ
                   /\ k < Len(q) => q[k + 1].type = WRITE
<1>1. Len(q) \in Nat /\ \A i \in 1..Len(q) : q[i] \in Request(C)
  BY ElementOfSeq, LenProperties
<1>2. \A i \in 1..Len(q) : i \notin W => q[i].type = READ
  BY <1>1 DEF Request, BarrierType
<1>3. \E k \in 0..Len(q) : P(k)
  <2>1. CASE W = {}
    BY SMTT(30), <1>1, <1>2, <2>1
  <2>2. CASE W # {}
    <3>1. PICK m \in W : \A j \in W : ~(<<j, m>> \in OpToRel(<, Nat))
      <4>1. W \subseteq Nat
        BY SMTT(30), <1>1
      <4> HIDE DEF W
      <4> QED BY <4>1, <2>2, WFMin, NatLessThanWellFounded
    <3>2. m \in 1..Len(q) /\ q[m].type = WRITE
      BY DEF W
    <3>3. \A j \in W : j \in Nat /\ ~(j < m)
      <4>1. OpToRel(<, Nat) = {ss \in Nat \X Nat : ss[1] < ss[2]}
        BY DEF OpToRel
      <4>2. \A j \in W : ~(<<j, m>> \in {ss \in Nat \X Nat : ss[1] < ss[2]})
        BY <3>1, <4>1
      <4>3. \A j, k \in Nat : j < k => <<j, k>> \in {ss \in Nat \X Nat : ss[1] < ss[2]}
        OBVIOUS
      <4>4. W \subseteq Nat /\ m \in Nat
        BY SMTT(30), <1>1, <3>2
      <4> HIDE DEF W
      <4> QED BY <4>2, <4>3, <4>4
    <3>4. P(m - 1)
      <4>1. \A i \in 1..(m - 1) : i \in 1..Len(q) /\ i \notin W
        BY SMTT(30), <1>1, <3>2, <3>3
      <4> QED BY SMTT(30), <1>1, <1>2, <3>2, <4>1
    <3>5. m - 1 \in 0..Len(q)
      BY SMTT(30), <1>1, <3>2
    <3> QED BY <3>4, <3>5
  <2> QED BY <2>1, <2>2
<1>4. ReadPrefix(q) = CHOOSE k \in 0..Len(q) : P(k)
  BY DEF ReadPrefix
<1> HIDE DEF P
<1>5. ReadPrefix(q) \in 0..Len(q) /\ P(ReadPrefix(q))
  BY <1>3, <1>4
<1> QED BY <1>5 DEF P

\* One call of offer_barrier serves at most the queue, serves only requests
\* of one type, that type was grantable, and serves at most one WRITE.
LEMMA OfferedDef ==
  ASSUME NEW C, NEW b \in Barrier(C)
  PROVE  /\ Offered(b) \in 0..Len(b.queue)
         /\ Offered(b) # 0 =>
              /\ b.queue # <<>>
              /\ FiredType(b) \in BarrierType
              /\ Grantable(b, FiredType(b))
              /\ \A i \in 1..Offered(b) : b.queue[i].type = FiredType(b)
              /\ FiredType(b) = WRITE => Offered(b) = 1
<1>1. b.queue \in Seq(Request(C))
  BY DEF Barrier
<1>2. Len(b.queue) \in Nat /\ \A i \in 1..Len(b.queue) : b.queue[i] \in Request(C)
  BY <1>1, ElementOfSeq, LenProperties
<1>3. b.queue # <<>> => Len(b.queue) >= 1
  BY SMTT(30), <1>1, EmptySeq
<1>4. \A i \in 1..Len(b.queue) : b.queue[i].type \in {READ, WRITE}
  BY <1>2 DEF Request, BarrierType
<1>5. ReadPrefix(b.queue) \in 0..Len(b.queue)
  BY <1>1, ReadPrefixDef
<1>6. \A i \in 1..ReadPrefix(b.queue) : b.queue[i].type = READ
  BY <1>1, ReadPrefixDef
<1>7. CASE b.queue = <<>> \/ ~Grantable(b, b.queue[1].type)
  BY SMTT(30), <1>2, <1>7 DEF Offered
<1>8. CASE b.queue # <<>> /\ Grantable(b, b.queue[1].type) /\ b.queue[1].type = WRITE
  <2>1. Offered(b) = 1
    BY <1>8 DEF Offered
  <2> QED BY SMTT(30), <1>2, <1>3, <1>8, <2>1 DEF FiredType, BarrierType
<1>9. CASE b.queue # <<>> /\ Grantable(b, b.queue[1].type) /\ b.queue[1].type # WRITE
  <2>1. Offered(b) = ReadPrefix(b.queue)
    BY <1>9 DEF Offered
  <2>2. FiredType(b) = READ
    BY SMTT(30), <1>2, <1>3, <1>4, <1>9 DEF FiredType
  <2> QED BY <1>5, <1>6, <1>9, <2>1, <2>2 DEF FiredType, BarrierType, READ, WRITE
<1> QED BY <1>7, <1>8, <1>9

\* Counting keeps the shape of a barrier, its queue and the other counter.
LEMMA CountDef ==
  ASSUME NEW C, NEW b \in Barrier(C), NEW type \in BarrierType, NEW k \in Int,
         type = READ => b.read + k >= 0,
         type = WRITE => b.write + k >= 0
  PROVE  /\ Count(b, type, k) \in Barrier(C)
         /\ Count(b, type, k).queue = b.queue
         /\ Count(b, type, k).read = IF type = READ THEN b.read + k ELSE b.read
         /\ Count(b, type, k).write = IF type = WRITE THEN b.write + k ELSE b.write
<1>1. type = READ \/ type = WRITE
  BY DEF BarrierType
<1>2. READ # WRITE
  BY DEF READ, WRITE
<1> QED BY SMTT(30), <1>1, <1>2 DEF Count, Barrier

\* A queued request goes to the end of the queue and counts nothing.
LEMMA QueueDef ==
  ASSUME NEW C, NEW b \in Barrier(C), NEW c \in C, NEW type \in BarrierType,
         ~Grantable(b, type)
  PROVE  /\ set_barrier(b, c, type) \in Barrier(C)
         /\ set_barrier(b, c, type).read = b.read
         /\ set_barrier(b, c, type).write = b.write
         /\ Len(set_barrier(b, c, type).queue) = Len(b.queue) + 1
         /\ \A i \in 1..Len(b.queue) : set_barrier(b, c, type).queue[i] = b.queue[i]
         /\ set_barrier(b, c, type).queue[Len(b.queue) + 1]
              = [context |-> c, type |-> type]
<1> DEFINE r == [context |-> c, type |-> type]
           q == Append(b.queue, r)
<1>1. b.queue \in Seq(Request(C)) /\ r \in Request(C)
  BY DEF Barrier, Request
<1>2. /\ q \in Seq(Request(C))
      /\ Len(q) = Len(b.queue) + 1
      /\ \A i \in 1..Len(b.queue) : q[i] = b.queue[i]
      /\ q[Len(b.queue) + 1] = r
  <2> HIDE DEF r
  <2> QED BY SMTT(30), <1>1, AppendProperties
<1>3. set_barrier(b, c, type) = [b EXCEPT !.queue = q]
  BY DEF set_barrier
<1> HIDE DEF q, r
<1>4. set_barrier(b, c, type) \in Barrier(C) /\ set_barrier(b, c, type).queue = q
  BY <1>2, <1>3 DEF Barrier
<1>5. set_barrier(b, c, type).read = b.read /\ set_barrier(b, c, type).write = b.write
  BY <1>3 DEF Barrier
<1> QED BY <1>2, <1>4, <1>5 DEF r

\* What offer_barrier leaves: the counters grow by the served requests, which
\* are exactly those taken from the front of the queue.
LEMMA OfferBarrierDef ==
  ASSUME NEW C, NEW b \in Barrier(C)
  PROVE  /\ offer_barrier(b) \in Barrier(C)
         /\ Len(offer_barrier(b).queue) = Len(b.queue) - Offered(b)
         /\ \A i \in 1..(Len(b.queue) - Offered(b)) :
              offer_barrier(b).queue[i] = b.queue[i + Offered(b)]
         /\ offer_barrier(b).read =
              IF Offered(b) # 0 /\ FiredType(b) = READ THEN b.read + Offered(b) ELSE b.read
         /\ offer_barrier(b).write =
              IF Offered(b) # 0 /\ FiredType(b) = WRITE THEN b.write + Offered(b) ELSE b.write
<1> DEFINE k == Offered(b)
           d == Count(b, FiredType(b), k)
           q == SubSeq(b.queue, k + 1, Len(b.queue))
<1>1. k \in 0..Len(b.queue) /\ (k # 0 => FiredType(b) \in BarrierType)
  BY OfferedDef
<1>2. /\ b.queue \in Seq(Request(C)) /\ Len(b.queue) \in Nat
      /\ \A i \in 1..Len(b.queue) : b.queue[i] \in Request(C)
  BY ElementOfSeq, LenProperties DEF Barrier
<1>3. CASE k = 0
  BY SMTT(30), <1>1, <1>2, <1>3 DEF offer_barrier
<1>4. CASE k # 0
  <2>1. /\ d \in Barrier(C) /\ d.queue = b.queue
        /\ d.read = IF FiredType(b) = READ THEN b.read + k ELSE b.read
        /\ d.write = IF FiredType(b) = WRITE THEN b.write + k ELSE b.write
    <3>1. k \in Int /\ b.read + k >= 0 /\ b.write + k >= 0
      BY SMTT(30), <1>1, <1>2 DEF Barrier
    <3> HIDE DEF k
    <3> QED BY SMTT(30), <1>1, <1>4, <3>1, CountDef
  <2>2. /\ q \in Seq(Request(C))
        /\ Len(q) = Len(b.queue) - k
        /\ \A i \in 1..(Len(b.queue) - k) : q[i] = b.queue[i + k]
    <3>1. k + 1 \in Int /\ Len(b.queue) \in Int
          /\ \A i \in (k + 1)..Len(b.queue) : b.queue[i] \in Request(C)
      BY SMTT(30), <1>1, <1>2
    <3>2. /\ q \in Seq(Request(C))
          /\ Len(q) = IF k + 1 <= Len(b.queue) THEN Len(b.queue) - (k + 1) + 1 ELSE 0
          /\ \A i \in 1..(Len(b.queue) - (k + 1) + 1) : q[i] = b.queue[(k + 1) + i - 1]
      <4> HIDE DEF k
      <4> QED BY SMTT(30), <3>1, SubSeqProperties
    <3> HIDE DEF k, q
    <3> QED BY SMTT(30), <1>1, <1>2, <3>2
  <2>3. offer_barrier(b) = [d EXCEPT !.queue = q]
    BY <1>4, <2>1 DEF offer_barrier
  <2> HIDE DEF d, q
  <2>4. /\ offer_barrier(b) \in Barrier(C) /\ offer_barrier(b).queue = q
        /\ offer_barrier(b).read = d.read /\ offer_barrier(b).write = d.write
    BY <2>1, <2>2, <2>3 DEF Barrier
  <2> QED BY <1>4, <2>1, <2>2, <2>4
<1> QED BY <1>3, <1>4

\* After offer_barrier the request at the front, if there is one, cannot be
\* granted: the loop never stops early.
LEMMA OfferServesFront ==
  ASSUME NEW C, NEW b \in Barrier(C),
         offer_barrier(b).queue # <<>>
  PROVE  ~Grantable(offer_barrier(b), offer_barrier(b).queue[1].type)
<1> DEFINE o == offer_barrier(b)
           k == Offered(b)
<1>1. b.read \in Nat /\ b.write \in Nat /\ b.queue \in Seq(Request(C))
      /\ o.queue \in Seq(Request(C))
  BY OfferBarrierDef DEF Barrier
<1>2. Len(b.queue) \in Nat /\ Len(o.queue) \in Nat /\ Len(o.queue) >= 1
  <2> HIDE DEF o
  <2> QED BY SMTT(30), <1>1, EmptySeq, LenProperties DEF o
<1>3. k \in 0..Len(b.queue) /\ k < Len(b.queue) /\ o.queue[1] = b.queue[k + 1]
  BY SMTT(30), <1>2, OfferBarrierDef, OfferedDef
<1>4. CASE k = 0
  <2>1. o = b
    BY <1>4 DEF offer_barrier
  <2>2. b.queue # <<>>
    BY <2>1
  <2>3. ASSUME Grantable(b, b.queue[1].type) PROVE FALSE
    <3>1. b.queue[1].type # WRITE /\ ReadPrefix(b.queue) = 0
      BY SMTT(30), <1>4, <2>2, <2>3 DEF Offered
    <3>2. b.queue[1].type = WRITE
      <4>1. 0 < Len(b.queue)
        BY <1>2, <1>3, <1>4
      <4>2. ReadPrefix(b.queue) < Len(b.queue) => b.queue[ReadPrefix(b.queue) + 1].type = WRITE
        BY <1>1, ReadPrefixDef
      <4> QED BY SMTT(30), <3>1, <4>1, <4>2
    <3> QED BY <3>1, <3>2
  <2> QED BY <2>1, <2>3
<1>5. CASE k # 0 /\ FiredType(b) = WRITE
  <2>1. o.write = b.write + k
    BY <1>5, OfferBarrierDef
  <2>2. o.write # 0
    BY SMTT(30), <1>1, <1>2, <1>3, <1>5, <2>1
  <2> QED BY <2>2 DEF Grantable
<1>6. CASE k # 0 /\ FiredType(b) # WRITE
  <2>1. FiredType(b) = READ
    BY <1>6, OfferedDef DEF BarrierType
  <2>2. o.read = b.read + k
    BY <1>6, <2>1, OfferBarrierDef
  <2>3. o.read # 0
    BY SMTT(30), <1>1, <1>2, <1>3, <1>6, <2>2
  <2>4. k = ReadPrefix(b.queue)
    BY <1>6, <2>1 DEF Offered, FiredType, READ, WRITE
  <2>5. b.queue[k + 1].type = WRITE
    BY <1>1, <1>3, <2>4, ReadPrefixDef
  <2> QED BY <1>3, <2>3, <2>5 DEF Grantable
<1> QED BY <1>4, <1>5, <1>6

-----------------------------------------------------------------------------
(* The manager *)

\* A context queued on a block has no token on it.
QueuedHoldsNone ==
    \A n \in Node : \A i \in 1..Len(barrier[n].queue) :
        held[barrier[n].queue[i].context][n] = NONE

\* The inductive invariant.
IInv ==
    /\ TypeOK
    /\ Exclusion
    /\ Accounting
    /\ NoLostWakeup
    /\ QueuedOnce
    /\ QueuedHoldsNone
    /\ WaitingIsQueued

-----------------------------------------------------------------------------
\* READ_BARRIER, WRITE_BARRIER and the absence of a token are told apart.
LEMMA TypesDiffer == READ # WRITE /\ READ # NONE /\ WRITE # NONE
BY DEF READ, WRITE, NONE

\* The shape of the state, in the form the proofs below use it.
LEMMA Shape ==
  ASSUME TypeOK
  PROVE  /\ \A n \in Node : barrier[n] \in Barrier(Context)
         /\ \A n \in Node : /\ barrier[n].queue \in Seq(Request(Context))
                            /\ barrier[n].read \in Nat /\ barrier[n].write \in Nat
                            /\ Len(barrier[n].queue) \in Nat
         /\ \A n \in Node : \A i \in 1..Len(barrier[n].queue) :
              /\ barrier[n].queue[i] \in Request(Context)
              /\ barrier[n].queue[i].context \in Context
         /\ \A c \in Context, n \in Node : held[c][n] \in BarrierType \cup {NONE}
<1>1. \A n \in Node : barrier[n] \in Barrier(Context)
  BY DEF TypeOK
<1>2. \A n \in Node : /\ barrier[n].queue \in Seq(Request(Context))
                      /\ barrier[n].read \in Nat /\ barrier[n].write \in Nat
  BY <1>1 DEF Barrier
<1>3. \A n \in Node : Len(barrier[n].queue) \in Nat
  BY <1>2, LenProperties
<1>4. \A n \in Node : \A i \in 1..Len(barrier[n].queue) :
        barrier[n].queue[i] \in Request(Context)
  BY <1>2, ElementOfSeq
<1>5. \A n \in Node : \A i \in 1..Len(barrier[n].queue) :
        barrier[n].queue[i].context \in Context
  BY <1>4 DEF Request
<1>6. \A c \in Context, n \in Node : held[c][n] \in BarrierType \cup {NONE}
  BY DEF TypeOK
<1> QED BY <1>1, <1>2, <1>3, <1>4, <1>5, <1>6

\* The holders of a block are finitely many.
LEMMA HoldersFinite ==
  ASSUME NEW n \in Node, NEW x
  PROVE  IsFiniteSet(Holders(n, x)) /\ Cardinality(Holders(n, x)) \in Nat
<1>1. Holders(n, x) \in SUBSET Context
  BY DEF Holders
<1>2. IsFiniteSet(Holders(n, x))
  BY <1>1, ContextFinite, FS_Subset
<1> QED BY <1>2, FS_CardinalityType

\* What the counters of a block say about its tokens.
LEMMA CountersSpeak ==
  ASSUME IInv, NEW n \in Node
  PROVE  /\ barrier[n].read >= 0 /\ barrier[n].write >= 0
         /\ barrier[n].read = 0 => \A d \in Context : held[d][n] # READ
         /\ barrier[n].write = 0 => \A d \in Context : held[d][n] # WRITE
<1>1. /\ barrier[n].read = Cardinality(Holders(n, READ))
      /\ barrier[n].write = Cardinality(Holders(n, WRITE))
  BY DEF IInv, Accounting
<1>2. \A x : Cardinality(Holders(n, x)) = 0 => Holders(n, x) = {}
  BY HoldersFinite, FS_EmptySet
<1>3. \A x : Cardinality(Holders(n, x)) \in Nat
  BY HoldersFinite
<1>4. \A x : Holders(n, x) = {} => \A d \in Context : held[d][n] # x
  BY DEF Holders
<1> QED BY SMTT(30), <1>1, <1>2, <1>3, <1>4

-----------------------------------------------------------------------------
\* The invariant holds before any barrier is requested (get_or_create_barrier
\* makes barriers without tokens and without requests).
LEMMA InitIInv == Init => IInv
<1> SUFFICES ASSUME Init PROVE IInv
  OBVIOUS
<1>1. TypeOK
  <2>1. <<>> \in Seq(Request(Context))
    BY EmptySeq
  <2>2. NewBarrier \in Barrier(Context)
    BY <2>1 DEF NewBarrier, Barrier
  <2> QED BY <2>2 DEF Init, TypeOK
<1>2. \A n \in Node : barrier[n].queue = <<>> /\ Len(barrier[n].queue) = 0
  BY EmptySeq DEF Init, NewBarrier
<1>3. \A n \in Node : barrier[n].read = 0 /\ barrier[n].write = 0
  BY DEF Init, NewBarrier
<1>4. \A c \in Context, n \in Node : held[c][n] = NONE
  BY DEF Init
<1>5. \A n \in Node, x \in BarrierType : Holders(n, x) = {}
  BY <1>4, TypesDiffer DEF Holders, BarrierType
<1>6. Accounting
  BY <1>3, <1>5, FS_EmptySet DEF Accounting, BarrierType
<1>7. Exclusion
  BY <1>4, TypesDiffer DEF Exclusion
<1>8. NoLostWakeup /\ QueuedOnce /\ QueuedHoldsNone
  BY SMTT(30), <1>2 DEF NoLostWakeup, QueuedOnce, QueuedHoldsNone
<1>9. WaitingIsQueued
  BY DEF Init, WaitingIsQueued
<1> QED BY <1>1, <1>6, <1>7, <1>8, <1>9 DEF IInv

-----------------------------------------------------------------------------
\* A request that is granted at once keeps the invariant.
LEMMA GrantKeepsIInv ==
  ASSUME IInv, NEW c \in Context, NEW n \in Node, NEW type \in BarrierType,
         request_barrier(c, n, type), Grantable(barrier[n], type)
  PROVE  IInv'
<1> DEFINE b == Count(barrier[n], type, 1)
<1> USE DEF IInv
<1>1. /\ barrier' = [barrier EXCEPT ![n] = b]
      /\ held' = [held EXCEPT ![c][n] = type]
      /\ status' = status
      /\ status[c] = "running"
  BY DEF request_barrier, set_barrier
<1>2. held[c][n] = NONE
  <2>1. n \in Int /\ ~(n < n)
    BY SMTT(30), NodeIsAddress
  <2> QED BY <2>1 DEF request_barrier
<1>3. barrier[n] \in Barrier(Context) /\ barrier[n].read + 1 >= 0 /\ barrier[n].write + 1 >= 0
  BY SMTT(30), Shape
<1>4. /\ b \in Barrier(Context) /\ b.queue = barrier[n].queue
      /\ b.read = IF type = READ THEN barrier[n].read + 1 ELSE barrier[n].read
      /\ b.write = IF type = WRITE THEN barrier[n].write + 1 ELSE barrier[n].write
  BY SMTT(30), <1>3, CountDef
<1> HIDE DEF b
<1>5. TypeOK'
  BY <1>1, <1>4 DEF TypeOK
<1>6. \A m \in Node : barrier'[m].queue = barrier[m].queue
  BY <1>1, <1>4 DEF TypeOK
<1>7. \A d \in Context, m \in Node :
        held'[d][m] = IF d = c /\ m = n THEN type ELSE held[d][m]
  BY <1>1 DEF TypeOK
<1>8. Exclusion'
  <2>1. barrier[n].write = 0 /\ (type = WRITE => barrier[n].read = 0)
    BY DEF Grantable
  <2>2. \A d \in Context : held[d][n] # WRITE
    BY <2>1, CountersSpeak
  <2>3. type = WRITE => \A d \in Context : held[d][n] = NONE
    BY <2>1, <2>2, CountersSpeak, Shape DEF BarrierType
  <2> QED BY SMTT(30), <1>7, <2>2, <2>3 DEF Exclusion
<1>9. Accounting'
  <2> SUFFICES ASSUME NEW m \in Node
               PROVE  /\ barrier'[m].read = Cardinality(Holders(m, READ)')
                      /\ barrier'[m].write = Cardinality(Holders(m, WRITE)')
    BY DEF Accounting
  <2>1. CASE m # n
    <3>1. barrier'[m] = barrier[m]
      BY <1>1, <2>1 DEF TypeOK
    <3>2. \A x : Holders(m, x)' = Holders(m, x)
      BY <1>7, <2>1 DEF Holders
    <3> QED BY <3>1, <3>2 DEF Accounting
  <2>2. CASE m = n
    <3>1. barrier'[n] = b
      BY <1>1 DEF TypeOK
    <3>2. Holders(n, type)' = Holders(n, type) \cup {c} /\ c \notin Holders(n, type)
      BY <1>2, <1>7, TypesDiffer DEF Holders, BarrierType
    <3>3. \A x \in BarrierType : x # type => Holders(n, x)' = Holders(n, x)
      BY SMTT(30), <1>2, <1>7, TypesDiffer DEF Holders, BarrierType
    <3>4. Cardinality(Holders(n, type)') = Cardinality(Holders(n, type)) + 1
      BY <3>2, HoldersFinite, FS_AddElement
    <3>5. CASE type = READ
      BY <1>4, <2>2, <3>1, <3>3, <3>4, <3>5, TypesDiffer DEF Accounting, BarrierType
    <3>6. CASE type = WRITE
      BY <1>4, <2>2, <3>1, <3>3, <3>4, <3>6, TypesDiffer DEF Accounting, BarrierType
    <3> QED BY <3>5, <3>6 DEF BarrierType
  <2> QED BY <2>1, <2>2
<1>10. NoLostWakeup'
  <2>1. barrier'[n].queue # <<>> => ~Grantable(barrier'[n], barrier'[n].queue[1].type)
    <3>1. barrier'[n] = b /\ barrier[n].read \in Int /\ barrier[n].write \in Int
      BY SMTT(30), <1>1, Shape DEF TypeOK
    <3>2. barrier[n].read >= 0 /\ barrier[n].write >= 0
      BY CountersSpeak
    <3>3. \A x : ~Grantable(barrier[n], x) => ~Grantable(b, x)
      BY SMTT(30), <1>4, <3>1, <3>2, TypesDiffer DEF Grantable, BarrierType
    <3> QED BY <1>6, <3>1, <3>3 DEF NoLostWakeup
  <2>2. \A m \in Node : m # n => barrier'[m] = barrier[m]
    BY <1>1 DEF TypeOK
  <2> QED BY <2>1, <2>2 DEF NoLostWakeup
<1>11. QueuedOnce'
  <2>1. ASSUME NEW m \in Node, NEW i \in 1..Len(barrier'[m].queue)
        PROVE  status'[barrier'[m].queue[i].context] = "waiting"
    <3>1. barrier'[m].queue = barrier[m].queue
      BY <1>6
    <3> QED BY SMTT(30), <1>1, <3>1 DEF QueuedOnce
  <2>2. ASSUME NEW m \in Node, NEW p \in Node,
               NEW i \in 1..Len(barrier'[m].queue), NEW j \in 1..Len(barrier'[p].queue),
               barrier'[m].queue[i].context = barrier'[p].queue[j].context
        PROVE  m = p /\ i = j
    <3>1. barrier'[m].queue = barrier[m].queue /\ barrier'[p].queue = barrier[p].queue
      BY <1>6
    <3> QED BY SMTT(30), <2>2, <3>1 DEF QueuedOnce
  <2> QED BY <2>1, <2>2 DEF QueuedOnce
<1>12. QueuedHoldsNone'
  <2>1. \A m \in Node : \A i \in 1..Len(barrier[m].queue) :
          barrier[m].queue[i].context \in Context /\ barrier[m].queue[i].context # c
    BY <1>1, Shape DEF QueuedOnce
  <2> SUFFICES ASSUME NEW m \in Node, NEW i \in 1..Len(barrier'[m].queue)
               PROVE  held'[barrier'[m].queue[i].context][m] = NONE
    BY DEF QueuedHoldsNone
  <2>2. barrier'[m].queue = barrier[m].queue
    BY <1>6
  <2>3. held[barrier[m].queue[i].context][m] = NONE
    BY <2>2 DEF QueuedHoldsNone
  <2> QED BY SMTT(30), <1>7, <2>1, <2>2, <2>3
<1>13. WaitingIsQueued'
  BY SMTT(30), <1>1, <1>6 DEF WaitingIsQueued, Queued
<1> QED BY <1>5, <1>8, <1>9, <1>10, <1>11, <1>12, <1>13

\* A request that is queued keeps the invariant.
LEMMA QueueKeepsIInv ==
  ASSUME IInv, NEW c \in Context, NEW n \in Node, NEW type \in BarrierType,
         request_barrier(c, n, type), ~Grantable(barrier[n], type)
  PROVE  IInv'
<1> DEFINE b == set_barrier(barrier[n], c, type)
           L == Len(barrier[n].queue)
<1> USE DEF IInv
<1>1. /\ barrier' = [barrier EXCEPT ![n] = b]
      /\ status' = [status EXCEPT ![c] = "waiting"]
      /\ held' = held
      /\ status[c] = "running"
  BY DEF request_barrier
<1>2. held[c][n] = NONE
  <2>1. n \in Int /\ ~(n < n)
    BY SMTT(30), NodeIsAddress
  <2> QED BY <2>1 DEF request_barrier
<1>3. barrier[n] \in Barrier(Context) /\ L \in Nat
  BY Shape
<1>4. /\ b \in Barrier(Context) /\ b.read = barrier[n].read /\ b.write = barrier[n].write
      /\ Len(b.queue) = L + 1
      /\ \A i \in 1..L : b.queue[i] = barrier[n].queue[i]
      /\ b.queue[L + 1] = [context |-> c, type |-> type]
  <2> DEFINE x == barrier[n]
  <2>1. x \in Barrier(Context)
    BY <1>3
  <2> HIDE DEF IInv, x
  <2>2. /\ set_barrier(x, c, type) \in Barrier(Context)
        /\ set_barrier(x, c, type).read = x.read
        /\ set_barrier(x, c, type).write = x.write
        /\ Len(set_barrier(x, c, type).queue) = Len(x.queue) + 1
        /\ \A i \in 1..Len(x.queue) : set_barrier(x, c, type).queue[i] = x.queue[i]
        /\ set_barrier(x, c, type).queue[Len(x.queue) + 1]
             = [context |-> c, type |-> type]
    <3>1. ~Grantable(x, type)
      BY DEF x
    <3> QED BY ONLY SMTT(30), <2>1, <3>1, c \in Context, type \in BarrierType, QueueDef
  <2> QED BY ONLY <2>2 DEF x, b, L
<1> HIDE DEF b
<1>5. /\ barrier'[n] = b
      /\ \A m \in Node : m # n => barrier'[m] = barrier[m]
  BY <1>1 DEF TypeOK
<1>6. TypeOK'
  BY <1>1, <1>4 DEF TypeOK
<1>7. Exclusion' /\ Accounting'
  BY <1>1, <1>4, <1>5 DEF Exclusion, Accounting, Holders
<1>8. NoLostWakeup'
  <2>1. ~Grantable(b, b.queue[1].type)
    <3>1. \A x : Grantable(b, x) <=> Grantable(barrier[n], x)
      BY <1>4 DEF Grantable
    <3>2. CASE L = 0
      BY SMTT(30), <1>4, <3>1, <3>2
    <3>3. CASE L # 0
      <4>1. barrier[n].queue # <<>>
        BY <3>3, EmptySeq
      <4>2. b.queue[1] = barrier[n].queue[1]
        BY SMTT(30), <1>3, <1>4, <3>3
      <4> QED BY <3>1, <4>1, <4>2 DEF NoLostWakeup
    <3> QED BY <3>2, <3>3
  <2> QED BY <1>5, <2>1 DEF NoLostWakeup
<1>9. \A m \in Node : \A i \in 1..Len(barrier'[m].queue) :
        \/ m = n /\ i = L + 1 /\ barrier'[m].queue[i].context = c
        \/ i \in 1..Len(barrier[m].queue) /\ barrier'[m].queue[i] = barrier[m].queue[i]
  BY SMTT(30), <1>3, <1>4, <1>5
<1>10. \A m \in Node : \A i \in 1..Len(barrier[m].queue) :
         /\ barrier[m].queue[i].context \in Context
         /\ barrier[m].queue[i].context # c
         /\ status[barrier[m].queue[i].context] = "waiting"
         /\ i \in 1..Len(barrier'[m].queue) /\ barrier'[m].queue[i] = barrier[m].queue[i]
  <2>1. ASSUME NEW m \in Node, NEW i \in 1..Len(barrier[m].queue)
        PROVE  i \in 1..Len(barrier'[m].queue) /\ barrier'[m].queue[i] = barrier[m].queue[i]
    <3>1. CASE m # n
      BY <1>5, <3>1
    <3>2. CASE m = n
      <4>1. i \in 1..L /\ i \in 1..(L + 1)
        BY SMTT(30), <1>3, <3>2
      <4> QED BY <1>4, <1>5, <3>2, <4>1
    <3> QED BY <3>1, <3>2
  <2> QED BY SMTT(30), <1>1, <2>1, Shape DEF QueuedOnce
<1>11. QueuedOnce'
  <2>1. \A m \in Node : \A i \in 1..Len(barrier'[m].queue) :
          status'[barrier'[m].queue[i].context] = "waiting"
    BY SMTT(30), <1>1, <1>9, <1>10 DEF TypeOK
  <2>2. \A m, k \in Node :
          \A i \in 1..Len(barrier'[m].queue), j \in 1..Len(barrier'[k].queue) :
             barrier'[m].queue[i].context = barrier'[k].queue[j].context
                => m = k /\ i = j
    <3> SUFFICES ASSUME NEW m \in Node, NEW k \in Node,
                        NEW i \in 1..Len(barrier'[m].queue),
                        NEW j \in 1..Len(barrier'[k].queue),
                        barrier'[m].queue[i].context = barrier'[k].queue[j].context
                 PROVE  m = k /\ i = j
      OBVIOUS
    <3>1. CASE m = n /\ i = L + 1 /\ barrier'[m].queue[i].context = c
      <4>1. ~(/\ j \in 1..Len(barrier[k].queue)
               /\ barrier'[k].queue[j] = barrier[k].queue[j])
        <5>1. barrier'[k].queue[j].context = c
          BY <3>1
        <5> QED BY <1>10, <5>1
      <4>2. k = n /\ j = L + 1
        BY <1>9, <4>1
      <4> QED BY <3>1, <4>2
    <3>2. CASE k = n /\ j = L + 1 /\ barrier'[k].queue[j].context = c
      <4>1. ~(/\ i \in 1..Len(barrier[m].queue)
               /\ barrier'[m].queue[i] = barrier[m].queue[i])
        <5>1. barrier'[m].queue[i].context = c
          BY <3>2
        <5> QED BY <1>10, <5>1
      <4>2. m = n /\ i = L + 1
        BY <1>9, <4>1
      <4> QED BY <3>2, <4>2
    <3>3. CASE /\ i \in 1..Len(barrier[m].queue) /\ barrier'[m].queue[i] = barrier[m].queue[i]
               /\ j \in 1..Len(barrier[k].queue) /\ barrier'[k].queue[j] = barrier[k].queue[j]
      BY SMTT(30), <3>3 DEF QueuedOnce
    <3> QED BY <1>9, <3>1, <3>2, <3>3
  <2> QED BY <2>1, <2>2 DEF QueuedOnce
<1>12. QueuedHoldsNone'
  BY SMTT(30), <1>1, <1>2, <1>9 DEF QueuedHoldsNone
<1>13. WaitingIsQueued'
  <2>1. Queued(c, n, type)'
    <3>1. L + 1 \in 1..Len(barrier'[n].queue)
          /\ barrier'[n].queue[L + 1] = [context |-> c, type |-> type]
      BY SMTT(30), <1>3, <1>4, <1>5
    <3> QED BY <3>1 DEF Queued
  <2>2. \A d \in Context, m \in Node, x \in BarrierType :
          Queued(d, m, x) => Queued(d, m, x)'
    BY <1>10 DEF Queued
  <2>3. \A d \in Context : d # c => status'[d] = status[d]
    BY <1>1 DEF TypeOK
  <2> QED BY <2>1, <2>2, <2>3 DEF WaitingIsQueued
<1> QED BY <1>6, <1>7, <1>8, <1>11, <1>12, <1>13

\* Running a fired context keeps the invariant.
LEMMA RunReadyKeepsIInv ==
  ASSUME IInv, NEW c \in Context, run_ready(c)
  PROVE  IInv'
<1> USE DEF IInv
<1>1. /\ barrier' = barrier /\ held' = held /\ status[c] = "ready"
      /\ status' = [status EXCEPT ![c] = "running"]
  BY DEF run_ready
<1>2. \A d \in Context : /\ status[d] = "waiting" => status'[d] = "waiting"
                         /\ status'[d] = "waiting" => status[d] = "waiting"
  BY <1>1 DEF TypeOK
<1>3. TypeOK'
  BY <1>1 DEF TypeOK
<1>4. Exclusion' /\ Accounting' /\ NoLostWakeup' /\ QueuedHoldsNone'
  BY <1>1 DEF Exclusion, Accounting, Holders, NoLostWakeup, QueuedHoldsNone
<1>5. QueuedOnce'
  BY SMTT(30), <1>1, <1>2, Shape DEF QueuedOnce
<1>6. WaitingIsQueued'
  BY SMTT(30), <1>1, <1>2 DEF WaitingIsQueued, Queued
<1> QED BY <1>3, <1>4, <1>5, <1>6

-----------------------------------------------------------------------------
\* The contexts that one call of offer_barrier fires are as many as the
\* requests it takes from the queue, because no context is queued twice.
LEMMA FiredCount ==
  ASSUME NEW b \in Barrier(Context),
         \A i, j \in 1..Len(b.queue) :
            b.queue[i].context = b.queue[j].context => i = j
  PROVE  IsFiniteSet(Fired(b)) /\ Cardinality(Fired(b)) = Offered(b)
<1> DEFINE k == Offered(b)
           f == [i \in 1..k |-> b.queue[i].context]
<1>1. Len(b.queue) \in Nat /\ k \in 0..Len(b.queue)
  BY OfferedDef, LenProperties DEF Barrier
<1> HIDE DEF k
<1>2. Fired(b) = {b.queue[i].context : i \in 1..k}
  BY DEF Fired, k
<1>3. f \in [1..k -> Fired(b)]
  BY <1>2
<1>4. \A i, j \in 1..k : f[i] = f[j] => i = j
  BY SMTT(30), <1>1
<1>5. \A d \in Fired(b) : \E i \in 1..k : f[i] = d
  BY <1>2
<1>6. f \in Bijection(1..k, Fired(b))
  <2> HIDE DEF f
  <2> QED BY <1>3, <1>4, <1>5, Fun_IsBij
<1>7. ExistsBijection(1..k, Fired(b))
  BY <1>6, Fun_ExistsBij
<1>8. IsFiniteSet(1..k) /\ Cardinality(1..k) = k
  BY SMTT(30), <1>1, FS_Interval
<1> QED BY <1>7, <1>8, FS_Bijection DEF k

\* The state after the decrement and before the offer: the counters agree
\* with the tokens of the contexts other than c.
LEMMA RemovedCounters ==
  ASSUME IInv, NEW c \in Context, NEW n \in Node, held[c][n] # NONE
  PROVE  LET b == Removed(barrier[n], held[c][n]) IN
         /\ b \in Barrier(Context)
         /\ b.queue = barrier[n].queue
         /\ b.read = Cardinality(Holders(n, READ) \ {c})
         /\ b.write = Cardinality(Holders(n, WRITE) \ {c})
<1> DEFINE t == held[c][n]
           b == Removed(barrier[n], t)
<1> USE DEF IInv
<1>1. t \in BarrierType
  BY Shape
<1>2. barrier[n] \in Barrier(Context) /\ barrier[n].read \in Nat /\ barrier[n].write \in Nat
  BY Shape
<1>3. \A x : Cardinality(Holders(n, x) \ {c}) =
               IF c \in Holders(n, x) THEN Cardinality(Holders(n, x)) - 1
                                      ELSE Cardinality(Holders(n, x))
  BY HoldersFinite, FS_RemoveElement
<1>4. \A x : Cardinality(Holders(n, x) \ {c}) \in Nat
  BY HoldersFinite, FS_RemoveElement, FS_CardinalityType
<1>5. \A x : c \in Holders(n, x) <=> t = x
  BY DEF Holders
<1>6. /\ barrier[n].read = Cardinality(Holders(n, READ))
      /\ barrier[n].write = Cardinality(Holders(n, WRITE))
  BY DEF Accounting
<1>7. /\ b \in Barrier(Context) /\ b.queue = barrier[n].queue
      /\ b.read = IF t = READ THEN barrier[n].read + (-1) ELSE barrier[n].read
      /\ b.write = IF t = WRITE THEN barrier[n].write + (-1) ELSE barrier[n].write
  <2>1. PICK j \in Int : j = -1
    BY SMTT(30)
  <2>2. b = Count(barrier[n], t, j)
    BY <2>1 DEF Removed
  <2> HIDE DEF b, t
  <2>3. \A x \in BarrierType, o \in Barrier(Context) :
          (x = READ => o.read + j >= 0) /\ (x = WRITE => o.write + j >= 0) =>
            /\ Count(o, x, j) \in Barrier(Context)
            /\ Count(o, x, j).queue = o.queue
            /\ Count(o, x, j).read = IF x = READ THEN o.read + j ELSE o.read
            /\ Count(o, x, j).write = IF x = WRITE THEN o.write + j ELSE o.write
    BY CountDef
  <2>4. /\ t = READ => barrier[n].read + j >= 0
        /\ t = WRITE => barrier[n].write + j >= 0
    <3>1. \A x : t = x => /\ Cardinality(Holders(n, x) \ {c}) = Cardinality(Holders(n, x)) - 1
                          /\ Cardinality(Holders(n, x) \ {c}) \in Nat
      BY <1>3, <1>4, <1>5
    <3>2. t = READ => barrier[n].read - 1 >= 0
      <4>1. t = READ => barrier[n].read - 1 \in Nat
        BY ONLY ZenonT(20), <1>6, <3>1
      <4> QED BY SMTT(30), <4>1
    <3>3. t = WRITE => barrier[n].write - 1 >= 0
      <4>1. t = WRITE => barrier[n].write - 1 \in Nat
        BY ONLY ZenonT(30), <1>6, <3>1
      <4> QED BY SMTT(30), <4>1
    <3> QED BY <1>2, <2>1, <3>2, <3>3
  <2> QED BY <1>1, <1>2, <2>1, <2>2, <2>3, <2>4
<1> HIDE DEF b, t
<1>8. b.read = Cardinality(Holders(n, READ) \ {c})
  BY <1>2, <1>3, <1>5, <1>6, <1>7
<1>9. b.write = Cardinality(Holders(n, WRITE) \ {c})
  BY <1>2, <1>3, <1>5, <1>6, <1>7
<1> QED BY <1>7, <1>8, <1>9 DEF b, t

\* Giving back a token, with the offer that follows, keeps the invariant.
LEMMA RemoveKeepsIInv ==
  ASSUME IInv, NEW c \in Context, NEW n \in Node, remove_token(c, n)
  PROVE  IInv'
<1> DEFINE b == Removed(barrier[n], held[c][n])
           o == offer_barrier(b)
           F == Fired(b)
           k == Offered(b)
           L == Len(barrier[n].queue)
           Rest(x) == Holders(n, x) \ {c}
<1> USE DEF IInv
<1>1. /\ status[c] = "running" /\ held[c][n] # NONE
      /\ barrier' = [barrier EXCEPT ![n] = o]
      /\ held' = [d \in Context |->
                    IF d \in F THEN [held[d] EXCEPT ![n] = FiredType(b)]
                    ELSE IF d = c THEN [held[d] EXCEPT ![n] = NONE]
                    ELSE held[d]]
      /\ status' = [d \in Context |-> IF d \in F THEN "ready" ELSE status[d]]
  BY DEF remove_token
<1>2. /\ b \in Barrier(Context) /\ b.queue = barrier[n].queue
      /\ b.read = Cardinality(Rest(READ)) /\ b.write = Cardinality(Rest(WRITE))
  BY <1>1, RemovedCounters
<1>3. L \in Nat
  BY Shape
<1>4. \A x : IsFiniteSet(Rest(x)) /\ Cardinality(Rest(x)) \in Nat
             /\ (Cardinality(Rest(x)) = 0 => Rest(x) = {})
  <2>1. \A x : IsFiniteSet(Rest(x))
    BY HoldersFinite, FS_RemoveElement
  <2> HIDE DEF Rest
  <2> QED BY <2>1, FS_CardinalityType, FS_EmptySet
<1> HIDE DEF b, Rest
<1>5. /\ k \in 0..L
      /\ k # 0 => /\ FiredType(b) \in BarrierType
                  /\ Grantable(b, FiredType(b))
                  /\ FiredType(b) = WRITE => k = 1
  BY <1>2, OfferedDef
<1>6. /\ o \in Barrier(Context)
      /\ Len(o.queue) = L - k
      /\ \A i \in 1..(L - k) : o.queue[i] = barrier[n].queue[i + k]
      /\ o.read = IF k # 0 /\ FiredType(b) = READ THEN b.read + k ELSE b.read
      /\ o.write = IF k # 0 /\ FiredType(b) = WRITE THEN b.write + k ELSE b.write
  BY SMTT(30), <1>2, OfferBarrierDef
<1>7. F = {barrier[n].queue[i].context : i \in 1..k}
  BY <1>2 DEF Fired
<1>8. IsFiniteSet(F) /\ Cardinality(F) = k
  BY SMTT(30), <1>2, FiredCount DEF QueuedOnce
<1> HIDE DEF o, F, k
<1>9. \A d \in F : /\ d \in Context /\ d # c
                   /\ status[d] = "waiting" /\ held[d][n] = NONE
  BY SMTT(30), <1>1, <1>3, <1>5, <1>7, Shape DEF QueuedOnce, QueuedHoldsNone
<1>10. F # {} => k # 0
  BY SMTT(30), <1>5, <1>7
<1>11. /\ barrier'[n] = o
       /\ \A m \in Node : m # n => barrier'[m] = barrier[m]
  BY <1>1 DEF TypeOK
<1>12. \A d \in Context, m \in Node :
         held'[d][m] = IF m # n THEN held[d][m]
                       ELSE IF d \in F THEN FiredType(b)
                       ELSE IF d = c THEN NONE
                       ELSE held[d][n]
  BY <1>1 DEF TypeOK
<1>13. TypeOK'
  <2>1. barrier' \in [Node -> Barrier(Context)]
    BY <1>1, <1>6 DEF TypeOK
  <2>2. \A d \in Context : held'[d] \in [Node -> BarrierType \cup {NONE}]
    BY <1>1, <1>5, <1>10 DEF TypeOK
  <2>3. held' \in [Context -> [Node -> BarrierType \cup {NONE}]]
    BY <1>1, <2>2
  <2>4. status' \in [Context -> {"running", "waiting", "ready"}]
    BY <1>1 DEF TypeOK
  <2> QED BY <2>1, <2>3, <2>4 DEF TypeOK
<1>14. \A x \in BarrierType :
         Holders(n, x)' = Rest(x) \cup (IF FiredType(b) = x THEN F ELSE {})
  BY SMTT(30), <1>9, <1>12, TypesDiffer DEF Holders, Rest, BarrierType
<1>15. Exclusion'
  <2>1. \A d, e \in Context : held'[d][n] = WRITE /\ held'[e][n] # NONE => d = e
    <3>1. CASE k = 0
      <4>1. F = {}
        BY <1>10, <3>1
      <4> QED BY <1>12, <4>1, TypesDiffer DEF Exclusion
    <3>2. CASE k # 0 /\ FiredType(b) = READ
      <4>1. Rest(WRITE) = {}
        BY <1>2, <1>4, <1>5, <3>2 DEF Grantable
      <4>2. Holders(n, WRITE)' = {}
        BY <1>14, <3>2, <4>1, TypesDiffer DEF BarrierType
      <4> QED BY <4>2 DEF Holders
    <3>3. CASE k # 0 /\ FiredType(b) = WRITE
      <4>1. Rest(WRITE) = {} /\ Rest(READ) = {}
        BY <1>2, <1>4, <1>5, <3>3 DEF Grantable
      <4>2. PICK f : F = {f}
        BY <1>5, <1>8, <3>3, FS_Singleton
      <4>3. Holders(n, WRITE)' \subseteq {f} /\ Holders(n, READ)' = {}
        BY <1>14, <3>3, <4>1, <4>2, TypesDiffer DEF BarrierType
      <4>4. \A e \in Context : held'[e][n] # NONE =>
              e \in Holders(n, WRITE)' \/ e \in Holders(n, READ)'
        BY SMTT(30), <1>13 DEF TypeOK, Holders, BarrierType
      <4>5. \A e \in Context : held'[e][n] # NONE => e = f
        BY <4>3, <4>4
      <4> QED BY <4>5, TypesDiffer
    <3> QED BY <1>5, <3>1, <3>2, <3>3 DEF BarrierType
  <2> QED BY SMTT(30), <1>12, <2>1 DEF Exclusion
<1>16. Accounting'
  <2>1. \A m \in Node : m # n =>
          /\ barrier'[m].read = Cardinality(Holders(m, READ)')
          /\ barrier'[m].write = Cardinality(Holders(m, WRITE)')
    <3>1. \A m \in Node : m # n => \A x : Holders(m, x)' = Holders(m, x)
      BY <1>12 DEF Holders
    <3> QED BY <1>11, <3>1 DEF Accounting
  <2>2. \A x \in BarrierType :
          Cardinality(Holders(n, x)') = IF k # 0 /\ FiredType(b) = x
                                        THEN Cardinality(Rest(x)) + k
                                        ELSE Cardinality(Rest(x))
    <3> SUFFICES ASSUME NEW x \in BarrierType
                 PROVE  Cardinality(Holders(n, x)') = IF k # 0 /\ FiredType(b) = x
                                                      THEN Cardinality(Rest(x)) + k
                                                      ELSE Cardinality(Rest(x))
      OBVIOUS
    <3>1. CASE k = 0 \/ FiredType(b) # x
      BY <1>10, <1>14, <3>1
    <3>2. CASE k # 0 /\ FiredType(b) = x
      <4>1. Holders(n, x)' = Rest(x) \cup F
        BY <1>14, <3>2
      <4>2. Rest(x) \cap F = {}
        BY <1>9, TypesDiffer DEF Holders, Rest, BarrierType
      <4>3. Cardinality(Rest(x) \cup F) = Cardinality(Rest(x)) + Cardinality(F) - 0
        BY SMTT(30), <1>4, <1>8, <4>2, FS_Union, FS_EmptySet
      <4> QED BY SMTT(30), <1>4, <1>5, <1>8, <3>2, <4>1, <4>3
    <3> QED BY <3>1, <3>2
  <2>3. /\ barrier'[n].read = Cardinality(Holders(n, READ)')
        /\ barrier'[n].write = Cardinality(Holders(n, WRITE)')
    BY <1>2, <1>6, <1>11, <2>2 DEF BarrierType
  <2> QED BY <2>1, <2>3 DEF Accounting
<1>17. NoLostWakeup'
  <2>1. o.queue # <<>> => ~Grantable(o, o.queue[1].type)
    BY <1>2, <1>4, OfferServesFront DEF o
  <2> QED BY <1>11, <2>1 DEF NoLostWakeup
<1>18. \A m \in Node : \A i \in 1..Len(barrier'[m].queue) :
         LET j == IF m = n THEN i + k ELSE i
         IN  j \in 1..Len(barrier[m].queue) /\ barrier'[m].queue[i] = barrier[m].queue[j]
  <2>1. \A i \in 1..Len(barrier'[n].queue) :
          i + k \in 1..L /\ barrier'[n].queue[i] = barrier[n].queue[i + k]
    <3>1. Len(barrier'[n].queue) = L - k
      BY <1>6, <1>11
    <3>2. \A i \in 1..(L - k) : i + k \in 1..L
      BY SMTT(30), <1>3, <1>5
    <3> HIDE DEF L
    <3> QED BY <1>6, <1>11, <3>1, <3>2
  <2>2. \A m \in Node : m # n => \A i \in 1..Len(barrier'[m].queue) :
          i \in 1..Len(barrier[m].queue) /\ barrier'[m].queue[i] = barrier[m].queue[i]
    BY <1>11
  <2> QED BY <2>1, <2>2
<1>19. \A m \in Node : \A i \in 1..Len(barrier'[m].queue) :
         barrier'[m].queue[i].context \notin F
  <2> SUFFICES ASSUME NEW m \in Node, NEW i \in 1..Len(barrier'[m].queue),
                      NEW g \in 1..k,
                      barrier'[m].queue[i].context = barrier[n].queue[g].context
               PROVE  FALSE
    BY <1>7
  <2>1. PICK j \in 1..Len(barrier[m].queue) :
          barrier'[m].queue[i] = barrier[m].queue[j] /\ (m = n => j = i + k)
    BY <1>18
  <2>2. m = n /\ j = g
    BY SMTT(30), <1>3, <1>5, <2>1 DEF QueuedOnce
  <2>3. i \in Nat /\ i >= 1
    BY SMTT(30), <1>6, <1>11, <1>13, Shape
  <2> QED BY SMTT(30), <1>3, <1>5, <2>1, <2>2, <2>3
<1>20. QueuedOnce'
  <2>1. ASSUME NEW m \in Node, NEW i \in 1..Len(barrier'[m].queue)
        PROVE  status'[barrier'[m].queue[i].context] = "waiting"
    <3>1. PICK j \in 1..Len(barrier[m].queue) : barrier'[m].queue[i] = barrier[m].queue[j]
      BY <1>18
    <3>2. barrier[m].queue[j].context \in Context
      BY Shape
    <3>3. status[barrier[m].queue[j].context] = "waiting"
      BY DEF QueuedOnce
    <3>4. barrier[m].queue[j].context \notin F
      BY <1>19, <3>1
    <3> QED BY <1>1, <3>1, <3>2, <3>3, <3>4
  <2>2. ASSUME NEW m \in Node, NEW p \in Node,
               NEW i \in 1..Len(barrier'[m].queue), NEW j \in 1..Len(barrier'[p].queue),
               barrier'[m].queue[i].context = barrier'[p].queue[j].context
        PROVE  m = p /\ i = j
    <3>1. PICK i0 \in 1..Len(barrier[m].queue) :
            /\ barrier'[m].queue[i] = barrier[m].queue[i0]
            /\ i0 = IF m = n THEN i + k ELSE i
      BY <1>18
    <3>2. PICK j0 \in 1..Len(barrier[p].queue) :
            /\ barrier'[p].queue[j] = barrier[p].queue[j0]
            /\ j0 = IF p = n THEN j + k ELSE j
      BY <1>18
    <3>3. m = p /\ i0 = j0
      BY SMTT(30), <2>2, <3>1, <3>2 DEF QueuedOnce
    <3>4. i \in Int /\ j \in Int /\ k \in Int
      BY SMTT(30), <1>5
    <3> QED BY SMTT(30), <3>1, <3>2, <3>3, <3>4
  <2> QED BY <2>1, <2>2 DEF QueuedOnce
<1>21. QueuedHoldsNone'
  <2> SUFFICES ASSUME NEW m \in Node, NEW i \in 1..Len(barrier'[m].queue)
               PROVE  held'[barrier'[m].queue[i].context][m] = NONE
    BY DEF QueuedHoldsNone
  <2>1. PICK j \in 1..Len(barrier[m].queue) : barrier'[m].queue[i] = barrier[m].queue[j]
    BY <1>18
  <2> DEFINE d == barrier[m].queue[j].context
  <2>2. d \in Context /\ held[d][m] = NONE /\ d \notin F
    BY <1>19, <2>1, Shape DEF QueuedHoldsNone
  <2> QED BY SMTT(30), <1>12, <2>1, <2>2
<1>22. WaitingIsQueued'
  <2> SUFFICES ASSUME NEW d \in Context, status'[d] = "waiting"
               PROVE  \E m \in Node, x \in BarrierType : Queued(d, m, x)'
    BY DEF WaitingIsQueued
  <2>1. d \notin F /\ status[d] = "waiting"
    BY <1>1
  <2>2. PICK m \in Node, x \in BarrierType : Queued(d, m, x)
    BY <2>1 DEF WaitingIsQueued
  <2>3. PICK i \in 1..Len(barrier[m].queue) :
          barrier[m].queue[i] = [context |-> d, type |-> x]
    BY <2>2 DEF Queued
  <2>4. CASE m # n
    BY SMTT(30), <1>11, <2>3, <2>4 DEF Queued
  <2>5. CASE m = n
    <3>1. i \notin 1..k
      BY SMTT(30), <1>7, <2>1, <2>3, <2>5
    <3>2. i - k \in 1..(L - k) /\ (i - k) + k = i
      BY SMTT(30), <1>3, <1>5, <2>5, <3>1
    <3>3. i - k \in 1..Len(barrier'[n].queue) /\ barrier'[n].queue[i - k] = barrier[n].queue[i]
      BY <1>6, <1>11, <3>2
    <3> QED BY <2>3, <2>5, <3>3 DEF Queued
  <2> QED BY <2>4, <2>5
<1> QED BY <1>13, <1>15, <1>16, <1>17, <1>20, <1>21, <1>22

-----------------------------------------------------------------------------
\* Every step of the contexts and of the barrier manager keeps the invariant.
LEMMA NextIInv == IInv /\ [Next]_vars => IInv'
<1> SUFFICES ASSUME IInv, [Next]_vars PROVE IInv'
  OBVIOUS
<1>1. ASSUME NEW c \in Context, NEW n \in Node, NEW type \in Modes,
             request_barrier(c, n, type)
      PROVE  IInv'
  <2>1. type \in BarrierType
    BY ModesAreTypes
  <2> QED BY <1>1, <2>1, GrantKeepsIInv, QueueKeepsIInv
<1>2. ASSUME NEW c \in Context, NEW n \in Node, remove_token(c, n)
      PROVE  IInv'
  BY <1>2, RemoveKeepsIInv
<1>3. ASSUME NEW c \in Context, run_ready(c)
      PROVE  IInv'
  BY <1>3, RunReadyKeepsIInv
<1>4. CASE UNCHANGED vars
  <2>1. barrier' = barrier /\ held' = held /\ status' = status
    BY <1>4 DEF vars
  <2>2. TypeOK' /\ Exclusion' /\ Accounting'
    BY <2>1 DEF IInv, TypeOK, Exclusion, Accounting, Holders
  <2>3. NoLostWakeup' /\ QueuedOnce'
    BY SMTT(30), <2>1 DEF IInv, NoLostWakeup, QueuedOnce
  <2>4. QueuedHoldsNone' /\ WaitingIsQueued'
    BY SMTT(30), <2>1 DEF IInv, QueuedHoldsNone, WaitingIsQueued, Queued
  <2> QED BY <2>2, <2>3, <2>4 DEF IInv
<1> QED BY <1>1, <1>2, <1>3, <1>4 DEF Next

\* The inductive invariant holds in every state of the barrier manager.
THEOREM SpecIInv == Spec => []IInv
BY InitIInv, NextIInv, PTL DEF Spec

\* The state keeps its type: queues hold requests of known contexts, and a
\* context holds at most one token per block.
THEOREM TypeCorrect == Spec => []TypeOK
<1>1. IInv => TypeOK
  BY DEF IInv
<1> QED BY <1>1, SpecIInv, PTL

\* A write token excludes every other token on its block, for any number of
\* contexts and blocks (set_write_barrier, set_read_barrier, offer_barrier).
THEOREM ExclusionHolds == Spec => []Exclusion
<1>1. IInv => Exclusion
  BY DEF IInv
<1> QED BY <1>1, SpecIInv, PTL

\* read_barriers and write_barriers count the tokens in the hands of the
\* contexts.
THEOREM AccountingHolds == Spec => []Accounting
<1>1. IInv => Accounting
  BY DEF IInv
<1> QED BY <1>1, SpecIInv, PTL

\* No request that could be granted is left in a queue: the offer in
\* remove_read_barrier and remove_write_barrier is enough.
THEOREM NoLostWakeupHolds == Spec => []NoLostWakeup
<1>1. IInv => NoLostWakeup
  BY DEF IInv
<1> QED BY <1>1, SpecIInv, PTL

\* A context waits at one place of one queue exactly when it waits at all, so
\* fire_context never hands a context to the scheduler twice.
THEOREM QueuesHold == Spec => []QueuesMatchStatus
<1>1. IInv => QueuesMatchStatus
  BY DEF IInv, QueuesMatchStatus
<1> QED BY <1>1, SpecIInv, PTL

\* A write barrier is never granted past a queued request.
THEOREM WritersKeepOrderHolds == Spec => WritersKeepOrder
<1> DEFINE A == \A c \in Context, n \in Node :
                  (held[c][n] = NONE /\ held'[c][n] = WRITE /\ status[c] = "running")
                     => barrier[n].queue = <<>>
<1>1. IInv /\ [Next]_vars => [A]_vars
  <2> SUFFICES ASSUME IInv, Next,
                      NEW d \in Context, NEW m \in Node, held[d][m] = NONE,
                      held'[d][m] = WRITE, status[d] = "running"
               PROVE  barrier[m].queue = <<>>
    BY DEF vars
  <2> USE DEF IInv
  <2>1. ASSUME NEW c \in Context, NEW n \in Node, NEW type \in Modes,
               request_barrier(c, n, type)
        PROVE  barrier[m].queue = <<>>
    <3>1. /\ Grantable(barrier[n], type)
          /\ held' = [held EXCEPT ![c][n] = type]
      BY <2>1, TypesDiffer DEF request_barrier
    <3>2. d = c /\ m = n /\ type = WRITE
      BY <3>1, TypesDiffer DEF TypeOK
    <3>3. \A x : Grantable(barrier[m], x)
      BY <3>1, <3>2 DEF Grantable
    <3> QED BY <3>3 DEF NoLostWakeup
  <2>2. ASSUME NEW c \in Context, NEW n \in Node, remove_token(c, n)
        PROVE  FALSE
    <3> DEFINE b == Removed(barrier[n], held[c][n])
    <3>1. held' = [e \in Context |->
                     IF e \in Fired(b) THEN [held[e] EXCEPT ![n] = FiredType(b)]
                     ELSE IF e = c THEN [held[e] EXCEPT ![n] = NONE]
                     ELSE held[e]]
      BY <2>2 DEF remove_token
    <3>2. b \in Barrier(Context) /\ b.queue = barrier[n].queue
      BY ZenonT(30), <2>2, RemovedCounters DEF remove_token
    <3> HIDE DEF b
    <3>3. d \in Fired(b)
      BY <3>1, TypesDiffer DEF TypeOK
    <3>4. PICK i \in 1..Offered(b) : d = barrier[n].queue[i].context
      BY <3>2, <3>3 DEF Fired
    <3>5. i \in 1..Len(barrier[n].queue)
      BY SMTT(30), <3>2, OfferedDef, Shape
    <3>6. status[d] = "waiting"
      BY <3>4, <3>5 DEF QueuedOnce
    <3> QED BY <3>6
  <2>3. ASSUME NEW c \in Context, run_ready(c)
        PROVE  FALSE
    BY <2>3, TypesDiffer DEF run_ready
  <2> QED BY <2>1, <2>2, <2>3 DEF Next
<1> QED BY <1>1, SpecIInv, PTL DEF Spec, WritersKeepOrder

=============================================================================
