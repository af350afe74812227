------------------------- MODULE BlkAccessorActions --------------------------
(***************************************************************************)
(* The actions of the accessors that block their callers, as they are in   *)
(* MCBlkAccessors, keep the invariants of BlkAccessorSteps; and a step of  *)
(* any accessor that its storage keeps is one of the block device.         *)
(***************************************************************************)
EXTENDS BlkAccessorSteps, MCBlkAccessors, FiniteSetTheorems

\* Steps that name no prover are left to Zenon; SMTT marks what needs the SMT solver.
USE ZenonT(60)

-----------------------------------------------------------------------------
(* Counting *)

\* A cache has as many units as there are blocks in it, and a block that is not
\* cached finds room in a cache that could hold all blocks.
LEMMA CacheSize ==
    ASSUME NEW B, NEW C, CacheOK(C, B)
    PROVE  /\ Cardinality({C[i].id : i \in DOMAIN C}) = Len(C)
           /\ IsFiniteSet(B) => \A b \in B, k \in Nat :
                 k >= Cardinality(B) => ~Evicted(C, b, k)
<1> DEFINE ids == {C[i].id : i \in DOMAIN C}
           f   == [i \in 1..Len(C) |-> C[i].id]
<1>1. /\ Len(C) \in Nat /\ DOMAIN C = 1..Len(C)
      /\ \A i \in 1..Len(C) : C[i].id \in B
  BY Places DEF CacheUnit
<1>2. ids = {C[i].id : i \in 1..Len(C)}
  BY <1>1
<1>3. f \in [1..Len(C) -> ids] /\ \A i, j \in 1..Len(C) : f[i] = f[j] => i = j
  BY <1>2 DEF CacheOK
<1>4. \A d \in ids : \E i \in 1..Len(C) : f[i] = d
  BY <1>2
<1> HIDE DEF f
<1>5. ExistsBijection(1..Len(C), ids)
  <2> HIDE DEF ids
  <2>1. f \in Bijection(1..Len(C), ids)
    BY <1>3, <1>4 DEF Bijection, Injection, Surjection, IsInjective
  <2> QED BY <2>1 DEF ExistsBijection
<1>6. IsFiniteSet(1..Len(C)) /\ Cardinality(1..Len(C)) = Len(C)
  BY SMTT(30), <1>1, FS_Interval
<1>7. IsFiniteSet(ids) /\ Cardinality(ids) = Len(C)
  BY <1>5, <1>6, FS_Bijection
<1>8. ASSUME IsFiniteSet(B), NEW b \in B, NEW k \in Nat, k >= Cardinality(B), Evicted(C, b, k)
      PROVE  FALSE
  <2>1. b \notin ids /\ ids \cup {b} \in SUBSET B
    BY <1>1, <1>2, <1>8 DEF Evicted, is_cached
  <2> HIDE DEF ids
  <2>2. IsFiniteSet(ids \cup {b}) /\ Cardinality(ids \cup {b}) = Len(C) + 1
    BY <1>7, <2>1, FS_AddElement
  <2>3. Cardinality(ids \cup {b}) <= Cardinality(B) /\ Cardinality(B) \in Nat
    BY <1>8, <2>1, FS_Subset, FS_CardinalityType
  <2> QED BY SMTT(30), <1>1, <1>8, <2>2, <2>3 DEF Evicted
<1> QED BY <1>7, <1>8

LEMMA AllCachesFit == CachesFit
BY CacheSize DEF CachesFit, CacheFits

-----------------------------------------------------------------------------
(* The block device *)

\* The content of all blocks, with those that the accessor does not have.
Content(view, B) == [b \in Block |-> IF b \in B THEN view[b] ELSE 0]

\* While nothing is lost, a step of the memory is one of the block device.
LEMMA StepRefines ==
    ASSUME NEW B, B \subseteq Block, NEW view, NEW dk, NEW lt, NEW view2, NEW dk2, NEW lt2,
           Memory(AllCommands, view, dk, lt, {}, B),
           AllContent = Content(view, B), AllContent' = Content(view2, B),
           MemStep(AllCommands, view, dk, lt, {}, AllCommands', view2, dk2, lt2, {}, B)
    PROVE  [AnyDevice!Next]_(AnyDevice!vars)
<1> DEFINE cmd == AllCommands
           cmd2 == AllCommands'
<1>0. /\ cmd \in [Context -> Requests(B) \cup {[op |-> "none"]}]
      /\ view \in [B -> Data] /\ lt \in [B -> Data]
  BY DEF Memory, MemTyped
<1>1. \A c \in Context : cmd[c].op = "none" => cmd[c] = AnyDevice!NoCommand
  BY <1>0 DEF Requests, AnyDevice!NoCommand
<1>2. \A op, b, d : /\ Open(op, b, d) = AnyDevice!Command(op, b, d, FALSE)
                      /\ Done(op, b, d) = AnyDevice!Command(op, b, d, TRUE)
  BY DEF Request, Open, Done, AnyDevice!Command
<1>3. \A b \in B : AllContent[b] = view[b]
  BY DEF Content
<1>4. view2 = view => AllContent' = AllContent
  OBVIOUS
<1> HIDE DEF cmd, cmd2
<1>5. ASSUME NEW c \in Context, Completes(c, cmd, cmd2), view2 = view
      PROVE  AnyDevice!Next
  <2>1. cmd[c] \in Requests(B) /\ cmd[c].done
    BY SMTT(30), <1>0, <1>5 DEF Completes
  <2>2. /\ cmd[c] = Done(cmd[c].op, cmd[c].block, cmd[c].data)
        /\ cmd[c].block \in Block /\ cmd[c].data \in Data /\ cmd[c].op \in {"read", "write"}
    BY <2>1 DEF Requests, Request, Done
  <2>3. AnyDevice!Complete(c, cmd[c].block, cmd[c].data, cmd[c].op)
    BY <1>2, <1>4, <1>5, <2>2
       DEF AnyDevice!Complete, AnyDevice!NoCommand, Completes, With, cmd, cmd2
  <2> QED BY <2>2, <2>3 DEF AnyDevice!Next
<1>6. ASSUME NEW c \in Context, NEW b \in B, view2 = view,
             \/ BeginsRead(c, b, cmd, dk, lt, {}, cmd2)
             \/ ReadsAtOnce(c, b, cmd, view, cmd2)
      PROVE  AnyDevice!Next
  <2>1. cmd[c] = AnyDevice!NoCommand
    BY <1>1, <1>6 DEF BeginsRead, ReadsAtOnce
  <2>2. AnyDevice!SubmitRead(c, b) \/ AnyDevice!SubmitAndRead(c, b)
    BY <1>2, <1>3, <1>4, <1>6, <2>1
       DEF AnyDevice!SubmitRead, AnyDevice!SubmitAndRead, BeginsRead, ReadsAtOnce, With, cmd, cmd2
  <2> QED BY <2>2 DEF AnyDevice!Next
<1>7. ASSUME NEW c \in Context, NEW b \in B, view2 = view, NEW x \in Data,
             PerformsRead(c, b, x, cmd, lt, {}, cmd2)
      PROVE  AnyDevice!Next
  <2>1. cmd[c].op = "read" /\ cmd[c].block = b
    BY SMTT(30), <1>7 DEF PerformsRead, Request, Open
  <2>2. x = view[b]
    <3>1. Apart(cmd) /\ Fresh(cmd, view, lt, {}, B)
      BY DEF Memory, cmd
    <3>2. view[b] = lt[b]
      BY <2>1, <3>1 DEF Apart, Fresh, BeingWritten
    <3> QED BY <1>7, <3>2 DEF PerformsRead
  <2>3. AnyDevice!PerformRead(c, b)
    BY <1>2, <1>3, <1>4, <1>7, <2>2 DEF AnyDevice!PerformRead, PerformsRead, With, cmd, cmd2
  <2> QED BY <2>3 DEF AnyDevice!Next
<1>8. ASSUME NEW c \in Context, NEW b \in B, NEW n \in Data,
             BeginsWrite(c, b, n, cmd, lt, {}, cmd2, lt2, {}) /\ view2 = view
      PROVE  AnyDevice!Next
  <2>1. AnyDevice!SubmitWrite(c, b, n)
    BY <1>1, <1>2, <1>4, <1>8 DEF AnyDevice!SubmitWrite, BeginsWrite, With, cmd, cmd2
  <2> QED BY <2>1 DEF AnyDevice!Next
<1>9. ASSUME NEW c \in Context, NEW b \in B, NEW n \in Data,
             \/ WritesAtOnce(c, b, n, cmd, view, lt, {}, cmd2, view2, lt2, {}, B)
             \/ PerformsWrite(c, b, n, cmd, view, dk, cmd2, view2, dk2)
      PROVE  AnyDevice!Next
  <2>1. view2 \in [B -> Data] /\ view2[b] = n /\ \A x \in B : x # b => view2[x] = view[x]
    BY <1>0, <1>9 DEF WritesAtOnce, PerformsWrite
  <2>2. AllContent' = [AllContent EXCEPT ![b] = n]
    BY <2>1 DEF Content
  <2>3. AnyDevice!SubmitAndWrite(c, b, n) \/ AnyDevice!PerformWrite(c, b, n)
    BY <1>1, <1>2, <1>9, <2>2
       DEF AnyDevice!SubmitAndWrite, AnyDevice!PerformWrite, WritesAtOnce, PerformsWrite,
           With, cmd, cmd2
  <2> QED BY <2>3 DEF AnyDevice!Next
<1>10. ASSUME cmd2 = cmd, Moves(view, dk, {}, view2, dk2, {}, B)
       PROVE  UNCHANGED AnyDevice!vars
  <2>1. view2 = view
    BY SMTT(30), <1>0, <1>10 DEF Moves
  <2> QED BY <1>4, <1>10, <2>1 DEF AnyDevice!vars, cmd, cmd2
<1> QED BY <1>5, <1>6, <1>7, <1>8, <1>9, <1>10 DEF MemStep, cmd, cmd2

\* What a new call would find, from the storage.
LEMMA ContentIsView ==
    ASSUME NEW B, NEW C, CacheOK(C, B), NEW dk \in [B -> Data]
    PROVE  [b \in Block |-> IF is_cached(C, b) THEN get(C, b).data
                            ELSE IF b \in DOMAIN dk THEN dk[b] ELSE 0]
             = Content(View(C, dk, B), B)
<1>1. ASSUME NEW b, is_cached(C, b) PROVE b \in B
  <2>1. PICK i \in DOMAIN C : C[i].id = b
    BY <1>1 DEF is_cached
  <2>2. C[i] \in CacheUnit(B, Data)
    BY Places
  <2> QED BY <2>1, <2>2 DEF CacheUnit
<1>2. DOMAIN dk = B
  OBVIOUS
<1>3. \A b \in B : View(C, dk, B)[b] = IF is_cached(C, b) THEN get(C, b).data ELSE dk[b]
  BY SMTT(30) DEF View
<1>4. ASSUME NEW b \in Block
      PROVE  (IF is_cached(C, b) THEN get(C, b).data ELSE IF b \in DOMAIN dk THEN dk[b] ELSE 0)
               = IF b \in B THEN View(C, dk, B)[b] ELSE 0
  BY <1>1, <1>2, <1>3
<1> QED BY <1>4 DEF Content

\* A step of an accessor that its storage keeps is one of the block device,
\* unless content may be lost.
LEMMA Refined ==
    ASSUME NEW B, B \subseteq Block,
           Storage(cache, capacity, disk, AllCommands, latest, lost, writes, B),
           Keeps(cache, capacity, disk, AllCommands, latest, lost,
                 cache', disk', AllCommands', latest', lost', writes', B),
           kind \in {"dedicated", "shared"} => lost = {} /\ lost' = {}
    PROVE  [Coherent => AnyDevice!Next]_(AnyDevice!vars)
<1>1. /\ CacheOK(cache, B) /\ disk \in [B -> Data] /\ (capacity >= Cardinality(B) => lost = {})
      /\ Memory(AllCommands, View(cache, disk, B), disk, latest, lost, B)
  BY DEF Storage, Memory, MemTyped
<1>2. Storage(cache', capacity, disk', AllCommands', latest', lost', writes', B)
  BY DEF Keeps
<1>3. /\ CacheOK(cache', B) /\ disk' \in [B -> Data] /\ (capacity >= Cardinality(B) => lost' = {})
  BY <1>2 DEF Storage, Memory, MemTyped
<1>4. PICK v, v2 : v = View(cache, disk, B) /\ v2 = View(cache', disk', B)
  OBVIOUS
<1>5. AllContent = Content(v, B)
  BY <1>1, <1>4, ContentIsView DEF AllContent
<1>6. AllContent' = Content(v2, B)
  BY <1>3, <1>4, ContentIsView DEF AllContent
<1>7. MemStep(AllCommands, v, disk, latest, lost, AllCommands', v2, disk', latest', lost', B)
  BY <1>4 DEF Keeps
<1>8. ASSUME Coherent PROVE lost = {} /\ lost' = {}
  <2>1. DOMAIN disk = B
    BY <1>1
  <2> QED BY <1>1, <1>3, <1>8, <2>1 DEF Coherent
<1>9. ASSUME Coherent PROVE [AnyDevice!Next]_(AnyDevice!vars)
  <2>1. /\ Memory(AllCommands, v, disk, latest, {}, B)
        /\ MemStep(AllCommands, v, disk, latest, {}, AllCommands', v2, disk', latest', {}, B)
    BY <1>1, <1>4, <1>7, <1>8, <1>9
  <2> QED BY <1>5, <1>6, <2>1, StepRefines
<1> QED BY <1>9

\* No or one element.
LEMMA AtMostOne ==
    ASSUME NEW S, \A x, y \in S : x = y
    PROVE  /\ S = {} => Cardinality(S) = 0
           /\ S # {} => Cardinality(S) = 1
<1>1. CASE S = {}
  BY <1>1, FS_EmptySet
<1>2. CASE S # {}
  <2>1. PICK x : x \in S
    BY <1>2
  <2>2. S = {x}
    BY <2>1
  <2> QED BY <1>2, <2>2, FS_Singleton
<1> QED BY <1>1, <1>2

\* How often a client is in a queue.
LEMMA QueueCount ==
    ASSUME NEW q \in Seq(Context), Distinct(q), NEW c
    PROVE  /\ IsReady(c, q) => Cardinality({i \in DOMAIN q : q[i] = c}) = 1
           /\ ~IsReady(c, q) => Cardinality({i \in DOMAIN q : q[i] = c}) = 0
<1>1. DOMAIN q = 1..Len(q)
  BY SMTT(30)
<1>2. PICK S : S = {i \in DOMAIN q : q[i] = c}
  OBVIOUS
<1>3. \A x, y \in S : x = y
  BY <1>1, <1>2 DEF Distinct
<1>4. IsReady(c, q) <=> S # {}
  BY <1>1, <1>2 DEF IsReady
<1> QED BY <1>2, <1>3, <1>4, AtMostOne

-----------------------------------------------------------------------------
(* The steps of the accessors that block their callers *)

\* The accessors use the same cache.
LEMMA FileCache ==
    ASSUME NEW C, NEW b
    PROVE  /\ File!is_cached(C, b) = is_cached(C, b) /\ File!get(C, b) = get(C, b)
           /\ File!invalidate(C, b) = invalidate(C, b) /\ File!evict_unit(C) = evict_unit(C)
           /\ \A u : File!Touch(C, u) = Touch(C, u)
           /\ \A k : File!Evicted(C, b, k) = Evicted(C, b, k)
           /\ \A x, d, k : File!write(C, b, x, d, k) = write(C, b, x, d, k)
<1>1. \A x : File!is_cached(C, x) = is_cached(C, x) /\ File!get(C, x) = get(C, x)
  BY DEF File!is_cached, is_cached, File!get, get, File!Position, Position
<1>2. \A x : File!invalidate(C, x) = invalidate(C, x)
  <2>1. \A x : File!Position(C, x) = Position(C, x)
    BY DEF File!Position, Position
  <2>2. \A x : File!RemoveAt(C, x) = RemoveAt(C, x)
    BY DEF File!RemoveAt, RemoveAt
  <2> QED BY <1>1, <2>1, <2>2 DEF File!invalidate, invalidate
<1>3. \A u : File!Touch(C, u) = Touch(C, u)
  BY <1>2 DEF File!Touch, Touch
<1>4. \A k : File!Evicted(C, b, k) = Evicted(C, b, k)
  BY <1>1 DEF File!Evicted, Evicted
<1>5. \A x, d : File!Inserted(C, b, x, d) = Inserted(C, b, x, d)
  BY DEF File!Inserted, Inserted
<1>6. \A x : File!Front(x) = Front(x)
  BY DEF File!Front, Front
<1>7. \A x, d, k : File!write(C, b, x, d, k) = write(C, b, x, d, k)
  BY <1>1, <1>3, <1>4, <1>5, <1>6 DEF File!write, write
<1>8. File!evict_unit(C) = evict_unit(C)
  BY DEF File!evict_unit, evict_unit, File!Last, Last
<1> QED BY <1>1, <1>2, <1>3, <1>4, <1>7, <1>8

LEMMA DedicatedCache ==
    ASSUME NEW C, NEW b
    PROVE  /\ Dedicated!is_cached(C, b) = is_cached(C, b) /\ Dedicated!get(C, b) = get(C, b)
           /\ Dedicated!invalidate(C, b) = invalidate(C, b) /\ Dedicated!evict_unit(C) = evict_unit(C)
           /\ \A u : Dedicated!Touch(C, u) = Touch(C, u)
           /\ \A k : Dedicated!Evicted(C, b, k) = Evicted(C, b, k)
           /\ \A x, d, k : Dedicated!write(C, b, x, d, k) = write(C, b, x, d, k)
<1>1. \A x : Dedicated!is_cached(C, x) = is_cached(C, x) /\ Dedicated!get(C, x) = get(C, x)
  BY DEF Dedicated!is_cached, is_cached, Dedicated!get, get, Dedicated!Position, Position
<1>2. \A x : Dedicated!invalidate(C, x) = invalidate(C, x)
  <2>1. \A x : Dedicated!Position(C, x) = Position(C, x)
    BY DEF Dedicated!Position, Position
  <2>2. \A x : Dedicated!RemoveAt(C, x) = RemoveAt(C, x)
    BY DEF Dedicated!RemoveAt, RemoveAt
  <2> QED BY <1>1, <2>1, <2>2 DEF Dedicated!invalidate, invalidate
<1>3. \A u : Dedicated!Touch(C, u) = Touch(C, u)
  BY <1>2 DEF Dedicated!Touch, Touch
<1>4. \A k : Dedicated!Evicted(C, b, k) = Evicted(C, b, k)
  BY <1>1 DEF Dedicated!Evicted, Evicted
<1>5. \A x, d : Dedicated!Inserted(C, b, x, d) = Inserted(C, b, x, d)
  BY DEF Dedicated!Inserted, Inserted
<1>6. \A x : Dedicated!Front(x) = Front(x)
  BY DEF Dedicated!Front, Front
<1>7. \A x, d, k : Dedicated!write(C, b, x, d, k) = write(C, b, x, d, k)
  BY <1>1, <1>3, <1>4, <1>5, <1>6 DEF Dedicated!write, write
<1>8. Dedicated!evict_unit(C) = evict_unit(C)
  BY DEF Dedicated!evict_unit, evict_unit, Dedicated!Last, Last
<1> QED BY <1>1, <1>2, <1>3, <1>4, <1>7, <1>8

LEMMA SharedCache ==
    ASSUME NEW C, NEW b
    PROVE  /\ Shared!is_cached(C, b) = is_cached(C, b) /\ Shared!get(C, b) = get(C, b)
           /\ Shared!invalidate(C, b) = invalidate(C, b) /\ Shared!evict_unit(C) = evict_unit(C)
           /\ \A u : Shared!Touch(C, u) = Touch(C, u)
           /\ \A k : Shared!Evicted(C, b, k) = Evicted(C, b, k)
           /\ \A x, d, k : Shared!write(C, b, x, d, k) = write(C, b, x, d, k)
<1>1. \A x : Shared!is_cached(C, x) = is_cached(C, x) /\ Shared!get(C, x) = get(C, x)
  BY DEF Shared!is_cached, is_cached, Shared!get, get, Shared!Position, Position
<1>2. \A x : Shared!invalidate(C, x) = invalidate(C, x)
  <2>1. \A x : Shared!Position(C, x) = Position(C, x)
    BY DEF Shared!Position, Position
  <2>2. \A x : Shared!RemoveAt(C, x) = RemoveAt(C, x)
    BY DEF Shared!RemoveAt, RemoveAt
  <2> QED BY <1>1, <2>1, <2>2 DEF Shared!invalidate, invalidate
<1>3. \A u : Shared!Touch(C, u) = Touch(C, u)
  BY <1>2 DEF Shared!Touch, Touch
<1>4. \A k : Shared!Evicted(C, b, k) = Evicted(C, b, k)
  BY <1>1 DEF Shared!Evicted, Evicted
<1>5. \A x, d : Shared!Inserted(C, b, x, d) = Inserted(C, b, x, d)
  BY DEF Shared!Inserted, Inserted
<1>6. \A x : Shared!Front(x) = Front(x)
  BY DEF Shared!Front, Front
<1>7. \A x, d, k : Shared!write(C, b, x, d, k) = write(C, b, x, d, k)
  BY <1>1, <1>3, <1>4, <1>5, <1>6 DEF Shared!write, write
<1>8. Shared!evict_unit(C) = evict_unit(C)
  BY DEF Shared!evict_unit, evict_unit, Shared!Last, Last
<1> QED BY <1>1, <1>2, <1>3, <1>4, <1>7, <1>8

\* The steps of a call of the file accessor.
LEMMA FileGoesOn ==
    ASSUME CachesFit, IsFiniteSet(SyncBlock), FileInv(SyncBlock), NEW t \in Context, File!step(t)
    PROVE  FileKept(SyncBlock)
<1>1. CASE File!pread(t)
  <2>1. PICK b : b = client[t].block
    OBVIOUS
  <2>2. File!InFlight = Flight
    BY DEF File!InFlight, Flight
  <2>3. lost' = lost \cup (IF \E u \in Flight : u.id = b /\ u.data # disk[b] THEN {b} ELSE {})
    BY <1>1, <2>1, <2>2 DEF File!pread, File!Missed
  <2> QED BY <1>1, <2>1, <2>3, FilePread DEF File!pread, File!Update
<1>2. CASE File!fill(t)
  <2>1. PICK b, e, u : b = client[t].block /\ e = Evicted(cache, b, capacity) /\ u = evict_unit(cache)
    OBVIOUS
  <2>2. /\ client[t].pc = "fill"
        /\ cache' = write(cache, b, client[t].buffer, FALSE, capacity)
        /\ client' = [client EXCEPT ![t] =
                        IF e THEN [client[t] EXCEPT !.pc = "pwrite", !.unit = <<u>>]
                        ELSE [client[t] EXCEPT !.pc = "return"]]
        /\ lost' = lost /\ disk' = disk /\ latest' = latest /\ writes' = writes
    <3>1. /\ File!write(cache, b, client[t].buffer, FALSE, capacity)
                 = write(cache, b, client[t].buffer, FALSE, capacity)
          /\ File!Evicted(cache, b, capacity) = e /\ File!evict_unit(cache) = u
      BY <2>1, FileCache
    <3> QED BY <1>2, <2>1, <3>1 DEF File!fill, File!Update
  <2>3. FillsFile(t, b, e, u)
    BY <2>1, <2>2 DEF FillsFile
  <2> QED BY <2>3, FileFill
<1>3. CASE File!pwrite(t)
  <2>1. PICK u : u = client[t].unit[1]
    OBVIOUS
  <2> QED BY <1>3, <2>1, FilePwrite DEF File!pwrite, File!Update, File!Overwritten
<1>4. CASE File!returns(t) /\ UNCHANGED lost
  BY <1>4, FileReturns DEF File!returns, File!Update, File!Idle, File!Call, Rest, CallOf
<1> QED BY <1>1, <1>2, <1>3, <1>4 DEF File!step

\* A call of the file accessor begins.
LEMMA FileBegins ==
    ASSUME CachesFit, IsFiniteSet(SyncBlock), FileInv(SyncBlock), NEW t \in Context,
           NEW b \in SyncBlock, File!read(t, b) \/ File!write_block(t, b)
    PROVE  FileKept(SyncBlock)
<1>1. CASE File!read_hit(t, b) /\ UNCHANGED lost
  <2>1. client[t] = Rest /\ Nobody(b, "write")
    BY <1>1 DEF File!read_hit, File!MayRead, File!Busy, File!Idle, File!Call, Rest, CallOf, Nobody
  <2>2. /\ is_cached(cache, b) /\ cache' = Touch(cache, get(cache, b))
        /\ client' = [client EXCEPT ![t] = CallOf("read", b, get(cache, b).data, "return", TRUE)]
        /\ disk' = disk /\ latest' = latest /\ lost' = lost /\ writes' = writes
    <3>1. File!is_cached(cache, b) = is_cached(cache, b) /\ File!get(cache, b) = get(cache, b)
      BY FileCache
    <3>2. File!Touch(cache, get(cache, b)) = Touch(cache, get(cache, b))
      BY FileCache
    <3> QED BY <1>1, <3>1, <3>2 DEF File!read_hit, File!Update, File!Call, CallOf
  <2> QED BY <2>1, <2>2, FileHit
<1>2. CASE File!read_miss(t, b) /\ UNCHANGED lost
  <2>1. client[t] = Rest /\ Nobody(b, "write")
    BY <1>2 DEF File!read_miss, File!MayRead, File!Busy, File!Idle, File!Call, Rest, CallOf, Nobody
  <2>2. /\ ~is_cached(cache, b)
        /\ client' = [client EXCEPT ![t] = CallOf("read", b, 0, "read", FALSE)]
        /\ cache' = cache /\ disk' = disk /\ latest' = latest /\ lost' = lost /\ writes' = writes
    <3>1. File!is_cached(cache, b) = is_cached(cache, b)
      BY FileCache
    <3> QED BY <1>2, <3>1 DEF File!read_miss, File!Update, File!Call, CallOf
  <2> QED BY <2>1, <2>2, FileMiss
<1>3. CASE File!write_block(t, b)
  <2>1. PICK e, u, m, r0 :
           /\ e = Evicted(cache, b, capacity) /\ u = evict_unit(cache) /\ m = writes + 1
           /\ r0 = CallOf("write", b, m, "return", TRUE)
    OBVIOUS
  <2>2. /\ File!write(cache, b, m, TRUE, capacity) = write(cache, b, m, TRUE, capacity)
        /\ File!Evicted(cache, b, capacity) = e /\ File!evict_unit(cache) = u
    BY <2>1, FileCache
  <2>3. File!NewData = m /\ File!Call("write", b, m, "return", TRUE) = r0
    BY <2>1 DEF File!NewData, File!Call, CallOf
  <2>4. PICK r : r = IF e /\ u.dirty THEN [r0 EXCEPT !.pc = "pwrite", !.unit = <<u>>] ELSE r0
    OBVIOUS
  <2>5. r.block = b
    BY <2>1, <2>4 DEF CallOf
  <2>6. /\ File!BeginWrite(t, r)
        /\ cache' = write(cache, b, m, TRUE, capacity)
        /\ lost' = (lost \ {b})
                     \cup (IF e /\ ~u.dirty
                           THEN (IF u.data # disk[u.id] THEN {u.id} ELSE {}) ELSE {})
        /\ disk' = disk
    BY <1>3, <2>2, <2>3, <2>4 DEF File!write_block, File!Dropped
  <2>7. /\ client[t] = File!Idle /\ File!Busy(b, "write") = {} /\ File!Busy(b, "read") = {}
        /\ writes < MaxWrites /\ writes' = m /\ latest' = [latest EXCEPT ![b] = m]
        /\ client' = [client EXCEPT ![t] = r]
    BY <2>3, <2>5, <2>6 DEF File!BeginWrite
  <2>8. client[t] = Rest /\ Nobody(b, "write") /\ Nobody(b, "read")
    BY <2>7 DEF File!Busy, File!Idle, File!Call, Rest, CallOf, Nobody
  <2>9. m \in Data
    BY <2>1, <2>7, FileParts, NextWrite
  <2>10. WritesFile(t, b, m, e, u, r0)
    BY <2>1, <2>4, <2>6, <2>7, <2>8 DEF WritesFile
  <2> QED BY <2>9, <2>10, FileWrite
<1> QED BY <1>1, <1>2, <1>3 DEF File!read

\* The steps of a call of the dedicated accessor.
LEMMA DedicatedGoesOn ==
    ASSUME CachesFit, IsFiniteSet(SyncBlock), DedicatedInv(pair, qpair, QPair, SyncBlock),
           "free" \notin Context, NEW t \in Context, Dedicated!step(t), lost' = lost
    PROVE  DedicatedKept(pair, qpair', QPair, SyncBlock) /\ pair' = pair
<1> USE DEF Dedicated!Update
<1>1. CASE Dedicated!submit(t)
  <2>1. /\ client[t].pc \in {"read", "write"} /\ qpair[pair[t]].lock = "free"
        /\ qpair' = [qpair EXCEPT ![pair[t]] = [lock |-> t, free_slots |-> @.free_slots - 1]]
        /\ client' = [client EXCEPT ![t] = [client[t] EXCEPT !.pc = "device"]] /\ pair' = pair
        /\ cache' = cache /\ disk' = disk /\ latest' = latest /\ writes' = writes
    BY <1>1 DEF Dedicated!submit, Dedicated!FREE
  <2> QED BY <2>1, DedicatedSubmit
<1>2. CASE Dedicated!device_executes(t)
  <2>1. PICK b : b = client[t].block
    OBVIOUS
  <2>2. /\ client[t].pc = "device" /\ ~client[t].done /\ pair' = pair /\ qpair' = qpair
        /\ \/ /\ client[t].op = "read" /\ disk' = disk
              /\ client' = [client EXCEPT ![t] = [client[t] EXCEPT !.done = TRUE, !.buffer = disk[b]]]
           \/ /\ client[t].op # "read" /\ disk' = [disk EXCEPT ![b] = client[t].buffer]
              /\ client' = [client EXCEPT ![t] = [client[t] EXCEPT !.done = TRUE]]
        /\ cache' = cache /\ latest' = latest /\ writes' = writes
    BY <1>2, <2>1 DEF Dedicated!device_executes
  <2> QED BY <2>1, <2>2, DedicatedDevice
<1>3. CASE Dedicated!cb_function(t)
  <2>1. /\ client[t].pc = "device" /\ client[t].done
        /\ qpair' = [qpair EXCEPT ![pair[t]].free_slots = @ + 1] /\ pair' = pair
        /\ client' = [client EXCEPT ![t] = [client[t] EXCEPT !.pc = "complete"]]
        /\ cache' = cache /\ disk' = disk /\ latest' = latest /\ writes' = writes
    BY <1>3 DEF Dedicated!cb_function
  <2> QED BY <2>1, DedicatedCallback
<1>4. CASE Dedicated!leave(t)
  <2>1. PICK p : p = IF client[t].op = "read" THEN "fill" ELSE "return"
    OBVIOUS
  <2>2. /\ client[t].pc \in {"device", "complete"}
        /\ IF client[t].op = "write" THEN client[t].pc = "complete" ELSE qpair[pair[t]].free_slots # 0
        /\ qpair' = [qpair EXCEPT ![pair[t]].lock = "free"] /\ pair' = pair
        /\ client' = [client EXCEPT ![t] = [client[t] EXCEPT !.pc = p]]
        /\ cache' = cache /\ disk' = disk /\ latest' = latest /\ writes' = writes
    BY <1>4, <2>1 DEF Dedicated!leave, Dedicated!Completed, Dedicated!FREE
  <2> QED BY <2>1, <2>2, DedicatedLeave
<1>5. CASE Dedicated!fill(t)
  <2>1. Dedicated!write(cache, client[t].block, client[t].buffer, FALSE, capacity)
          = write(cache, client[t].block, client[t].buffer, FALSE, capacity)
    BY DedicatedCache
  <2>2. /\ client[t].pc = "fill" /\ pair' = pair /\ qpair' = qpair
        /\ cache' = write(cache, client[t].block, client[t].buffer, FALSE, capacity)
        /\ client' = [client EXCEPT ![t] = [client[t] EXCEPT !.pc = "return"]]
        /\ disk' = disk /\ latest' = latest /\ writes' = writes
    BY <1>5, <2>1 DEF Dedicated!fill
  <2> QED BY <2>2, DedicatedFill
<1>6. CASE Dedicated!returns(t) /\ UNCHANGED <<pair, qpair>>
  <2>1. /\ client[t].pc = "return" /\ client' = [client EXCEPT ![t] = Rest]
        /\ pair' = pair /\ qpair' = qpair
        /\ cache' = cache /\ disk' = disk /\ latest' = latest /\ writes' = writes
    BY <1>6 DEF Dedicated!returns, Dedicated!Idle, Dedicated!Call, Rest, CallOf
  <2> QED BY <2>1, DedicatedReturns
<1> QED BY <1>1, <1>2, <1>3, <1>4, <1>5, <1>6 DEF Dedicated!step

\* A call of the dedicated accessor begins.
LEMMA DedicatedBegins ==
    ASSUME DedicatedInv(pair, qpair, QPair, SyncBlock), NEW t \in Context, NEW b \in SyncBlock,
           Dedicated!read(t, b) \/ Dedicated!write_block(t, b), lost' = lost
    PROVE  DedicatedKept(pair, qpair', QPair, SyncBlock) /\ pair' = pair
<1>0. pair' = pair /\ qpair' = qpair
  BY DEF Dedicated!read, Dedicated!write_block
<1>1. CASE Dedicated!read_hit(t, b)
  <2>1. client[t] = Rest /\ Nobody(b, "write")
    BY <1>1 DEF Dedicated!read_hit, Dedicated!MayRead, Dedicated!Busy, Dedicated!Idle,
                Dedicated!Call, Rest, CallOf, Nobody
  <2>2. /\ Dedicated!is_cached(cache, b) = is_cached(cache, b)
        /\ Dedicated!get(cache, b) = get(cache, b)
        /\ Dedicated!Touch(cache, get(cache, b)) = Touch(cache, get(cache, b))
    BY DedicatedCache
  <2>3. /\ is_cached(cache, b) /\ cache' = Touch(cache, get(cache, b))
        /\ client' = [client EXCEPT ![t] = CallOf("read", b, get(cache, b).data, "return", TRUE)]
        /\ disk' = disk /\ latest' = latest /\ writes' = writes
    BY <1>1, <2>2 DEF Dedicated!read_hit, Dedicated!Update, Dedicated!Call, CallOf
  <2> QED BY <1>0, <2>1, <2>3, DedicatedHit
<1>2. CASE Dedicated!read_miss(t, b)
  <2>1. client[t] = Rest /\ Nobody(b, "write")
    BY <1>2 DEF Dedicated!read_miss, Dedicated!MayRead, Dedicated!Busy, Dedicated!Idle,
                Dedicated!Call, Rest, CallOf, Nobody
  <2>2. Dedicated!is_cached(cache, b) = is_cached(cache, b)
    BY DedicatedCache
  <2>3. /\ ~is_cached(cache, b)
        /\ client' = [client EXCEPT ![t] = CallOf("read", b, 0, "read", FALSE)]
        /\ cache' = cache /\ disk' = disk /\ latest' = latest /\ writes' = writes
    BY <1>2, <2>2 DEF Dedicated!read_miss, Dedicated!Update, Dedicated!Call, CallOf
  <2> QED BY <1>0, <2>1, <2>3, DedicatedMiss
<1>3. CASE Dedicated!write_block(t, b)
  <2>1. PICK m, r : m = writes + 1 /\ r = CallOf("write", b, m, "write", FALSE)
    OBVIOUS
  <2>2. Dedicated!NewData = m /\ Dedicated!Call("write", b, m, "write", FALSE) = r /\ r.block = b
    BY <2>1 DEF Dedicated!NewData, Dedicated!Call, CallOf
  <2>3. Dedicated!invalidate(cache, b) = invalidate(cache, b)
    BY DedicatedCache
  <2>4. Dedicated!BeginWrite(t, r) /\ cache' = invalidate(cache, b) /\ disk' = disk
    BY <1>3, <2>2, <2>3 DEF Dedicated!write_block
  <2>5. /\ client[t] = Dedicated!Idle /\ Dedicated!Busy(b, "write") = {}
        /\ Dedicated!Busy(b, "read") = {} /\ writes < MaxWrites
        /\ writes' = m /\ latest' = [latest EXCEPT ![b] = m] /\ client' = [client EXCEPT ![t] = r]
    BY <2>2, <2>4 DEF Dedicated!BeginWrite
  <2>6. client[t] = Rest /\ Nobody(b, "write") /\ Nobody(b, "read")
    BY <2>5 DEF Dedicated!Busy, Dedicated!Idle, Dedicated!Call, Rest, CallOf, Nobody
  <2>7. m \in Data
    BY <2>1, <2>5, StorageParts, NextWrite DEF DedicatedInv, CallsInv
  <2> QED BY <1>0, <2>1, <2>4, <2>5, <2>6, <2>7, DedicatedWrite
<1> QED BY <1>1, <1>2, <1>3 DEF Dedicated!read

\* pending_requests_ counts the requests on the device.
Counted(cmds, n) == IsFiniteSet(cmds) /\ n = Cardinality(cmds) /\ n <= QueueLength

LEMMA OneMore ==
    ASSUME NEW cmds, NEW n, Counted(cmds, n), NEW c, c \notin cmds, QueueLength - n > 0,
           QueueLength \in Nat, NEW cmds2, cmds2 = cmds \cup {c}, NEW n2, n2 = n + 1
    PROVE  Counted(cmds2, n2)
<1>1. IsFiniteSet(cmds2) /\ Cardinality(cmds2) = Cardinality(cmds) + 1 /\ Cardinality(cmds) \in Nat
  BY FS_AddElement, FS_CardinalityType DEF Counted
<1> QED BY SMTT(30), <1>1 DEF Counted

LEMMA OneLess ==
    ASSUME NEW cmds, NEW n, Counted(cmds, n), NEW c, c \in cmds,
           QueueLength \in Nat, NEW cmds2, cmds2 = cmds \ {c}, NEW n2, n2 = n - 1
    PROVE  Counted(cmds2, n2)
<1>1. IsFiniteSet(cmds2) /\ Cardinality(cmds2) = Cardinality(cmds) - 1 /\ Cardinality(cmds) \in Nat
  BY FS_RemoveElement, FS_CardinalityType DEF Counted
<1> QED BY SMTT(30), <1>1 DEF Counted

\* A call of the shared accessor begins.
LEMMA SharedBegins ==
    ASSUME SharedInv(queue, SyncBlock), NEW t \in Context, NEW b \in SyncBlock,
           Shared!read(t, b) \/ Shared!write_block(t, b), lost' = lost
    PROVE  SharedKept(queue', SyncBlock) /\ io' = io /\ pending' = pending
<1>0. /\ io' = io /\ pending' = pending /\ queue' = Append(queue, t)
      /\ cache' = cache /\ disk' = disk
  BY DEF Shared!read, Shared!write_block, Shared!enqueue_io_request
<1>1. CASE Shared!read(t, b)
  <2>1. client[t] = Rest /\ Nobody(b, "write")
    BY <1>1 DEF Shared!read, Shared!MayRead, Shared!Busy, Shared!Idle, Shared!Call, Rest, CallOf,
                Nobody
  <2>2. /\ client' = [client EXCEPT ![t] = CallOf("read", b, 0, "wait", FALSE)]
        /\ latest' = latest /\ writes' = writes
    BY <1>1 DEF Shared!read, Shared!Update, Shared!Call, CallOf
  <2> QED BY <1>0, <2>1, <2>2, SharedRead
<1>2. CASE Shared!write_block(t, b)
  <2>1. PICK m, r : m = writes + 1 /\ r = CallOf("write", b, m, "wait", FALSE)
    OBVIOUS
  <2>2. Shared!NewData = m /\ Shared!Call("write", b, m, "wait", FALSE) = r /\ r.block = b
    BY <2>1 DEF Shared!NewData, Shared!Call, CallOf
  <2>3. Shared!BeginWrite(t, r)
    BY <1>2, <2>2 DEF Shared!write_block
  <2>4. /\ client[t] = Shared!Idle /\ Shared!Busy(b, "write") = {} /\ Shared!Busy(b, "read") = {}
        /\ writes < MaxWrites
        /\ writes' = m /\ latest' = [latest EXCEPT ![b] = m] /\ client' = [client EXCEPT ![t] = r]
    BY <2>2, <2>3 DEF Shared!BeginWrite
  <2>5. client[t] = Rest /\ Nobody(b, "write") /\ Nobody(b, "read")
    BY <2>4 DEF Shared!Busy, Shared!Idle, Shared!Call, Rest, CallOf, Nobody
  <2>6. m \in Data
    BY <2>1, <2>4, StorageParts, NextWrite DEF SharedInv, CallsInv
  <2> QED BY <1>0, <2>1, <2>4, <2>5, <2>6, SharedWrite
<1> QED BY <1>1, <1>2

\* The device and semaphore.wait().
LEMMA SharedGoesOn ==
    ASSUME SharedInv(queue, SyncBlock), NEW t \in Context,
           Shared!wait(t) \/ Shared!device_executes(t), lost' = lost
    PROVE  SharedKept(queue', SyncBlock) /\ io' = io /\ pending' = pending
<1>0. io' = io /\ pending' = pending /\ queue' = queue
  BY DEF Shared!wait, Shared!device_executes
<1>1. CASE Shared!wait(t)
  <2>1. /\ client[t].pc = "return" /\ client' = [client EXCEPT ![t] = Rest]
        /\ cache' = cache /\ disk' = disk /\ latest' = latest /\ writes' = writes
    BY <1>1 DEF Shared!wait, Shared!returns, Shared!Update, Shared!Idle, Shared!Call, Rest, CallOf
  <2> QED BY <1>0, <2>1, SharedReturns
<1>2. CASE Shared!device_executes(t)
  <2>1. PICK b : b = client[t].block
    OBVIOUS
  <2>2. /\ t \in io /\ ~client[t].done
        /\ \/ /\ client[t].op = "read" /\ disk' = disk
              /\ client' = [client EXCEPT ![t] = [client[t] EXCEPT !.done = TRUE, !.buffer = disk[b]]]
           \/ /\ client[t].op # "read" /\ disk' = [disk EXCEPT ![b] = client[t].buffer]
              /\ client' = [client EXCEPT ![t] = [client[t] EXCEPT !.done = TRUE]]
        /\ cache' = cache /\ latest' = latest /\ writes' = writes
    BY <1>2, <2>1 DEF Shared!device_executes, Shared!Update
  <2> QED BY <1>0, <2>1, <2>2, SharedDevice
<1> QED BY <1>1, <1>2

\* working_thread takes a request, or handles a completion.
LEMMA SharedWorks ==
    ASSUME CachesFit, IsFiniteSet(SyncBlock), QueueLength \in Nat,
           SharedInv(queue, SyncBlock), Counted(io, pending), lost' = lost,
           Shared!dequeue_hit \/ Shared!dequeue_submit
             \/ \E t \in Context : Shared!callback_function(t)
    PROVE  SharedKept(queue', SyncBlock) /\ Counted(io', pending')
<1>1. CASE Shared!dequeue_hit
  <2>1. PICK t, b : t = Head(queue) /\ b = client[t].block
    OBVIOUS
  <2>2. /\ Shared!is_cached(cache, b) = is_cached(cache, b)
        /\ Shared!get(cache, b) = get(cache, b)
        /\ Shared!Touch(cache, get(cache, b)) = Touch(cache, get(cache, b))
    BY SharedCache
  <2>3. /\ queue # <<>> /\ client[t].op = "read" /\ is_cached(cache, b)
        /\ queue' = Tail(queue) /\ cache' = Touch(cache, get(cache, b)) /\ io' = io
        /\ client' = [client EXCEPT ![t] = [client[t] EXCEPT !.buffer = get(cache, b).data,
                                                             !.done = TRUE, !.pc = "return"]]
        /\ disk' = disk /\ latest' = latest /\ writes' = writes /\ pending' = pending
    BY <1>1, <2>1, <2>2 DEF Shared!dequeue_hit, Shared!CanDequeue, Shared!Update
  <2> QED BY <2>1, <2>3, SharedHit
<1>2. CASE Shared!dequeue_submit
  <2>1. PICK t, b : t = Head(queue) /\ b = client[t].block
    OBVIOUS
  <2>2. Shared!invalidate(cache, b) = invalidate(cache, b)
    BY SharedCache
  <2>3. /\ queue # <<>> /\ QueueLength - pending > 0 /\ queue' = Tail(queue)
        /\ cache' = IF client[t].op = "write" THEN invalidate(cache, b) ELSE cache
        /\ io' = io \cup {t} /\ client' = client
        /\ disk' = disk /\ latest' = latest /\ writes' = writes /\ pending' = pending + 1
    BY <1>2, <2>1, <2>2 DEF Shared!dequeue_submit, Shared!CanDequeue
  <2>4. SharedKept(queue', SyncBlock)
    BY <2>1, <2>3, SharedSubmit
  <2>5. Dequeued(t, queue, queue')
    BY <2>1, <2>3, SharedDequeue
  <2>6. t \notin io
    BY <2>5 DEF Dequeued
  <2>7. Counted(io', pending')
    BY <2>3, <2>6, OneMore
  <2> QED BY <2>4, <2>7
<1>3. ASSUME NEW t \in Context, Shared!callback_function(t)
      PROVE  SharedKept(queue', SyncBlock) /\ Counted(io', pending')
  <2>1. Shared!write(cache, client[t].block, client[t].buffer, FALSE, capacity)
          = write(cache, client[t].block, client[t].buffer, FALSE, capacity)
    BY SharedCache
  <2>2. /\ t \in io /\ client[t].done
        /\ cache' = write(cache, client[t].block, client[t].buffer, FALSE, capacity)
        /\ io' = io \ {t} /\ client' = [client EXCEPT ![t] = [client[t] EXCEPT !.pc = "return"]]
        /\ disk' = disk /\ latest' = latest /\ writes' = writes /\ queue' = queue
        /\ pending' = pending - 1
    BY <1>3, <2>1 DEF Shared!callback_function, Shared!Update
  <2>3. SharedKept(queue', SyncBlock)
    BY <2>2, SharedCallback
  <2>4. Counted(io', pending')
    BY <2>2, OneLess
  <2> QED BY <2>3, <2>4
<1> QED BY <1>1, <1>2, <1>3

=============================================================================
