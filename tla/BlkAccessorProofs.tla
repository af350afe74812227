-------------------------- MODULE BlkAccessorProofs --------------------------
(***************************************************************************)
(* The accessors are block devices: what MCBlkAccessors checks on small    *)
(* instances, for every number of clients, blocks, queue pairs and writes  *)
(* and for every capacity.                                                 *)
(***************************************************************************)
EXTENDS BlkAccessorActions

\* Steps that name no prover are left to Zenon; SMTT marks what needs the SMT solver.
USE ZenonT(60)

-----------------------------------------------------------------------------
(* The inductive invariant *)

AccessorInv ==
    \/ kind = "nvme" /\ NvmeInv
    \/ kind = "file" /\ FileInv(SyncBlock)
    \/ kind = "dedicated" /\ DedicatedInv(pair, qpair, QPair, SyncBlock)
    \/ kind = "shared" /\ SharedInv(queue, SyncBlock) /\ Counted(io, pending)

\* The first state of the calls.
LEMMA FirstCalls ==
    ASSUME capacity \in SyncCapacities, cache = <<>>, lost = {}, writes = 0,
           disk = [b \in SyncBlock |-> 0], latest = [b \in SyncBlock |-> 0],
           client = [c \in Context |-> Rest]
    PROVE  /\ CallsInv(SyncBlock) /\ SavedState(cache, disk, lost, SyncBlock)
           /\ \A S : DroppedBy(client, cache, S) /\ \A c \in Context : client[c] = Rest
<1>1. capacity \in Nat \ {0}
  BY AccessorsAssumption
<1>2. SeenCalls(client) = [c \in Context |-> [op |-> "none"]]
  BY DEF SeenCalls, SeenCall, Rest, CallOf
<1>3. /\ Storage(cache, capacity, disk, SeenCalls(client), latest, lost, writes, SyncBlock)
      /\ Clean(cache) /\ \A x : ~is_cached(cache, x)
  BY <1>1, <1>2, FirstStorage
<1>4. CallOK(Rest, SyncBlock)
  BY RestOK
<1>5. \A c \in Context : client[c] = Rest
  OBVIOUS
<1>6. CallsTyped(client, SyncBlock)
  BY <1>4 DEF CallsTyped, CallOK
<1> QED BY <1>3, <1>5, <1>6 DEF CallsInv, SavedState, Saved, DroppedBy

\* Every accessor begins in its invariant.
LEMMA AccessorInit ==
    ASSUME MCInit
    PROVE  AccessorInv
<1>1. CASE kind = "nvme" /\ Init
  <2>1. capacity \in Nat \ {0}
    BY <1>1, CapacitiesArePositive DEF Init
  <2>2. Commands = [c \in Context |-> [op |-> "none"]]
    BY <1>1 DEF Init, Commands, Idle
  <2>3. /\ Storage(cache, capacity, disk, Commands, latest, lost, writes, Block) /\ Clean(cache)
        /\ (\A x : ~is_cached(cache, x)) /\ 0 \in Data
    BY <1>1, <2>1, <2>2, FirstStorage DEF Init
  <2>4. \A c \in Context : client[c] = Idle /\ client[c].op = "none"
    BY <1>1 DEF Init, Idle
  <2>5. ready \in Seq(Context) /\ Len(ready) = 0
    BY SMTT(30), <1>1 DEF Init
  <2>6. 1..Len(ready) = {}
    BY SMTT(30), <2>5
  <2>7. NvmeTyped(client, io, ready, refused)
    BY <1>1, <2>3, <2>5 DEF Init, NvmeTyped, Idle
  <2>8. \A c : ~IsReady(c, ready)
    BY <2>6 DEF IsReady
  <2>9. OnePlace(client, io, ready, refused)
    BY <1>1, <2>4, <2>6, <2>8 DEF Init, OnePlace, Distinct
  <2>10. NotCached(Commands, cache)
    BY <2>3 DEF NotCached
  <2> QED BY <1>1, <2>3, <2>7, <2>9, <2>10 DEF AccessorInv, NvmeInv, Placed
<1>2. CASE kind = "file" /\ File!Init
  <2>1. /\ capacity \in SyncCapacities /\ cache = <<>> /\ lost = {} /\ writes = 0
        /\ disk = [b \in SyncBlock |-> 0] /\ latest = [b \in SyncBlock |-> 0]
        /\ client = [c \in Context |-> Rest]
    BY <1>2 DEF File!Init, File!InitClients, File!Idle, File!Call, Rest, CallOf
  <2>2. CallsInv(SyncBlock) /\ \A c \in Context : client[c] = Rest
    BY <2>1, FirstCalls
  <2>3. FileCall(Rest, SyncBlock) /\ Rest.unit = <<>> /\ Rest.op # "read"
    BY RestOK DEF FileCall
  <2>4. /\ CacheOK(cache, SyncBlock) /\ capacity \in Nat \ {0} /\ Len(cache) <= capacity
        /\ disk \in [SyncBlock -> Data] /\ latest \in [SyncBlock -> Data] /\ writes \in Data
        /\ lost \subseteq SyncBlock /\ CallsTyped(client, SyncBlock)
    BY <2>2, StorageParts DEF CallsInv
  <2>5. \A b : ~is_cached(cache, b)
    BY SMTT(30), <2>1 DEF is_cached
  <2>6. ASSUME NEW b \in SyncBlock PROVE BlockKept(b, cache, disk, client, latest)
    BY <2>1, <2>2, <2>3, <2>5 DEF BlockKept, Fetched
  <2> QED BY <1>2, <2>2, <2>3, <2>4, <2>6 DEF AccessorInv, FileInv, FileState
<1>3. CASE kind = "dedicated" /\ Dedicated!Init /\ NoLost
  <2>1. /\ capacity \in SyncCapacities /\ cache = <<>> /\ lost = {} /\ writes = 0
        /\ disk = [b \in SyncBlock |-> 0] /\ latest = [b \in SyncBlock |-> 0]
        /\ client = [c \in Context |-> Rest]
    BY <1>3 DEF Dedicated!Init, Dedicated!InitClients, Dedicated!Idle, Dedicated!Call, Rest, CallOf,
                NoLost
  <2>2. /\ CallsInv(SyncBlock) /\ SavedState(cache, disk, lost, SyncBlock)
        /\ DroppedBy(client, cache, Context) /\ \A c \in Context : client[c] = Rest
    BY <2>1, FirstCalls
  <2>3. pair \in [Context -> QPair] /\ qpair = [q \in QPair |-> [lock |-> "free", free_slots |-> 1]]
    BY <1>3 DEF Dedicated!Init, Dedicated!FREE
  <2>4. PairsTyped(pair, qpair, QPair) /\ \A q \in QPair : qpair[q].free_slots = 1
    BY <2>3 DEF PairsTyped
  <2>5. \A c \in Context : DedicatedCall(client[c], c, pair, qpair)
    BY <2>2, RestOK DEF DedicatedCall
  <2>6. Slots(client, pair, qpair, QPair)
    BY <2>2, <2>4, RestOK DEF Slots
  <2> QED BY <1>3, <2>2, <2>4, <2>5, <2>6 DEF AccessorInv, DedicatedInv, DedicatedCalls
<1>4. CASE kind = "shared" /\ Shared!Init /\ NoLost
  <2>1. /\ capacity \in SyncCapacities /\ cache = <<>> /\ lost = {} /\ writes = 0
        /\ disk = [b \in SyncBlock |-> 0] /\ latest = [b \in SyncBlock |-> 0]
        /\ client = [c \in Context |-> Rest]
    BY <1>4 DEF Shared!Init, Shared!InitClients, Shared!Idle, Shared!Call, Rest, CallOf, NoLost
  <2>2. /\ CallsInv(SyncBlock) /\ SavedState(cache, disk, lost, SyncBlock)
        /\ DroppedBy(client, cache, io) /\ \A c \in Context : client[c] = Rest
    BY <2>1, FirstCalls
  <2>3. queue = <<>> /\ io = {} /\ pending = 0
    BY <1>4 DEF Shared!Init
  <2>4. queue \in Seq(Context) /\ 1..Len(queue) = {}
    BY SMTT(30), <2>3
  <2>5. QueueTyped(queue, io) /\ \A c : ~IsReady(c, queue)
    BY <2>3, <2>4 DEF QueueTyped, Distinct, IsReady
  <2>6. \A c \in Context : SharedCall(client[c], c, queue, io)
    BY <2>2, <2>3, <2>5, RestOK DEF SharedCall
  <2>7. IsFiniteSet(io) /\ Cardinality(io) = 0
    BY <2>3, FS_EmptySet
  <2>8. Counted(io, pending)
    BY SMTT(30), <2>3, <2>7, AccessorsAssumption DEF Counted
  <2> QED BY <1>4, <2>2, <2>5, <2>6, <2>8 DEF AccessorInv, SharedInv, SharedCalls
<1> QED BY <1>1, <1>2, <1>3, <1>4 DEF MCInit

\* The commands of the accessors that block their callers.
LEMMA CommandsAreCalls ==
    ASSUME kind # "nvme", kind' = kind
    PROVE  AllCommands = SeenCalls(client) /\ AllCommands' = SeenCalls(client')
<1>1. AllCommands = SeenCalls(client)
  BY DEF AllCommands, SeenCalls, SeenCall, Request
<1>2. AllCommands' = SeenCalls(client')
  BY DEF AllCommands, SeenCalls, SeenCall, Request
<1> QED BY <1>1, <1>2

DeviceStep == [Coherent => AnyDevice!Next]_(AnyDevice!vars)

LEMMA SyncRefines ==
    ASSUME kind # "nvme", kind' = kind, CallsInv(SyncBlock), CallsKept(SyncBlock),
           kind \in {"dedicated", "shared"} => lost = {} /\ lost' = {}
    PROVE  DeviceStep
<1>1. AllCommands = SeenCalls(client) /\ AllCommands' = SeenCalls(client')
  BY CommandsAreCalls
<1>2. SyncBlock \subseteq Block
  BY AccessorsAssumption
<1>3. /\ Storage(cache, capacity, disk, AllCommands, latest, lost, writes, SyncBlock)
      /\ Keeps(cache, capacity, disk, AllCommands, latest, lost,
               cache', disk', AllCommands', latest', lost', writes', SyncBlock)
  BY <1>1 DEF CallsInv, CallsKept
<1> QED BY <1>2, <1>3, Refined DEF DeviceStep

LEMMA NvmeRefines ==
    ASSUME kind = "nvme", kind' = kind, NvmeInv, NvmeKept
    PROVE  DeviceStep
<1>1. AllCommands = Commands /\ AllCommands' = Commands'
  BY DEF AllCommands
<1>2. /\ Storage(cache, capacity, disk, AllCommands, latest, lost, writes, Block)
      /\ Keeps(cache, capacity, disk, AllCommands, latest, lost,
               cache', disk', AllCommands', latest', lost', writes', Block)
  BY <1>1 DEF NvmeInv, NvmeKept, StepKept
<1> QED BY <1>2, Refined DEF DeviceStep

\* The sets of blocks are finite.
LEMMA FiniteBlocks == IsFiniteSet(Block) /\ IsFiniteSet(SyncBlock)
BY AccessorsAssumption, FS_Subset

\* Every step of an accessor keeps its invariant, and is one of the block device
\* or leaves it alone.
LEMMA AccessorStep ==
    ASSUME AccessorInv, MCNext
    PROVE  AccessorInv' /\ DeviceStep
<1>0. CachesFit /\ IsFiniteSet(Block) /\ IsFiniteSet(SyncBlock)
  BY AllCachesFit, FiniteBlocks
<1>1. CASE NvmeNext
  <2>1. kind = "nvme" /\ kind' = kind /\ Next
    BY <1>1 DEF NvmeNext
  <2>2. NvmeInv
    BY <2>1 DEF AccessorInv
  <2>3. NvmeKept /\ NvmeInv'
    BY <1>0, <2>1, <2>2, NvmeStep
  <2>4. DeviceStep
    BY <2>1, <2>2, <2>3, NvmeRefines
  <2> QED BY <2>1, <2>3, <2>4 DEF AccessorInv
<1>2. CASE FileNext
  <2>1. kind = "file" /\ kind' = kind /\ File!Next
    BY <1>2 DEF FileNext
  <2>2. FileInv(SyncBlock)
    BY <2>1 DEF AccessorInv
  <2>3. FileKept(SyncBlock)
    BY <1>0, <2>1, <2>2, FileGoesOn, FileBegins DEF File!Next
  <2>4. capacity' = capacity
    BY <2>1 DEF File!Next, File!step, File!pread, File!fill, File!pwrite, File!returns, File!read,
                File!read_hit, File!read_miss, File!write_block
  <2>5. FileInv(SyncBlock)'
    <3>1. capacity \in Nat \ {0}
      BY <2>2 DEF FileInv
    <3>2. FileState(cache, disk, client, latest, lost, writes, SyncBlock)'
      BY <2>3, <2>4 DEF FileKept, FileState
    <3>3. Fits(SyncBlock) => CallsInv(SyncBlock)' /\ \A c \in Context : client'[c].unit = <<>>
      BY <2>3, <2>4 DEF FileKept, CallsInv, CallsKept, Keeps
    <3> QED BY <2>4, <3>1, <3>2, <3>3 DEF FileInv, Fits
  <2>6. DeviceStep
    <3>1. CASE Fits(SyncBlock)
      BY <2>1, <2>2, <2>3, <3>1, SyncRefines DEF FileInv, FileKept
    <3>2. CASE ~Fits(SyncBlock)
      <4>1. DOMAIN disk = SyncBlock
        BY <2>2, FileParts
      <4>2. ~Coherent
        BY <2>1, <3>2, <4>1 DEF Coherent, Fits
      <4> QED BY <4>2 DEF DeviceStep
    <3> QED BY <3>1, <3>2
  <2> QED BY <2>1, <2>5, <2>6 DEF AccessorInv
<1>3. CASE DedicatedNext
  <2>1. kind = "dedicated" /\ kind' = kind /\ Dedicated!Next /\ lost' = lost
    BY <1>3 DEF DedicatedNext
  <2>2. DedicatedInv(pair, qpair, QPair, SyncBlock)
    BY <2>1 DEF AccessorInv
  <2>3. "free" \notin Context
    BY AccessorsAssumption
  <2>4. DedicatedKept(pair, qpair', QPair, SyncBlock) /\ pair' = pair
    BY <1>0, <2>1, <2>2, <2>3, DedicatedGoesOn, DedicatedBegins DEF Dedicated!Next
  <2>5. capacity' = capacity
    BY <2>1 DEF Dedicated!Next, Dedicated!step, Dedicated!submit, Dedicated!device_executes,
                Dedicated!cb_function, Dedicated!leave, Dedicated!fill, Dedicated!returns,
                Dedicated!read, Dedicated!read_hit, Dedicated!read_miss, Dedicated!write_block
  <2>6. DedicatedInv(pair, qpair, QPair, SyncBlock)'
    BY <2>4, <2>5 DEF DedicatedInv, DedicatedKept, CallsInv, CallsKept, Keeps
  <2>7. CallsInv(SyncBlock) /\ CallsKept(SyncBlock) /\ lost = {} /\ lost' = {}
    BY <2>2, <2>4 DEF DedicatedInv, DedicatedKept, SavedState
  <2>8. DeviceStep
    BY <2>1, <2>7, SyncRefines
  <2> QED BY <2>1, <2>6, <2>8 DEF AccessorInv
<1>4. CASE SharedNext
  <2>1. kind = "shared" /\ kind' = kind /\ Shared!Next /\ lost' = lost
    BY <1>4 DEF SharedNext
  <2>2. SharedInv(queue, SyncBlock) /\ Counted(io, pending)
    BY <2>1 DEF AccessorInv
  <2>3. QueueLength \in Nat
    BY AccessorsAssumption
  <2>4. CASE SharedKept(queue', SyncBlock) /\ Counted(io', pending') /\ capacity' = capacity
    <3>1. SharedInv(queue, SyncBlock)'
      BY <2>4 DEF SharedInv, SharedKept, CallsInv, CallsKept, Keeps
    <3>2. CallsInv(SyncBlock) /\ CallsKept(SyncBlock) /\ lost = {} /\ lost' = {}
      BY <2>2, <2>4 DEF SharedInv, SharedKept, SavedState
    <3>3. DeviceStep
      BY <2>1, <3>2, SyncRefines
    <3> QED BY <2>1, <2>4, <3>1, <3>3 DEF AccessorInv
  <2>5. CASE UNCHANGED <<cache, capacity, disk, client, writes, latest, queue, io, pending>>
    <3>1. SharedInv(queue, SyncBlock)' /\ Counted(io, pending)'
      BY <2>1, <2>2, <2>5 DEF SharedInv, CallsInv
    <3>2. AllCommands' = AllCommands
      BY <2>1, <2>5, CommandsAreCalls
    <3>3. AllContent' = AllContent
      BY <2>5 DEF AllContent
    <3>4. DeviceStep
      BY <3>2, <3>3 DEF DeviceStep, AnyDevice!vars
    <3> QED BY <2>1, <3>1, <3>4 DEF AccessorInv
  <2>6. ASSUME NEW t \in Context, Shared!wait(t) \/ Shared!device_executes(t)
        PROVE  SharedKept(queue', SyncBlock) /\ Counted(io', pending') /\ capacity' = capacity
    BY <2>1, <2>2, <2>6, SharedGoesOn DEF Shared!wait, Shared!device_executes, Shared!returns
  <2>7. ASSUME NEW t \in Context, NEW b \in SyncBlock, Shared!read(t, b) \/ Shared!write_block(t, b)
        PROVE  SharedKept(queue', SyncBlock) /\ Counted(io', pending') /\ capacity' = capacity
    BY <2>1, <2>2, <2>7, SharedBegins DEF Shared!read, Shared!write_block, Shared!enqueue_io_request
  <2>8. ASSUME Shared!dequeue_hit \/ Shared!dequeue_submit
                 \/ \E t \in Context : Shared!callback_function(t)
        PROVE  SharedKept(queue', SyncBlock) /\ Counted(io', pending') /\ capacity' = capacity
    BY <1>0, <2>1, <2>2, <2>3, <2>8, SharedWorks
       DEF Shared!dequeue_hit, Shared!dequeue_submit, Shared!callback_function
  <2>9. ASSUME Shared!close \/ Shared!check \/ Shared!dequeue_ends \/ Shared!probe_ends
                 \/ Shared!finished
        PROVE  UNCHANGED <<cache, capacity, disk, client, writes, latest, queue, io, pending>>
    BY <2>9 DEF Shared!close, Shared!check, Shared!dequeue_ends, Shared!probe_ends,
                Shared!finished, Shared!vars
  <2> QED BY <2>1, <2>4, <2>5, <2>6, <2>7, <2>8, <2>9 DEF Shared!Next, Shared!working_thread
<1> QED BY <1>1, <1>2, <1>3, <1>4 DEF MCNext

\* Nothing changes.
LEMMA AccessorStutter ==
    ASSUME AccessorInv, UNCHANGED allVars
    PROVE  AccessorInv' /\ DeviceStep
<1>1. UNCHANGED <<kind, vars, pair, qpair, queue, pending>>
  BY DEF allVars, dedicatedVars, sharedVars
<1>2. /\ kind' = kind /\ cache' = cache /\ capacity' = capacity /\ disk' = disk /\ io' = io
      /\ ready' = ready /\ client' = client /\ writes' = writes /\ latest' = latest
      /\ lost' = lost /\ refused' = refused /\ pair' = pair /\ qpair' = qpair
      /\ queue' = queue /\ pending' = pending
  BY <1>1 DEF vars
<1>3. Commands' = Commands
  BY <1>2 DEF Commands, InFlight
<1>4. AccessorInv'
  BY <1>2, <1>3 DEF AccessorInv, NvmeInv, FileInv, FileState, Fits, DedicatedInv, SharedInv, CallsInv
<1>5. AllCommands' = AllCommands /\ AllContent' = AllContent
  BY <1>2, <1>3 DEF AllCommands, AllContent
<1> QED BY <1>4, <1>5 DEF DeviceStep, AnyDevice!vars

-----------------------------------------------------------------------------
(* What the invariant says *)

\* The accessors count in the same way.
LEMMA SameCounts ==
    ASSUME NEW S
    PROVE  /\ File!Cardinality(S) = Cardinality(S) /\ Dedicated!Cardinality(S) = Cardinality(S)
           /\ Shared!Cardinality(S) = Cardinality(S)
BY DEF File!Cardinality, Dedicated!Cardinality, Shared!Cardinality, Cardinality

\* The cache, in the form of the type invariants.
LEMMA CacheTypes ==
    ASSUME NEW B, NEW cmd, Storage(cache, capacity, disk, cmd, latest, lost, writes, B)
    PROVE  /\ cache \in Seq(CacheUnit(B, Data)) /\ Len(cache) <= capacity
           /\ Cardinality({cache[i].id : i \in DOMAIN cache}) = Len(cache)
           /\ disk \in [B -> Data] /\ latest \in [B -> Data] /\ writes \in Data /\ lost \subseteq B
<1>1. CacheOK(cache, B)
  BY DEF Storage
<1>2. Cardinality({cache[i].id : i \in DOMAIN cache}) = Len(cache)
  BY <1>1, CacheSize
<1> QED BY <1>1, <1>2 DEF Storage, Memory, MemTyped, CacheOK

LEMMA CallTypes ==
    ASSUME CallsTyped(client, SyncBlock), CacheOK(cache, SyncBlock), Len(cache) <= capacity,
           disk \in [SyncBlock -> Data], latest \in [SyncBlock -> Data], writes \in Data
    PROVE  File!ClientsTypeOK
<1>1. Cardinality({cache[i].id : i \in DOMAIN cache}) = Len(cache)
  BY CacheSize
<1>2. File!CacheUnit(SyncBlock, File!Data) = CacheUnit(SyncBlock, Data)
  BY DEF File!CacheUnit, CacheUnit, File!Data, Data
<1>3. File!Data = Data /\ File!Points = Stops
  BY DEF File!Data, Data, File!Points, Stops
<1>4. client \in [Context -> Calls(SyncBlock)]
  BY DEF CallsTyped
<1>5. client \in [Context ->
         [op : {"none", "read", "write"}, block : SyncBlock \cup {0}, buffer : File!Data,
          pc : File!Points, done : BOOLEAN,
          unit : {<<>>} \cup {<<u>> : u \in File!CacheUnit(SyncBlock, File!Data)}]]
  BY <1>2, <1>3, <1>4 DEF Calls, Units
<1>6. cache \in Seq(File!CacheUnit(SyncBlock, File!Data))
  BY <1>2 DEF CacheOK
<1>7. disk \in [SyncBlock -> File!Data] /\ latest \in [SyncBlock -> File!Data] /\ writes \in File!Data
  BY <1>3
<1> QED BY <1>1, <1>5, <1>6, <1>7, SameCounts DEF File!ClientsTypeOK

LEMMA InvTypes ==
    ASSUME AccessorInv
    PROVE  AccessorsTypeOK
<1>1. CASE kind = "nvme" /\ NvmeInv
  <2>1. Storage(cache, capacity, disk, Commands, latest, lost, writes, Block)
    BY <1>1 DEF NvmeInv
  <2>2. /\ cache \in Seq(CacheUnit(Block, Data)) /\ Len(cache) <= capacity
        /\ Cardinality({cache[i].id : i \in DOMAIN cache}) = Len(cache)
        /\ disk \in [Block -> Data] /\ latest \in [Block -> Data] /\ writes \in Data
        /\ lost \subseteq Block
    BY <2>1, CacheTypes
  <2>3. TypeOK
    BY <1>1, <2>2 DEF NvmeInv, Placed, NvmeTyped, TypeOK
  <2> QED BY <1>1, <2>3 DEF AccessorsTypeOK, NvmeInv, Clean
<1>2. CASE kind = "file" /\ FileInv(SyncBlock)
  <2>1. File!ClientsTypeOK
    BY <1>2, FileParts, CallTypes
  <2> QED BY <1>2, <2>1 DEF AccessorsTypeOK
<1>3. CASE kind \in {"dedicated", "shared"} /\ CallsInv(SyncBlock) /\ Clean(cache)
  <2>1. File!ClientsTypeOK
    BY <1>3, StorageParts, CallTypes DEF CallsInv
  <2> QED BY <1>3, <2>1 DEF AccessorsTypeOK, Clean
<1> QED BY <1>1, <1>2, <1>3 DEF AccessorInv, DedicatedInv, SharedInv, SavedState

LEMMA InvAnswers ==
    ASSUME AccessorInv
    PROVE  OnlyEvictedBlocksErr
<1> SUFFICES ASSUME NEW c \in Context, Answers(c), client[c].block \notin lost
             PROVE  client[c].buffer = latest[client[c].block]
  BY DEF OnlyEvictedBlocksErr
<1>1. client[c].op = "read"
  BY DEF Answers
<1>2. ASSUME NEW cmd, NEW B, Storage(cache, capacity, disk, cmd, latest, lost, writes, B),
             cmd[c].op = "read", cmd[c].block = client[c].block,
             cmd[c].data = client[c].buffer, cmd[c].done
      PROVE  client[c].buffer = latest[client[c].block]
  <2>1. CommandOK(cmd[c], disk, latest, lost)
    BY <1>2 DEF Storage, Memory
  <2> QED BY <1>2, <2>1 DEF CommandOK
<1>3. CASE kind = "nvme" /\ NvmeInv
  <2>1. ready # <<>> /\ Head(ready) = c
    BY <1>3 DEF Answers, Answered
  <2>2. ready \in Seq(Context) /\ Placed(client, io, ready, refused)
    BY <1>3 DEF NvmeInv, Placed, NvmeTyped
  <2>3. IsReady(c, ready)
    BY SMTT(30), <2>1, <2>2 DEF IsReady
  <2>4. Answer(c, client, io, refused)
    BY <2>2, <2>3, AnswerOf
  <2>5. Commands = SeenAll(client, io, refused)
    BY <1>3, NvmeState
  <2>6. Commands[c] = Done(client[c].op, client[c].block, client[c].buffer)
    BY <2>4, <2>5 DEF Answer
  <2>7. /\ Commands[c].op = "read" /\ Commands[c].block = client[c].block
        /\ Commands[c].data = client[c].buffer /\ Commands[c].done
    BY SMTT(30), <1>1, <2>6 DEF Done, Request
  <2>8. Storage(cache, capacity, disk, Commands, latest, lost, writes, Block)
    BY <1>3 DEF NvmeInv
  <2> QED BY <1>2, <2>7, <2>8
<1>4. CASE kind # "nvme" /\ CallsInv(SyncBlock) /\ (client[c].pc = "return" => client[c].done)
  <2>1. client[c].done
    BY <1>4 DEF Answers
  <2>2. client[c].op # "none"
    BY SMTT(30), <1>1
  <2>3. /\ SeenCalls(client)[c].op = client[c].op /\ SeenCalls(client)[c].block = client[c].block
        /\ SeenCalls(client)[c].data = client[c].buffer
        /\ SeenCalls(client)[c].done = client[c].done
    BY <1>4, <2>2, CallSeen
  <2>4. Storage(cache, capacity, disk, SeenCalls(client), latest, lost, writes, SyncBlock)
    BY <1>4 DEF CallsInv
  <2> QED BY <1>1, <1>2, <2>1, <2>3, <2>4
<1>5. CASE kind = "file" /\ FileInv(SyncBlock)
  <2>1. /\ CallsTyped(client, SyncBlock) /\ FileCall(client[c], SyncBlock)
        /\ \A b \in SyncBlock : b \notin lost => BlockKept(b, cache, disk, client, latest)
    BY <1>5, FileParts
  <2>2. client[c].op # "none"
    BY SMTT(30), <1>1
  <2>3. client[c].pc = "return" /\ client[c].block \in SyncBlock
    BY <1>5, <2>1, <2>2, CallFields DEF Answers
  <2>4. client[c].done
    BY SMTT(30), <2>1, <2>2, <2>3 DEF FileCall
  <2> QED BY <1>1, <2>1, <2>3, <2>4 DEF BlockKept, Fetched
<1>6. CASE kind = "dedicated" /\ DedicatedInv(pair, qpair, QPair, SyncBlock)
  BY <1>4, <1>6 DEF DedicatedInv, DedicatedCalls, DedicatedCall
<1>7. CASE kind = "shared" /\ SharedInv(queue, SyncBlock)
  BY <1>4, <1>7 DEF SharedInv, SharedCalls, SharedCall
<1> QED BY <1>3, <1>5, <1>6, <1>7 DEF AccessorInv

LEMMA NvmePlaces ==
    ASSUME NvmeInv
    PROVE  ContextInOnePlace
<1> SUFFICES ASSUME NEW c \in Context
             PROVE  Cardinality({cmd \in io : cmd.context = c})
                      + Cardinality({i \in DOMAIN ready : ready[i] = c})
                      = IF client[c] = Idle \/ c \in refused THEN 0 ELSE 1
  BY DEF ContextInOnePlace
<1>1. NvmeTyped(client, io, ready, refused) /\ OnePlace(client, io, ready, refused)
  BY DEF NvmeInv, Placed
<1>2. PICK S : S = {cmd \in io : cmd.context = c}
  OBVIOUS
<1>3. PICK n : n = Cardinality({i \in DOMAIN ready : ready[i] = c})
  OBVIOUS
<1>4. (S = {} => Cardinality(S) = 0) /\ (S # {} => Cardinality(S) = 1)
  <2>1. \A x, y \in S : x = y
    BY <1>1, <1>2 DEF OnePlace
  <2> QED BY <2>1, AtMostOne
<1>5. (IsReady(c, ready) => n = 1) /\ (~IsReady(c, ready) => n = 0)
  <2>1. ready \in Seq(Context) /\ Distinct(ready)
    BY <1>1 DEF NvmeTyped, OnePlace
  <2> QED BY <1>3, <2>1, QueueCount
<1>6. client[c] = Idle <=> client[c].op = "none"
  <2>1. client[c].op = "none" => client[c] = Idle
    BY <1>1 DEF NvmeTyped
  <2>2. Idle.op = "none"
    BY DEF Idle
  <2> QED BY <2>1, <2>2
<1>7. S # {} => /\ client[c].op # "none" /\ ~IsReady(c, ready) /\ c \notin refused
  <2> SUFFICES ASSUME NEW p \in S
               PROVE  client[c].op # "none" /\ ~IsReady(c, ready) /\ c \notin refused
    OBVIOUS
  <2>1. p \in io /\ p.context = c /\ p \in Para
    BY <1>1, <1>2 DEF NvmeTyped
  <2>2. Waiting(c, p, client) /\ ~IsReady(c, ready) /\ c \notin refused
    BY <1>1, <2>1 DEF OnePlace
  <2>3. p.type \in {"read", "write"} /\ client[c].op = p.type
    BY <2>1, <2>2 DEF Para, Waiting
  <2>4. client[c].op # "none"
    BY SMTT(30), <2>3
  <2> QED BY <2>2, <2>4
<1>8. IsReady(c, ready) => client[c].op # "none" /\ c \notin refused
  BY <1>1 DEF OnePlace
<1>9. client[c].op # "none" /\ c \notin refused => IsReady(c, ready) \/ S # {}
  BY <1>1, <1>2 DEF OnePlace
<1>10. Cardinality(S) + n = IF client[c] = Idle \/ c \in refused THEN 0 ELSE 1
  BY SMTT(30), <1>4, <1>5, <1>6, <1>7, <1>8, <1>9
<1> QED BY <1>2, <1>3, <1>10

LEMMA DedicatedPlaces ==
    ASSUME DedicatedInv(pair, qpair, QPair, SyncBlock)
    PROVE  Dedicated!SlotsMatchCommands
<1> DEFINE Users(q) == {t \in Context : pair[t] = q /\ client[t].pc = "device"}
<1>1. ASSUME NEW q \in QPair
      PROVE  /\ qpair[q].free_slots = 1 - Cardinality(Users(q))
             /\ \A t \in Users(q) : qpair[q].lock = t
  <2>1. \A t \in Users(q) : qpair[q].lock = t
    BY DEF DedicatedInv, DedicatedCalls, DedicatedCall
  <2>2. \A x, y \in Users(q) : x = y
    BY <2>1
  <2>3. PICK S : S = Users(q)
    OBVIOUS
  <2>4. (S = {} => Cardinality(S) = 0) /\ (S # {} => Cardinality(S) = 1)
    BY <2>2, <2>3, AtMostOne
  <2>5. (S = {} => qpair[q].free_slots = 1) /\ (S # {} => qpair[q].free_slots = 0)
    BY <1>1, <2>3 DEF DedicatedInv, Slots
  <2>6. qpair[q].free_slots = 1 - Cardinality(S)
    BY SMTT(30), <2>4, <2>5
  <2> QED BY <2>1, <2>3, <2>6
<1>2. \A q : Dedicated!Cardinality(Users(q)) = Cardinality(Users(q))
  BY SameCounts
<1> QED BY <1>1, <1>2 DEF Dedicated!SlotsMatchCommands

LEMMA SharedPlaces ==
    ASSUME SharedInv(queue, SyncBlock), Counted(io, pending)
    PROVE  Shared!RequestInOnePlace
<1>1. pending = Cardinality(io) /\ pending <= QueueLength
  BY DEF Counted
<1>2. ASSUME NEW t \in Context
      PROVE  Cardinality({i \in DOMAIN queue : queue[i] = t})
               + (IF t \in io THEN 1 ELSE 0)
               + (IF client[t].pc = "return" THEN 1 ELSE 0)
               = IF client[t] = Rest THEN 0 ELSE 1
  <2>1. PICK n : n = Cardinality({i \in DOMAIN queue : queue[i] = t})
    OBVIOUS
  <2>2. SharedCall(client[t], t, queue, io) /\ QueueTyped(queue, io) /\ CallsInv(SyncBlock)
    BY DEF SharedInv, SharedCalls
  <2>3. (IsReady(t, queue) => n = 1) /\ (~IsReady(t, queue) => n = 0)
    BY <2>1, <2>2, QueueCount DEF QueueTyped
  <2>4. CallOK(client[t], SyncBlock)
    BY <2>2 DEF CallsInv, CallsTyped
  <2>5. client[t] = Rest <=> client[t].pc = "idle"
    BY <2>4, RestOK DEF CallOK
  <2>6. n + (IF t \in io THEN 1 ELSE 0) + (IF client[t].pc = "return" THEN 1 ELSE 0)
          = IF client[t] = Rest THEN 0 ELSE 1
    BY SMTT(30), <2>2, <2>3, <2>5 DEF SharedCall
  <2> QED BY <2>1, <2>6
<1>3. Shared!Idle = Rest
  BY DEF Shared!Idle, Shared!Call, Rest, CallOf
<1>4. /\ Shared!Cardinality(io) = Cardinality(io)
      /\ \A t : Shared!Cardinality({i \in DOMAIN queue : queue[i] = t})
                 = Cardinality({i \in DOMAIN queue : queue[i] = t})
  BY SameCounts
<1> QED BY <1>1, <1>2, <1>3, <1>4 DEF Shared!RequestInOnePlace

-----------------------------------------------------------------------------
(* The theorems *)

\* The invariant holds for ever.
LEMMA AlwaysInv == MCSpec => []AccessorInv
<1>1. MCInit => AccessorInv
  BY AccessorInit
<1>2. AccessorInv /\ [MCNext]_allVars => AccessorInv'
  BY AccessorStep, AccessorStutter
<1> QED BY <1>1, <1>2, PTL DEF MCSpec

\* Types: in every accessor the cache never holds two units of a block and never
\* more than its capacity, however calls, evictions and completions interleave,
\* and no unit of the NVMe accessors is dirty, so the assertion in the callback of
\* the shared I/O thread cannot fail.
THEOREM AccessorsKeepTypes == MCSpec => []AccessorsTypeOK
<1>1. AccessorInv => AccessorsTypeOK
  BY InvTypes
<1> QED BY <1>1, AlwaysInv, PTL

\* A read delivers what was written last, unless the content of its block went
\* astray at an eviction and the block was not written since.  In the file
\* accessor that takes a clean unit that write() evicts without writing it, a read
\* of the file before the pwrite() of an evicted unit, or a pwrite() that comes
\* after that of newer content; in the dedicated and the shared accessor it never
\* happens.
THEOREM ReadsErrOnlyAfterEviction == MCSpec => []OnlyEvictedBlocksErr
<1>1. AccessorInv => OnlyEvictedBlocksErr
  BY InvAnswers
<1> QED BY <1>1, AlwaysInv, PTL

\* A context or a caller is in one place, and free_slots_ and pending_requests_
\* agree with the commands on the device.
THEOREM EveryCommandInOnePlace == MCSpec => []CommandInOnePlace
<1>1. AccessorInv => CommandInOnePlace
  BY NvmePlaces, DedicatedPlaces, SharedPlaces DEF AccessorInv, CommandInOnePlace
<1> QED BY <1>1, AlwaysInv, PTL

\* Every accessor implements the block device: the dedicated and the shared one
\* whatever their capacity, the NVMe and the file accessor when all blocks fit
\* into the cache.  A call takes effect at one moment between its beginning and
\* its end.
THEOREM AccessorsImplementBlockDevice == MCSpec => ImplementsBlockDevice
<1>1. MCInit => AnyDevice!Init
  <2> SUFFICES ASSUME MCInit PROVE AnyDevice!Init
    OBVIOUS
  <2>1. /\ cache = <<>> /\ \A c \in Context : client[c].op = "none"
        /\ disk = [b \in Block |-> 0] \/ disk = [b \in SyncBlock |-> 0]
    <3>1. CASE Init
      BY <3>1 DEF Init, Idle
    <3>2. CASE File!Init
      BY <3>2 DEF File!Init, File!InitClients, File!Idle, File!Call
    <3>3. CASE Dedicated!Init
      BY <3>3 DEF Dedicated!Init, Dedicated!InitClients, Dedicated!Idle, Dedicated!Call
    <3>4. CASE Shared!Init
      BY <3>4 DEF Shared!Init, Shared!InitClients, Shared!Idle, Shared!Call
    <3> QED BY <3>1, <3>2, <3>3, <3>4 DEF MCInit
  <2>2. \A b : ~is_cached(cache, b)
    BY SMTT(30), <2>1 DEF is_cached
  <2>3. \A b \in DOMAIN disk : disk[b] = 0
    BY <2>1
  <2>4. AllContent = [b \in Block |-> 0]
    BY <2>2, <2>3 DEF AllContent
  <2>5. AllCommands = [c \in Context |-> [op |-> "none"]]
    BY <2>1 DEF AllCommands, Commands
  <2> QED BY <2>4, <2>5 DEF AnyDevice!Init, AnyDevice!NoCommand
<1>2. AccessorInv /\ [MCNext]_allVars => [Coherent => AnyDevice!Next]_(AnyDevice!vars)
  BY AccessorStep, AccessorStutter DEF DeviceStep
<1> QED BY <1>1, <1>2, AlwaysInv, PTL DEF MCSpec, ImplementsBlockDevice

=============================================================================
