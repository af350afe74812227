----------------------------- MODULE SyncClients ----------------------------
(***************************************************************************)
(* The threads that call read() and write() of an accessor and wait for    *)
(* the answer: the threads of the thread-based tree.  The locks of the     *)
(* tree keep calls on a block apart: a block is written by one thread      *)
(* while no other call on it is pending, or read by any number of them.    *)
(* The content of a block is the number of the write it stems from, 0 for  *)
(* the content before the first write.                                     *)
(***************************************************************************)
EXTENDS BlkCache, FiniteSets

CONSTANTS Thread, Block,
          Capacities,   \* the capacities of the cache to look at
          MaxWrites     \* bound on the writes that the threads issue

VARIABLES
    cache,      \* cache_
    capacity,   \* its capacity
    disk,       \* the blocks on the file or the device
    client,     \* the call of each thread
    writes,     \* the number of writes issued so far
    latest      \* history: the content that was last written to each block

\* pc is where the thread is in the call; done is history: the call has taken
\* effect; unit holds the evicted unit that the thread has to write, if any.
Call(op, b, buffer, pc, done) ==
    [op |-> op, block |-> b, buffer |-> buffer, pc |-> pc, done |-> done, unit |-> <<>>]

Idle == Call("none", 0, 0, "idle", FALSE)

InitClients ==
    /\ cache = <<>>
    /\ capacity \in Capacities
    /\ disk = [b \in Block |-> 0]
    /\ client = [t \in Thread |-> Idle]
    /\ writes = 0
    /\ latest = [b \in Block |-> 0]

Busy(b, op) == {t \in Thread : client[t].op = op /\ client[t].block = b}

Update(t, r) == client' = [client EXCEPT ![t] = r] /\ UNCHANGED <<writes, latest>>

MayRead(t, b) == client[t] = Idle /\ Busy(b, "write") = {}

\* The content of the next write.
NewData == writes + 1

\* A call r of write() begins.
BeginWrite(t, r) ==
    /\ client[t] = Idle
    /\ Busy(r.block, "write") = {} /\ Busy(r.block, "read") = {}
    /\ writes < MaxWrites
    /\ writes' = NewData
    /\ latest' = [latest EXCEPT ![r.block] = NewData]
    /\ client' = [client EXCEPT ![t] = r]

\* read() of a cached block: the copy is made under the lock of the cache.
read_hit(t, b) ==
    /\ MayRead(t, b) /\ is_cached(cache, b)
    /\ cache' = Touch(cache, get(cache, b))
    /\ Update(t, Call("read", b, get(cache, b).data, "return", TRUE))
    /\ UNCHANGED <<capacity, disk>>

\* read() of another block: the lock of the cache is given back.
read_miss(t, b) ==
    /\ MayRead(t, b) /\ ~is_cached(cache, b)
    /\ Update(t, Call("read", b, 0, "read", FALSE))
    /\ UNCHANGED <<cache, capacity, disk>>

returns(t) ==
    /\ client[t].pc = "return"
    /\ Update(t, Idle)
    /\ UNCHANGED <<cache, capacity, disk>>

Data == 0..MaxWrites

\* Where a thread can be in a call, in one accessor or another.
Points == {"idle", "read", "write", "device", "complete", "fill", "pwrite", "wait", "return"}

\* The type invariant of what the accessors share.  The cache never holds two
\* units of a block and never more than its capacity.
ClientsTypeOK ==
    /\ cache \in Seq(CacheUnit(Block, Data)) /\ Len(cache) <= capacity
    /\ Cardinality({cache[i].id : i \in DOMAIN cache}) = Len(cache)
    /\ disk \in [Block -> Data]
    /\ client \in [Thread ->
         [op : {"none", "read", "write"}, block : Block \cup {0}, buffer : Data,
          pc : Points, done : BOOLEAN,
          unit : {<<>>} \cup {<<u>> : u \in CacheUnit(Block, Data)}]]
    /\ writes \in Data /\ latest \in [Block -> Data]

=============================================================================
