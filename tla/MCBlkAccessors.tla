--------------------------- MODULE MCBlkAccessors ---------------------------
(***************************************************************************)
(* The four accessors side by side: a behaviour is one of one accessor.    *)
(***************************************************************************)
EXTENDS NvmeBlkAccessor

CONSTANTS QPair, QueueLength,
          SyncBlock, SyncCapacities     \* the blocks and the capacities for the
                                        \* accessors that block their callers

ASSUME AccessorsAssumption ==
    /\ SyncBlock \subseteq Block /\ IsFiniteSet(Block)
    /\ SyncCapacities \subseteq Nat \ {0}
    /\ QueueLength \in Nat \ {0}
    /\ "free" \notin Context

VARIABLES kind,                             \* the accessor
          pair, qpair,                      \* of the dedicated accessor
          queue, pending, worker, closing   \* of the shared I/O thread

File      == INSTANCE FileBlkAccessor
               WITH Thread <- Context, Block <- SyncBlock, Capacities <- SyncCapacities
Dedicated == INSTANCE DedicatedAccessor
               WITH Thread <- Context, Block <- SyncBlock, Capacities <- SyncCapacities,
                    QueueLength <- 1    \* allocateAtomicQPair(1) in open()
Shared    == INSTANCE SharedThreadAccessor
               WITH Thread <- Context, Block <- SyncBlock, Capacities <- SyncCapacities

nvmeVars      == <<ready, refused>>
dedicatedVars == <<pair, qpair>>
sharedVars    == <<queue, pending, worker, closing>>

allVars == <<kind, vars, dedicatedVars, sharedVars>>

NoNvme      == ready = <<>> /\ refused = {}
NoLost      == lost = {}
NoCommands  == io = {}
NoDedicated == pair = <<>> /\ qpair = <<>>
NoShared    == queue = <<>> /\ pending = 0 /\ worker = "none" /\ closing = "none"

MCInit ==
    \/ kind = "nvme" /\ Init /\ NoDedicated /\ NoShared
    \/ kind = "file" /\ File!Init /\ NoCommands /\ NoNvme /\ NoDedicated /\ NoShared
    \/ kind = "dedicated" /\ Dedicated!Init /\ NoCommands /\ NoLost /\ NoNvme /\ NoShared
    \/ kind = "shared" /\ Shared!Init /\ NoLost /\ NoNvme /\ NoDedicated

NvmeNext == kind = "nvme" /\ Next /\ UNCHANGED <<kind, dedicatedVars, sharedVars>>
FileNext == kind = "file" /\ File!Next
                /\ UNCHANGED <<kind, io, nvmeVars, dedicatedVars, sharedVars>>
DedicatedNext == kind = "dedicated" /\ Dedicated!Next
                /\ UNCHANGED <<kind, io, lost, nvmeVars, sharedVars>>
SharedNext == kind = "shared" /\ Shared!Next
                /\ UNCHANGED <<kind, lost, nvmeVars, dedicatedVars>>

MCNext == NvmeNext \/ FileNext \/ DedicatedNext \/ SharedNext

\* The device answers every command, a worker probes for completions and runs
\* what is ready, a call that began goes on, and close() returns when it can.  A
\* thread that spins for the lock of a queue pair obtains it when it stays free.
MCFairness ==
    /\ \A c \in Context :
        /\ WF_vars(kind = "nvme" /\ \E cmd \in io : cmd.context = c /\ device_executes(cmd))
        /\ WF_vars(kind = "nvme" /\ \E cmd \in io :
                      cmd.context = c /\ context_call_back_function(cmd))
        /\ WF_(File!vars)(kind = "file" /\ File!step(c))
        /\ WF_(Dedicated!vars)(kind = "dedicated" /\ Dedicated!step(c))
        /\ WF_(Shared!vars)(kind = "shared" /\ Shared!device_executes(c))
        /\ WF_(Shared!vars)(kind = "shared" /\ Shared!wait(c))
    /\ WF_vars(kind = "nvme" /\ run_ready)
    /\ WF_(Shared!vars)(kind = "shared" /\ Shared!working_thread)
    /\ WF_(Shared!vars)(kind = "shared" /\ closing = "closing" /\ Shared!close)

MCSpec == MCInit /\ [][MCNext]_allVars /\ MCFairness

-----------------------------------------------------------------------------

\* Each accessor stays in its types; a cache never holds two units of a block
\* and never more than its capacity, and a dirty unit is one of the file
\* accessor: the callback of the shared I/O thread asserts that the unit it
\* evicts is clean.
AccessorsTypeOK ==
    /\ IF kind = "nvme" THEN TypeOK ELSE File!ClientsTypeOK
    /\ kind # "file" => \A i \in DOMAIN cache : ~cache[i].dirty

\* The calls, as the trees see them.
AllCommands ==
    IF kind = "nvme" THEN Commands
    ELSE [c \in Context |->
            IF client[c].op = "none" THEN [op |-> "none"]
            ELSE [op |-> client[c].op, block |-> client[c].block,
                  data |-> client[c].buffer, done |-> client[c].done]]

\* The content of a block as a new call would find it.
AllContent ==
    [b \in Block |-> IF is_cached(cache, b) THEN get(cache, b).data
                     ELSE IF b \in DOMAIN disk THEN disk[b] ELSE 0]

AnyDevice == INSTANCE BlockDevice
               WITH Client <- Context, Blank <- 0, content <- AllContent,
                    command <- AllCommands

Coherent == kind \in {"dedicated", "shared"} \/ capacity >= Cardinality(DOMAIN disk)

\* The accessors of the thread-based tree on NVMe behave like a block device
\* whatever their capacity, and the other two while all blocks fit into the
\* cache: a call takes effect at one moment between its beginning and its end,
\* whatever the cache, the queue pairs and the I/O thread do.
ImplementsBlockDevice ==
    /\ AnyDevice!Init
    /\ [][Coherent => AnyDevice!Next]_(AnyDevice!vars)

Answers(c) ==
    client[c].op = "read" /\ IF kind = "nvme" THEN Answered(c) ELSE client[c].pc = "return"

\* A read that does not deliver what was written last is of a block whose content
\* went astray at an eviction and that was not written since.  With the NVMe
\* accessor the unit was evicted although the device had other content.  With the
\* file accessor such a unit was clean and write() did not write it, or the file
\* was read before its pwrite(), or its pwrite() came after that of newer content;
\* a unit that is written in time is never missed.
OnlyEvictedBlocksErr ==
    \A c \in Context :
        Answers(c) => \/ client[c].buffer = latest[client[c].block]
                      \/ client[c].block \in lost

\* A context or a caller is in one place: it has one command on its way or one
\* answer, and the counters of the queue pairs and of the I/O thread agree with
\* the commands on the device.
CommandInOnePlace ==
    /\ kind = "nvme" => ContextInOnePlace
    /\ kind = "dedicated" => Dedicated!SlotsMatchCommands
    /\ kind = "shared" => Shared!RequestInOnePlace

\* Another thread has the spin lock of the queue pair of c.
Overtaken(c) ==
    kind = "dedicated" /\ qpair[pair[c]].lock \in Context \ {c}

\* Every call and every command is answered in the end, except for a command that
\* the device library refused, and for the call of a thread whose queue pair
\* others take again and again: the spin lock is given to anybody who asks.
AllAnswered ==
    \A c \in Context :
        \/ []<>Overtaken(c) /\ []<>~Overtaken(c)
        \/ client[c].op # "none" ~> client[c].op = "none" \/ c \in refused

\* close() of the shared I/O thread returns, however many requests are queued or
\* on the device.
CloseReturns == closing = "closing" ~> closing = "closed"

=============================================================================
