-------------------------- MODULE NvmeBlkAccessor ---------------------------
(***************************************************************************)
(* The NVMe block accessor (blk/nvme_blk_accessor.h): asynchronous reads   *)
(* and writes of blocks through an LRU cache that is written back when a   *)
(* unit is evicted (strong_consistent is false).  All methods run on the   *)
(* worker thread of the tree; only the device works in parallel.           *)
(*                                                                         *)
(* The clients are contexts under the barriers of the tree: a block is     *)
(* written by one context while no other command on it is pending, or read *)
(* by any number of them.  A context that writes both halves of a split    *)
(* has two commands, and a buffer for each: it counts as two clients here. *)
(* The content of a block is the number of the write it stems from, 0 for  *)
(* the content before the first write.                                     *)
(*                                                                         *)
(* The device library may refuse a command (submit_read_operation returns  *)
(* an error); the accessor prints a message and forgets the command.       *)
(***************************************************************************)
EXTENDS BlkCache, FiniteSets

CONSTANTS Context, Block,
          Capacities,   \* the capacities of the cache to look at
          MaxWrites,    \* bound on the writes that the contexts issue
          MaxRefused    \* bound on the commands that cannot be submitted

ASSUME CapacitiesArePositive == Capacities \subseteq Nat \ {0}
ASSUME BoundsAssumption == MaxWrites \in Nat /\ MaxRefused \in Nat

VARIABLES
    cache,      \* cache_
    capacity,   \* its capacity
    disk,       \* the blocks on the device
    io,         \* the submitted commands with their nvme_callback_para
    ready,      \* ready_contexts_, a sequence
    client,     \* the command of each context, and its buffer
    writes,     \* the number of writes issued so far
    latest,     \* history: the content that was last written to each block
    lost,       \* history: the blocks that were evicted with unsaved content
                \* and not written since
    refused     \* history: the contexts whose command was not submitted

vars == <<cache, capacity, disk, io, ready, client, writes, latest, lost, refused>>

Data == 0..MaxWrites
Idle == [op |-> "none", block |-> 0, buffer |-> 0]

\* nvme_callback_para: buffer is the buffer of the context, and of an evicted
\* unit when evicted is set.  done: the device has carried the command out.
Para == [context : Context, type : {"read", "write"}, id : Block, buffer : Data,
         evicted : BOOLEAN, done : BOOLEAN]

\* The type invariant.  The cache never holds two units of a block and never
\* more than its capacity.
TypeOK ==
    /\ cache \in Seq(CacheUnit(Block, Data)) /\ Len(cache) <= capacity
    /\ Cardinality({cache[i].id : i \in DOMAIN cache}) = Len(cache)
    /\ disk \in [Block -> Data]
    /\ io \subseteq Para
    /\ ready \in Seq(Context)
    /\ client \in [Context -> [op : {"none", "read", "write"}, block : Block \cup {0},
                               buffer : Data]]
    /\ writes \in Data
    /\ latest \in [Block -> Data]
    /\ lost \subseteq Block
    /\ refused \subseteq Context

Init ==
    /\ cache = <<>>
    /\ capacity \in Capacities
    /\ disk = [b \in Block |-> 0]
    /\ io = {}
    /\ ready = <<>>
    /\ client = [c \in Context |-> Idle]
    /\ writes = 0
    /\ latest = [b \in Block |-> 0]
    /\ lost = {}
    /\ refused = {}

-----------------------------------------------------------------------------
\* The contexts with a pending command of the given kind on a block: the
\* barriers of the tree keep them apart.
Busy(b, op) == {c \in Context : client[c].op = op /\ client[c].block = b}

\* The command is submitted, or refused and dropped.
Submit(c, type, b, buffer) ==
    \/ /\ io' = io \cup {[context |-> c, type |-> type, id |-> b, buffer |-> buffer,
                           evicted |-> FALSE, done |-> FALSE]}
       /\ UNCHANGED refused
    \/ /\ Cardinality(refused) < MaxRefused
       /\ refused' = refused \cup {c}
       /\ UNCHANGED io

\* asynch_read: a cached block is copied at once and the context is ready.
asynch_read(c, b) ==
    /\ client[c] = Idle
    /\ Busy(b, "write") = {}
    /\ IF is_cached(cache, b)
       THEN /\ cache' = Touch(cache, get(cache, b))
            /\ client' = [client EXCEPT ![c] = [op |-> "read", block |-> b,
                                                buffer |-> get(cache, b).data]]
            /\ ready' = Append(ready, c)
            /\ UNCHANGED <<io, refused>>
       ELSE /\ Submit(c, "read", b, 0)
            /\ client' = [client EXCEPT ![c] = [op |-> "read", block |-> b,
                                                buffer |-> 0]]
            /\ UNCHANGED <<cache, ready>>
    /\ UNCHANGED <<capacity, disk, writes, latest, lost>>

\* asynch_write: a cached block is rewritten in the cache only.
asynch_write(c, b) ==
    LET data == writes + 1 IN
    /\ client[c] = Idle
    /\ Busy(b, "write") = {} /\ Busy(b, "read") = {}
    /\ writes < MaxWrites
    /\ writes' = data
    /\ latest' = [latest EXCEPT ![b] = data]
    /\ client' = [client EXCEPT ![c] = [op |-> "write", block |-> b, buffer |-> data]]
    /\ IF is_cached(cache, b)
       THEN /\ cache' = write(cache, b, data, TRUE, capacity)
            /\ ready' = Append(ready, c)
            /\ UNCHANGED <<io, refused>>
       ELSE /\ Submit(c, "write", b, data)
            /\ UNCHANGED <<cache, ready>>
    /\ lost' = lost \ {b}
    /\ UNCHANGED <<capacity, disk>>

\* The device carries out a command: a read fills the buffer of the context.
device_executes(cmd) ==
    /\ ~cmd.done
    /\ IF cmd.type = "read"
       THEN /\ io' = (io \ {cmd}) \cup {[cmd EXCEPT !.done = TRUE,
                                                    !.buffer = disk[cmd.id]]}
            /\ client' = [client EXCEPT ![cmd.context].buffer = disk[cmd.id]]
            /\ UNCHANGED disk
       ELSE /\ io' = (io \ {cmd}) \cup {[cmd EXCEPT !.done = TRUE]}
            /\ disk' = [disk EXCEPT ![cmd.id] = cmd.buffer]
            /\ UNCHANGED client
    /\ UNCHANGED <<cache, capacity, ready, writes, latest, lost, refused>>

\* Mutant: the context is not handed back when a unit was evicted.
context_call_back_function_forgets(cmd) ==
    LET evicted == Evicted(cache, cmd.id, capacity) IN
    /\ cmd.done
    /\ cache' = write(cache, cmd.id, cmd.buffer, FALSE, capacity)
    /\ io' = io \ {cmd}
    /\ ready' = IF evicted THEN ready ELSE Append(ready, cmd.context)
    /\ UNCHANGED <<capacity, disk, client, writes, latest, lost, refused>>

\* Mutant: a full cache makes the command start again.
context_call_back_function_retries(cmd) ==
    LET evicted == Evicted(cache, cmd.id, capacity) IN
    /\ cmd.done
    /\ cache' = IF evicted THEN cache ELSE write(cache, cmd.id, cmd.buffer, FALSE, capacity)
    /\ io' = (io \ {cmd}) \cup (IF evicted THEN {[cmd EXCEPT !.done = FALSE]} ELSE {})
    /\ ready' = IF evicted THEN ready ELSE Append(ready, cmd.context)
    /\ UNCHANGED <<capacity, disk, client, writes, latest, lost, refused>>

\* context_call_back_function: the block goes into the cache.  When a dirty
\* unit had to go, asynch_write_evicted submits its write for the same context
\* (its invalidate() finds the unit gone), and the context is handed on when
\* that write has completed.
context_call_back_function(cmd) ==
    LET evicted == Evicted(cache, cmd.id, capacity)
        unit    == evict_unit(cache)
    IN
    /\ cmd.done
    /\ cache' = write(cache, cmd.id, cmd.buffer, FALSE, capacity)
    /\ IF evicted /\ unit.dirty
       THEN /\ io' = (io \ {cmd}) \cup
                       {[context |-> cmd.context, type |-> "write", id |-> unit.id,
                         buffer |-> unit.data, evicted |-> TRUE, done |-> FALSE]}
            /\ UNCHANGED ready
       ELSE /\ io' = io \ {cmd}
            /\ ready' = Append(ready, cmd.context)
    /\ lost' = IF evicted /\ ~unit.dirty /\ unit.data # disk[unit.id]
               THEN lost \cup {unit.id} ELSE lost
    /\ UNCHANGED <<capacity, disk, client, writes, latest, refused>>

\* The scheduler runs a ready context, which takes note of its I/O.
run_ready ==
    /\ ready # <<>>
    /\ client' = [client EXCEPT ![Head(ready)] = Idle]
    /\ ready' = Tail(ready)
    /\ UNCHANGED <<cache, capacity, disk, io, writes, latest, lost, refused>>

Next ==
    \/ \E c \in Context, b \in Block : asynch_read(c, b) \/ asynch_write(c, b)
    \/ \E cmd \in io : device_executes(cmd)
    \/ \E cmd \in io : context_call_back_function(cmd)
    \/ run_ready

Spec == Init /\ [][Next]_vars

-----------------------------------------------------------------------------
(* Correctness *)

InFlight(c) == \E cmd \in io : cmd.context = c /\ ~cmd.evicted /\ ~cmd.done

\* The commands as the tree sees them.
Commands ==
    [c \in Context |->
        IF client[c].op = "none" THEN [op |-> "none"]
        ELSE [op |-> client[c].op, block |-> client[c].block,
              data |-> client[c].buffer, done |-> ~InFlight(c) /\ c \notin refused]]

Answered(c) == ready # <<>> /\ Head(ready) = c /\ client[c].op = "read"

\* ReadsLatest: a read delivers what was written last.
ReadsLatest ==
    \A c \in Context : Answered(c) => client[c].buffer = latest[client[c].block]

\* ContextInOnePlace: a context with a command has exactly one command in
\* flight or one place in the ready list, and no other context has any, so it is
\* never run twice for one I/O.  A refused command is nowhere.
ContextInOnePlace ==
    \A c \in Context :
        Cardinality({cmd \in io : cmd.context = c})
          + Cardinality({i \in DOMAIN ready : ready[i] = c})
          = IF client[c] = Idle \/ c \in refused THEN 0 ELSE 1

=============================================================================
