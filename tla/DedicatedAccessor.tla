-------------------------- MODULE DedicatedAccessor -------------------------
(***************************************************************************)
(* The accessor with a queue pair for each thread                          *)
(* (blk/nvme_blk_thread_dediciated_accessor_.h) over the synchronous calls *)
(* of the queue pairs (accessor/qpair_context.h,                           *)
(* accessor/atomic_qpair_context.h).  There are fewer queue pairs than     *)
(* there may be threads, and the unsynchronised counter that deals them    *)
(* out may deal one twice: any two threads may share one.                  *)
(***************************************************************************)
EXTENDS SyncClients

CONSTANTS QPair,        \* the queue pairs
          QueueLength   \* the queue length they are allocated with

VARIABLES pair,         \* thread_to_qpair
          qpair         \* lock_ and free_slots_ of every queue pair

vars == <<cache, capacity, disk, client, writes, latest, pair, qpair>>

FREE == "free"

Init ==
    /\ InitClients
    /\ pair \in [Thread -> QPair]
    /\ qpair = [q \in QPair |-> [lock |-> FREE, free_slots |-> QueueLength]]

read(t, b) == (read_hit(t, b) \/ read_miss(t, b)) /\ UNCHANGED <<pair, qpair>>

\* Mutant: the cached block stays.
write_block_keeps(t, b) ==
    /\ BeginWrite(t, Call("write", b, NewData, "write", FALSE))
    /\ UNCHANGED <<cache, capacity, disk, pair, qpair>>

\* write(): the cached block is dropped first.
write_block(t, b) ==
    /\ BeginWrite(t, Call("write", b, NewData, "write", FALSE))
    /\ cache' = invalidate(cache, b)
    /\ UNCHANGED <<capacity, disk, pair, qpair>>

\* synchronous_read, synchronous_write: the lock of the queue pair is taken, and
\* the command is submitted.
submit(t) ==
    LET r == client[t]
        q == pair[t]
    IN
    /\ r.pc \in {"read", "write"}
    /\ qpair[q].lock = FREE
    /\ qpair' = [qpair EXCEPT ![q] = [lock |-> t, free_slots |-> @.free_slots - 1]]
    /\ Update(t, [r EXCEPT !.pc = "device"])
    /\ UNCHANGED <<cache, capacity, disk, pair>>

\* The device carries the command out.
device_executes(t) ==
    LET r == client[t] IN
    /\ r.pc = "device" /\ ~r.done
    /\ IF r.op = "read"
       THEN /\ Update(t, [r EXCEPT !.done = TRUE, !.buffer = disk[r.block]])
            /\ UNCHANGED disk
       ELSE /\ Update(t, [r EXCEPT !.done = TRUE])
            /\ disk' = [disk EXCEPT ![r.block] = r.buffer]
    /\ UNCHANGED <<cache, capacity, pair, qpair>>

\* process_completions finds the command completed: cb_function.
cb_function(t) ==
    LET r == client[t] IN
    /\ r.pc = "device" /\ r.done
    /\ Update(t, [r EXCEPT !.pc = "complete"])
    /\ qpair' = [qpair EXCEPT ![pair[t]].free_slots = @ + 1]
    /\ UNCHANGED <<cache, capacity, disk, pair>>

\* A write waits for its own completion, a read for a free slot.
Completed(t) ==
    IF client[t].op = "write" THEN client[t].pc = "complete"
    ELSE qpair[pair[t]].free_slots # 0

\* The synchronous call is over: the lock is given back.
leave(t) ==
    LET r == client[t] IN
    /\ r.pc \in {"device", "complete"} /\ Completed(t)
    /\ Update(t, [r EXCEPT !.pc = IF r.op = "read" THEN "fill" ELSE "return"])
    /\ qpair' = [qpair EXCEPT ![pair[t]].lock = FREE]
    /\ UNCHANGED <<cache, capacity, disk, pair>>

\* The rest of read(): the block goes into the cache; an evicted unit would be
\* written if it were dirty, which none is.
fill(t) ==
    LET r == client[t] IN
    /\ r.pc = "fill"
    /\ cache' = write(cache, r.block, r.buffer, FALSE, capacity)
    /\ Update(t, [r EXCEPT !.pc = "return"])
    /\ UNCHANGED <<capacity, disk, pair, qpair>>

step(t) ==
    \/ submit(t) \/ device_executes(t) \/ cb_function(t) \/ leave(t) \/ fill(t)
    \/ (returns(t) /\ UNCHANGED <<pair, qpair>>)

Next ==
    \E t \in Thread :
        \/ step(t)
        \/ \E b \in Block : read(t, b) \/ write_block(t, b)

Spec == Init /\ [][Next]_vars

\* The lock of a queue pair is held by the thread whose command it serves, and
\* a slot is taken exactly while there is one.
SlotsMatchCommands ==
    \A q \in QPair :
        LET users == {t \in Thread : pair[t] = q /\ client[t].pc = "device"}
        IN  /\ qpair[q].free_slots = QueueLength - Cardinality(users)
            /\ \A t \in users : qpair[q].lock = t

=============================================================================
