------------------------ MODULE SharedThreadAccessor ------------------------
(***************************************************************************)
(* The accessor with one I/O thread for all callers                        *)
(* (blk/nvme_blk_shared_working_thread_accessor_.h): read() and write()    *)
(* put a request into a queue and wait on a semaphore; working_thread      *)
(* takes requests, submits them to the device and probes for completions,  *)
(* until close() asks it to stop.                                          *)
(***************************************************************************)
EXTENDS SyncClients

CONSTANT QueueLength    \* io_queue_length_

VARIABLES
    queue,      \* request_queue_: the threads whose requests are in it
    io,         \* the threads whose requests are submitted
    pending,    \* pending_requests_
    worker,     \* where working_thread is
    closing     \* what close() has done: "open", "closing" with
                \* terminiating_flag_ set, or "closed"

vars == <<cache, capacity, disk, client, writes, latest, queue, io, pending, worker, closing>>

Init ==
    /\ InitClients
    /\ queue = <<>>
    /\ io = {}
    /\ pending = 0
    /\ worker = "check"
    /\ closing = "open"

-----------------------------------------------------------------------------
(* The callers *)

enqueue_io_request(t) ==
    /\ closing = "open"
    /\ queue' = Append(queue, t)
    /\ UNCHANGED <<cache, capacity, disk, io, pending, worker, closing>>

read(t, b) ==
    /\ MayRead(t, b)
    /\ Update(t, Call("read", b, 0, "wait", FALSE))
    /\ enqueue_io_request(t)

write_block(t, b) ==
    /\ BeginWrite(t, Call("write", b, NewData, "wait", FALSE))
    /\ enqueue_io_request(t)

\* semaphore.wait() returns.
wait(t) == returns(t) /\ UNCHANGED <<queue, io, pending, worker, closing>>

\* close(): the flag is set, and the thread is joined.
close ==
    \/ /\ closing = "open"
       /\ closing' = "closing"
       /\ UNCHANGED <<cache, capacity, disk, client, writes, latest, queue, io, pending, worker>>
    \/ /\ closing = "closing" /\ worker = "exit"
       /\ closing' = "closed"
       /\ UNCHANGED <<cache, capacity, disk, client, writes, latest, queue, io, pending, worker>>

-----------------------------------------------------------------------------
(* working_thread *)

\* The condition of the outer loop is false.
stops == closing # "open" /\ queue = <<>> /\ pending = 0

check ==
    /\ worker = "check"
    /\ worker' = IF stops THEN "exit" ELSE "dequeue"
    /\ UNCHANGED <<cache, capacity, disk, client, writes, latest, queue, io, pending, closing>>

\* The condition of the inner loop.
CanDequeue == queue # <<>> /\ QueueLength - pending > 0

\* The request of a read is answered from the cache.
dequeue_hit ==
    LET t == Head(queue)
        r == client[t]
    IN
    /\ worker = "dequeue" /\ CanDequeue
    /\ r.op = "read" /\ is_cached(cache, r.block)
    /\ queue' = Tail(queue)
    /\ cache' = Touch(cache, get(cache, r.block))
    /\ Update(t, [r EXCEPT !.buffer = get(cache, r.block).data, !.done = TRUE, !.pc = "return"])
    /\ UNCHANGED <<capacity, disk, io, pending, worker, closing>>

\* Another request is submitted; a write drops the cached block first.
dequeue_submit ==
    LET t == Head(queue)
        r == client[t]
    IN
    /\ worker = "dequeue" /\ CanDequeue
    /\ r.op = "write" \/ ~is_cached(cache, r.block)
    /\ queue' = Tail(queue)
    /\ cache' = IF r.op = "write" THEN invalidate(cache, r.block) ELSE cache
    /\ io' = io \cup {t}
    /\ pending' = pending + 1
    /\ UNCHANGED <<capacity, disk, client, writes, latest, worker, closing>>

dequeue_ends ==
    /\ worker = "dequeue" /\ ~CanDequeue
    /\ worker' = "probe"
    /\ UNCHANGED <<cache, capacity, disk, client, writes, latest, queue, io, pending, closing>>

\* The device carries a command out.
device_executes(t) ==
    LET r == client[t] IN
    /\ t \in io /\ ~r.done
    /\ IF r.op = "read"
       THEN /\ Update(t, [r EXCEPT !.done = TRUE, !.buffer = disk[r.block]])
            /\ UNCHANGED disk
       ELSE /\ Update(t, [r EXCEPT !.done = TRUE])
            /\ disk' = [disk EXCEPT ![r.block] = r.buffer]
    /\ UNCHANGED <<cache, capacity, queue, io, pending, worker, closing>>

\* Mutant: pending_requests_ is not counted down.
callback_function_uncounted(t) ==
    LET r == client[t] IN
    /\ worker = "probe"
    /\ t \in io /\ r.done
    /\ cache' = write(cache, r.block, r.buffer, FALSE, capacity)
    /\ io' = io \ {t}
    /\ Update(t, [r EXCEPT !.pc = "return"])
    /\ UNCHANGED <<capacity, disk, queue, pending, worker, closing>>

\* A completed command: what was read or written goes into the cache (the
\* evicted unit is clean, as the code asserts), and the caller is let go.
callback_function(t) ==
    LET r == client[t] IN
    /\ worker = "probe"
    /\ t \in io /\ r.done
    /\ cache' = write(cache, r.block, r.buffer, FALSE, capacity)
    /\ io' = io \ {t}
    /\ pending' = pending - 1
    /\ Update(t, [r EXCEPT !.pc = "return"])
    /\ UNCHANGED <<capacity, disk, queue, worker, closing>>

\* process_completions has handled all that the device has completed.
probe_ends ==
    /\ worker = "probe"
    /\ \A t \in io : ~client[t].done
    /\ worker' = "check"
    /\ UNCHANGED <<cache, capacity, disk, client, writes, latest, queue, io, pending, closing>>

working_thread ==
    \/ check \/ dequeue_hit \/ dequeue_submit \/ dequeue_ends
    \/ (\E t \in Thread : callback_function(t)) \/ probe_ends

\* The program is over.
finished == closing = "closed" /\ (\A t \in Thread : client[t] = Idle) /\ UNCHANGED vars

Next ==
    \/ \E t \in Thread : wait(t) \/ device_executes(t)
    \/ \E t \in Thread, b \in Block : read(t, b) \/ write_block(t, b)
    \/ close \/ working_thread \/ finished

Spec == Init /\ [][Next]_vars

\* A caller has one request in the queue or on the device, or its answer, and
\* pending_requests_ counts the requests on the device, at most io_queue_length_.
RequestInOnePlace ==
    /\ pending = Cardinality(io) /\ pending <= QueueLength
    /\ \A t \in Thread :
          Cardinality({i \in DOMAIN queue : queue[i] = t})
            + (IF t \in io THEN 1 ELSE 0)
            + (IF client[t].pc = "return" THEN 1 ELSE 0)
            = IF client[t] = Idle THEN 0 ELSE 1

=============================================================================
