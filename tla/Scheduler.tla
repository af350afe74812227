----------------------------- MODULE Scheduler ------------------------------
(***************************************************************************)
(* The worker thread of the pull-based tree and its clients                *)
(* (tree/pull_based_b_plus_tree.h): clients push requests into a bounded   *)
(* queue, the worker admits them into a limited number of contexts, runs   *)
(* the contexts that are ready, probes the device, and stops after close() *)
(* when no request is pending.                                             *)
(*                                                                         *)
(* What a context does in the tree is the subject of PullTree.  Here a     *)
(* run() of it waits for I/O, waits for a barrier that another context     *)
(* holds, or terminates; on the way it may release barriers that others    *)
(* wait for.  A context is named by the request it serves.  What the       *)
(* accessor does with a command is the subject of NvmeBlkAccessor.  Here a *)
(* command goes to the device, is served by the cache, or is refused by    *)
(* the device library, in which case its context hears of it no more.      *)
(*                                                                         *)
(* The lists of ready contexts are bags.  A batch is run in any order, of  *)
(* which the order by tag and id that std::sort produces is one.           *)
(***************************************************************************)
EXTENDS Integers, Sequences, FiniteSetsExt, Functions

CONSTANTS Search, Insert,     \* the requests that the clients make
          QueueLength,        \* queue_length_, the number of contexts
          QueueCapacity,      \* the capacity of request_queue_
          ProcessGranularity, \* process_granularity
          ProbeGranularity,   \* probe_granularity
          MaxWaits,           \* bound on the times that a context has to wait
          MaxRefused          \* bound on the commands that are refused

None == "none"
Request == Search \cup Insert
Kind(r) == IF r \in Search THEN "search" ELSE "insert"

ASSUME SchedulerAssumption ==
    /\ Search \cap Insert = {} /\ IsFiniteSet(Request) /\ None \notin Request
    /\ {QueueLength, QueueCapacity, ProcessGranularity, ProbeGranularity}
          \subseteq Nat \ {0}
    /\ MaxWaits \in Nat /\ MaxRefused \in Nat

VARIABLES
    phase,         \* of each request: "new", "pushing" (counted, not yet in the
                   \* queue), "queued", "served" (it has a context), "answered"
                   \* (the result is stored and the callback called),
                   \* "uncounted", "done" (the semaphore is released)
    queue,         \* request_queue_
    pending,       \* pending_request_
    slots,         \* free_context_slots_
    pool,          \* the sizes of free_search_contexts_ and free_insert_contexts_
    admitted,      \* admission_contexts_
    blk_ready,     \* ready_contexts_ of the accessor: how often each is in it
    barrier_ready, \* ready_contexts_ of the barrier manager
    io,            \* the commands of each context at the device
    completed,     \* the commands of each context that the device has completed
    refused,       \* the commands of each context that could not be submitted
    waits_for,     \* the holder of the barrier that a context waits for
    waits_left,    \* how often the context may still have to wait
    pc, batch,     \* the worker: its place, and to_be_processed
    finishing,     \* the context that runs its last lines
    flag           \* working_thread_terminate_flag_

clients == <<phase, queue, pending>>
lists == <<admitted, blk_ready, barrier_ready>>
contexts == <<io, completed, refused, waits_for, waits_left>>
vars == <<phase, queue, pending, slots, pool, admitted, blk_ready, barrier_ready,
          io, completed, refused, waits_for, waits_left, pc, batch, finishing, flag>>

NoOne == [r \in Request |-> 0]
Bag(S) == [r \in Request |-> IF r \in S THEN 1 ELSE 0]
Total(f) == MapThenSumSet(LAMBDA r : f[r], Request)

Stage == <<"check", "admission", "new", "run_new", "blk", "run_blk",
           "barrier", "run_barrier", "probe">>

Init ==
    /\ phase = [r \in Request |-> "new"]
    /\ queue = <<>>
    /\ pending = 0
    /\ slots = QueueLength
    /\ pool = [k \in {"search", "insert"} |-> QueueLength]
    /\ admitted = {} /\ blk_ready = NoOne /\ barrier_ready = {}
    /\ io = NoOne /\ completed = NoOne /\ refused = NoOne
    /\ waits_for = [r \in Request |-> None]
    /\ waits_left = [r \in Request |-> MaxWaits]
    /\ pc = "check" /\ batch = NoOne
    /\ finishing = None
    /\ flag = FALSE

-----------------------------------------------------------------------------
(* Clients *)

\* Mutant: the request is pushed without having been counted.
count_never(r) ==
    /\ phase[r] = "new"
    /\ phase' = [phase EXCEPT ![r] = "pushing"]
    /\ UNCHANGED <<queue, pending, slots, pool, lists, contexts, pc, batch,
                   finishing, flag>>

\* asynchronous_search/insert_with_callback: pending_request_++ ...
count(r) ==
    /\ phase[r] = "new"
    /\ phase' = [phase EXCEPT ![r] = "pushing"]
    /\ pending' = pending + 1
    /\ UNCHANGED <<queue, slots, pool, lists, contexts, pc, batch, finishing, flag>>

\* Mutant: the push succeeds on a full queue.
push_unbounded(r) ==
    /\ phase[r] = "pushing"
    /\ queue' = Append(queue, r)
    /\ phase' = [phase EXCEPT ![r] = "queued"]
    /\ UNCHANGED <<pending, slots, pool, lists, contexts, pc, batch, finishing, flag>>

\* ... and the push that is tried until it succeeds.
push(r) ==
    /\ phase[r] = "pushing"
    /\ Len(queue) < QueueCapacity
    /\ queue' = Append(queue, r)
    /\ phase' = [phase EXCEPT ![r] = "queued"]
    /\ UNCHANGED <<pending, slots, pool, lists, contexts, pc, batch, finishing, flag>>

\* close(): the owner of the tree calls it when no client will make a request.
close ==
    /\ ~flag
    /\ \A r \in Request : phase[r] # "new"
    /\ flag' = TRUE
    /\ UNCHANGED <<clients, slots, pool, lists, contexts, pc, batch, finishing>>

-----------------------------------------------------------------------------
(* The worker loop *)

At(stage) == pc = stage /\ finishing = None

\* Mutant: the requests in flight are not considered.
terminated_at_once == flag

terminated == flag /\ pending <= 0

check ==
    /\ At("check")
    /\ pc' = IF terminated THEN "exited" ELSE "admission"
    /\ UNCHANGED <<clients, slots, pool, lists, contexts, batch, finishing, flag>>

CanAdmit ==
    Cardinality(admitted) < ProcessGranularity /\ slots > 0 /\ queue # <<>>

\* One iteration of the loop of admission().  The local `free' follows
\* free_context_slots_, which only the worker changes.
admission ==
    LET r == Head(queue) IN
    /\ At("admission") /\ CanAdmit
    /\ queue' = Tail(queue)
    /\ phase' = [phase EXCEPT ![r] = "served"]
    /\ pool' = [pool EXCEPT ![Kind(r)] = @ - 1]
    /\ slots' = slots - 1
    /\ admitted' = admitted \cup {r}
    /\ UNCHANGED <<pending, blk_ready, barrier_ready, contexts, pc, batch,
                   finishing, flag>>

admission_ends ==
    /\ At("admission") /\ ~CanAdmit
    /\ pc' = "new"
    /\ UNCHANGED <<clients, slots, pool, lists, contexts, batch, finishing, flag>>

\* process_ready_contexts, first loop: the list becomes to_be_processed.
\* `processed' does not count here, so that max does not limit it.
process_new_context ==
    /\ At("new")
    /\ batch' = Bag(admitted) /\ admitted' = {} /\ pc' = "run_new"
    /\ UNCHANGED <<clients, slots, pool, blk_ready, barrier_ready, contexts,
                   finishing, flag>>

process_blk_ready_context ==
    /\ At("blk")
    /\ batch' = blk_ready /\ blk_ready' = NoOne /\ pc' = "run_blk"
    /\ UNCHANGED <<clients, slots, pool, admitted, barrier_ready, contexts,
                   finishing, flag>>

process_barrier_ready_context ==
    /\ At("barrier")
    /\ batch' = Bag(barrier_ready) /\ barrier_ready' = {} /\ pc' = "run_barrier"
    /\ UNCHANGED <<clients, slots, pool, admitted, blk_ready, contexts,
                   finishing, flag>>

NextStage ==
    CASE pc = "run_new" -> "blk"
      [] pc = "run_blk" -> "barrier"
      [] pc = "run_barrier" -> "probe"

batch_ends ==
    /\ pc \in {"run_new", "run_blk", "run_barrier"} /\ finishing = None
    /\ batch = NoOne
    /\ pc' = NextStage
    /\ UNCHANGED <<clients, slots, pool, lists, contexts, batch, finishing, flag>>

\* process_completion: the contexts of at most ProbeGranularity completed
\* commands become ready.
probe ==
    /\ At("probe")
    /\ \E got \in [Request -> 0..2] :
          /\ \A r \in Request : got[r] <= completed[r]
          /\ Total(got) = Min({Total(completed), ProbeGranularity})
          /\ completed' = [r \in Request |-> completed[r] - got[r]]
          /\ blk_ready' = [r \in Request |-> blk_ready[r] + got[r]]
    /\ pc' = "check"
    /\ UNCHANGED <<clients, slots, pool, admitted, barrier_ready, io, refused,
                   waits_for, waits_left, batch, finishing, flag>>

\* It is too early to probe, and the worker may sleep instead.
no_probe ==
    /\ At("probe")
    /\ pc' = "check"
    /\ UNCHANGED <<clients, slots, pool, lists, contexts, batch, finishing, flag>>

-----------------------------------------------------------------------------
(* run() of a context *)

Runs(r) == finishing = None /\ batch[r] > 0 /\ pc \in {"run_new", "run_blk", "run_barrier"}

\* The commands that r still waits for when this run() has been told of one.  A
\* refused command is among them: write_back_completion_target_ counts it.
Outstanding(r) == io[r] + completed[r] + blk_ready[r] + refused[r] + batch[r] - 1

Waiting(r) == {q \in Request : waits_for[q] = r}
Active == {r \in Request : phase[r] \in {"served", "answered", "uncounted"}}

\* r is not among those that q waits for, directly or not.
WaitsNotFor(q, r) ==
    LET chain[n \in 0..Cardinality(Request)] ==
            IF n = 0 THEN q
            ELSE IF chain[n - 1] = None THEN None ELSE waits_for[chain[n - 1]]
    IN  \A n \in DOMAIN chain : chain[n] # r

\* remove_read/write_barrier: the contexts of the set F obtain their barrier.
Fire(F) ==
    /\ barrier_ready' = barrier_ready \cup F
    /\ waits_for' = [q \in Request |-> IF q \in F THEN None ELSE waits_for[q]]

\* Another command of the context is outstanding: count this one.
run_counts(r) ==
    /\ Runs(r) /\ Outstanding(r) > 0
    /\ batch' = [batch EXCEPT ![r] = @ - 1]
    /\ UNCHANGED <<clients, slots, pool, lists, contexts, pc, finishing, flag>>

\* asynch_read or asynch_write, n times: a command goes to the device, or the
\* cache has the block and the context is ready at once, or the device library
\* refuses the command, which is printed and reported to nobody.
asynch_command(r, n) ==
    \E submitted, hit \in 0..n :
        LET failed == n - submitted - hit IN
        /\ failed >= 0 /\ Total(refused) + failed <= MaxRefused
        /\ io' = [io EXCEPT ![r] = @ + submitted]
        /\ blk_ready' = [blk_ready EXCEPT ![r] = @ + hit]
        /\ refused' = [refused EXCEPT ![r] = @ + failed]

\* The context has a block read or written; an insertion writes two after a split.
run_submits(r) ==
    /\ Runs(r) /\ Outstanding(r) = 0
    /\ waits_left[r] > 0
    /\ waits_left' = [waits_left EXCEPT ![r] = @ - 1]
    /\ \E n \in IF r \in Insert THEN 1..2 ELSE {1} : asynch_command(r, n)
    /\ \E F \in SUBSET Waiting(r) : Fire(F)
    /\ batch' = [batch EXCEPT ![r] = @ - 1]
    /\ UNCHANGED <<clients, slots, pool, admitted, completed, pc, finishing, flag>>

\* The context has to wait for a barrier.
run_waits(r, q) ==
    /\ Runs(r) /\ Outstanding(r) = 0
    /\ waits_left[r] > 0
    /\ q \in Active /\ WaitsNotFor(q, r)
    /\ waits_left' = [waits_left EXCEPT ![r] = @ - 1]
    /\ \E F \in SUBSET Waiting(r) :
          /\ barrier_ready' = barrier_ready \cup F
          /\ waits_for' = [x \in Request |-> IF x \in F THEN None
                                            ELSE IF x = r THEN q ELSE waits_for[x]]
    /\ batch' = [batch EXCEPT ![r] = @ - 1]
    /\ UNCHANGED <<clients, slots, pool, admitted, blk_ready, io, completed, refused,
                   pc, finishing, flag>>

\* The context is at its end: the result is stored and the callback called.
\* An insertion has released its barriers before.
run_answers(r) ==
    /\ Runs(r) /\ Outstanding(r) = 0
    /\ phase' = [phase EXCEPT ![r] = "answered"]
    /\ finishing' = r
    /\ batch' = [batch EXCEPT ![r] = @ - 1]
    /\ IF r \in Insert THEN Fire(Waiting(r)) ELSE UNCHANGED <<barrier_ready, waits_for>>
    /\ UNCHANGED <<queue, pending, slots, pool, admitted, blk_ready, io, completed,
                   refused, waits_left, pc, flag>>

\* Mutant: the slot is not given back.
run_uncounts_keeps_slot(r) ==
    /\ finishing = r /\ phase[r] = "answered"
    /\ phase' = [phase EXCEPT ![r] = "uncounted"]
    /\ pending' = pending - 1
    /\ UNCHANGED <<queue, slots, pool, lists, contexts, pc, batch, finishing, flag>>

\* pending_request_--; free_context_slots_++
run_uncounts(r) ==
    /\ finishing = r /\ phase[r] = "answered"
    /\ phase' = [phase EXCEPT ![r] = "uncounted"]
    /\ pending' = pending - 1
    /\ slots' = slots + 1
    /\ UNCHANGED <<queue, pool, lists, contexts, pc, batch, finishing, flag>>

\* Mutant: a search forgets its barriers.
run_terminates_silently(r) ==
    /\ finishing = r /\ phase[r] = "uncounted"
    /\ phase' = [phase EXCEPT ![r] = "done"]
    /\ pool' = [pool EXCEPT ![Kind(r)] = @ + 1]
    /\ finishing' = None
    /\ UNCHANGED <<queue, pending, slots, lists, contexts, pc, batch, flag>>

\* A search releases its barriers now.  The semaphore lets the client go, and
\* the context returns to its pool.
run_terminates(r) ==
    /\ finishing = r /\ phase[r] = "uncounted"
    /\ Fire(Waiting(r))
    /\ phase' = [phase EXCEPT ![r] = "done"]
    /\ pool' = [pool EXCEPT ![Kind(r)] = @ + 1]
    /\ finishing' = None
    /\ UNCHANGED <<queue, pending, slots, admitted, blk_ready, io, completed,
                   refused, waits_left, pc, batch, flag>>

run(r) ==
    \/ run_counts(r)
    \/ run_submits(r)
    \/ \E q \in Request \ {r} : run_waits(r, q)
    \/ run_answers(r)
    \/ run_uncounts(r)
    \/ run_terminates(r)

\* The device completes a command.
device_completes(r) ==
    /\ io[r] > 0
    /\ io' = [io EXCEPT ![r] = @ - 1]
    /\ completed' = [completed EXCEPT ![r] = @ + 1]
    /\ UNCHANGED <<clients, slots, pool, lists, refused, waits_for, waits_left, pc,
                   batch, finishing, flag>>

-----------------------------------------------------------------------------
worker ==
    \/ check
    \/ admission
    \/ admission_ends
    \/ process_new_context
    \/ process_blk_ready_context
    \/ process_barrier_ready_context
    \/ batch_ends
    \/ probe
    \/ no_probe
    \/ \E r \in Request : run(r)

\* The worker has been joined and every client has its answer.
stopped ==
    /\ pc = "exited"
    /\ \A r \in Request : phase[r] = "done"
    /\ UNCHANGED vars

Next ==
    \/ \E r \in Request : count(r) \/ push(r) \/ device_completes(r)
    \/ close
    \/ worker
    \/ stopped

Spec == Init /\ [][Next]_vars

\* The threads are scheduled, a command at the device completes, and the worker
\* does not put off the probe for ever: max_probe_delay_cycles forces it.
FairSpec ==
    /\ Spec
    /\ \A r \in Request : WF_vars(push(r)) /\ WF_vars(device_completes(r))
    /\ WF_vars(worker)
    /\ SF_vars(probe)

-----------------------------------------------------------------------------
(* Correctness *)

InPhase(S) == {r \in Request : phase[r] \in S}

\* Every variable stays in its type.
TypeOK ==
    /\ phase \in [Request -> {"new", "pushing", "queued", "served", "answered",
                              "uncounted", "done"}]
    /\ queue \in Seq(Request) /\ Len(queue) <= QueueCapacity
    /\ pending \in 0..Cardinality(Request)
    /\ slots \in 0..QueueLength
    /\ pool \in [{"search", "insert"} -> 0..QueueLength]
    /\ admitted \subseteq Request /\ barrier_ready \subseteq Request
    /\ \A f \in {blk_ready, io, completed, refused, batch} : f \in [Request -> 0..2]
    /\ waits_for \in [Request -> Request \cup {None}]
    /\ waits_left \in [Request -> 0..MaxWaits]
    /\ pc \in Range(Stage) \cup {"exited"}
    /\ finishing \in Request \cup {None}
    /\ flag \in BOOLEAN

\* SlotsMatchPools: free_context_slots_ is what the contexts in use leave over,
\* and when a request is admitted the stack of its kind of context is not empty,
\* as get_free_search_context and get_free_insert_context assert.
SlotsMatchPools ==
    /\ slots + Cardinality(InPhase({"served", "answered"})) = QueueLength
    /\ At("admission") /\ slots > 0 => \A k \in DOMAIN pool : pool[k] > 0

\* SyncMeansAnswered: when sync() finds pending_request_ at 0, every request that
\* was made has its result and its callback has been called.
SyncMeansAnswered == pending <= 0 => InPhase({"pushing", "queued", "served"}) = {}

\* Where the worker, the device or the holder of a barrier gets to the context.
Places(r) ==
    LET commands == io[r] + completed[r] + blk_ready[r]
    IN  {p \in {"admitted", "barrier", "waits", "commands", "batch"} :
            CASE p = "admitted" -> r \in admitted
              [] p = "barrier"  -> r \in barrier_ready
              [] p = "waits"    -> waits_for[r] \in Active
              [] p = "commands" -> commands > 0
              [] p = "batch"    -> batch[r] > 0 /\ commands = 0}

\* ContextNotForgotten: a context that is served is in exactly one place from
\* where the worker gets to it: a list, the batch, the device, or the queue of a
\* barrier that an active context holds.  Only a context with a refused command
\* may be nowhere: asynch_read and asynch_write drop it.  It is at most where its
\* other command is, and never gets to its end.
ContextNotForgotten ==
    \A r \in Request :
        /\ phase[r] = "served" /\ refused[r] = 0 => Cardinality(Places(r)) = 1
        /\ refused[r] > 0 => phase[r] = "served" /\ Places(r) \subseteq {"commands", "batch"}
        /\ phase[r] # "served" => Places(r) = {}

\* ExitIsClean: the worker leaves its loop only when every request is answered
\* and every context is back in its pool, with nothing at the device.
ExitIsClean ==
    pc = "exited" =>
        /\ InPhase({"done"}) = Request
        /\ slots = QueueLength /\ \A k \in DOMAIN pool : pool[k] = QueueLength
        /\ io = NoOne /\ completed = NoOne /\ blk_ready = NoOne

\* The contexts with a refused command, and those that wait for a barrier of one
\* of them, directly or not.
Stuck == {r \in Request : \E q \in Request : refused[q] > 0 /\ ~WaitsNotFor(r, q)}

\* RequestsReturn: a client that makes a request gets its answer, although it may
\* have to wait for room in the queue and for a context.  A refused command costs
\* the answers of its own request and of those that wait for its barriers; the
\* others are still served, until such requests have taken every context.
RequestsReturn ==
    \A r \in Request :
        phase[r] = "pushing" ~>
            phase[r] = "done" \/ r \in Stuck \/ Cardinality(Stuck) = QueueLength

\* CloseReturns: close() joins the worker, unless a command was refused:
\* pending_request_ then never comes down to 0.
CloseReturns == flag ~> pc = "exited" \/ Stuck # {}

=============================================================================
