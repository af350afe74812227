--------------------------- MODULE ContextBarrier ---------------------------
(***************************************************************************)
(* One context_barrier object (context/context_barrier.h): the read/write  *)
(* barrier of one tree block.  The operators map the state of the object   *)
(* before a method to its state after it; the modules that own barriers    *)
(* (BarrierManager, PullTree) apply them inside their actions.             *)
(*                                                                         *)
(* A barrier is a record                                                   *)
(*   read   read_barriers, the number of granted read barriers             *)
(*   write  write_barriers, the number of granted write barriers           *)
(*   queue  pending_barrier_requests, first in first out                   *)
(***************************************************************************)
EXTENDS Integers, Sequences

READ  == "read"
WRITE == "write"
BarrierType == {READ, WRITE}

\* pending_barrier_request: who waits, and for which kind of barrier.
Request(Context) == [context : Context, type : BarrierType]

Barrier(Context) ==
    [read : Nat, write : Nat, queue : Seq(Request(Context))]

\* The barrier that get_or_create_barrier creates for a block.
NewBarrier == [read |-> 0, write |-> 0, queue |-> <<>>]

is_clear(b) == b.write = 0 /\ b.read = 0

\* Mutant: the write test forgets the readers.
Grantable_ignores_readers(b, type) == b.write = 0

\* The tests of grant_read_barrier_request and grant_write_barrier_request,
\* which offer_barrier makes as well.  A read request is not held back by
\* requests that are already queued.
Grantable(b, type) ==
    /\ b.write = 0
    /\ type = WRITE => b.read = 0

\* read_barriers++ or write_barriers++, k times.
Count(b, type, k) ==
    IF type = READ THEN [b EXCEPT !.read = @ + k]
                   ELSE [b EXCEPT !.write = @ + k]

\* Mutant: a new request goes before the ones that wait.
set_barrier_front(b, c, type) ==
    IF Grantable(b, type)
    THEN Count(b, type, 1)
    ELSE [b EXCEPT !.queue = <<[context |-> c, type |-> type]>> \o @]

\* set_read_barrier / set_write_barrier: count the barrier, or queue behind.
set_barrier(b, c, type) ==
    IF Grantable(b, type)
    THEN Count(b, type, 1)
    ELSE [b EXCEPT !.queue = Append(@, [context |-> c, type |-> type])]

-----------------------------------------------------------------------------
(***************************************************************************)
(* offer_barrier pops requests from the front of the queue as long as the  *)
(* front one is grantable.  Granting a WRITE makes every further request   *)
(* ungrantable, and granting a READ makes every WRITE ungrantable, so the  *)
(* loop serves either one WRITE or the longest prefix of READs.            *)
(***************************************************************************)
ReadPrefix(q) ==
    CHOOSE k \in 0..Len(q) :
        /\ \A i \in 1..k : q[i].type = READ
        /\ k < Len(q) => q[k + 1].type = WRITE

\* Mutants: the loop ends after one grant (the break that the code has
\* commented out), or never offers a write barrier.
Offered_breaks(b) ==
    IF b.queue = <<>> \/ ~Grantable(b, b.queue[1].type) THEN 0 ELSE 1
Offered_reads_only(b) ==
    IF b.queue = <<>> \/ ~Grantable(b, b.queue[1].type) THEN 0
    ELSE ReadPrefix(b.queue)

\* The number of requests that one call of offer_barrier serves.
Offered(b) ==
    IF b.queue = <<>> \/ ~Grantable(b, b.queue[1].type) THEN 0
    ELSE IF b.queue[1].type = WRITE THEN 1
    ELSE ReadPrefix(b.queue)

\* The contexts that offer_barrier hands to fire_context.
Fired(b) == {b.queue[i].context : i \in 1..Offered(b)}

\* The kind of barrier they obtain.
FiredType(b) == b.queue[1].type

\* Mutants: one count for all granted requests, a second pop.
offer_barrier_counts_once(b) ==
    IF Offered(b) = 0 THEN b
    ELSE [Count(b, FiredType(b), 1) EXCEPT
              !.queue = SubSeq(@, Offered(b) + 1, Len(@))]
offer_barrier_pops_twice(b) ==
    IF Offered(b) = 0 THEN b
    ELSE [Count(b, FiredType(b), Offered(b)) EXCEPT
              !.queue = SubSeq(@, Offered(b) + 2, Len(@))]

offer_barrier(b) ==
    IF Offered(b) = 0 THEN b
    ELSE [Count(b, FiredType(b), Offered(b)) EXCEPT
              !.queue = SubSeq(@, Offered(b) + 1, Len(@))]

\* Mutant: the other counter is decremented.
Removed_swapped(b, type) == Count(b, IF type = READ THEN WRITE ELSE READ, -1)

\* The decrement that opens remove_read_barrier / remove_write_barrier; the
\* rest of both methods is offer_barrier.
Removed(b, type) == Count(b, type, -1)

remove_barrier(b, type) == offer_barrier(Removed(b, type))

=============================================================================
