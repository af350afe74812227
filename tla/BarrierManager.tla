--------------------------- MODULE BarrierManager ---------------------------
(***************************************************************************)
(* The barrier_manager (context/barrier_manager.h): one context_barrier    *)
(* per block, and the contexts that obtain, wait for and give back         *)
(* barriers.  Every method runs on the worker thread of the tree and is    *)
(* atomic.                                                                 *)
(*                                                                         *)
(* The clients are any contexts that                                       *)
(*   - ask for a block below every block they hold, as the descent of      *)
(*     insert_context and search_context does (a block is asked for by     *)
(*     address; smaller numbers stand for higher blocks),                  *)
(*   - return from run() when a request is queued, and run again only when *)
(*     the scheduler takes them from the ready contexts,                   *)
(*   - give back only tokens they hold.                                    *)
(***************************************************************************)
EXTENDS ContextBarrier, FiniteSets

CONSTANTS Context,  \* the insert and search contexts
          Node,     \* the addresses of the blocks
          Modes     \* the kinds of barrier the clients ask for

ASSUME ContextFinite == IsFiniteSet(Context)
ASSUME NodeIsAddress == Node \subseteq Int
ASSUME ModesAreTypes == Modes \subseteq BarrierType

VARIABLES
    barrier,   \* barrier_map_: the context_barrier of each block
    held,      \* obtained_barriers_: the type of the token on each block, or NONE
    status     \* what the context does: "running", "waiting" in a queue, or
               \* "ready" in ready_contexts_

vars == <<barrier, held, status>>

NONE == "none"

TypeOK ==
    /\ barrier \in [Node -> Barrier(Context)]
    /\ held \in [Context -> [Node -> BarrierType \cup {NONE}]]
    /\ status \in [Context -> {"running", "waiting", "ready"}]

Init ==
    /\ barrier = [n \in Node |-> NewBarrier]
    /\ held = [c \in Context |-> [n \in Node |-> NONE]]
    /\ status = [c \in Context |-> "running"]

-----------------------------------------------------------------------------
\* request_read_barrier / request_write_barrier: the token is added at once,
\* or the request is queued and the context returns to the scheduler.
request_barrier(c, n, type) ==
    /\ status[c] = "running"
    /\ \A m \in Node : held[c][m] # NONE => m < n
    /\ barrier' = [barrier EXCEPT ![n] = set_barrier(barrier[n], c, type)]
    /\ IF Grantable(barrier[n], type)
       THEN held' = [held EXCEPT ![c][n] = type] /\ UNCHANGED status
       ELSE status' = [status EXCEPT ![c] = "waiting"] /\ UNCHANGED held

\* remove_read_barrier / remove_write_barrier: c drops its token on n, and
\* offer_barrier fires the contexts that the barrier can now serve.
remove_token(c, n) ==
    LET b == Removed(barrier[n], held[c][n]) IN
    /\ status[c] = "running"
    /\ held[c][n] # NONE
    /\ barrier' = [barrier EXCEPT ![n] = offer_barrier(b)]
    /\ held' = [d \in Context |->
                  IF d \in Fired(b) THEN [held[d] EXCEPT ![n] = FiredType(b)]
                  ELSE IF d = c THEN [held[d] EXCEPT ![n] = NONE]
                  ELSE held[d]]
    /\ status' = [d \in Context |->
                    IF d \in Fired(b) THEN "ready" ELSE status[d]]

\* The scheduler takes a fired context from ready_contexts_ and runs it.
run_ready(c) ==
    /\ status[c] = "ready"
    /\ status' = [status EXCEPT ![c] = "running"]
    /\ UNCHANGED <<barrier, held>>

Next ==
    \E c \in Context :
        \/ \E n \in Node, type \in Modes : request_barrier(c, n, type)
        \/ \E n \in Node : remove_token(c, n)
        \/ run_ready(c)

Spec == Init /\ [][Next]_vars

\* The worker loop takes every ready context in each round, and every context
\* gives back each token it holds before it terminates, whatever waits its
\* descent meets in between.
FairSpec ==
    /\ Spec
    /\ \A c \in Context : WF_vars(run_ready(c))
    /\ \A c \in Context, n \in Node : SF_vars(remove_token(c, n))

-----------------------------------------------------------------------------
Holders(n, type) == {c \in Context : held[c][n] = type}

Queued(c, n, type) ==
    \E i \in 1..Len(barrier[n].queue) :
        barrier[n].queue[i] = [context |-> c, type |-> type]

\* Exclusion: a block with a write token has no other token.  This is what
\* the tree relies on when it reads and rewrites a block over several I/Os.
Exclusion ==
    \A n \in Node, c, d \in Context :
        held[c][n] = WRITE /\ held[d][n] # NONE => c = d

\* Accounting: the two counters of a context_barrier are the numbers of the
\* tokens that the contexts really hold, although the counters and the token
\* lists live in different objects.
Accounting ==
    \A n \in Node :
        /\ barrier[n].read = Cardinality(Holders(n, READ))
        /\ barrier[n].write = Cardinality(Holders(n, WRITE))

\* NoLostWakeup: a request stays queued only while the barrier cannot serve
\* it: offer_barrier runs at every point where the front request could have
\* become grantable.
NoLostWakeup ==
    \A n \in Node :
        barrier[n].queue # <<>> =>
            ~Grantable(barrier[n], barrier[n].queue[1].type)

\* A queued context waits, and is queued in one place only.
QueuedOnce ==
    /\ \A n \in Node : \A i \in 1..Len(barrier[n].queue) :
          status[barrier[n].queue[i].context] = "waiting"
    /\ \A m, n \in Node :
          \A i \in 1..Len(barrier[m].queue), j \in 1..Len(barrier[n].queue) :
             barrier[m].queue[i].context = barrier[n].queue[j].context
                => m = n /\ i = j

\* No context waits for nothing.
WaitingIsQueued ==
    \A c \in Context : status[c] = "waiting" =>
        \E n \in Node, type \in BarrierType : Queued(c, n, type)

\* QueuesMatchStatus: a waiting context sits at exactly one place of one queue,
\* and a context that is not waiting is in none, so fire_context never adds a
\* second token or runs a context that is in the middle of something else, and
\* nobody waits to be fired by a barrier that does not know it.
QueuesMatchStatus == QueuedOnce /\ WaitingIsQueued

\* WritersKeepOrder: a write barrier is obtained at once only when nobody is
\* queued on the block; only readers overtake (set_read_barrier looks at
\* write_barriers alone).
WritersKeepOrder ==
    [][\A c \in Context, n \in Node :
          (held[c][n] = NONE /\ held'[c][n] = WRITE /\ status[c] = "running")
             => barrier[n].queue = <<>>]_vars

\* A context obtains a read barrier although requests are queued on the block.
Overtakes(n) ==
    /\ barrier[n].queue # <<>>
    /\ \E c \in Context :
          status[c] = "running" /\ held[c][n] = NONE /\ held'[c][n] = READ

\* Every queued write request is served in the end.
WriteRequestServed ==
    \A c \in Context, n \in Node :
        Queued(c, n, WRITE) ~> held[c][n] = WRITE

\* ServedUnlessOvertaken: a queued write request is served in the end, whatever
\* its context and the contexts before it hold on other blocks, unless contexts
\* that come later overtake it with read barriers for ever.
ServedUnlessOvertaken ==
    (\A n \in Node : <>[][~Overtakes(n)]_vars) => WriteRequestServed

=============================================================================
