-------------------------- MODULE SchedulerProofs ---------------------------
(***************************************************************************)
(* Proofs about Scheduler for every finite set of requests and every value *)
(* of the limits.                                                          *)
(*                                                                         *)
(* The worker keeps four counts (pending_request_, free_context_slots_ and *)
(* the sizes of the two pools) and no count is read together with what it  *)
(* counts.  The inductive invariant says what each of them counts, and     *)
(* that a context is in exactly one of the places from which the worker    *)
(* gets to it.  The pools can only be shown never to run dry because a     *)
(* context is finishing at most once and never during admission().         *)
(***************************************************************************)
EXTENDS Scheduler, FiniteSetTheorems, TLAPS

\* Steps that name no prover are left to Zenon; SMTT marks what needs the SMT solver.
USE ZenonT(20)

Running == {"run_new", "run_blk", "run_barrier"}

\* The phases in which pending_request_ counts a request, and those in which the
\* request occupies a slot or a context.
Counted == {"pushing", "queued", "served", "answered"}
Serving == {"served", "answered"}
Used    == {"served", "answered", "uncounted"}

\* pending_request_ and free_context_slots_ count what they should.
CountsRight ==
    /\ pending = Cardinality(InPhase(Counted))
    /\ slots + Cardinality(InPhase(Serving)) = QueueLength

\* The contexts in use of one kind.
InUse(k) == {r \in Active : Kind(r) = k}

\* The pools hold the contexts that are not in use.
PoolsRight ==
    \A k \in {"search", "insert"} : pool[k] + Cardinality(InUse(k)) = QueueLength

\* The queue holds the requests in phase "queued", each of them once.
QueueRight ==
    /\ \A i, j \in 1..Len(queue) : queue[i] = queue[j] => i = j
    /\ \A r \in Request : phase[r] = "queued" <=> \E i \in 1..Len(queue) : queue[i] = r

\* The worker finishes one context at a time, and does so while it runs a batch.
FinishingRight ==
    /\ \A r \in Request : phase[r] \in {"answered", "uncounted"} <=> finishing = r
    /\ finishing # None => pc \in Running

\* The commands that r waits for, the refused ones included, and the entries of
\* the batch that report them.
Commands(r) == io[r] + completed[r] + blk_ready[r] + refused[r] + batch[r]

\* The four states of a served context.
Listed(r)      == r \in admitted
Granted(r)     == r \in barrier_ready
Waits(r)       == waits_for[r] # None
HasCommands(r) == Commands(r) > 0

\* A context is in one of the states while it is served, and otherwise in none.
\* The context whose commands are all refused has commands, too: it waits for
\* them in no list.
OnePlace ==
    \A r \in Request :
        /\ phase[r] = "served" => Listed(r) \/ Granted(r) \/ Waits(r) \/ HasCommands(r)
        /\ phase[r] # "served" => ~Listed(r) /\ ~Granted(r) /\ ~Waits(r) /\ ~HasCommands(r)
        /\ Listed(r) => ~Granted(r) /\ ~Waits(r) /\ ~HasCommands(r)
        /\ Granted(r) => ~Waits(r) /\ ~HasCommands(r)
        /\ Waits(r) => ~HasCommands(r) /\ waits_for[r] \in Active
        /\ Commands(r) <= 2

\* There is a batch only while the worker runs it.
BatchRight == pc \notin Running => batch = NoOne

\* close() is called when every request is made, and the worker leaves its loop
\* when none is pending.
ExitRight ==
    /\ flag => \A r \in Request : phase[r] # "new"
    /\ pc = "exited" => flag /\ pending = 0

\* The inductive invariant.
IInv ==
    /\ TypeOK
    /\ CountsRight
    /\ PoolsRight
    /\ QueueRight
    /\ FinishingRight
    /\ OnePlace
    /\ BatchRight
    /\ ExitRight

-----------------------------------------------------------------------------
(* Counting *)

\* A set of requests has a cardinality, and one request more or less changes it
\* by one.
LEMMA RequestsCount ==
  ASSUME NEW S \in SUBSET Request
  PROVE  /\ Cardinality(S) \in Nat /\ Cardinality(S) <= Cardinality(Request)
         /\ Cardinality(Request) \in Nat
         /\ Cardinality(S) = 0 <=> S = {}
         /\ \A r \in S : Cardinality(S \ {r}) = Cardinality(S) - 1
         /\ \A r \in Request \ S : Cardinality(S \cup {r}) = Cardinality(S) + 1
<1>1. IsFiniteSet(Request)
  BY SchedulerAssumption
<1>2. IsFiniteSet(S) /\ Cardinality(S) <= Cardinality(Request)
  BY <1>1, FS_Subset
<1>3. Cardinality(S) \in Nat /\ Cardinality(Request) \in Nat
  BY <1>1, <1>2, FS_CardinalityType
<1>4. Cardinality(S) = 0 <=> S = {}
  BY <1>2, FS_EmptySet
<1>5. \A r \in S : Cardinality(S \ {r}) = Cardinality(S) - 1
  BY <1>2, FS_RemoveElement
<1>6. \A r \in Request \ S : Cardinality(S \cup {r}) = Cardinality(S) + 1
  BY <1>2, FS_AddElement
<1> QED BY <1>2, <1>3, <1>4, <1>5, <1>6

\* How a count of phases follows the phase of one request.
LEMMA PhaseMoves ==
  ASSUME TypeOK, NEW r \in Request, NEW CONSTANT p, NEW CONSTANT S,
         phase' = [phase EXCEPT ![r] = p]
  PROVE  /\ (phase[r] \in S <=> p \in S) => InPhase(S)' = InPhase(S)
         /\ phase[r] \in S /\ p \notin S =>
               Cardinality(InPhase(S)') = Cardinality(InPhase(S)) - 1
         /\ phase[r] \notin S /\ p \in S =>
               Cardinality(InPhase(S)') = Cardinality(InPhase(S)) + 1
<1>1. phase'[r] = p /\ \A q \in Request \ {r} : phase'[q] = phase[q]
  BY DEF TypeOK
<1>2. InPhase(S) \in SUBSET Request /\ InPhase(S)' \in SUBSET Request
  BY DEF InPhase
<1>3. ASSUME phase[r] \in S <=> p \in S
      PROVE  InPhase(S)' = InPhase(S)
  BY <1>1, <1>3 DEF InPhase
<1>4. ASSUME phase[r] \in S, p \notin S
      PROVE  Cardinality(InPhase(S)') = Cardinality(InPhase(S)) - 1
  <2>1. InPhase(S)' = InPhase(S) \ {r} /\ r \in InPhase(S)
    BY <1>1, <1>4 DEF InPhase
  <2> QED BY <1>2, <2>1, RequestsCount
<1>5. ASSUME phase[r] \notin S, p \in S
      PROVE  Cardinality(InPhase(S)') = Cardinality(InPhase(S)) + 1
  <2>1. InPhase(S)' = InPhase(S) \cup {r} /\ r \notin InPhase(S)
    BY <1>1, <1>5 DEF InPhase
  <2> QED BY <1>2, <2>1, RequestsCount
<1> QED BY <1>3, <1>4, <1>5

\* The counts of contexts in use follow the phase of one request.
LEMMA UseMoves ==
  ASSUME TypeOK, NEW r \in Request, NEW CONSTANT p,
         phase' = [phase EXCEPT ![r] = p]
  PROVE  /\ (phase[r] \in Used <=> p \in Used) =>
               Active' = Active /\ \A k : InUse(k)' = InUse(k)
         /\ phase[r] \in Used /\ p \notin Used =>
               /\ Active' = Active \ {r}
               /\ Cardinality(InUse(Kind(r))') = Cardinality(InUse(Kind(r))) - 1
               /\ \A k : k # Kind(r) => InUse(k)' = InUse(k)
         /\ phase[r] \notin Used /\ p \in Used =>
               /\ Active' = Active \cup {r}
               /\ Cardinality(InUse(Kind(r))') = Cardinality(InUse(Kind(r))) + 1
               /\ \A k : k # Kind(r) => InUse(k)' = InUse(k)
<1>1. phase'[r] = p /\ \A q \in Request \ {r} : phase'[q] = phase[q]
  BY DEF TypeOK
<1>2. \A k : InUse(k) \in SUBSET Request /\ InUse(k)' \in SUBSET Request
  BY DEF InUse, Active
<1>3. ASSUME phase[r] \in Used <=> p \in Used
      PROVE  Active' = Active /\ \A k : InUse(k)' = InUse(k)
  BY <1>1, <1>3 DEF InUse, Active, Used
<1>4. ASSUME phase[r] \in Used, p \notin Used
      PROVE  /\ Active' = Active \ {r}
             /\ Cardinality(InUse(Kind(r))') = Cardinality(InUse(Kind(r))) - 1
             /\ \A k : k # Kind(r) => InUse(k)' = InUse(k)
  <2>1. Active' = Active \ {r} /\ r \in Active
    BY <1>1, <1>4 DEF Active, Used
  <2>2. InUse(Kind(r))' = InUse(Kind(r)) \ {r} /\ r \in InUse(Kind(r))
    BY <2>1 DEF InUse
  <2>3. \A k : k # Kind(r) => InUse(k)' = InUse(k)
    BY <2>1 DEF InUse
  <2> QED BY <1>2, <2>1, <2>2, <2>3, RequestsCount
<1>5. ASSUME phase[r] \notin Used, p \in Used
      PROVE  /\ Active' = Active \cup {r}
             /\ Cardinality(InUse(Kind(r))') = Cardinality(InUse(Kind(r))) + 1
             /\ \A k : k # Kind(r) => InUse(k)' = InUse(k)
  <2>1. Active' = Active \cup {r} /\ r \notin Active
    BY <1>1, <1>5 DEF Active, Used
  <2>2. InUse(Kind(r))' = InUse(Kind(r)) \cup {r} /\ r \notin InUse(Kind(r))
    BY <2>1 DEF InUse
  <2>3. \A k : k # Kind(r) => InUse(k)' = InUse(k)
    BY <2>1 DEF InUse
  <2> QED BY <1>2, <2>1, <2>2, <2>3, RequestsCount
<1> QED BY <1>3, <1>4, <1>5

-----------------------------------------------------------------------------
(* The inductive invariant *)

\* What the assumptions say of the limits.
LEMMA Limits ==
  /\ QueueLength \in Nat /\ QueueLength > 0 /\ QueueCapacity \in Nat /\ QueueCapacity > 0
  /\ MaxWaits \in Nat /\ None \notin Request
BY SMTT(30), SchedulerAssumption

\* The names of the places of the worker.
LEMMA StageNames ==
  Range(Stage) = {"check", "admission", "new", "run_new", "blk", "run_blk",
                  "barrier", "run_barrier", "probe"}
<1>1. /\ DOMAIN Stage = 1..9
      /\ Stage[1] = "check" /\ Stage[2] = "admission" /\ Stage[3] = "new"
      /\ Stage[4] = "run_new" /\ Stage[5] = "blk" /\ Stage[6] = "run_blk"
      /\ Stage[7] = "barrier" /\ Stage[8] = "run_barrier" /\ Stage[9] = "probe"
  BY SMTT(30) DEF Stage
<1>2. \A i \in 1..9 : i \in {1, 2, 3, 4, 5, 6, 7, 8, 9}
  BY SMTT(30)
<1> QED BY SMTT(30), <1>1, <1>2 DEF Range

\* The invariant holds when the tree has been initialized.
LEMMA InitIInv == Init => IInv
<1> SUFFICES ASSUME Init PROVE IInv
  OBVIOUS
<1>1. <<>> \in Seq(Request) /\ Len(<<>>) = 0
  BY SMTT(30)
<1>2. Cardinality(Request) \in Nat
  BY RequestsCount
<1>3. "check" \in Range(Stage)
  BY StageNames
<1>4. TypeOK
  <2>1. /\ NoOne \in [Request -> 0..2]
        /\ blk_ready = NoOne /\ io = NoOne /\ completed = NoOne
        /\ refused = NoOne /\ batch = NoOne
    BY SMTT(30) DEF Init, NoOne
  <2>2. /\ phase \in [Request -> {"new", "pushing", "queued", "served", "answered",
                                  "uncounted", "done"}]
        /\ pool \in [{"search", "insert"} -> 0..QueueLength]
        /\ waits_for \in [Request -> Request \cup {None}]
        /\ waits_left \in [Request -> 0..MaxWaits]
    BY SMTT(30), Limits DEF Init
  <2>3. queue \in Seq(Request) /\ Len(queue) <= QueueCapacity
    BY SMTT(30), <1>1, Limits DEF Init
  <2>4. pending \in 0..Cardinality(Request) /\ slots \in 0..QueueLength
    BY SMTT(30), <1>2, Limits DEF Init
  <2>5. /\ admitted \subseteq Request /\ barrier_ready \subseteq Request
        /\ pc \in Range(Stage) /\ finishing \in Request \cup {None} /\ flag \in BOOLEAN
    BY <1>3 DEF Init
  <2> QED BY <2>1, <2>2, <2>3, <2>4, <2>5 DEF TypeOK
<1>5. CountsRight
  <2>1. InPhase(Counted) = {} /\ InPhase(Serving) = {}
    BY DEF Init, InPhase, Counted, Serving
  <2> QED BY SMTT(30), <2>1, FS_EmptySet, Limits DEF Init, CountsRight
<1>6. PoolsRight
  <2>1. \A k \in {"search", "insert"} : InUse(k) = {} /\ pool[k] = QueueLength
    BY DEF Init, InUse, Active
  <2> QED BY SMTT(30), <2>1, FS_EmptySet, Limits DEF PoolsRight
<1>7. QueueRight /\ FinishingRight /\ BatchRight /\ ExitRight
  BY SMTT(30), <1>1, Limits DEF Init, QueueRight, FinishingRight, BatchRight, ExitRight, Running
<1>8. OnePlace
  BY SMTT(30) DEF Init, OnePlace, NoOne, Listed, Granted, Waits, HasCommands, Commands
<1> QED BY <1>4, <1>5, <1>6, <1>7, <1>8 DEF IInv

\* A request that is counted.
LEMMA CountKeepsIInv ==
  ASSUME IInv, NEW r \in Request, count(r)
  PROVE  IInv'
<1> USE DEF IInv
<1>1. /\ phase' = [phase EXCEPT ![r] = "pushing"] /\ phase[r] = "new"
      /\ pending' = pending + 1
      /\ UNCHANGED <<queue, slots, pool, admitted, blk_ready, barrier_ready, io, completed,
                     refused, waits_for, waits_left, pc, batch, finishing, flag>>
  BY DEF count, lists, contexts
<1>2. phase'[r] = "pushing" /\ \A q \in Request \ {r} : phase'[q] = phase[q]
  BY <1>1 DEF TypeOK
<1>3. /\ Cardinality(InPhase(Counted)')
           = Cardinality(InPhase(Counted)) + 1
      /\ InPhase(Serving)' = InPhase(Serving)
      /\ Active' = Active /\ \A k : InUse(k)' = InUse(k)
  <2>1. \A p \in {"new", "pushing", "queued", "served", "answered"} :
          /\ p \in Counted <=> p # "new"
          /\ p \in Serving <=> p \in {"served", "answered"}
          /\ p \in Used <=> p \in {"served", "answered"}
    BY DEF Counted, Serving, Used
  <2> QED BY <1>1, <2>1, PhaseMoves, UseMoves
<1>4. CountsRight'
  BY <1>1, <1>3 DEF CountsRight
<1>5. TypeOK'
  <2>1. InPhase(Counted)' \in SUBSET Request
    BY DEF InPhase
  <2>2. pending' \in 0..Cardinality(Request)
    BY SMTT(30), <1>4, <2>1, RequestsCount DEF CountsRight
  <2> QED BY <1>1, <2>2 DEF TypeOK
<1>6. PoolsRight'
  BY <1>1, <1>3 DEF PoolsRight
<1>7. QueueRight' /\ FinishingRight' /\ BatchRight'
  BY SMTT(30), <1>1, <1>2 DEF QueueRight, FinishingRight, BatchRight
<1>8. OnePlace'
  BY <1>1, <1>2, <1>3
     DEF OnePlace, Listed, Granted, Waits, HasCommands, Commands
<1>9. ExitRight'
  BY <1>1, <1>2 DEF ExitRight
<1> QED BY <1>4, <1>5, <1>6, <1>7, <1>8, <1>9

\* A request that gets into the queue.
LEMMA PushKeepsIInv ==
  ASSUME IInv, NEW r \in Request, push(r)
  PROVE  IInv'
<1> USE DEF IInv
<1>1. /\ phase' = [phase EXCEPT ![r] = "queued"] /\ phase[r] = "pushing"
      /\ Len(queue) < QueueCapacity /\ queue' = Append(queue, r)
      /\ UNCHANGED <<pending, slots, pool, admitted, blk_ready, barrier_ready, io, completed,
                     refused, waits_for, waits_left, pc, batch, finishing, flag>>
  BY DEF push, lists, contexts
<1>2. phase'[r] = "queued" /\ \A q \in Request \ {r} : phase'[q] = phase[q]
  BY <1>1 DEF TypeOK
<1>3. /\ InPhase(Counted)'
           = InPhase(Counted)
      /\ InPhase(Serving)' = InPhase(Serving)
      /\ Active' = Active /\ \A k : InUse(k)' = InUse(k)
  <2>1. \A p \in {"new", "pushing", "queued", "served", "answered"} :
          /\ p \in Counted <=> p # "new"
          /\ p \in Serving <=> p \in {"served", "answered"}
          /\ p \in Used <=> p \in {"served", "answered"}
    BY DEF Counted, Serving, Used
  <2> QED BY <1>1, <2>1, PhaseMoves, UseMoves
<1>4. /\ queue' \in Seq(Request) /\ Len(queue) \in Nat /\ Len(queue') = Len(queue) + 1
      /\ \A i \in 1..Len(queue) : queue'[i] = queue[i]
      /\ queue'[Len(queue) + 1] = r
  BY SMTT(30), <1>1 DEF TypeOK
<1>5. TypeOK'
  BY SMTT(30), <1>1, <1>4, Limits DEF TypeOK
<1>6. CountsRight' /\ PoolsRight'
  BY <1>1, <1>3 DEF CountsRight, PoolsRight
<1>7. QueueRight'
  <2>1. \A i \in 1..Len(queue) : queue[i] # r
    BY <1>1 DEF QueueRight
  <2>2. \A i, j \in 1..Len(queue') : queue'[i] = queue'[j] => i = j
    BY SMTT(30), <1>4, <2>1 DEF QueueRight
  <2>3. ASSUME NEW q \in Request
        PROVE  phase'[q] = "queued" <=> \E i \in 1..Len(queue') : queue'[i] = q
    <3>1. CASE q = r
      BY SMTT(30), <1>2, <1>4, <3>1
    <3>2. CASE q # r
      BY SMTT(30), <1>2, <1>4, <3>2 DEF QueueRight
    <3> QED BY <3>1, <3>2
  <2> QED BY <2>2, <2>3 DEF QueueRight
<1>8. FinishingRight' /\ BatchRight' /\ ExitRight'
  BY <1>1, <1>2 DEF FinishingRight, BatchRight, ExitRight
<1>9. OnePlace'
  BY <1>1, <1>2, <1>3
     DEF OnePlace, Listed, Granted, Waits, HasCommands, Commands
<1> QED BY <1>5, <1>6, <1>7, <1>8, <1>9

\* close(), and the steps that only move the worker to another place.
LEMMA MoveKeepsIInv ==
  ASSUME IInv, close \/ check \/ admission_ends \/ batch_ends \/ no_probe
  PROVE  IInv'
<1> USE DEF IInv
<1>1. /\ UNCHANGED <<phase, queue, pending, slots, pool, admitted, blk_ready, barrier_ready,
                     io, completed, refused, waits_for, waits_left, batch, finishing>>
  BY DEF close, check, admission_ends, batch_ends, no_probe, clients, lists, contexts
<1>2. \/ /\ flag' = TRUE /\ pc' = pc /\ \A r \in Request : phase[r] # "new"
      \/ /\ flag' = flag /\ finishing = None
         /\ \/ pc' = "exited" /\ terminated /\ pc = "check"
            \/ pc' = "admission" /\ pc = "check"
            \/ pc' = "new" /\ pc = "admission"
            \/ pc' \in {"blk", "barrier", "probe"} /\ batch = NoOne
            \/ pc' = "check" /\ pc = "probe"
  BY DEF close, check, admission_ends, batch_ends, no_probe, At, NextStage
<1>3. CountsRight' /\ PoolsRight' /\ QueueRight'
  BY SMTT(30), <1>1 DEF CountsRight, PoolsRight, QueueRight, InPhase, InUse, Active
<1>4. OnePlace'
  BY <1>1 DEF OnePlace, Listed, Granted, Waits, HasCommands, Commands, Active
<1>5. TypeOK'
  BY <1>1, <1>2, StageNames DEF TypeOK
<1>6. FinishingRight'
  BY <1>1, <1>2 DEF FinishingRight
<1>7. BatchRight'
  <2>1. NoOne' = NoOne
    BY DEF NoOne
  <2>2. batch = NoOne \/ pc' = pc
    BY <1>2 DEF BatchRight, Running
  <2> QED BY <1>1, <2>1, <2>2 DEF BatchRight
<1>8. ExitRight'
  BY SMTT(30), <1>1, <1>2 DEF ExitRight, terminated, TypeOK
<1> QED BY <1>3, <1>4, <1>5, <1>6, <1>7, <1>8

\* A context that is taken from its pool: while no context is finishing, the
\* contexts in use are those that the slots count.
LEMMA PoolsSuffice ==
  ASSUME IInv, finishing = None, slots > 0, NEW k \in {"search", "insert"}
  PROVE  pool[k] > 0 /\ pool[k] - 1 \in 0..QueueLength
<1>1. InUse(k) \subseteq InPhase(Serving)
  <2>1. \A r \in Request : phase[r] # "uncounted"
    BY Limits DEF IInv, FinishingRight
  <2> QED BY <2>1 DEF InUse, Active, InPhase, Serving
<1>2. InPhase(Serving) \in SUBSET Request /\ InUse(k) \in SUBSET Request
  BY DEF InPhase, InUse, Active
<1>3. IsFiniteSet(InPhase(Serving))
  BY <1>2, SchedulerAssumption, FS_Subset
<1>4. Cardinality(InUse(k)) <= Cardinality(InPhase(Serving))
  BY <1>1, <1>3, FS_Subset
<1>5. Cardinality(InUse(k)) \in Nat /\ Cardinality(InPhase(Serving)) \in Nat
  BY <1>2, RequestsCount
<1>6. /\ slots + Cardinality(InPhase(Serving)) = QueueLength
      /\ pool[k] + Cardinality(InUse(k)) = QueueLength
      /\ slots \in Nat /\ pool[k] \in 0..QueueLength
  BY SMTT(30), Limits DEF IInv, CountsRight, PoolsRight, TypeOK
<1> QED BY SMTT(30), <1>4, <1>5, <1>6, Limits

\* One iteration of admission().
LEMMA AdmissionKeepsIInv ==
  ASSUME IInv, admission
  PROVE  IInv'
<1> USE DEF IInv
<1>0. queue \in Seq(Request) /\ queue # <<>> /\ Head(queue) \in Request
  <2>1. queue \in Seq(Request) /\ queue # <<>>
    BY DEF admission, CanAdmit, TypeOK
  <2> QED BY SMTT(30), <2>1
<1>r. PICK r \in Request : r = Head(queue)
  BY <1>0
<1>1. /\ At("admission") /\ CanAdmit
      /\ queue' = Tail(queue)
      /\ phase' = [phase EXCEPT ![r] = "served"]
      /\ pool' = [pool EXCEPT ![Kind(r)] = pool[Kind(r)] - 1]
      /\ slots' = slots - 1
      /\ admitted' = admitted \cup {r}
      /\ UNCHANGED <<pending, blk_ready, barrier_ready, io, completed, refused,
                     waits_for, waits_left, pc, batch, finishing, flag>>
  BY <1>r DEF admission, contexts
<1>2. /\ r = queue[1] /\ Len(queue) \in Nat /\ Len(queue) > 0
      /\ queue' \in Seq(Request) /\ Len(queue') = Len(queue) - 1
      /\ \A i \in 1..Len(queue') : queue'[i] = queue[i + 1]
  BY SMTT(30), <1>r, <1>0, <1>1
<1>3. phase[r] = "queued"
  BY SMTT(30), <1>2 DEF QueueRight
<1>4. phase'[r] = "served" /\ \A q \in Request \ {r} : phase'[q] = phase[q]
  BY <1>1, <1>2 DEF TypeOK
<1>5. /\ InPhase(Counted)' = InPhase(Counted)
      /\ Cardinality(InPhase(Serving)') = Cardinality(InPhase(Serving)) + 1
      /\ Active' = Active \cup {r}
      /\ Cardinality(InUse(Kind(r))') = Cardinality(InUse(Kind(r))) + 1
      /\ \A k : k # Kind(r) => InUse(k)' = InUse(k)
  <2>1. /\ "queued" \in Counted /\ "served" \in Counted
        /\ "queued" \notin Serving /\ "served" \in Serving
        /\ "queued" \notin Used /\ "served" \in Used
    BY DEF Counted, Serving, Used
  <2>2. phase' = [phase EXCEPT ![r] = "served"]
    BY <1>1
  <2>3. /\ InPhase(Counted)' = InPhase(Counted)
        /\ Cardinality(InPhase(Serving)') = Cardinality(InPhase(Serving)) + 1
    BY <1>3, <2>1, <2>2, PhaseMoves
  <2> QED BY <1>3, <2>1, <2>2, <2>3, UseMoves
<1>6. CountsRight'
  <2>1. InPhase(Serving) \in SUBSET Request
    BY DEF InPhase
  <2>2. Cardinality(InPhase(Serving)) \in Nat
    BY <2>1, RequestsCount
  <2>3. slots \in Int /\ slots + Cardinality(InPhase(Serving)) = QueueLength
    BY SMTT(30) DEF CountsRight, TypeOK
  <2>4. slots' + Cardinality(InPhase(Serving)') = QueueLength
    BY SMTT(30), <1>1, <1>5, <2>2, <2>3, Limits
  <2> QED BY <1>1, <1>5, <2>4 DEF CountsRight
<1>7. PoolsRight'
  <2>1. \A k : InUse(k) \in SUBSET Request
    BY DEF InUse, Active
  <2>2. \A k : Cardinality(InUse(k)) \in Nat
    BY <2>1, RequestsCount
  <2>3. Kind(r) \in {"search", "insert"}
    BY DEF Kind
  <2>4. ASSUME NEW k \in {"search", "insert"}
        PROVE  pool'[k] + Cardinality(InUse(k)') = QueueLength
    <3>1. pool[k] \in 0..QueueLength /\ pool[k] + Cardinality(InUse(k)) = QueueLength
      BY DEF TypeOK, PoolsRight
    <3>2. pool'[k] = IF k = Kind(r) THEN pool[k] - 1 ELSE pool[k]
      BY <1>1, <2>3 DEF TypeOK
    <3> QED BY SMTT(30), <1>5, <2>2, <3>1, <3>2, Limits
  <2> QED BY <2>4 DEF PoolsRight
<1>8. TypeOK'
  <2>1. pool' \in [{"search", "insert"} -> 0..QueueLength]
    <3>1. Kind(r) \in {"search", "insert"}
      BY DEF Kind
    <3>2. pool[Kind(r)] - 1 \in 0..QueueLength
      BY <1>1, <3>1, PoolsSuffice DEF At, CanAdmit
    <3> QED BY <1>1, <3>2 DEF TypeOK
  <2>2. slots' \in 0..QueueLength
    BY SMTT(30), <1>1, Limits DEF CanAdmit, TypeOK
  <2> QED BY SMTT(30), <1>1, <1>2, <2>1, <2>2, Limits DEF TypeOK
<1>9. QueueRight'
  <2>1. \A i, j \in 1..Len(queue') : queue'[i] = queue'[j] => i = j
    BY SMTT(30), <1>2 DEF QueueRight
  <2>2. ASSUME NEW q \in Request
        PROVE  phase'[q] = "queued" <=> \E i \in 1..Len(queue') : queue'[i] = q
    <3>1. CASE q = r
      <4>1. \A i \in 1..Len(queue') : queue'[i] # r
        BY SMTT(30), <1>2 DEF QueueRight
      <4> QED BY <1>4, <3>1, <4>1
    <3>2. CASE q # r
      <4>1. phase'[q] = "queued" <=> \E i \in 1..Len(queue) : queue[i] = q
        BY <1>4, <3>2 DEF QueueRight
      <4>2. \A i \in 1..Len(queue) : queue[i] = q => i - 1 \in 1..Len(queue')
        BY SMTT(30), <1>2, <3>2
      <4>3. \A i \in 1..Len(queue) : i - 1 \in 1..Len(queue') => queue'[i - 1] = queue[i]
        BY SMTT(30), <1>2
      <4>4. \A i \in 1..Len(queue') : i + 1 \in 1..Len(queue) /\ queue'[i] = queue[i + 1]
        BY SMTT(30), <1>2
      <4> QED BY <4>1, <4>2, <4>3, <4>4
    <3> QED BY <3>1, <3>2
  <2> QED BY <2>1, <2>2 DEF QueueRight
<1>10. FinishingRight' /\ BatchRight' /\ ExitRight'
  BY <1>1, <1>3, <1>4 DEF FinishingRight, BatchRight, ExitRight, At, NoOne
<1>11. OnePlace'
  BY <1>1, <1>2, <1>3, <1>4, <1>5
     DEF OnePlace, Listed, Granted, Waits, HasCommands, Commands
<1> QED BY <1>6, <1>7, <1>8, <1>9, <1>10, <1>11

\* The lists of ready contexts and the commands of a context, as numbers.
LEMMA Quantities ==
  ASSUME TypeOK, NEW r \in Request
  PROVE  /\ io[r] \in 0..2 /\ completed[r] \in 0..2 /\ refused[r] \in 0..2
         /\ blk_ready[r] \in 0..2 /\ batch[r] \in 0..2
         /\ Commands(r) \in Nat
<1>1. /\ io[r] \in 0..2 /\ completed[r] \in 0..2 /\ refused[r] \in 0..2
      /\ blk_ready[r] \in 0..2 /\ batch[r] \in 0..2
  BY DEF TypeOK
<1> QED BY SMTT(30), <1>1 DEF Commands

\* process_ready_contexts makes one of the lists its batch.
LEMMA ProcessKeepsIInv ==
  ASSUME IInv,
         process_new_context \/ process_blk_ready_context \/ process_barrier_ready_context
  PROVE  IInv'
<1> USE DEF IInv
<1>1. /\ UNCHANGED <<phase, queue, pending, slots, pool, io, completed, refused,
                     waits_for, waits_left, finishing, flag>>
      /\ finishing = None
  BY DEF process_new_context, process_blk_ready_context, process_barrier_ready_context,
         clients, contexts, At
<1>2. pc \in {"new", "blk", "barrier"} /\ pc' \in Running
  BY DEF process_new_context, process_blk_ready_context, process_barrier_ready_context,
         At, Running
<1>3. batch = NoOne
  BY <1>2 DEF BatchRight, Running
<1>4. CountsRight' /\ PoolsRight' /\ QueueRight'
  BY SMTT(30), <1>1 DEF CountsRight, PoolsRight, QueueRight, InPhase, InUse, Active
<1>5. FinishingRight' /\ BatchRight' /\ ExitRight'
  BY <1>1, <1>2 DEF FinishingRight, BatchRight, ExitRight, Running
<1>6. Active' = Active
  BY <1>1 DEF Active
<1>7. CASE process_new_context
  <2>1. /\ batch' = Bag(admitted) /\ admitted' = {}
        /\ UNCHANGED <<blk_ready, barrier_ready>>
    BY <1>7 DEF process_new_context
  <2>2. \A r \in Request : batch'[r] = (IF r \in admitted THEN 1 ELSE 0) /\ batch[r] = 0
    BY <1>3, <2>1 DEF Bag, NoOne
  <2>3. batch' \in [Request -> 0..2]
    BY SMTT(30), <2>1 DEF Bag
  <2>4. TypeOK'
    BY <1>1, <1>2, <2>1, <2>3, StageNames DEF TypeOK, Running
  <2>5. OnePlace'
    BY SMTT(30), <1>1, <1>6, <2>1, <2>2, Quantities
       DEF OnePlace, Listed, Granted, Waits, HasCommands, Commands
  <2> QED BY <1>4, <1>5, <2>4, <2>5
<1>8. CASE process_blk_ready_context
  <2>1. /\ batch' = blk_ready /\ blk_ready' = NoOne
        /\ UNCHANGED <<admitted, barrier_ready>>
    BY <1>8 DEF process_blk_ready_context
  <2>2. \A r \in Request : batch[r] = 0 /\ batch'[r] = blk_ready[r] /\ blk_ready'[r] = 0
    BY <1>3, <2>1 DEF NoOne
  <2>3. batch' \in [Request -> 0..2] /\ blk_ready' \in [Request -> 0..2]
    BY SMTT(30), <2>1 DEF NoOne, TypeOK
  <2>4. TypeOK'
    BY <1>1, <1>2, <2>1, <2>3, StageNames DEF TypeOK, Running
  <2>5. OnePlace'
    BY SMTT(30), <1>1, <1>6, <2>1, <2>2, Quantities
       DEF OnePlace, Listed, Granted, Waits, HasCommands, Commands
  <2> QED BY <1>4, <1>5, <2>4, <2>5
<1>9. CASE process_barrier_ready_context
  <2>1. /\ batch' = Bag(barrier_ready) /\ barrier_ready' = {}
        /\ UNCHANGED <<blk_ready, admitted>>
    BY <1>9 DEF process_barrier_ready_context
  <2>2. \A r \in Request :
          batch'[r] = (IF r \in barrier_ready THEN 1 ELSE 0) /\ batch[r] = 0
    BY <1>3, <2>1 DEF Bag, NoOne
  <2>3. batch' \in [Request -> 0..2]
    BY SMTT(30), <2>1 DEF Bag
  <2>4. TypeOK'
    BY <1>1, <1>2, <2>1, <2>3, StageNames DEF TypeOK, Running
  <2>5. OnePlace'
    BY SMTT(30), <1>1, <1>6, <2>1, <2>2, Quantities
       DEF OnePlace, Listed, Granted, Waits, HasCommands, Commands
  <2> QED BY <1>4, <1>5, <2>4, <2>5
<1> QED BY <1>7, <1>8, <1>9

\* The steps that move commands: the device completes one, or the probe reports
\* some of them.
LEMMA DeviceKeepsIInv ==
  ASSUME IInv, probe \/ \E r \in Request : device_completes(r)
  PROVE  IInv'
<1> USE DEF IInv
<1>1. UNCHANGED <<phase, queue, pending, slots, pool, admitted, barrier_ready, refused,
                  waits_for, waits_left, batch, finishing, flag>>
  BY DEF probe, device_completes, clients, lists
<1>2. pc' = pc \/ (pc' = "check" /\ pc = "probe" /\ finishing = None)
  BY DEF probe, device_completes, At
<1> DEFINE Sum(q) == io[q] + completed[q] + blk_ready[q]
           Moved == /\ \A q \in Request : /\ io'[q] \in Nat /\ completed'[q] \in Nat
                                          /\ blk_ready'[q] \in Nat
                                          /\ io'[q] + completed'[q] + blk_ready'[q] = Sum(q)
                    /\ io' = [q \in Request |-> io'[q]]
                    /\ completed' = [q \in Request |-> completed'[q]]
                    /\ blk_ready' = [q \in Request |-> blk_ready'[q]]
<1>3. Moved
  <2>1. CASE probe
    <3>1. PICK got \in [Request -> 0..2] :
            /\ \A q \in Request : got[q] <= completed[q]
            /\ completed' = [q \in Request |-> completed[q] - got[q]]
            /\ blk_ready' = [q \in Request |-> blk_ready[q] + got[q]]
      BY <2>1 DEF probe
    <3>2. io' = io
      BY <2>1 DEF probe
    <3>3. \A q \in Request : got[q] \in 0..2
      OBVIOUS
    <3>4. io' = [q \in Request |-> io'[q]]
      BY <3>2 DEF TypeOK
    <3> QED BY SMTT(30), <3>1, <3>2, <3>3, <3>4, Quantities
  <2>2. ASSUME NEW r \in Request, device_completes(r)
        PROVE  Moved
    <3>1. /\ io[r] > 0 /\ io' = [io EXCEPT ![r] = io[r] - 1]
          /\ completed' = [completed EXCEPT ![r] = completed[r] + 1]
          /\ blk_ready' = blk_ready
      BY <2>2 DEF device_completes, lists
    <3>2. io \in [Request -> 0..2] /\ completed \in [Request -> 0..2]
          /\ blk_ready \in [Request -> 0..2]
      BY DEF TypeOK
    <3>3. \A q \in Request : /\ io'[q] = IF q = r THEN io[q] - 1 ELSE io[q]
                             /\ completed'[q] = IF q = r THEN completed[q] + 1 ELSE completed[q]
                             /\ blk_ready'[q] = blk_ready[q]
      BY <3>1, <3>2
    <3>4. /\ io' = [q \in Request |-> io'[q]]
          /\ completed' = [q \in Request |-> completed'[q]]
          /\ blk_ready' = [q \in Request |-> blk_ready'[q]]
      BY <3>1, <3>2
    <3> QED BY SMTT(30), <3>1, <3>3, <3>4, Quantities
  <2> QED BY <2>1, <2>2
<1>4. Active' = Active /\ \A q \in Request : Commands(q)' = Commands(q)
  BY <1>1, <1>3, Quantities DEF Active, Commands
<1>5. OnePlace'
  BY <1>1, <1>4 DEF OnePlace, Listed, Granted, Waits, HasCommands
<1>6. CountsRight' /\ PoolsRight' /\ QueueRight'
  BY SMTT(30), <1>1 DEF CountsRight, PoolsRight, QueueRight, InPhase, InUse, Active
<1>7. FinishingRight' /\ ExitRight'
  BY <1>1, <1>2 DEF FinishingRight, ExitRight
<1>8. BatchRight'
  BY <1>1, <1>2 DEF BatchRight, Running, NoOne
<1>9. TypeOK'
  <2>1. \A q \in Request : io'[q] \in 0..2 /\ completed'[q] \in 0..2 /\ blk_ready'[q] \in 0..2
    <3>1. \A q \in Request : Commands(q) <= 2 /\ batch[q] \in 0..2
      BY Quantities DEF OnePlace
    <3>2. \A q \in Request : io'[q] + completed'[q] + blk_ready'[q] <= 2
      BY SMTT(30), <1>3, <3>1, Quantities DEF Commands
    <3>3. \A q \in Request : io'[q] \in Nat /\ completed'[q] \in Nat /\ blk_ready'[q] \in Nat
      BY <1>3
    <3> HIDE DEF Moved
    <3> QED BY SMTT(30), <3>2, <3>3
  <2>2. /\ io' \in [Request -> 0..2] /\ completed' \in [Request -> 0..2]
        /\ blk_ready' \in [Request -> 0..2]
    BY <1>3, <2>1
  <2> QED BY <1>1, <1>2, <2>2, StageNames DEF TypeOK
<1> QED BY <1>5, <1>6, <1>7, <1>8, <1>9

\* The context whose turn it is: it is served, and nowhere else.  Without
\* outstanding commands it has one entry in the batch.
LEMMA RunningContext ==
  ASSUME IInv, NEW r \in Request, Runs(r)
  PROVE  /\ phase[r] = "served" /\ ~Listed(r) /\ ~Granted(r) /\ ~Waits(r)
         /\ pc \in Running /\ finishing = None
         /\ Outstanding(r) = Commands(r) - 1
         /\ Outstanding(r) = 0 => /\ io[r] = 0 /\ completed[r] = 0 /\ blk_ready[r] = 0
                                  /\ refused[r] = 0 /\ batch[r] = 1
         /\ \A q \in Request : batch[q] \in 0..2
<1>1. batch[r] > 0 /\ finishing = None /\ pc \in Running
  BY DEF Runs, Running
<1>2. HasCommands(r)
  BY SMTT(30), <1>1, Quantities DEF HasCommands, Commands, IInv
<1>3. phase[r] = "served" /\ ~Listed(r) /\ ~Granted(r) /\ ~Waits(r)
  BY <1>2 DEF IInv, OnePlace
<1>4. Outstanding(r) = Commands(r) - 1
  BY SMTT(30), Quantities DEF Outstanding, Commands, IInv
<1>5. Outstanding(r) = 0 => /\ io[r] = 0 /\ completed[r] = 0 /\ blk_ready[r] = 0
                            /\ refused[r] = 0 /\ batch[r] = 1
  BY SMTT(30), <1>1, Quantities DEF Outstanding, IInv
<1> QED BY <1>1, <1>3, <1>4, <1>5, Quantities DEF IInv

\* run() counts a command and waits for the others, submits commands, or has to
\* wait for a barrier.
LEMMA RunWaitsKeepsIInv ==
  ASSUME IInv, NEW r \in Request,
         run_counts(r) \/ run_submits(r) \/ \E q \in Request \ {r} : run_waits(r, q)
  PROVE  IInv'
<1> USE DEF IInv
<1>1. Runs(r)
  BY DEF run_counts, run_submits, run_waits
<1>2. /\ UNCHANGED <<phase, queue, pending, slots, pool, admitted, completed, pc,
                     finishing, flag>>
      /\ batch' = [batch EXCEPT ![r] = batch[r] - 1]
  BY DEF run_counts, run_submits, run_waits, clients, lists, contexts
<1>3. /\ batch'[r] = batch[r] - 1 /\ \A q \in Request \ {r} : batch'[q] = batch[q]
      /\ batch' \in [Request -> 0..2]
  BY SMTT(30), <1>1, <1>2, RunningContext DEF TypeOK, Runs
<1>4. CountsRight' /\ PoolsRight' /\ QueueRight'
  BY SMTT(30), <1>2 DEF CountsRight, PoolsRight, QueueRight, InPhase, InUse, Active
<1>5. FinishingRight' /\ BatchRight' /\ ExitRight'
  BY <1>1, <1>2, RunningContext DEF FinishingRight, BatchRight, ExitRight, Running
<1>6. Active' = Active
  BY <1>2 DEF Active
<1>7. CASE run_counts(r)
  <2>1. UNCHANGED <<io, blk_ready, refused, waits_for, waits_left, barrier_ready>>
        /\ Outstanding(r) > 0
    BY <1>7 DEF run_counts, lists, contexts
  <2>2. TypeOK'
    BY SMTT(30), <1>2, <1>3, <2>1 DEF TypeOK
  <2>3. /\ Commands(r)' = Commands(r) - 1 /\ Commands(r) > 1
        /\ \A q \in Request \ {r} : Commands(q)' = Commands(q)
    BY SMTT(30), <1>1, <1>2, <1>3, <2>1, RunningContext, Quantities DEF Commands
  <2>4. OnePlace'
    BY SMTT(30), <1>1, <1>2, <1>6, <2>1, <2>3, RunningContext, Quantities
       DEF OnePlace, Listed, Granted, Waits, HasCommands
  <2> QED BY <1>4, <1>5, <2>2, <2>4
<1>8. CASE run_submits(r)
  <2>1. /\ Outstanding(r) = 0 /\ waits_left[r] > 0
        /\ waits_left' = [waits_left EXCEPT ![r] = waits_left[r] - 1]
    BY <1>8 DEF run_submits
  <2>2. PICK n \in 1..2, sub \in 0..2, hit \in 0..2, failed \in 0..2 :
          /\ sub + hit + failed = n
          /\ io' = [io EXCEPT ![r] = io[r] + sub]
          /\ blk_ready' = [blk_ready EXCEPT ![r] = blk_ready[r] + hit]
          /\ refused' = [refused EXCEPT ![r] = refused[r] + failed]
    <3>1. PICK n \in IF r \in Insert THEN 1..2 ELSE {1} : asynch_command(r, n)
      BY ZenonT(30), <1>8 DEF run_submits
    <3>2. n \in 1..2
      BY SMTT(30)
    <3>3. PICK sub \in 0..n, hit \in 0..n :
            /\ n - sub - hit >= 0
            /\ io' = [io EXCEPT ![r] = io[r] + sub]
            /\ blk_ready' = [blk_ready EXCEPT ![r] = blk_ready[r] + hit]
            /\ refused' = [refused EXCEPT ![r] = refused[r] + (n - sub - hit)]
      BY ZenonT(30), <3>1 DEF asynch_command
    <3>4. /\ sub \in 0..2 /\ hit \in 0..2 /\ n - sub - hit \in 0..2
          /\ sub + hit + (n - sub - hit) = n
      BY SMTT(30), <3>2, <3>3
    <3> QED BY <3>2, <3>3, <3>4
  <2>3. PICK F \in SUBSET Waiting(r) : Fire(F)
    BY <1>8 DEF run_submits
  <2>4. /\ F \subseteq Request \ {r} /\ \A q \in F : waits_for[q] = r
        /\ barrier_ready' = barrier_ready \cup F
        /\ waits_for' = [q \in Request |-> IF q \in F THEN None ELSE waits_for[q]]
    BY <1>1, <2>3, RunningContext, Limits DEF Waiting, Fire, Waits
  <2>c. io[r] = 0 /\ blk_ready[r] = 0 /\ refused[r] = 0
    BY <1>1, <2>1, RunningContext
  <2>5. /\ io' \in [Request -> 0..2] /\ io'[r] = sub
        /\ blk_ready' \in [Request -> 0..2] /\ blk_ready'[r] = hit
        /\ refused' \in [Request -> 0..2] /\ refused'[r] = failed
        /\ \A q \in Request \ {r} : /\ io'[q] = io[q] /\ blk_ready'[q] = blk_ready[q]
                                     /\ refused'[q] = refused[q]
    BY SMTT(30), <2>2, <2>c DEF TypeOK
  <2>6. waits_for' \in [Request -> Request \cup {None}]
    BY <2>4 DEF TypeOK
  <2>7. waits_left' \in [Request -> 0..MaxWaits]
    BY SMTT(30), <2>1, Limits DEF TypeOK
  <2>8. TypeOK'
    BY SMTT(30), <1>2, <1>3, <2>4, <2>5, <2>6, <2>7 DEF TypeOK
  <2>9. Commands(r)' = n /\ \A q \in Request \ {r} : Commands(q)' = Commands(q)
    BY SMTT(30), <1>1, <1>2, <1>3, <2>1, <2>2, <2>5, RunningContext, Quantities DEF Commands
  <2>10. phase[r] = "served" /\ ~Listed(r) /\ ~Granted(r) /\ ~Waits(r)
    BY <1>1, RunningContext
  <2>11. ASSUME NEW q \in Request
         PROVE  /\ Waits(q)' => Waits(q) /\ waits_for'[q] = waits_for[q]
                /\ Granted(q)' => Granted(q) \/ (Waits(q) /\ ~Waits(q)' /\ q # r)
                /\ Granted(q) => Granted(q)'
                /\ Waits(q) => Waits(q)' \/ Granted(q)'
    BY <2>4, Limits DEF Waits, Granted
  <2>12. /\ HasCommands(r)' /\ Commands(r)' <= 2
         /\ \A q \in Request \ {r} : HasCommands(q)' = HasCommands(q)
    BY SMTT(30), <2>9 DEF HasCommands
  <2>13. OnePlace'
    <3>1. \A q \in Request : phase'[q] = phase[q] /\ (Listed(q)' <=> Listed(q))
      BY <1>2 DEF Listed
    <3> QED BY <1>6, <2>9, <2>10, <2>11, <2>12, <3>1 DEF OnePlace
  <2> QED BY <1>4, <1>5, <2>8, <2>13
<1>9. ASSUME NEW q \in Request \ {r}, run_waits(r, q)
      PROVE  IInv'
  <2>1. /\ Outstanding(r) = 0 /\ waits_left[r] > 0 /\ q \in Active
        /\ waits_left' = [waits_left EXCEPT ![r] = waits_left[r] - 1]
        /\ io' = io /\ blk_ready' = blk_ready /\ refused' = refused
    BY <1>9 DEF run_waits
  <2>2. PICK F \in SUBSET Waiting(r) :
          /\ barrier_ready' = barrier_ready \cup F
          /\ waits_for' = [x \in Request |-> IF x \in F THEN None
                                            ELSE IF x = r THEN q ELSE waits_for[x]]
    BY <1>9 DEF run_waits
  <2>3. F \subseteq Request \ {r} /\ \A x \in F : waits_for[x] = r
    BY SMTT(30), <1>1, RunningContext, Limits DEF Waiting, Waits
  <2>4. waits_for' \in [Request -> Request \cup {None}]
    BY <2>2 DEF TypeOK
  <2>5. waits_left' \in [Request -> 0..MaxWaits]
    BY SMTT(30), <2>1, Limits DEF TypeOK
  <2>6. TypeOK'
    BY SMTT(30), <1>2, <1>3, <2>1, <2>2, <2>3, <2>4, <2>5 DEF TypeOK
  <2>7. Commands(r)' = 0 /\ \A x \in Request \ {r} : Commands(x)' = Commands(x)
    BY SMTT(30), <1>1, <1>2, <1>3, <2>1, RunningContext, Quantities DEF Commands
  <2>8. OnePlace'
    BY SMTT(30), <1>1, <1>2, <1>6, <2>1, <2>2, <2>3, <2>7, RunningContext, Quantities, Limits
       DEF OnePlace, Listed, Granted, Waits, HasCommands
  <2> QED BY <1>4, <1>5, <2>6, <2>8
<1> QED BY <1>7, <1>8, <1>9

\* run() reaches the end of the context: the result is stored.
LEMMA AnswerKeepsIInv ==
  ASSUME IInv, NEW r \in Request, run_answers(r)
  PROVE  IInv'
<1> USE DEF IInv
<1>1. /\ Runs(r) /\ Outstanding(r) = 0
      /\ phase' = [phase EXCEPT ![r] = "answered"]
      /\ finishing' = r
      /\ batch' = [batch EXCEPT ![r] = batch[r] - 1]
      /\ UNCHANGED <<queue, pending, slots, pool, admitted, blk_ready, io, completed,
                     refused, waits_left, pc, flag>>
  BY DEF run_answers
<1>2. PICK F \in SUBSET Waiting(r) :
        /\ barrier_ready' = barrier_ready \cup F
        /\ \A q \in Request : waits_for'[q] = IF q \in F THEN None ELSE waits_for[q]
        /\ waits_for' \in [Request -> Request \cup {None}]
  <2>1. CASE r \in Insert
    <3>1. /\ barrier_ready' = barrier_ready \cup Waiting(r)
          /\ waits_for' = [q \in Request |-> IF q \in Waiting(r) THEN None ELSE waits_for[q]]
      BY <2>1 DEF run_answers, Fire
    <3>2. waits_for' \in [Request -> Request \cup {None}]
      BY <3>1 DEF TypeOK
    <3> QED BY <3>1, <3>2
  <2>2. CASE r \notin Insert
    <3>1. barrier_ready' = barrier_ready /\ waits_for' = waits_for
      BY <2>2 DEF run_answers
    <3>2. {} \in SUBSET Waiting(r) /\ barrier_ready = barrier_ready \cup {}
      OBVIOUS
    <3>3. waits_for' \in [Request -> Request \cup {None}]
      BY <3>1 DEF TypeOK
    <3> QED BY ZenonT(30), <3>1, <3>2, <3>3
  <2> QED BY <2>1, <2>2
<1>3. F \subseteq Request \ {r} /\ \A q \in F : waits_for[q] = r
  BY <1>1, RunningContext, Limits DEF Waiting, Waits
<1>4. phase[r] = "served" /\ phase'[r] = "answered"
      /\ \A q \in Request \ {r} : phase'[q] = phase[q]
  BY ZenonT(30), <1>1, RunningContext DEF TypeOK
<1>5. /\ batch'[r] = 0 /\ \A q \in Request \ {r} : batch'[q] = batch[q]
      /\ batch' \in [Request -> 0..2]
  BY SMTT(30), <1>1, RunningContext DEF TypeOK
<1>6. /\ InPhase(Counted)' = InPhase(Counted) /\ InPhase(Serving)' = InPhase(Serving)
      /\ Active' = Active /\ \A k : InUse(k)' = InUse(k)
  <2>1. "served" \in Counted \cap Serving \cap Used /\ "answered" \in Counted \cap Serving \cap Used
    BY DEF Counted, Serving, Used
  <2>2. phase' = [phase EXCEPT ![r] = "answered"]
    BY <1>1
  <2> QED BY ZenonT(30), <1>4, <2>1, <2>2, PhaseMoves, UseMoves
<1>7. CountsRight' /\ PoolsRight'
  BY <1>1, <1>6 DEF CountsRight, PoolsRight
<1>8. QueueRight'
  BY SMTT(30), <1>1, <1>4 DEF QueueRight
<1>9. FinishingRight'
  BY ZenonT(30), <1>1, <1>4, RunningContext, Limits DEF FinishingRight
<1>10. BatchRight' /\ ExitRight'
  BY ZenonT(30), <1>1, <1>4, RunningContext DEF BatchRight, ExitRight, Running
<1>11. TypeOK'
  BY SMTT(30), <1>1, <1>2, <1>3, <1>5 DEF TypeOK
<1>12. Commands(r)' = 0 /\ \A q \in Request \ {r} : Commands(q)' = Commands(q)
  BY SMTT(30), <1>1, <1>5, RunningContext, Quantities DEF Commands
<1>13. OnePlace'
  BY SMTT(30), <1>1, <1>2, <1>3, <1>4, <1>6, <1>12, RunningContext, Quantities, Limits
     DEF OnePlace, Listed, Granted, Waits, HasCommands
<1> QED BY <1>7, <1>8, <1>9, <1>10, <1>11, <1>13

\* run() gives the slot back.
LEMMA UncountKeepsIInv ==
  ASSUME IInv, NEW r \in Request, run_uncounts(r)
  PROVE  IInv'
<1> USE DEF IInv
<1>1. /\ finishing = r /\ phase[r] = "answered"
      /\ phase' = [phase EXCEPT ![r] = "uncounted"]
      /\ pending' = pending - 1 /\ slots' = slots + 1
      /\ UNCHANGED <<queue, pool, admitted, blk_ready, barrier_ready, io, completed,
                     refused, waits_for, waits_left, pc, batch, finishing, flag>>
  BY DEF run_uncounts, lists, contexts
<1>2. phase'[r] = "uncounted" /\ \A q \in Request \ {r} : phase'[q] = phase[q]
  BY <1>1 DEF TypeOK
<1>3. /\ Cardinality(InPhase(Counted)') = Cardinality(InPhase(Counted)) - 1
      /\ Cardinality(InPhase(Serving)') = Cardinality(InPhase(Serving)) - 1
      /\ Active' = Active /\ \A k : InUse(k)' = InUse(k)
  <2>1. /\ "answered" \in Counted \cap Serving \cap Used
        /\ "uncounted" \notin Counted /\ "uncounted" \notin Serving /\ "uncounted" \in Used
    BY DEF Counted, Serving, Used
  <2>2. phase' = [phase EXCEPT ![r] = "uncounted"]
    BY <1>1
  <2>3. /\ Cardinality(InPhase(Counted)') = Cardinality(InPhase(Counted)) - 1
        /\ Cardinality(InPhase(Serving)') = Cardinality(InPhase(Serving)) - 1
    BY ZenonT(30), <1>1, <2>1, <2>2, PhaseMoves
  <2> QED BY <1>1, <2>1, <2>2, <2>3, UseMoves
<1>4. /\ InPhase(Counted) \in SUBSET Request /\ InPhase(Serving) \in SUBSET Request
      /\ InPhase(Counted)' \in SUBSET Request /\ InPhase(Serving)' \in SUBSET Request
  BY DEF InPhase
<1>5. /\ Cardinality(InPhase(Counted)) \in Nat /\ Cardinality(InPhase(Serving)) \in Nat
      /\ Cardinality(InPhase(Counted)') \in 0..Cardinality(Request)
      /\ Cardinality(InPhase(Serving)') \in Nat
  BY SMTT(30), <1>4, RequestsCount
<1>6. CountsRight'
  <2>1. /\ pending = Cardinality(InPhase(Counted))
        /\ slots + Cardinality(InPhase(Serving)) = QueueLength /\ slots \in Int
    BY SMTT(30) DEF CountsRight, TypeOK
  <2>2. slots' + Cardinality(InPhase(Serving)') = QueueLength
    BY SMTT(30), <1>1, <1>3, <1>5, <2>1, Limits
  <2> QED BY <1>1, <1>3, <2>1, <2>2 DEF CountsRight
<1>7. TypeOK'
  <2>1. pending' \in 0..Cardinality(Request) /\ slots' \in 0..QueueLength
    BY SMTT(30), <1>1, <1>5, <1>6, Limits DEF CountsRight, TypeOK
  <2> QED BY <1>1, <2>1 DEF TypeOK
<1>8. PoolsRight'
  BY <1>1, <1>3 DEF PoolsRight
<1>9. QueueRight' /\ FinishingRight' /\ BatchRight'
  BY SMTT(30), <1>1, <1>2 DEF QueueRight, FinishingRight, BatchRight, NoOne
<1>10. ExitRight'
  <2>1. pc # "exited"
    BY <1>1, Limits DEF FinishingRight, Running
  <2> QED BY <1>1, <1>2, <2>1 DEF ExitRight
<1>11. OnePlace'
  BY <1>1, <1>2, <1>3
     DEF OnePlace, Listed, Granted, Waits, HasCommands, Commands
<1> QED BY <1>6, <1>7, <1>8, <1>9, <1>10, <1>11

\* run() returns the context to its pool and lets the client go.
LEMMA TerminateKeepsIInv ==
  ASSUME IInv, NEW r \in Request, run_terminates(r)
  PROVE  IInv'
<1> USE DEF IInv
<1>1. /\ finishing = r /\ phase[r] = "uncounted" /\ finishing' = None
      /\ phase' = [phase EXCEPT ![r] = "done"]
      /\ pool' = [pool EXCEPT ![Kind(r)] = pool[Kind(r)] + 1]
      /\ barrier_ready' = barrier_ready \cup Waiting(r)
      /\ waits_for' = [q \in Request |-> IF q \in Waiting(r) THEN None ELSE waits_for[q]]
      /\ UNCHANGED <<queue, pending, slots, admitted, blk_ready, io, completed,
                     refused, waits_left, pc, batch, flag>>
  BY ZenonT(30) DEF run_terminates, Fire
<1>2. phase'[r] = "done" /\ \A q \in Request \ {r} : phase'[q] = phase[q]
  BY <1>1 DEF TypeOK
<1>3. /\ InPhase(Counted)' = InPhase(Counted) /\ InPhase(Serving)' = InPhase(Serving)
      /\ Active' = Active \ {r}
      /\ Cardinality(InUse(Kind(r))') = Cardinality(InUse(Kind(r))) - 1
      /\ \A k : k # Kind(r) => InUse(k)' = InUse(k)
  <2>1. /\ "uncounted" \notin Counted /\ "uncounted" \notin Serving /\ "uncounted" \in Used
        /\ "done" \notin Counted /\ "done" \notin Serving /\ "done" \notin Used
    BY DEF Counted, Serving, Used
  <2>2. phase' = [phase EXCEPT ![r] = "done"]
    BY <1>1
  <2>3. InPhase(Counted)' = InPhase(Counted) /\ InPhase(Serving)' = InPhase(Serving)
    BY <1>1, <2>1, <2>2, PhaseMoves
  <2> QED BY <1>1, <2>1, <2>2, <2>3, UseMoves
<1>4. CountsRight'
  BY <1>1, <1>3 DEF CountsRight
<1>5. Kind(r) \in {"search", "insert"}
  BY DEF Kind
<1>6. /\ \A k : Cardinality(InUse(k)) \in Nat /\ Cardinality(InUse(k)') \in Nat
  <2>1. \A k : InUse(k) \in SUBSET Request /\ InUse(k)' \in SUBSET Request
    BY DEF InUse, Active
  <2> QED BY <2>1, RequestsCount
<1>7. ASSUME NEW k \in {"search", "insert"}
      PROVE  pool'[k] + Cardinality(InUse(k)') = QueueLength /\ pool'[k] \in 0..QueueLength
  <2>1. pool[k] \in 0..QueueLength /\ pool[k] + Cardinality(InUse(k)) = QueueLength
    BY DEF TypeOK, PoolsRight
  <2>2. pool'[k] = IF k = Kind(r) THEN pool[k] + 1 ELSE pool[k]
    BY <1>1, <1>5 DEF TypeOK
  <2>3. pool'[k] + Cardinality(InUse(k)') = QueueLength
    BY SMTT(30), <1>3, <1>6, <2>1, <2>2, Limits
  <2> QED BY SMTT(30), <1>6, <2>1, <2>2, <2>3, Limits
<1>8. PoolsRight'
  BY <1>7 DEF PoolsRight
<1>9. TypeOK'
  <2>1. pool' \in [{"search", "insert"} -> 0..QueueLength]
    BY ZenonT(30), <1>1, <1>7 DEF TypeOK
  <2>2. waits_for' \in [Request -> Request \cup {None}]
    BY <1>1 DEF TypeOK
  <2>3. barrier_ready' \subseteq Request
    BY <1>1 DEF TypeOK, Waiting
  <2> QED BY <1>1, <2>1, <2>2, <2>3 DEF TypeOK
<1>10. QueueRight' /\ BatchRight' /\ ExitRight'
  BY ZenonT(30), <1>1, <1>2 DEF QueueRight, BatchRight, ExitRight, NoOne
<1>11. FinishingRight'
  BY <1>1, <1>2, Limits DEF FinishingRight
<1>12. OnePlace'
  <2>1. r \notin Waiting(r) /\ \A q \in Request : q \in Waiting(r) <=> waits_for[q] = r
    BY <1>1, Limits DEF OnePlace, Waiting, Waits
  <2>2. \A q \in Request : Commands(q)' = Commands(q)
    BY <1>1 DEF Commands
  <2> QED BY <1>1, <1>2, <1>3, <2>1, <2>2, Limits
          DEF OnePlace, Listed, Granted, Waits, HasCommands
<1> QED BY <1>4, <1>8, <1>9, <1>10, <1>11, <1>12

-----------------------------------------------------------------------------
\* Every step of the clients, the worker and the device keeps the invariant.
LEMMA NextIInv == IInv /\ [Next]_vars => IInv'
<1> SUFFICES ASSUME IInv, [Next]_vars PROVE IInv'
  OBVIOUS
<1>1. CASE UNCHANGED vars
  BY SMTT(30), <1>1 DEF vars, IInv, TypeOK, CountsRight, PoolsRight, QueueRight, FinishingRight,
              OnePlace, BatchRight, ExitRight, InPhase, InUse, Active, Listed, Granted,
              Waits, HasCommands, Commands, NoOne
<1>2. CASE stopped
  BY <1>1, <1>2 DEF stopped
<1>3. CASE close \/ check \/ admission_ends \/ batch_ends \/ no_probe
  BY <1>3, MoveKeepsIInv
<1>4. CASE process_new_context \/ process_blk_ready_context \/ process_barrier_ready_context
  BY <1>4, ProcessKeepsIInv
<1>5. CASE admission
  BY <1>5, AdmissionKeepsIInv
<1>6. CASE probe \/ \E r \in Request : device_completes(r)
  BY <1>6, DeviceKeepsIInv
<1>7. ASSUME NEW r \in Request, count(r) \/ push(r) \/ run(r)
      PROVE  IInv'
  BY <1>7, CountKeepsIInv, PushKeepsIInv, RunWaitsKeepsIInv, AnswerKeepsIInv,
     UncountKeepsIInv, TerminateKeepsIInv DEF run
<1> QED BY <1>1, <1>2, <1>3, <1>4, <1>5, <1>6, <1>7 DEF Next, worker

\* SpecIInv: in every reachable state the counts of the worker are what they
\* count, and a served context is listed, queued on a barrier, or waits for
\* commands, of which some may have been refused (pull_based_b_plus_tree.h, run(),
\* and asynch_read and asynch_write of nvme_blk_accessor.h).
THEOREM SpecIInv == Spec => []IInv
BY InitIInv, NextIInv, PTL DEF Spec

\* TypeCorrect: the variables keep their types; in particular no pool and no
\* counter of the worker leaves its range.
THEOREM TypeCorrect == Spec => []TypeOK
<1>1. IInv => TypeOK
  BY DEF IInv
<1> QED BY <1>1, SpecIInv, PTL

\* SlotsMatchPoolsHolds: free_context_slots_ matches the contexts in use, and the
\* assertion of get_free_search_context and get_free_insert_context holds in
\* every admission().
THEOREM SlotsMatchPoolsHolds == Spec => []SlotsMatchPools
<1>1. IInv => SlotsMatchPools
  <2> SUFFICES ASSUME IInv PROVE SlotsMatchPools
    OBVIOUS
  <2>1. slots + Cardinality(InPhase({"served", "answered"})) = QueueLength
    BY DEF IInv, CountsRight, Serving
  <2>2. DOMAIN pool = {"search", "insert"}
    BY DEF IInv, TypeOK
  <2>3. At("admission") /\ slots > 0 => \A k \in DOMAIN pool : pool[k] > 0
    BY <2>2, PoolsSuffice DEF At
  <2> QED BY <2>1, <2>3 DEF SlotsMatchPools
<1> QED BY <1>1, SpecIInv, PTL

\* SyncHolds: sync() returns only when every request that was made has its
\* result.
THEOREM SyncHolds == Spec => []SyncMeansAnswered
<1>1. IInv => SyncMeansAnswered
  <2> SUFFICES ASSUME IInv, pending <= 0
               PROVE  InPhase({"pushing", "queued", "served"}) = {}
    BY DEF SyncMeansAnswered
  <2>1. InPhase(Counted) \in SUBSET Request
    BY DEF InPhase
  <2>2. InPhase(Counted) = {}
    BY SMTT(30), <2>1, RequestsCount DEF IInv, CountsRight
  <2> QED BY <2>2 DEF InPhase, Counted
<1> QED BY <1>1, SpecIInv, PTL

\* ContextsNotForgotten: a served context is in exactly one of the places from
\* which the worker, the device or the holder of a barrier gets to it, unless a
\* command of it was refused; then it is at most where its other command is.
THEOREM ContextsNotForgotten == Spec => []ContextNotForgotten
<1>1. IInv => ContextNotForgotten
  <2> SUFFICES ASSUME IInv, NEW r \in Request
               PROVE  /\ phase[r] = "served" /\ refused[r] = 0 => Cardinality(Places(r)) = 1
                      /\ refused[r] > 0 => /\ phase[r] = "served"
                                           /\ Places(r) \subseteq {"commands", "batch"}
                      /\ phase[r] # "served" => Places(r) = {}
    BY DEF ContextNotForgotten
  <2> DEFINE commands == io[r] + completed[r] + blk_ready[r]
             c1 == commands > 0
             c2 == batch[r] > 0 /\ commands = 0
  <2>1. /\ Listed(r) <=> r \in admitted
        /\ Granted(r) <=> r \in barrier_ready
        /\ Waits(r) <=> waits_for[r] \in Active
    BY SMTT(30), Limits DEF IInv, OnePlace, Listed, Granted, Waits, Active
  <2>2. /\ HasCommands(r) <=> (c1 \/ c2 \/ refused[r] > 0)
        /\ ~(c1 /\ c2)
        /\ refused[r] = 0 => ~(refused[r] > 0)
    <3>1. /\ Commands(r) = commands + refused[r] + batch[r]
          /\ commands \in Nat /\ batch[r] \in Nat /\ refused[r] \in Nat
      BY SMTT(30), Quantities DEF IInv, Commands
    <3> HIDE DEF commands
    <3> QED BY SMTT(30), <3>1 DEF HasCommands
  <2>3. /\ "admitted" \in Places(r) <=> Listed(r)
        /\ "barrier" \in Places(r) <=> Granted(r)
        /\ "waits" \in Places(r) <=> Waits(r)
        /\ "commands" \in Places(r) <=> c1
        /\ "batch" \in Places(r) <=> c2
        /\ Places(r) \subseteq {"admitted", "barrier", "waits", "commands", "batch"}
    BY ZenonT(30), <2>1 DEF Places
  <2> HIDE DEF c1, c2
  <2>4. phase[r] # "served" => Places(r) = {}
    BY <2>2, <2>3 DEF IInv, OnePlace
  <2>5. ASSUME refused[r] > 0
        PROVE  phase[r] = "served" /\ Places(r) \subseteq {"commands", "batch"}
    BY <2>2, <2>3, <2>5 DEF IInv, OnePlace
  <2>6. ASSUME phase[r] = "served", refused[r] = 0
        PROVE  \E p : Places(r) = {p}
    <3>1. CASE Listed(r)
      <4>1. Places(r) = {"admitted"}
        BY <2>2, <2>3, <3>1 DEF IInv, OnePlace
      <4> QED BY <4>1
    <3>2. CASE Granted(r)
      <4>1. Places(r) = {"barrier"}
        BY <2>2, <2>3, <3>2 DEF IInv, OnePlace
      <4> QED BY <4>1
    <3>3. CASE Waits(r)
      <4>1. Places(r) = {"waits"}
        BY <2>2, <2>3, <3>3 DEF IInv, OnePlace
      <4> QED BY <4>1
    <3>4. CASE HasCommands(r)
      <4>1. Places(r) = {"commands"} \/ Places(r) = {"batch"}
        BY <2>2, <2>3, <2>6, <3>4 DEF IInv, OnePlace
      <4> QED BY <4>1
    <3> QED BY <2>6, <3>1, <3>2, <3>3, <3>4 DEF IInv, OnePlace
  <2>7. phase[r] = "served" /\ refused[r] = 0 => Cardinality(Places(r)) = 1
    BY <2>6, FS_Singleton
  <2> QED BY <2>4, <2>5, <2>7
<1> QED BY <1>1, SpecIInv, PTL

\* ExitsClean: the worker leaves its loop only when every request is answered,
\* every context is back in its pool and the device has nothing to do.
THEOREM ExitsClean == Spec => []ExitIsClean
<1>1. IInv => ExitIsClean
  <2> SUFFICES ASSUME IInv, pc = "exited"
               PROVE  /\ InPhase({"done"}) = Request
                      /\ slots = QueueLength /\ \A k \in DOMAIN pool : pool[k] = QueueLength
                      /\ io = NoOne /\ completed = NoOne /\ blk_ready = NoOne
    BY DEF ExitIsClean
  <2>1. pending = 0 /\ (\A r \in Request : phase[r] # "new") /\ finishing = None
    BY DEF IInv, ExitRight, FinishingRight, Running
  <2>2. InPhase(Counted) \in SUBSET Request
    BY DEF InPhase
  <2>3. InPhase(Counted) = {}
    BY <2>1, <2>2, RequestsCount DEF IInv, CountsRight
  <2>4. \A r \in Request : phase[r] = "done"
    <3>1. \A r \in Request : phase[r] \notin Counted
      BY <2>3 DEF InPhase
    <3>2. \A r \in Request : phase[r] # "uncounted"
      BY <2>1, Limits DEF IInv, FinishingRight
    <3> QED BY <2>1, <3>1, <3>2 DEF IInv, TypeOK, Counted
  <2>5. InPhase({"done"}) = Request
    BY <2>4 DEF InPhase
  <2>6. InPhase(Serving) = {} /\ \A k : InUse(k) = {}
    BY <2>4 DEF InPhase, Serving, InUse, Active
  <2>7. slots = QueueLength
    BY SMTT(30), <2>6, FS_EmptySet, Limits DEF IInv, CountsRight, TypeOK
  <2>8. ASSUME NEW k \in DOMAIN pool
        PROVE  pool[k] = QueueLength
    <3>1. k \in {"search", "insert"} /\ pool[k] \in 0..QueueLength
      BY DEF IInv, TypeOK
    <3>2. pool[k] + Cardinality(InUse(k)) = QueueLength /\ InUse(k) = {}
      BY <2>6, <3>1 DEF IInv, PoolsRight
    <3> QED BY SMTT(30), <3>1, <3>2, FS_EmptySet, Limits
  <2>9. \A r \in Request : io[r] = 0 /\ completed[r] = 0 /\ blk_ready[r] = 0
    BY SMTT(30), <2>4, Quantities DEF IInv, OnePlace, HasCommands, Commands
  <2>10. io = NoOne /\ completed = NoOne /\ blk_ready = NoOne
    BY <2>9 DEF IInv, TypeOK, NoOne
  <2> QED BY <2>5, <2>7, <2>8, <2>10
<1> QED BY <1>1, SpecIInv, PTL

=============================================================================
