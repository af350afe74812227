-------------------------- MODULE BlkAccessorSteps ---------------------------
(***************************************************************************)
(* The steps of the accessors keep what makes them a block device: those   *)
(* of the NVMe accessor, and those that the accessors which block their    *)
(* callers are made of.  Nothing here depends on the number of clients,    *)
(* blocks and writes or on the capacity.                                   *)
(***************************************************************************)
EXTENDS BlkStorageProofs

\* Steps that name no prover are left to Zenon; SMTT marks what needs the SMT solver.
USE ZenonT(60)

-----------------------------------------------------------------------------
(* The NVMe accessor *)

\* The NVMe accessor: a command of the device belongs to a context that waits
\* for it.
Waiting(c, p, cl) ==
    /\ p.context = c /\ ~p.evicted
    /\ cl[c].op = p.type /\ cl[c].block = p.id
    /\ p.done \/ p.type = "write" => cl[c].buffer = p.buffer

IsReady(c, rd) == \E i \in 1..Len(rd) : rd[i] = c
Distinct(rd) == \A i, j \in 1..Len(rd) : rd[i] = rd[j] => i = j

NvmeTyped(cl, cmds, rd, rf) ==
    /\ cl \in [Context -> [op : {"none", "read", "write"}, block : Block \cup {0}, buffer : Data]]
    /\ \A c \in Context : cl[c].op = "none" => cl[c] = Idle
    /\ cmds \subseteq Para /\ rd \in Seq(Context) /\ rf \subseteq Context

OnePlace(cl, cmds, rd, rf) ==
    /\ \A p \in cmds : Waiting(p.context, p, cl) /\ ~IsReady(p.context, rd) /\ p.context \notin rf
    /\ \A p, q \in cmds : p.context = q.context => p = q
    /\ Distinct(rd)
    /\ \A c \in Context : IsReady(c, rd) => cl[c].op # "none" /\ c \notin rf
    /\ \A c \in rf : cl[c].op # "none"
    /\ \A c \in Context : cl[c].op # "none" /\ c \notin rf =>
          IsReady(c, rd) \/ \E p \in cmds : p.context = c

\* A block that is being written is not cached.
NotCached(cmd, C) ==
    \A c \in Context : cmd[c].op = "write" /\ ~cmd[c].done => ~is_cached(C, cmd[c].block)

\* One more at the end of a queue.
LEMMA Joined ==
    ASSUME NEW q \in Seq(Context), Distinct(q), NEW c \in Context, ~IsReady(c, q),
           NEW q2, q2 = Append(q, c)
    PROVE  /\ q2 \in Seq(Context) /\ Distinct(q2)
           /\ \A x : IsReady(x, q2) <=> IsReady(x, q) \/ x = c
<1>1. /\ q2 \in Seq(Context) /\ Len(q2) = Len(q) + 1 /\ Len(q) \in Nat
      /\ \A i \in 1..Len(q) : q2[i] = q[i]
      /\ q2[Len(q) + 1] = c
  BY SMTT(30)
<1>2. \A i \in 1..Len(q2) : i = Len(q) + 1 \/ i \in 1..Len(q)
  BY SMTT(30), <1>1
<1>3. Distinct(q2)
  BY SMTT(30), <1>1, <1>2 DEF Distinct, IsReady
<1>4. ASSUME NEW x PROVE IsReady(x, q2) <=> IsReady(x, q) \/ x = c
  <2>1. IsReady(x, q2) => IsReady(x, q) \/ x = c
    BY <1>1, <1>2 DEF IsReady
  <2>2. IsReady(x, q) => IsReady(x, q2)
    <3>1. \A i \in 1..Len(q) : i \in 1..Len(q2)
      BY SMTT(30), <1>1
    <3> QED BY <1>1, <3>1 DEF IsReady
  <2>3. IsReady(c, q2)
    <3>1. Len(q) + 1 \in 1..Len(q2)
      BY SMTT(30), <1>1
    <3> QED BY <1>1, <3>1 DEF IsReady
  <2> QED BY <2>1, <2>2, <2>3
<1> QED BY <1>1, <1>3, <1>4

\* The first one leaves a queue.
LEMMA Left ==
    ASSUME NEW q \in Seq(Context), Distinct(q), q # <<>>, NEW c, c = Head(q),
           NEW q2, q2 = Tail(q)
    PROVE  /\ q2 \in Seq(Context) /\ Distinct(q2) /\ c \in Context /\ IsReady(c, q)
           /\ \A x : IsReady(x, q2) <=> IsReady(x, q) /\ x # c
<1>1. /\ q2 \in Seq(Context) /\ Len(q2) = Len(q) - 1 /\ Len(q) \in Nat /\ Len(q) > 0
      /\ \A i \in 1..(Len(q) - 1) : q2[i] = q[i + 1]
      /\ c = q[1] /\ c \in Context
  BY SMTT(30)
<1>2. \A i \in 1..Len(q2) : i + 1 \in 1..Len(q) /\ i + 1 # 1 /\ q2[i] = q[i + 1]
  BY SMTT(30), <1>1
<1>3. 1 \in 1..Len(q) /\ \A i \in 1..Len(q) : i # 1 => i - 1 \in 1..Len(q2) /\ (i - 1) + 1 = i
  BY SMTT(30), <1>1
<1>4. Distinct(q2)
  <2> SUFFICES ASSUME NEW i \in 1..Len(q2), NEW j \in 1..Len(q2), q2[i] = q2[j]
               PROVE  i = j
    BY DEF Distinct
  <2>1. i + 1 = j + 1
    BY SMTT(30), <1>2 DEF Distinct
  <2> QED BY SMTT(30), <2>1
<1>5. ASSUME NEW x PROVE IsReady(x, q2) <=> IsReady(x, q) /\ x # c
  <2>1. ASSUME IsReady(x, q2) PROVE IsReady(x, q) /\ x # c
    <3>1. PICK i \in 1..Len(q2) : q2[i] = x
      BY <2>1 DEF IsReady
    <3>2. i + 1 \in 1..Len(q) /\ i + 1 # 1 /\ q[i + 1] = x
      BY <1>2, <3>1
    <3>3. x # c
      BY <1>1, <1>3, <3>2 DEF Distinct
    <3> QED BY <3>2, <3>3 DEF IsReady
  <2>2. ASSUME IsReady(x, q), x # c PROVE IsReady(x, q2)
    <3>1. PICK i \in 1..Len(q) : q[i] = x
      BY <2>2 DEF IsReady
    <3>2. i - 1 \in 1..Len(q2) /\ q2[i - 1] = x
      BY <1>1, <1>2, <1>3, <2>2, <3>1
    <3> QED BY <3>2 DEF IsReady
  <2> QED BY <2>1, <2>2
<1>6. IsReady(c, q)
  BY <1>1, <1>3 DEF IsReady
<1> QED BY <1>1, <1>4, <1>5, <1>6

\* The commands as the tree sees them, from the state of the accessor.
Finished(c, cmds, rf) == ~(\E p \in cmds : p.context = c /\ ~p.evicted /\ ~p.done) /\ c \notin rf
Seen(c, cl, cmds, rf) ==
    IF cl[c].op = "none" THEN [op |-> "none"]
    ELSE Request(cl[c].op, cl[c].block, cl[c].buffer, Finished(c, cmds, rf))

SeenAll(cl, cmds, rf) == [c \in Context |-> Seen(c, cl, cmds, rf)]

Placed(cl, cmds, rd, rf) == NvmeTyped(cl, cmds, rd, rf) /\ OnePlace(cl, cmds, rd, rf)

\* The command of a context becomes r, and every context is in its place again.
Moved(cl, cmds, rf, c, r, cl2, cmds2, rd2, rf2) ==
    /\ Placed(cl2, cmds2, rd2, rf2)
    /\ SeenAll(cl2, cmds2, rf2) = With(SeenAll(cl, cmds, rf), c, r)

\* A context that rests has no place.
LEMMA Resting ==
    ASSUME NEW cl, NEW cmds, NEW rd, NEW rf, Placed(cl, cmds, rd, rf),
           NEW c \in Context, cl[c].op = "none"
    PROVE  c \notin rf /\ ~IsReady(c, rd) /\ (\A p \in cmds : p.context # c)
<1>1. \A p \in cmds : p.type # "none" /\ p.context \in Context
  BY DEF Placed, NvmeTyped, Para
<1> QED BY SMTT(30), <1>1 DEF Placed, OnePlace, Waiting

\* A context has a new command.
Starts(c, op, b, x, cl, cl2) ==
    /\ cl[c].op = "none" /\ op \in {"read", "write"} /\ b \in Block /\ x \in Data
    /\ cl2 = [cl EXCEPT ![c] = [op |-> op, block |-> b, buffer |-> x]]

LEMMA Started ==
    ASSUME NEW cl, NEW cmds, NEW rd, NEW rf, Placed(cl, cmds, rd, rf), NEW c \in Context,
           NEW op, NEW b, NEW x, NEW cl2, Starts(c, op, b, x, cl, cl2)
    PROVE  /\ NvmeTyped(cl2, cmds, rd, rf)
           /\ cl2[c].op = op /\ cl2[c].block = b /\ cl2[c].buffer = x
           /\ \A d \in Context : d # c => cl2[d] = cl[d]
<1>1. PICK r : r = [op |-> op, block |-> b, buffer |-> x]
  OBVIOUS
<1>2. /\ r \in [op : {"none", "read", "write"}, block : Block \cup {0}, buffer : Data]
      /\ r.op = op /\ r.block = b /\ r.buffer = x /\ r.op # "none"
  BY <1>1 DEF Starts
<1>3. cl2 = [cl EXCEPT ![c] = r] 
  BY <1>1 DEF Starts
<1> QED BY <1>2, <1>3 DEF Placed, NvmeTyped

\* Its command goes to the device.
LEMMA Submits ==
    ASSUME NEW cl, NEW cmds, NEW rd, NEW rf, Placed(cl, cmds, rd, rf), NEW c \in Context,
           NEW op, NEW b, NEW x, NEW cl2, Starts(c, op, b, x, cl, cl2),
           NEW p, p = [context |-> c, type |-> op, id |-> b, buffer |-> x,
                       evicted |-> FALSE, done |-> FALSE],
           NEW cmds2, cmds2 = cmds \cup {p}
    PROVE  Moved(cl, cmds, rf, c, Open(op, b, x), cl2, cmds2, rd, rf)
<1>1. /\ NvmeTyped(cl2, cmds, rd, rf)
      /\ cl2[c].op = op /\ cl2[c].block = b /\ cl2[c].buffer = x
      /\ \A d \in Context : d # c => cl2[d] = cl[d]
  BY SMTT(30), Started
<1>2. c \notin rf /\ ~IsReady(c, rd) /\ (\A q \in cmds : q.context # c)
  BY Resting DEF Starts
<1>3. /\ p \in Para /\ p.context = c /\ p.type = op /\ p.id = b /\ p.buffer = x
      /\ ~p.evicted /\ ~p.done /\ op # "none"
  BY DEF Starts, Para
<1>4. NvmeTyped(cl2, cmds2, rd, rf)
  BY <1>1, <1>3 DEF NvmeTyped
<1>5. \A q \in cmds : q.context \in Context
  BY <1>1 DEF NvmeTyped, Para
<1>6. OnePlace(cl2, cmds2, rd, rf)
  <2>1. ASSUME NEW q \in cmds2
        PROVE  Waiting(q.context, q, cl2) /\ ~IsReady(q.context, rd) /\ q.context \notin rf
    <3>1. CASE q = p
      BY <1>1, <1>2, <1>3, <3>1 DEF Waiting
    <3>2. CASE q \in cmds
      BY <1>1, <1>2, <1>5, <3>2 DEF Placed, OnePlace, Waiting
    <3> QED BY <3>1, <3>2
  <2>2. \A q, r \in cmds2 : q.context = r.context => q = r
    <3>1. \A q, r \in cmds : q.context = r.context => q = r
      BY DEF Placed, OnePlace
    <3>2. ASSUME NEW q \in cmds2, NEW r \in cmds2, q.context = r.context
          PROVE  q = r
      <4>1. CASE q \in cmds /\ r \in cmds
        BY <3>1, <3>2, <4>1
      <4>2. CASE q = p /\ r \in cmds
        BY <1>2, <1>3, <3>2, <4>2
      <4>3. CASE q \in cmds /\ r = p
        BY <1>2, <1>3, <3>2, <4>3
      <4> QED BY <4>1, <4>2, <4>3
    <3> QED BY <3>2
  <2>3. /\ Distinct(rd)
        /\ \A d \in Context : IsReady(d, rd) => cl2[d].op # "none" /\ d \notin rf
        /\ \A d \in rf : cl2[d].op # "none"
    BY <1>1, <1>2 DEF Placed, OnePlace, NvmeTyped
  <2>4. ASSUME NEW d \in Context, cl2[d].op # "none", d \notin rf
        PROVE  IsReady(d, rd) \/ \E q \in cmds2 : q.context = d
    BY <1>1, <1>3, <2>4 DEF Placed, OnePlace
  <2> QED BY <2>1, <2>2, <2>3, <2>4 DEF OnePlace
<1>7. ASSUME NEW d \in Context
      PROVE  Seen(d, cl2, cmds2, rf) = IF d = c THEN Open(op, b, x) ELSE Seen(d, cl, cmds, rf)
  <2>1. CASE d = c
    <3>1. Finished(c, cmds2, rf) = FALSE
      BY <1>3 DEF Finished
    <3> QED BY <1>1, <1>3, <2>1, <3>1 DEF Seen, Open
  <2>2. CASE d # c
    <3>1. Finished(d, cmds2, rf) = Finished(d, cmds, rf)
      BY <1>3, <2>2 DEF Finished
    <3> QED BY <1>1, <2>2, <3>1 DEF Seen
  <2> QED BY <2>1, <2>2
<1>8. SeenAll(cl2, cmds2, rf) = With(SeenAll(cl, cmds, rf), c, Open(op, b, x))
  BY <1>7 DEF SeenAll, With
<1> QED BY <1>4, <1>6, <1>8 DEF Placed, Moved

\* Its command is refused.
LEMMA Refuses ==
    ASSUME NEW cl, NEW cmds, NEW rd, NEW rf, Placed(cl, cmds, rd, rf), NEW c \in Context,
           NEW op, NEW b, NEW x, NEW cl2, Starts(c, op, b, x, cl, cl2),
           NEW rf2, rf2 = rf \cup {c}
    PROVE  Moved(cl, cmds, rf, c, Open(op, b, x), cl2, cmds, rd, rf2)
<1>1. /\ NvmeTyped(cl2, cmds, rd, rf)
      /\ cl2[c].op = op /\ cl2[c].block = b /\ cl2[c].buffer = x
      /\ \A d \in Context : d # c => cl2[d] = cl[d]
  BY SMTT(30), Started
<1>2. c \notin rf /\ ~IsReady(c, rd) /\ (\A q \in cmds : q.context # c) /\ op # "none"
  BY Resting DEF Starts
<1>3. NvmeTyped(cl2, cmds, rd, rf2) /\ \A q \in cmds : q.context \in Context
  BY <1>1 DEF NvmeTyped, Para
<1>4. OnePlace(cl2, cmds, rd, rf2)
  <2>1. ASSUME NEW q \in cmds
        PROVE  Waiting(q.context, q, cl2) /\ ~IsReady(q.context, rd) /\ q.context \notin rf2
    BY <1>1, <1>2, <1>3 DEF Placed, OnePlace, Waiting
  <2>2. /\ \A q, r \in cmds : q.context = r.context => q = r
        /\ Distinct(rd)
        /\ \A d \in Context : IsReady(d, rd) => cl2[d].op # "none" /\ d \notin rf2
        /\ \A d \in rf2 : cl2[d].op # "none"
    BY <1>1, <1>2 DEF Placed, OnePlace, NvmeTyped
  <2>3. ASSUME NEW d \in Context, cl2[d].op # "none", d \notin rf2
        PROVE  IsReady(d, rd) \/ \E q \in cmds : q.context = d
    BY <1>1, <2>3 DEF Placed, OnePlace
  <2> QED BY <2>1, <2>2, <2>3 DEF OnePlace
<1>5. ASSUME NEW d \in Context
      PROVE  Seen(d, cl2, cmds, rf2) = IF d = c THEN Open(op, b, x) ELSE Seen(d, cl, cmds, rf)
  <2>1. CASE d = c
    <3>1. Finished(c, cmds, rf2) = FALSE
      BY DEF Finished
    <3> QED BY <1>1, <1>2, <2>1, <3>1 DEF Seen, Open
  <2>2. CASE d # c
    <3>1. Finished(d, cmds, rf2) = Finished(d, cmds, rf)
      BY <2>2 DEF Finished
    <3> QED BY <1>1, <2>2, <3>1 DEF Seen
  <2> QED BY <2>1, <2>2
<1>6. SeenAll(cl2, cmds, rf2) = With(SeenAll(cl, cmds, rf), c, Open(op, b, x))
  BY <1>5 DEF SeenAll, With
<1> QED BY <1>3, <1>4, <1>6 DEF Placed, Moved

\* It is ready at once.
LEMMA ReadyAtOnce ==
    ASSUME NEW cl, NEW cmds, NEW rd, NEW rf, Placed(cl, cmds, rd, rf), NEW c \in Context,
           NEW op, NEW b, NEW x, NEW cl2, Starts(c, op, b, x, cl, cl2),
           NEW rd2, rd2 = Append(rd, c)
    PROVE  Moved(cl, cmds, rf, c, Done(op, b, x), cl2, cmds, rd2, rf)
<1>1. /\ NvmeTyped(cl2, cmds, rd, rf)
      /\ cl2[c].op = op /\ cl2[c].block = b /\ cl2[c].buffer = x
      /\ \A d \in Context : d # c => cl2[d] = cl[d]
  BY SMTT(30), Started
<1>2. c \notin rf /\ ~IsReady(c, rd) /\ (\A q \in cmds : q.context # c) /\ op # "none"
  BY Resting DEF Starts
<1>3. /\ rd2 \in Seq(Context) /\ Distinct(rd2)
      /\ \A d : IsReady(d, rd2) <=> IsReady(d, rd) \/ d = c
  BY <1>2, Joined DEF Placed, NvmeTyped, OnePlace
<1>4. NvmeTyped(cl2, cmds, rd2, rf) /\ \A q \in cmds : q.context \in Context
  BY <1>1, <1>3 DEF NvmeTyped, Para
<1>5. OnePlace(cl2, cmds, rd2, rf)
  <2>1. ASSUME NEW q \in cmds
        PROVE  Waiting(q.context, q, cl2) /\ ~IsReady(q.context, rd2) /\ q.context \notin rf
    BY SMTT(30), <1>1, <1>2, <1>3, <1>4 DEF Placed, OnePlace, Waiting
  <2>2. /\ \A q, r \in cmds : q.context = r.context => q = r
        /\ \A d \in Context : IsReady(d, rd2) => cl2[d].op # "none" /\ d \notin rf
        /\ \A d \in rf : cl2[d].op # "none"
    BY <1>1, <1>2, <1>3 DEF Placed, OnePlace, NvmeTyped
  <2>3. ASSUME NEW d \in Context, cl2[d].op # "none", d \notin rf
        PROVE  IsReady(d, rd2) \/ \E q \in cmds : q.context = d
    BY <1>1, <1>3, <2>3 DEF Placed, OnePlace
  <2> QED BY <1>3, <2>1, <2>2, <2>3 DEF OnePlace
<1>6. ASSUME NEW d \in Context
      PROVE  Seen(d, cl2, cmds, rf) = IF d = c THEN Done(op, b, x) ELSE Seen(d, cl, cmds, rf)
  <2>1. CASE d = c
    <3>1. Finished(c, cmds, rf) = TRUE
      BY <1>2 DEF Finished
    <3> QED BY <1>1, <1>2, <2>1, <3>1 DEF Seen, Done
  <2>2. CASE d # c
    BY <1>1, <2>2 DEF Seen
  <2> QED BY <2>1, <2>2
<1>7. SeenAll(cl2, cmds, rf) = With(SeenAll(cl, cmds, rf), c, Done(op, b, x))
  BY <1>6 DEF SeenAll, With
<1> QED BY <1>4, <1>5, <1>7 DEF Placed, Moved

\* The client of a command p.
Owned(p, cl, cmds, rd, rf) ==
    /\ p \in Para /\ ~p.evicted /\ p.context \in Context /\ p.context \notin rf
    /\ ~IsReady(p.context, rd) /\ p.id \in Block /\ p.type \in {"read", "write"}
    /\ p.done \in BOOLEAN /\ p.buffer \in Data
    /\ cl[p.context].op = p.type /\ cl[p.context].block = p.id
    /\ p.done \/ p.type = "write" => cl[p.context].buffer = p.buffer
    /\ cl[p.context].buffer \in Data
    /\ \A q \in cmds : q.context = p.context => q = p
    /\ SeenAll(cl, cmds, rf)[p.context]
         = Request(p.type, p.id, cl[p.context].buffer, p.done)

LEMMA ClientOf ==
    ASSUME NEW cl, NEW cmds, NEW rd, NEW rf, Placed(cl, cmds, rd, rf), NEW p \in cmds
    PROVE  Owned(p, cl, cmds, rd, rf)
<1>1. p \in Para /\ cl \in [Context -> [op : {"none", "read", "write"}, block : Block \cup {0}, buffer : Data]]
  BY DEF Placed, NvmeTyped
<1>2. /\ p.context \in Context /\ p.id \in Block /\ p.type \in {"read", "write"}
      /\ p.done \in BOOLEAN /\ p.buffer \in Data
  BY <1>1 DEF Para
<1>3. /\ Waiting(p.context, p, cl) /\ ~IsReady(p.context, rd) /\ p.context \notin rf
      /\ \A q \in cmds : q.context = p.context => q = p
  BY DEF Placed, OnePlace
<1>4. Finished(p.context, cmds, rf) = p.done
  BY <1>2, <1>3 DEF Finished, Waiting
<1>5. Seen(p.context, cl, cmds, rf) = Request(p.type, p.id, cl[p.context].buffer, p.done)
  BY <1>2, <1>3, <1>4 DEF Seen, Waiting
<1>6. cl[p.context].buffer \in Data
  BY <1>1, <1>2
<1> QED BY <1>1, <1>2, <1>3, <1>5, <1>6 DEF Owned, SeenAll, Waiting

\* The device carries out a command; it fills the buffer of a read.
LEMMA Executes ==
    ASSUME NEW cl, NEW cmds, NEW rd, NEW rf, Placed(cl, cmds, rd, rf), NEW p \in cmds, ~p.done,
           NEW x \in Data, p.type = "write" => x = p.buffer,
           NEW p2, p2 = [p EXCEPT !.done = TRUE, !.buffer = x],
           NEW cmds2, cmds2 = (cmds \ {p}) \cup {p2},
           NEW cl2, cl2 = [cl EXCEPT ![p.context].buffer = x]
    PROVE  Moved(cl, cmds, rf, p.context, Done(p.type, p.id, x), cl2, cmds2, rd, rf)
<1>1. PICK c : c = p.context
  OBVIOUS
<1>2. /\ p \in Para /\ ~p.evicted /\ c \in Context /\ c \notin rf
      /\ ~IsReady(c, rd) /\ p.type \in {"read", "write"}
      /\ cl[c].op = p.type /\ cl[c].block = p.id
      /\ \A q \in cmds : q.context = c => q = p
  <2>1. Owned(p, cl, cmds, rd, rf)
    BY ClientOf
  <2> QED BY <1>1, <2>1 DEF Owned
<1>3. /\ p2 \in Para /\ p2.context = c /\ p2.type = p.type /\ p2.id = p.id /\ p2.buffer = x
      /\ ~p2.evicted /\ p2.done
  BY <1>1, <1>2 DEF Para
<1>4. cl \in [Context -> [op : {"none", "read", "write"}, block : Block \cup {0}, buffer : Data]]
  BY DEF Placed, NvmeTyped
<1>5. /\ cl2 \in [Context -> [op : {"none", "read", "write"}, block : Block \cup {0}, buffer : Data]]
      /\ cl2[c].op = p.type /\ cl2[c].block = p.id /\ cl2[c].buffer = x
      /\ \A d \in Context : d # c => cl2[d] = cl[d]
  BY <1>1, <1>2, <1>4
<1>6. \A q \in cmds : q.context \in Context
  BY DEF Placed, NvmeTyped, Para
<1>7. NvmeTyped(cl2, cmds2, rd, rf)
  BY SMTT(30), <1>2, <1>3, <1>5 DEF Placed, NvmeTyped
<1>8. OnePlace(cl2, cmds2, rd, rf)
  <2>1. ASSUME NEW q \in cmds2
        PROVE  Waiting(q.context, q, cl2) /\ ~IsReady(q.context, rd) /\ q.context \notin rf
    <3>1. CASE q = p2
      BY <1>2, <1>3, <1>5, <3>1 DEF Waiting
    <3>2. CASE q \in cmds /\ q # p
      <4>1. q.context # c /\ q.context \in Context
        BY <1>2, <1>6, <3>2
      <4> QED BY <1>5, <3>2, <4>1 DEF Placed, OnePlace, Waiting
    <3> QED BY <3>1, <3>2
  <2>2. \A q, r \in cmds2 : q.context = r.context => q = r
    <3>1. \A q, r \in cmds : q.context = r.context => q = r
      BY DEF Placed, OnePlace
    <3> QED BY <1>2, <1>3, <3>1
  <2>3. /\ Distinct(rd)
        /\ \A d \in Context : IsReady(d, rd) => cl2[d].op # "none" /\ d \notin rf
        /\ \A d \in rf : cl2[d].op # "none"
    BY <1>2, <1>5 DEF Placed, OnePlace, NvmeTyped
  <2>4. ASSUME NEW d \in Context, cl2[d].op # "none", d \notin rf
        PROVE  IsReady(d, rd) \/ \E q \in cmds2 : q.context = d
    <3>1. CASE d = c
      BY <1>3, <3>1
    <3>2. CASE d # c
      BY <1>1, <1>5, <2>4, <3>2 DEF Placed, OnePlace
    <3> QED BY <3>1, <3>2
  <2> QED BY <2>1, <2>2, <2>3, <2>4 DEF OnePlace
<1>9. ASSUME NEW d \in Context
      PROVE  Seen(d, cl2, cmds2, rf)
               = IF d = c THEN Done(p.type, p.id, x) ELSE Seen(d, cl, cmds, rf)
  <2>1. CASE d = c
    <3>1. Finished(c, cmds2, rf) = TRUE
      BY <1>2, <1>3 DEF Finished
    <3> QED BY <1>2, <1>5, <2>1, <3>1 DEF Seen, Done
  <2>2. CASE d # c
    <3>1. Finished(d, cmds2, rf) = Finished(d, cmds, rf)
      BY <1>1, <1>3, <2>2 DEF Finished
    <3> QED BY <1>5, <2>2, <3>1 DEF Seen
  <2> QED BY <2>1, <2>2
<1>10. SeenAll(cl2, cmds2, rf)
         = With(SeenAll(cl, cmds, rf), c, Done(p.type, p.id, x))
  BY <1>9 DEF SeenAll, With
<1> QED BY <1>1, <1>7, <1>8, <1>10 DEF Placed, Moved

\* The callback hands the context on.
HandedOn(cl, cmds, rf, cmds2, rd2) ==
    /\ Placed(cl, cmds2, rd2, rf)
    /\ SeenAll(cl, cmds2, rf) = SeenAll(cl, cmds, rf)

LEMMA CallsBack ==
    ASSUME NEW cl, NEW cmds, NEW rd, NEW rf, Placed(cl, cmds, rd, rf), NEW p \in cmds, p.done,
           NEW cmds2, cmds2 = cmds \ {p}, NEW rd2, rd2 = Append(rd, p.context)
    PROVE  HandedOn(cl, cmds, rf, cmds2, rd2)
<1>1. PICK c : c = p.context
  OBVIOUS
<1>2. /\ c \in Context /\ c \notin rf /\ ~IsReady(c, rd) /\ p.type \in {"read", "write"}
      /\ cl[c].op = p.type
      /\ \A q \in cmds : q.context = c => q = p
  <2>1. Owned(p, cl, cmds, rd, rf)
    BY ClientOf
  <2> QED BY <1>1, <2>1 DEF Owned
<1>3. /\ rd2 \in Seq(Context) /\ Distinct(rd2)
      /\ \A d : IsReady(d, rd2) <=> IsReady(d, rd) \/ d = c
  <2>1. rd \in Seq(Context) /\ Distinct(rd) /\ rd2 = Append(rd, c)
    BY <1>1 DEF Placed, NvmeTyped, OnePlace
  <2> QED BY <1>2, <2>1, Joined
<1>4. NvmeTyped(cl, cmds2, rd2, rf)
  BY <1>3 DEF Placed, NvmeTyped
<1>5. OnePlace(cl, cmds2, rd2, rf)
  <2>1. ASSUME NEW q \in cmds2
        PROVE  Waiting(q.context, q, cl) /\ ~IsReady(q.context, rd2) /\ q.context \notin rf
    <3>1. q \in cmds /\ q.context # c
      BY <1>2
    <3> QED BY <1>3, <3>1 DEF Placed, OnePlace
  <2>2. /\ \A q, r \in cmds2 : q.context = r.context => q = r
        /\ \A d \in Context : IsReady(d, rd2) => cl[d].op # "none" /\ d \notin rf
        /\ \A d \in rf : cl[d].op # "none"
    BY <1>2, <1>3 DEF Placed, OnePlace
  <2>3. ASSUME NEW d \in Context, cl[d].op # "none", d \notin rf
        PROVE  IsReady(d, rd2) \/ \E q \in cmds2 : q.context = d
    BY <1>1, <1>3, <2>3 DEF Placed, OnePlace
  <2> QED BY <1>3, <2>1, <2>2, <2>3 DEF OnePlace
<1>6. ASSUME NEW d \in Context PROVE Seen(d, cl, cmds2, rf) = Seen(d, cl, cmds, rf)
  <2>1. Finished(d, cmds2, rf) = Finished(d, cmds, rf)
    BY DEF Finished
  <2> QED BY <2>1 DEF Seen
<1> QED BY <1>4, <1>5, <1>6 DEF HandedOn, SeenAll, Placed

\* A context that is ready has its answer.
Answer(c, cl, cmds, rf) ==
    /\ cl[c].op # "none" /\ c \notin rf /\ \A q \in cmds : q.context # c
    /\ SeenAll(cl, cmds, rf)[c] = Done(cl[c].op, cl[c].block, cl[c].buffer)

LEMMA AnswerOf ==
    ASSUME NEW cl, NEW cmds, NEW rd, NEW rf, Placed(cl, cmds, rd, rf), NEW c \in Context,
           IsReady(c, rd)
    PROVE  Answer(c, cl, cmds, rf)
<1>1. cl[c].op # "none" /\ c \notin rf /\ \A q \in cmds : q.context # c
  BY DEF Placed, OnePlace
<1>2. Finished(c, cmds, rf) = TRUE
  BY <1>1 DEF Finished
<1> QED BY <1>1, <1>2 DEF Answer, SeenAll, Seen, Done

\* A ready context is run.
LEMMA Runs ==
    ASSUME NEW cl, NEW cmds, NEW rd, NEW rf, Placed(cl, cmds, rd, rf), rd # <<>>,
           NEW c, c = Head(rd), NEW cl2, cl2 = [cl EXCEPT ![c] = Idle],
           NEW rd2, rd2 = Tail(rd)
    PROVE  /\ Moved(cl, cmds, rf, c, [op |-> "none"], cl2, cmds, rd2, rf)
           /\ c \in Context /\ IsReady(c, rd)
<1>1. /\ rd2 \in Seq(Context) /\ Distinct(rd2) /\ c \in Context /\ IsReady(c, rd)
      /\ \A d : IsReady(d, rd2) <=> IsReady(d, rd) /\ d # c
  BY Left DEF Placed, NvmeTyped, OnePlace
<1>2. cl[c].op # "none" /\ c \notin rf /\ \A q \in cmds : q.context # c
  BY <1>1 DEF Placed, OnePlace
<1>3. /\ Idle \in [op : {"none", "read", "write"}, block : Block \cup {0}, buffer : Data]
      /\ Idle.op = "none"
  BY SMTT(30), BoundsAssumption DEF Idle, Data
<1>4. /\ NvmeTyped(cl2, cmds, rd2, rf)
      /\ cl2[c] = Idle /\ \A d \in Context : d # c => cl2[d] = cl[d]
  BY <1>1, <1>3 DEF Placed, NvmeTyped
<1>5. \A q \in cmds : q.context \in Context
  BY DEF Placed, NvmeTyped, Para
<1>6. OnePlace(cl2, cmds, rd2, rf)
  <2>1. ASSUME NEW q \in cmds
        PROVE  Waiting(q.context, q, cl2) /\ ~IsReady(q.context, rd2) /\ q.context \notin rf
    BY SMTT(30), <1>1, <1>2, <1>4, <1>5 DEF Placed, OnePlace, Waiting
  <2>2. /\ \A q, r \in cmds : q.context = r.context => q = r
        /\ \A d \in Context : IsReady(d, rd2) => cl2[d].op # "none" /\ d \notin rf
        /\ \A d \in rf : cl2[d].op # "none"
    BY <1>1, <1>2, <1>4 DEF Placed, OnePlace, NvmeTyped
  <2>3. ASSUME NEW d \in Context, cl2[d].op # "none", d \notin rf
        PROVE  IsReady(d, rd2) \/ \E q \in cmds : q.context = d
    BY <1>1, <1>3, <1>4, <2>3 DEF Placed, OnePlace
  <2> QED BY <1>1, <2>1, <2>2, <2>3 DEF OnePlace
<1>7. ASSUME NEW d \in Context
      PROVE  Seen(d, cl2, cmds, rf) = IF d = c THEN [op |-> "none"] ELSE Seen(d, cl, cmds, rf)
  BY SMTT(30), <1>3, <1>4 DEF Seen
<1>8. SeenAll(cl2, cmds, rf) = With(SeenAll(cl, cmds, rf), c, [op |-> "none"])
  BY <1>7 DEF SeenAll, With
<1> QED BY <1>1, <1>4, <1>6, <1>8 DEF Placed, Moved

\* A block that is being written is still not cached: one client has another
\* command, and no other block is cached.
LEMMA NotCachedStep ==
    ASSUME NEW B, NEW cmd \in [Context -> Requests(B) \cup {[op |-> "none"]}],
           NEW C, NotCached(cmd, C), NEW c \in Context, NEW r, NEW C2,
           r.op = "write" /\ ~r.done => ~is_cached(C2, r.block),
           \A x : is_cached(C2, x) => is_cached(C, x),
           NEW cmd2, cmd2 = With(cmd, c, r)
    PROVE  NotCached(cmd2, C2)
<1>1. cmd2[c] = r /\ \A d \in Context : d # c => cmd2[d] = cmd[d]
  BY DEF With
<1> QED BY <1>1 DEF NotCached

\* The same when the block of a command that is done goes into the cache.
DonePut(cmd, C, c, b, cmd2, C2) ==
    /\ cmd2[c].op # "none" /\ cmd2[c].done /\ cmd2[c].block = b
    /\ \A d \in Context : d # c => cmd2[d] = cmd[d]
    /\ \A x : is_cached(C2, x) => x = b \/ is_cached(C, x)

LEMMA NotCachedPut ==
    ASSUME NEW cmd, NEW C, NotCached(cmd, C), NEW cmd2, Apart(cmd2), NEW c \in Context, NEW b,
           NEW C2, DonePut(cmd, C, c, b, cmd2, C2)
    PROVE  NotCached(cmd2, C2)
<1> USE DEF DonePut
<1> SUFFICES ASSUME NEW d \in Context, cmd2[d].op = "write", ~cmd2[d].done
             PROVE  ~is_cached(C2, cmd2[d].block)
  BY DEF NotCached
<1>1. d # c
  OBVIOUS
<1>2. cmd2[d].block # b
  BY <1>1 DEF Apart
<1> QED BY <1>1, <1>2 DEF NotCached

-----------------------------------------------------------------------------
(* The steps of the NVMe accessor *)

\* The inductive invariant: the storage is consistent, every context is in one
\* place, a block that is being written is not cached, and no unit is dirty.
NvmeInv ==
    /\ Storage(cache, capacity, disk, Commands, latest, lost, writes, Block)
    /\ Placed(client, io, ready, refused)
    /\ NotCached(Commands, cache)
    /\ Clean(cache)

\* What a step has to keep.
StepKept ==
    Keeps(cache, capacity, disk, Commands, latest, lost,
          cache', disk', Commands', latest', lost', writes', Block)

NvmeKept ==
    /\ StepKept
    /\ Placed(client', io', ready', refused')
    /\ NotCached(Commands', cache')
    /\ Clean(cache')

\* The parts of the state.
LEMMA NvmeState ==
    ASSUME NvmeInv
    PROVE  /\ Commands = SeenAll(client, io, refused)
           /\ Commands' = SeenAll(client', io', refused')
           /\ Storage(cache, capacity, disk, Commands, latest, lost, writes, Block)
           /\ Placed(client, io, ready, refused) /\ NotCached(Commands, cache) /\ Clean(cache)
           /\ Commands \in [Context -> Requests(Block) \cup {[op |-> "none"]}]
           /\ disk \in [Block -> Data] /\ CacheOK(cache, Block)
<1>1. Commands = SeenAll(client, io, refused)
  BY DEF Commands, InFlight, SeenAll, Seen, Request, Finished
<1>2. Commands' = SeenAll(client', io', refused')
  BY DEF Commands, InFlight, SeenAll, Seen, Request, Finished
<1>3. /\ Storage(cache, capacity, disk, Commands, latest, lost, writes, Block)
      /\ Placed(client, io, ready, refused) /\ NotCached(Commands, cache) /\ Clean(cache)
  BY DEF NvmeInv
<1>4. /\ Commands \in [Context -> Requests(Block) \cup {[op |-> "none"]}]
      /\ disk \in [Block -> Data] /\ CacheOK(cache, Block)
  BY <1>3 DEF Storage, Memory, MemTyped
<1> QED BY <1>1, <1>2, <1>3, <1>4

\* The barriers, as the commands show them.
LEMMA NvmeBusy ==
    ASSUME NvmeInv, NEW b
    PROVE  /\ Busy(b, "write") = {} => NoWriter(Commands, b)
           /\ Busy(b, "write") = {} /\ Busy(b, "read") = {} => NoClient(Commands, b)
           /\ \A c \in Context : client[c].op = "none" => Commands[c].op = "none"
<1>1. \A c \in Context : Commands[c] = Seen(c, client, io, refused)
  BY NvmeState DEF SeenAll
<1>2. ASSUME NEW c \in Context, client[c].op # "none"
      PROVE  Commands[c].op = client[c].op /\ Commands[c].block = client[c].block
  <2>1. PICK r : r = Request(client[c].op, client[c].block, client[c].buffer,
                             Finished(c, io, refused))
    OBVIOUS
  <2>2. r.op = client[c].op /\ r.block = client[c].block
    BY <2>1 DEF Request
  <2> QED BY <1>1, <1>2, <2>1, <2>2 DEF Seen
<1>3. ASSUME NEW c \in Context, client[c].op = "none" PROVE Commands[c].op = "none"
  BY SMTT(30), <1>1, <1>3 DEF Seen
<1>4. \A c \in Context : client[c].op \in {"none", "read", "write"}
  BY NvmeState DEF Placed, NvmeTyped
<1>5. Busy(b, "write") = {} => NoWriter(Commands, b)
  BY <1>2, <1>3, <1>4 DEF Busy, NoWriter
<1>6. Busy(b, "write") = {} /\ Busy(b, "read") = {} => NoClient(Commands, b)
  BY <1>2, <1>3, <1>4 DEF Busy, NoClient
<1> QED BY <1>3, <1>5, <1>6

\* A new command is submitted or refused.
LEMMA NvmeSubmit ==
    ASSUME NvmeInv, NEW c \in Context, NEW op, NEW b, NEW x, Starts(c, op, b, x, client, client'),
           Submit(c, op, b, x), ready' = ready
    PROVE  /\ Placed(client', io', ready', refused')
           /\ Commands' = With(Commands, c, Open(op, b, x))
<1>1. Placed(client, io, ready, refused)
  BY NvmeState
<1>2. PICK p : p = [context |-> c, type |-> op, id |-> b, buffer |-> x,
                    evicted |-> FALSE, done |-> FALSE]
  OBVIOUS
<1>3. CASE io' = io \cup {p} /\ refused' = refused
  <2>1. Moved(client, io, refused, c, Open(op, b, x), client', io', ready, refused)
    BY <1>1, <1>2, <1>3, Submits
  <2> QED BY <1>3, <2>1, NvmeState DEF Moved
<1>4. CASE refused' = refused \cup {c} /\ io' = io
  <2>1. Moved(client, io, refused, c, Open(op, b, x), client', io, ready, refused')
    BY <1>1, <1>4, Refuses
  <2> QED BY <1>4, <2>1, NvmeState DEF Moved
<1> QED BY <1>2, <1>3, <1>4 DEF Submit

\* A new command on a cached block is ready at once.
LEMMA NvmeReady ==
    ASSUME NvmeInv, NEW c \in Context, NEW op, NEW b, NEW x, Starts(c, op, b, x, client, client'),
           io' = io, refused' = refused, ready' = Append(ready, c)
    PROVE  /\ Placed(client', io', ready', refused')
           /\ Commands' = With(Commands, c, Done(op, b, x))
<1>1. Placed(client, io, ready, refused)
  BY NvmeState
<1>2. Moved(client, io, refused, c, Done(op, b, x), client', io, ready', refused)
  BY <1>1, ReadyAtOnce
<1> QED BY <1>2, NvmeState DEF Moved

\* asynch_read.
LEMMA NvmeRead ==
    ASSUME NvmeInv, NEW c \in Context, NEW b \in Block, asynch_read(c, b)
    PROVE  NvmeKept
<1>1. /\ client[c].op = "none" /\ Busy(b, "write") = {}
      /\ capacity' = capacity /\ disk' = disk /\ writes' = writes /\ latest' = latest /\ lost' = lost
  BY SMTT(30) DEF asynch_read, Idle
<1>2. Commands[c].op = "none" /\ NoWriter(Commands, b)
  BY <1>1, NvmeBusy
<1>3. CASE is_cached(cache, b)
  <2>1. PICK x : x = get(cache, b).data
    OBVIOUS
  <2>2. /\ cache' = Touch(cache, get(cache, b)) /\ io' = io /\ refused' = refused
        /\ client' = [client EXCEPT ![c] = [op |-> "read", block |-> b, buffer |-> x]]
        /\ ready' = Append(ready, c)
    BY <1>3, <2>1 DEF asynch_read
  <2>3. x \in Data
    BY <1>3, <2>1, NvmeState, UnitOf DEF CacheUnit
  <2>4. Starts(c, "read", b, x, client, client')
    BY <1>1, <2>2, <2>3 DEF Starts
  <2>5. /\ Placed(client', io', ready', refused')
        /\ Commands' = With(Commands, c, Done("read", b, x))
    BY <2>2, <2>4, NvmeReady
  <2>6. StepKept
    BY <1>1, <1>2, <1>3, <2>1, <2>2, <2>5, NvmeState, HitKeeps DEF StepKept
  <2>7. CacheOK(cache', Block) /\ SameUnits(cache, cache')
    BY <1>3, <2>2, NvmeState, TouchEffect
  <2>8. Clean(cache')
    BY <2>7, NvmeState, SameView
  <2>9. NotCached(Commands', cache')
    <3>1. \A z : is_cached(cache', z) => is_cached(cache, z)
      BY <2>7 DEF SameUnits, Agree
    <3>2. Done("read", b, x).op # "write"
      BY DEF Request, Done
    <3> QED BY <2>5, <3>1, <3>2, NvmeState, NotCachedStep
  <2> QED BY <2>5, <2>6, <2>8, <2>9 DEF NvmeKept
<1>4. CASE ~is_cached(cache, b)
  <2>1. /\ Submit(c, "read", b, 0) /\ cache' = cache /\ ready' = ready
        /\ client' = [client EXCEPT ![c] = [op |-> "read", block |-> b, buffer |-> 0]]
    BY <1>4 DEF asynch_read
  <2>2. Starts(c, "read", b, 0, client, client')
    BY SMTT(30), <1>1, <2>1, BoundsAssumption DEF Starts, Data
  <2>3. /\ Placed(client', io', ready', refused')
        /\ Commands' = With(Commands, c, Open("read", b, 0))
    BY <2>1, <2>2, NvmeSubmit
  <2>4. StepKept
    BY <1>1, <1>2, <1>4, <2>1, <2>3, NvmeState, MissKeeps DEF StepKept
  <2>5. NotCached(Commands', cache')
    <3>1. Open("read", b, 0).op # "write"
      BY DEF Request, Open
    <3> QED BY <2>1, <2>3, <3>1, NvmeState, NotCachedStep
  <2> QED BY <2>1, <2>3, <2>4, <2>5, NvmeState DEF NvmeKept
<1> QED BY <1>3, <1>4

\* The storage, in the form that the effect of write() needs.
LEMMA StorageParts ==
    ASSUME NEW B, NEW C, NEW k, NEW dk, NEW cmd, NEW lt, NEW ls, NEW n,
           Storage(C, k, dk, cmd, lt, ls, n, B)
    PROVE  /\ CacheOK(C, B) /\ k \in Nat \ {0} /\ Len(C) <= k /\ n \in Data
           /\ dk \in [B -> Data] /\ lt \in [B -> Data] /\ ls \subseteq B
           /\ Apart(cmd) /\ cmd \in [Context -> Requests(B) \cup {[op |-> "none"]}]
           /\ k >= Cardinality(B) => ls = {}
BY DEF Storage, Memory, MemTyped

\* A step of the memory leaves the commands apart.
LEMMA KeptApart ==
    ASSUME NEW B, NEW C, NEW k, NEW dk, NEW cmd, NEW lt, NEW ls,
           NEW C2, NEW dk2, NEW cmd2, NEW lt2, NEW ls2, NEW n2,
           Keeps(C, k, dk, cmd, lt, ls, C2, dk2, cmd2, lt2, ls2, n2, B)
    PROVE  Apart(cmd2) /\ Storage(C2, k, dk2, cmd2, lt2, ls2, n2, B)
BY DEF Keeps, Storage, Memory

\* asynch_write.
LEMMA NvmeWrite ==
    ASSUME CachesFit, IsFiniteSet(Block), NvmeInv,
           NEW c \in Context, NEW b \in Block, asynch_write(c, b)
    PROVE  NvmeKept
<1>1. PICK m : m = writes + 1
  OBVIOUS
<1>2. /\ client[c].op = "none" /\ Busy(b, "write") = {} /\ Busy(b, "read") = {}
      /\ writes < MaxWrites /\ writes' = m /\ latest' = [latest EXCEPT ![b] = m]
      /\ client' = [client EXCEPT ![c] = [op |-> "write", block |-> b, buffer |-> m]]
      /\ capacity' = capacity /\ disk' = disk /\ lost' = lost \ {b}
  BY SMTT(30), <1>1 DEF asynch_write, Idle
<1>3. m \in Data
  <2>1. writes \in Data
    BY NvmeState, StorageParts
  <2> QED BY SMTT(30), <1>1, <1>2, <2>1, BoundsAssumption DEF Data
<1>4. Commands[c].op = "none" /\ NoClient(Commands, b)
  BY <1>2, NvmeBusy
<1>5. Starts(c, "write", b, m, client, client')
  BY <1>2, <1>3 DEF Starts
<1>6. CASE is_cached(cache, b)
  <2>1. /\ cache' = write(cache, b, m, TRUE, capacity) /\ ready' = Append(ready, c)
        /\ io' = io /\ refused' = refused
    BY <1>1, <1>6 DEF asynch_write
  <2>2. cache' = write(cache, b, m, FALSE, capacity)
    BY <1>6, <2>1 DEF write
  <2>3. /\ Placed(client', io', ready', refused')
        /\ Commands' = With(Commands, c, Done("write", b, m))
    BY <1>5, <2>1, NvmeReady
  <2>4. /\ CacheOK(cache, Block) /\ capacity \in Nat \ {0} /\ Len(cache) <= capacity
        /\ disk \in [Block -> Data] /\ lost \subseteq Block
        /\ capacity >= Cardinality(Block) => lost = {}
    BY NvmeState, StorageParts
  <2>5. Puts(cache, cache', b, m, FALSE, capacity, disk, Block)
    BY <1>3, <2>2, <2>4, WriteEffect
  <2>6. ~Loses(cache, b, capacity, disk)
    BY <1>6 DEF Loses, Evicted
  <2>7. /\ lost' \subseteq Block /\ lost \subseteq lost' \cup {b}
        /\ capacity >= Cardinality(Block) => lost' = {}
    BY <1>2, <2>4
  <2>8. StepKept
    BY <1>2, <1>3, <1>4, <2>3, <2>5, <2>6, <2>7, NvmeState, CachedWriteKeeps DEF StepKept
  <2>9. Clean(cache') /\ \A x : is_cached(cache', x) => x = b \/ is_cached(cache, x)
    BY <2>5, NvmeState DEF Puts
  <2>10. NotCached(Commands', cache')
    <3>1. Apart(Commands')
      BY <2>8, KeptApart DEF StepKept
    <3>2. PICK r : r = Done("write", b, m)
      OBVIOUS
    <3>3. r.op # "none" /\ r.done /\ r.block = b
      BY <3>2 DEF Request, Done
    <3>4. Commands'[c] = r /\ \A d \in Context : d # c => Commands'[d] = Commands[d]
      BY <2>3, <3>2, NvmeState DEF With
    <3>5. DonePut(Commands, cache, c, b, Commands', cache')
      BY <2>9, <3>3, <3>4 DEF DonePut
    <3>6. NotCached(Commands, cache)
      BY NvmeState
    <3> QED BY <3>1, <3>5, <3>6, NotCachedPut
  <2> QED BY <2>3, <2>8, <2>9, <2>10 DEF NvmeKept
<1>7. CASE ~is_cached(cache, b)
  <2>1. Submit(c, "write", b, m) /\ cache' = cache /\ ready' = ready
    BY <1>1, <1>7 DEF asynch_write
  <2>2. /\ Placed(client', io', ready', refused')
        /\ Commands' = With(Commands, c, Open("write", b, m))
    BY <1>5, <2>1, NvmeSubmit
  <2>3. StepKept
    BY <1>2, <1>3, <1>4, <2>1, <2>2, NvmeState, BeginKeeps DEF StepKept
  <2>4. NotCached(Commands', cache')
    <3>1. PICK r : r = Open("write", b, m)
      OBVIOUS
    <3>2. r.block = b
      BY <3>1 DEF Request, Open
    <3>3. Commands' = With(Commands, c, r) /\ ~is_cached(cache', r.block)
      BY <1>7, <2>1, <2>2, <3>1, <3>2
    <3> QED BY <2>1, <3>3, NvmeState, NotCachedStep
  <2> QED BY <2>1, <2>2, <2>3, <2>4, NvmeState DEF NvmeKept
<1> QED BY <1>6, <1>7

\* device_executes.
LEMMA NvmeDevice ==
    ASSUME NvmeInv, NEW p \in io, device_executes(p)
    PROVE  NvmeKept
<1>1. /\ ~p.done /\ cache' = cache /\ ready' = ready /\ writes' = writes /\ latest' = latest
      /\ lost' = lost /\ refused' = refused
  BY DEF device_executes
<1>2. Placed(client, io, ready, refused)
  BY NvmeState
<1>3. /\ p \in Para /\ p.context \in Context /\ p.id \in Block /\ p.type \in {"read", "write"}
      /\ p.buffer \in Data /\ (p.type = "write" => client[p.context].buffer = p.buffer)
      /\ client[p.context].buffer \in Data
      /\ Commands[p.context] = Open(p.type, p.id, client[p.context].buffer)
  <2>1. /\ p \in Para /\ p.context \in Context /\ p.id \in Block /\ p.type \in {"read", "write"}
        /\ p.buffer \in Data /\ p.done \in BOOLEAN
        /\ p.type = "write" => client[p.context].buffer = p.buffer
        /\ client[p.context].buffer \in Data
        /\ SeenAll(client, io, refused)[p.context]
             = Request(p.type, p.id, client[p.context].buffer, p.done)
    <3>1. Owned(p, client, io, ready, refused)
      BY <1>2, ClientOf
    <3> QED BY <3>1 DEF Owned
  <2>2. p.done = FALSE
    BY SMTT(30), <1>1, <2>1
  <2> QED BY <2>1, <2>2, NvmeState DEF Open
<1>4. PICK c : c = p.context
  OBVIOUS
<1>5. CASE p.type = "read"
  <2>1. PICK x : x = disk[p.id]
    OBVIOUS
  <2>2. PICK p2 : p2 = [p EXCEPT !.done = TRUE, !.buffer = x]
    OBVIOUS
  <2>3. /\ io' = (io \ {p}) \cup {p2} /\ client' = [client EXCEPT ![p.context].buffer = x]
        /\ disk' = disk
    BY <1>5, <2>1, <2>2 DEF device_executes
  <2>4. x \in Data
    BY <1>3, <2>1, NvmeState
  <2>5. Moved(client, io, refused, p.context, Done(p.type, p.id, x), client', io', ready, refused)
    BY <1>1, <1>2, <1>5, <2>2, <2>3, <2>4, Executes
  <2>6. /\ Placed(client', io', ready', refused')
        /\ Commands' = With(Commands, c, Done("read", p.id, x))
    BY <1>1, <1>4, <1>5, <2>5, NvmeState DEF Moved
  <2>7. StepKept
    BY <1>1, <1>3, <1>4, <1>5, <2>1, <2>3, <2>6, NvmeState, ReadDoneKeeps DEF StepKept
  <2>8. NotCached(Commands', cache')
    <3>1. Done("read", p.id, x).op # "write"
      BY DEF Request, Done
    <3> QED BY <1>1, <1>3, <1>4, <2>6, <3>1, NvmeState, NotCachedStep
  <2> QED BY <1>1, <2>6, <2>7, <2>8, NvmeState DEF NvmeKept
<1>6. CASE p.type # "read"
  <2>1. PICK p2 : p2 = [p EXCEPT !.done = TRUE, !.buffer = p.buffer]
    OBVIOUS
  <2>2. p2 = [p EXCEPT !.done = TRUE]
    BY <1>3, <2>1 DEF Para
  <2>3. io' = (io \ {p}) \cup {p2} /\ client' = client /\ disk' = [disk EXCEPT ![p.id] = p.buffer]
    BY <1>6, <2>2 DEF device_executes
  <2>4. client' = [client EXCEPT ![p.context].buffer = p.buffer]
    BY SMTT(30), <1>2, <1>3, <1>6, <2>3 DEF Placed, NvmeTyped
  <2>5. Moved(client, io, refused, p.context, Done(p.type, p.id, p.buffer), client', io', ready, refused)
    BY <1>1, <1>2, <1>3, <2>1, <2>3, <2>4, Executes
  <2>6. /\ Placed(client', io', ready', refused')
        /\ Commands' = With(Commands, c, Done("write", p.id, p.buffer))
    BY <1>1, <1>3, <1>4, <1>6, <2>5, NvmeState DEF Moved
  <2>7. Commands[c] = Open("write", p.id, p.buffer)
    BY <1>3, <1>4, <1>6
  <2>8. ~is_cached(cache, p.id)
    <3>1. Commands[c].op = "write" /\ Commands[c].block = p.id /\ ~Commands[c].done
      BY SMTT(30), <2>7 DEF Request, Open
    <3> QED BY <1>3, <1>4, <3>1, NvmeState DEF NotCached
  <2>9. StepKept
    BY <1>1, <1>3, <1>4, <2>3, <2>6, <2>7, <2>8, NvmeState, WrittenKeeps DEF StepKept
  <2>10. NotCached(Commands', cache')
    <3>1. Done("write", p.id, p.buffer).done
      BY DEF Request, Done
    <3> QED BY <1>1, <1>3, <1>4, <2>6, <3>1, NvmeState, NotCachedStep
  <2> QED BY <1>1, <2>6, <2>9, <2>10, NvmeState DEF NvmeKept
<1> QED BY <1>5, <1>6

\* context_call_back_function.
LEMMA NvmeCallback ==
    ASSUME CachesFit, IsFiniteSet(Block), NvmeInv, NEW p \in io, context_call_back_function(p)
    PROVE  NvmeKept
<1>1. /\ p.done /\ cache' = write(cache, p.id, p.buffer, FALSE, capacity)
      /\ disk' = disk /\ client' = client /\ writes' = writes /\ latest' = latest
      /\ refused' = refused
  BY DEF context_call_back_function
<1>2. Placed(client, io, ready, refused)
  BY NvmeState
<1>3. PICK c : c = p.context
  OBVIOUS
<1>4. /\ c \in Context /\ p.id \in Block /\ p.type \in {"read", "write"} /\ p.buffer \in Data
      /\ Commands[c] = Request(p.type, p.id, p.buffer, p.done)
  <2>1. /\ p.context \in Context /\ p.id \in Block /\ p.type \in {"read", "write"}
        /\ p.buffer \in Data /\ client[p.context].buffer = p.buffer
        /\ SeenAll(client, io, refused)[p.context]
             = Request(p.type, p.id, client[p.context].buffer, p.done)
    <3>1. Owned(p, client, io, ready, refused)
      BY <1>2, ClientOf
    <3> QED BY <1>1, <3>1 DEF Owned
  <2> QED BY <1>3, <2>1, NvmeState
<1>5. /\ Commands[c].op # "none" /\ Commands[c].done
      /\ Commands[c].block = p.id /\ Commands[c].data = p.buffer
  BY SMTT(30), <1>1, <1>4 DEF Request
<1>6. /\ CacheOK(cache, Block) /\ capacity \in Nat \ {0} /\ Len(cache) <= capacity
  BY NvmeState, StorageParts
<1>7. Evicted(cache, p.id, capacity) => ~evict_unit(cache).dirty
  <2>1. Evicted(cache, p.id, capacity) => Victim(cache, p.id, evict_unit(cache), Block)
    BY <1>4, <1>6, Written
  <2> QED BY <1>6, <2>1, NvmeState, CleanUnits DEF Victim
<1>8. /\ io' = io \ {p} /\ ready' = Append(ready, p.context)
      /\ lost' = IF Loses(cache, p.id, capacity, disk)
                 THEN lost \cup {evict_unit(cache).id} ELSE lost
  BY <1>7 DEF context_call_back_function, Loses
<1>9. /\ Placed(client', io', ready', refused')
      /\ Commands' = Commands
  <2>1. HandedOn(client, io, refused, io', ready')
    BY <1>1, <1>2, <1>8, CallsBack
  <2> QED BY <1>1, <2>1, NvmeState DEF HandedOn
<1>10. /\ Keeps(cache, capacity, disk, Commands, latest, lost,
                cache', disk, Commands, latest, lost', writes, Block)
       /\ Puts(cache, cache', p.id, p.buffer, FALSE, capacity, disk, Block)
  <2>1. Fills(cache, capacity, disk, Commands, latest, lost, cache', lost', writes,
              p.id, p.buffer, Block)
    BY <1>1, <1>4, <1>5, <1>8, NvmeState, FillKeeps
  <2> QED BY <2>1 DEF Fills
<1>11. StepKept
  BY <1>1, <1>9, <1>10 DEF StepKept
<1>12. Clean(cache') /\ \A x : is_cached(cache', x) => x = p.id \/ is_cached(cache, x)
  BY <1>10, NvmeState DEF Puts
<1>13. NotCached(Commands', cache')
  <2>1. Apart(Commands)
    BY NvmeState, StorageParts
  <2>2. DonePut(Commands, cache, c, p.id, Commands, cache')
    BY <1>5, <1>12 DEF DonePut
  <2>3. NotCached(Commands, cache)
    BY NvmeState
  <2>4. NotCached(Commands, cache')
    BY <1>4, <2>1, <2>2, <2>3, NotCachedPut
  <2> QED BY <1>9, <2>4
<1> QED BY <1>9, <1>11, <1>12, <1>13 DEF NvmeKept

\* run_ready.
LEMMA NvmeRun ==
    ASSUME NvmeInv, run_ready
    PROVE  NvmeKept
<1>1. PICK c : c = Head(ready)
  OBVIOUS
<1>2. /\ ready # <<>> /\ client' = [client EXCEPT ![c] = Idle] /\ ready' = Tail(ready)
      /\ cache' = cache /\ disk' = disk /\ io' = io /\ writes' = writes /\ latest' = latest
      /\ lost' = lost /\ refused' = refused
  BY <1>1 DEF run_ready
<1>3. /\ Moved(client, io, refused, c, [op |-> "none"], client', io, ready', refused)
      /\ c \in Context /\ IsReady(c, ready)
  BY <1>1, <1>2, NvmeState, Runs
<1>4. /\ Placed(client', io', ready', refused')
      /\ Commands' = With(Commands, c, [op |-> "none"])
  BY <1>2, <1>3, NvmeState DEF Moved
<1>5. Commands[c].op # "none" /\ Commands[c].done
  <2>1. Answer(c, client, io, refused)
    BY <1>3, NvmeState, AnswerOf
  <2>2. PICK r : r = Done(client[c].op, client[c].block, client[c].buffer)
    OBVIOUS
  <2>3. r.op = client[c].op /\ r.done
    BY <2>2 DEF Request, Done
  <2>4. Commands[c] = r
    BY <2>1, <2>2, NvmeState DEF Answer
  <2> QED BY <2>1, <2>3, <2>4 DEF Answer
<1>6. StepKept
  BY <1>2, <1>3, <1>4, <1>5, NvmeState, EndKeeps DEF StepKept
<1>7. NotCached(Commands', cache')
  <2>1. PICK r : r = [op |-> "none"]
    OBVIOUS
  <2>2. r.op # "write" /\ Commands' = With(Commands, c, r)
    BY <1>4, <2>1
  <2> QED BY <1>2, <1>3, <2>2, NvmeState, NotCachedStep
<1> QED BY <1>2, <1>4, <1>6, <1>7, NvmeState DEF NvmeKept

\* Every step of the NVMe accessor is one of the memory, and keeps its state.
LEMMA NvmeStep ==
    ASSUME CachesFit, IsFiniteSet(Block), NvmeInv, Next
    PROVE  NvmeKept /\ NvmeInv'
<1>1. NvmeKept
  BY NvmeRead, NvmeWrite, NvmeDevice, NvmeCallback, NvmeRun DEF Next
<1>2. capacity' = capacity
  BY DEF Next, asynch_read, asynch_write, device_executes, context_call_back_function, run_ready
<1>3. NvmeInv'
  BY <1>1, <1>2 DEF NvmeKept, StepKept, Keeps, NvmeInv
<1> QED BY <1>1, <1>3

-----------------------------------------------------------------------------
(* The calls of the accessors that block their callers *)

\* The calls on the blocks B: where a thread can be, and what it has.
Stops == {"idle", "read", "write", "device", "complete", "fill", "pwrite", "wait", "return"}
Units(B) == {<<>>} \cup {<<u>> : u \in CacheUnit(B, Data)}

Calls(B) == [op : {"none", "read", "write"}, block : B \cup {0}, buffer : Data,
             pc : Stops, done : BOOLEAN, unit : Units(B)]

CallOf(op, b, x, pc, done) ==
    [op |-> op, block |-> b, buffer |-> x, pc |-> pc, done |-> done, unit |-> <<>>]
Rest == CallOf("none", 0, 0, "idle", FALSE)

CallOK(r, B) ==
    /\ r \in Calls(B)
    /\ r.op = "none" => r = Rest
    /\ r.op # "none" => r.block \in B /\ r.pc # "idle"

CallsTyped(cl, B) == cl \in [Context -> Calls(B)] /\ \A c \in Context : CallOK(cl[c], B)

\* The calls as the tree sees them.
SeenCall(r) == IF r.op = "none" THEN [op |-> "none"] ELSE Request(r.op, r.block, r.buffer, r.done)
SeenCalls(cl) == [c \in Context |-> SeenCall(cl[c])]

CallsInv(B) ==
    /\ Storage(cache, capacity, disk, SeenCalls(client), latest, lost, writes, B)
    /\ CallsTyped(client, B)

CallsKept(B) ==
    /\ Keeps(cache, capacity, disk, SeenCalls(client), latest, lost,
             cache', disk', SeenCalls(client'), latest', lost', writes', B)
    /\ CallsTyped(client', B)

\* The call of a thread becomes r.
Turns(c, r, B) == CallOK(r, B) /\ client' = [client EXCEPT ![c] = r]

Turned(c, r, B) ==
    /\ CallsTyped(client', B)
    /\ SeenCalls(client') = With(SeenCalls(client), c, SeenCall(r))
    /\ client'[c] = r /\ \A d \in Context : d # c => client'[d] = client[d]

LEMMA CallTurned ==
    ASSUME NEW B, CallsTyped(client, B), NEW c \in Context, NEW r, Turns(c, r, B)
    PROVE  Turned(c, r, B)
<1>1. client \in [Context -> Calls(B)] /\ \A d \in Context : CallOK(client[d], B)
  BY DEF CallsTyped
<1>2. /\ client' \in [Context -> Calls(B)] /\ client'[c] = r
      /\ \A d \in Context : d # c => client'[d] = client[d]
  BY <1>1 DEF Turns, CallOK
<1>3. CallsTyped(client', B)
  BY <1>1, <1>2 DEF CallsTyped, Turns
<1>4. \A d \in Context : SeenCall(client'[d]) = IF d = c THEN SeenCall(r) ELSE SeenCall(client[d])
  BY <1>2
<1>5. SeenCalls(client') = With(SeenCalls(client), c, SeenCall(r))
  BY <1>4 DEF SeenCalls, With
<1> QED BY <1>2, <1>3, <1>5 DEF Turned

\* The call of one thread, as the tree sees it.
LEMMA CallSeen ==
    ASSUME NEW B, CallsInv(B), NEW c \in Context
    PROVE  /\ CallOK(client[c], B) /\ SeenCalls(client)[c] = SeenCall(client[c])
           /\ client[c].op = "none" => SeenCalls(client)[c].op = "none"
           /\ client[c].op # "none" =>
                /\ SeenCalls(client)[c].op = client[c].op
                /\ SeenCalls(client)[c].block = client[c].block
                /\ SeenCalls(client)[c].data = client[c].buffer
                /\ SeenCalls(client)[c].done = client[c].done
<1>1. CallOK(client[c], B) /\ SeenCalls(client)[c] = SeenCall(client[c])
  BY DEF CallsInv, CallsTyped, SeenCalls
<1>2. CASE client[c].op = "none"
  <2>1. PICK r : r = [op |-> "none"]
    OBVIOUS
  <2>2. r.op = "none" /\ SeenCalls(client)[c] = r
    BY <1>1, <1>2, <2>1 DEF SeenCall
  <2> QED BY <1>1, <1>2, <2>2
<1>3. CASE client[c].op # "none"
  <2>1. PICK r : r = Request(client[c].op, client[c].block, client[c].buffer, client[c].done)
    OBVIOUS
  <2>2. SeenCalls(client)[c] = r
    BY <1>1, <1>3, <2>1 DEF SeenCall
  <2>3. /\ r.op = client[c].op /\ r.block = client[c].block /\ r.data = client[c].buffer
        /\ r.done = client[c].done
    BY <2>1 DEF Request
  <2> QED BY <1>1, <1>3, <2>2, <2>3
<1> QED BY <1>2, <1>3

\* No thread has a call of the given kind on a block.
Nobody(b, op) == \A t \in Context : client[t].op = op => client[t].block # b

LEMMA CallsApart ==
    ASSUME NEW B, CallsInv(B), NEW b, Nobody(b, "write")
    PROVE  /\ NoWriter(SeenCalls(client), b)
           /\ Nobody(b, "read") => NoClient(SeenCalls(client), b)
<1>1. \A c \in Context : client[c].op \in {"none", "read", "write"}
  BY DEF CallsInv, CallsTyped, Calls
<1>2. NoWriter(SeenCalls(client), b)
  BY CallSeen DEF NoWriter, Nobody
<1>3. Nobody(b, "read") => NoClient(SeenCalls(client), b)
  BY <1>1, CallSeen DEF NoClient, Nobody
<1> QED BY <1>2, <1>3

\* A new call.
Begun(r, op, b, x, pc, done, B) ==
    /\ CallOK(r, B) /\ r.unit = <<>> /\ r.pc = pc /\ r.done = done /\ r.op = op
    /\ SeenCall(r) = Request(op, b, x, done)

LEMMA CallBegins ==
    ASSUME NEW B, NEW b \in B, NEW op \in {"read", "write"}, NEW x \in Data,
           NEW pc \in Stops \ {"idle"}, NEW done \in BOOLEAN, NEW r, r = CallOf(op, b, x, pc, done)
    PROVE  Begun(r, op, b, x, pc, done, B)
<1>1. /\ r \in Calls(B) /\ r.op = op /\ r.block = b /\ r.pc = pc /\ r.done = done /\ r.buffer = x
      /\ r.unit = <<>>
  BY DEF Calls, CallOf, Units
<1>2. r.op # "none"
  BY <1>1
<1> QED BY <1>1, <1>2 DEF Begun, CallOK, SeenCall

LEMMA RestOK ==
    ASSUME NEW B
    PROVE  /\ CallOK(Rest, B) /\ SeenCall(Rest) = [op |-> "none"]
           /\ Rest.op = "none" /\ Rest.pc = "idle" /\ Rest.unit = <<>> /\ ~Rest.done
<1>0. 0 \in Data
  BY SMTT(30), BoundsAssumption DEF Data
<1>1. /\ Rest \in Calls(B) /\ Rest.op = "none" /\ Rest.pc = "idle" /\ Rest.unit = <<>>
      /\ Rest.done = FALSE
  BY <1>0 DEF Calls, CallOf, Rest, Units, Stops
<1> QED BY <1>1 DEF CallOK, SeenCall

\* A call goes on: r has its operation and its block, a buffer x, and has taken
\* effect or not.
Goes(c, r, x, done, B) ==
    /\ r \in Calls(B) /\ r.op = client[c].op /\ r.block = client[c].block /\ r.op # "none"
    /\ r.buffer = x /\ r.done = done /\ r.pc # "idle"
    /\ client' = [client EXCEPT ![c] = r]

Went(c, r, x, done, B) ==
    /\ Turned(c, r, B)
    /\ SeenCalls(client') = With(SeenCalls(client), c,
                                 Request(client[c].op, client[c].block, x, done))
    /\ x = client[c].buffer /\ done = client[c].done => SeenCalls(client') = SeenCalls(client)

LEMMA CallGoes ==
    ASSUME NEW B, CallsInv(B), NEW c \in Context, NEW r, NEW x, NEW done, Goes(c, r, x, done, B)
    PROVE  Went(c, r, x, done, B)
<1>1. CallOK(client[c], B) /\ SeenCalls(client)[c] = SeenCall(client[c])
  BY CallSeen
<1>2. Turns(c, r, B)
  BY <1>1 DEF Goes, Turns, CallOK
<1>3. Turned(c, r, B)
  BY <1>2, CallTurned DEF CallsInv
<1>4. SeenCall(r) = Request(client[c].op, client[c].block, x, done)
  BY DEF Goes, SeenCall
<1>5. SeenCalls(client') = With(SeenCalls(client), c, Request(client[c].op, client[c].block, x, done))
  BY <1>3, <1>4 DEF Turned
<1>6. ASSUME x = client[c].buffer, done = client[c].done
      PROVE  SeenCalls(client') = SeenCalls(client)
  <2>1. SeenCall(client[c]) = Request(client[c].op, client[c].block, x, done)
    BY <1>6 DEF SeenCall, Goes
  <2>2. \A d \in Context : SeenCall(client'[d]) = SeenCall(client[d])
    BY <1>3, <1>4, <2>1 DEF Turned
  <2> QED BY <2>2 DEF SeenCalls
<1> QED BY <1>3, <1>5, <1>6 DEF Went

\* read() of a cached block.
LEMMA SyncHit ==
    ASSUME NEW B, CallsInv(B), NEW c \in Context, NEW b \in B, client[c] = Rest,
           Nobody(b, "write"), is_cached(cache, b), cache' = Touch(cache, get(cache, b)),
           NEW r, r = CallOf("read", b, get(cache, b).data, "return", TRUE),
           client' = [client EXCEPT ![c] = r],
           disk' = disk, latest' = latest, lost' = lost, writes' = writes
    PROVE  CallsKept(B) /\ Turned(c, r, B)
<1>1. CacheOK(cache, B)
  BY StorageParts DEF CallsInv
<1>2. PICK x : x = get(cache, b).data
  OBVIOUS
<1>3. x \in Data
  BY <1>1, <1>2, UnitOf DEF CacheUnit
<1>4. CallOK(r, B) /\ SeenCall(r) = Done("read", b, x)
  <2>1. Begun(r, "read", b, x, "return", TRUE, B)
    BY <1>2, <1>3, CallBegins DEF Stops
  <2> QED BY <2>1 DEF Begun, Done
<1>5. Turned(c, r, B)
  BY <1>4, CallTurned DEF CallsInv, Turns
<1>6. SeenCalls(client)[c].op = "none" /\ NoWriter(SeenCalls(client), b)
  BY CallSeen, RestOK, CallsApart
<1>7. SeenCalls(client') = With(SeenCalls(client), c, Done("read", b, get(cache, b).data))
  BY <1>2, <1>4, <1>5 DEF Turned
<1>8. Storage(cache, capacity, disk, SeenCalls(client), latest, lost, writes, B)
  BY DEF CallsInv
<1>9. Keeps(cache, capacity, disk, SeenCalls(client), latest, lost,
            cache', disk, SeenCalls(client'), latest, lost, writes, B)
  BY <1>6, <1>7, <1>8, HitKeeps
<1> QED BY <1>5, <1>9 DEF CallsKept, Turned

\* read() of a block for which the device is asked.
LEMMA SyncMiss ==
    ASSUME NEW B, CallsInv(B), NEW c \in Context, NEW b \in B, client[c] = Rest,
           Nobody(b, "write"), is_cached(cache, b) => get(cache, b).data = disk[b],
           NEW pc \in {"read", "wait"}, NEW r, r = CallOf("read", b, 0, pc, FALSE),
           client' = [client EXCEPT ![c] = r],
           cache' = cache, disk' = disk, latest' = latest, lost' = lost, writes' = writes
    PROVE  CallsKept(B) /\ Turned(c, r, B)
<1>1. 0 \in Data
  BY SMTT(30), BoundsAssumption DEF Data
<1>2. pc \in Stops \ {"idle"}
  BY DEF Stops
<1>3. CallOK(r, B) /\ SeenCall(r) = Open("read", b, 0)
  <2>1. Begun(r, "read", b, 0, pc, FALSE, B)
    BY <1>1, <1>2, CallBegins
  <2> QED BY <2>1 DEF Begun, Open
<1>4. Turned(c, r, B)
  BY <1>3, CallTurned DEF CallsInv, Turns
<1>5. SeenCalls(client)[c].op = "none" /\ NoWriter(SeenCalls(client), b)
  BY CallSeen, RestOK, CallsApart
<1>6. SeenCalls(client') = With(SeenCalls(client), c, Open("read", b, 0))
  BY <1>3, <1>4 DEF Turned
<1>7. Storage(cache, capacity, disk, SeenCalls(client), latest, lost, writes, B)
  BY DEF CallsInv
<1>8. Keeps(cache, capacity, disk, SeenCalls(client), latest, lost,
            cache, disk, SeenCalls(client'), latest, lost, writes, B)
  BY <1>5, <1>6, <1>7, MissKeeps
<1> QED BY <1>4, <1>8 DEF CallsKept, Turned

\* write() that waits for the device.
LEMMA SyncBegin ==
    ASSUME NEW B, CallsInv(B), NEW c \in Context, NEW b \in B, client[c] = Rest,
           Nobody(b, "write"), Nobody(b, "read"), NEW m \in Data,
           NEW pc \in {"write", "wait"}, NEW r, r = CallOf("write", b, m, pc, FALSE),
           client' = [client EXCEPT ![c] = r], lost = {}, lost' = lost,
           cache' = cache \/ (cache' = invalidate(cache, b) /\ Saved(cache, disk, B)),
           disk' = disk, latest' = [latest EXCEPT ![b] = m], writes' = m
    PROVE  CallsKept(B) /\ Turned(c, r, B)
<1>1. pc \in Stops \ {"idle"}
  BY DEF Stops
<1>2. CallOK(r, B) /\ SeenCall(r) = Open("write", b, m)
  <2>1. Begun(r, "write", b, m, pc, FALSE, B)
    BY <1>1, CallBegins
  <2> QED BY <2>1 DEF Begun, Open
<1>3. Turned(c, r, B)
  BY <1>2, CallTurned DEF CallsInv, Turns
<1>4. SeenCalls(client)[c].op = "none" /\ NoClient(SeenCalls(client), b)
  BY CallSeen, RestOK, CallsApart
<1>5. SeenCalls(client') = With(SeenCalls(client), c, Open("write", b, m))
  BY <1>2, <1>3 DEF Turned
<1>6. Storage(cache, capacity, disk, SeenCalls(client), latest, lost, writes, B)
  BY DEF CallsInv
<1>7. lost' = lost \ {b}
  OBVIOUS
<1>8. Keeps(cache, capacity, disk, SeenCalls(client), latest, lost,
            cache', disk, SeenCalls(client'), latest', lost', m, B)
  BY <1>4, <1>5, <1>6, <1>7, BeginKeeps
<1> QED BY <1>3, <1>8 DEF CallsKept, Turned

\* What a call stands for among the commands, from its fields.
LEMMA CallIs ==
    ASSUME NEW B, CallsInv(B), NEW c \in Context, client[c].op # "none", client[c].done \in BOOLEAN
    PROVE  /\ client[c].done =>
                SeenCalls(client)[c] = Done(client[c].op, client[c].block, client[c].buffer)
           /\ ~client[c].done =>
                SeenCalls(client)[c] = Open(client[c].op, client[c].block, client[c].buffer)
<1>1. SeenCalls(client)[c] = Request(client[c].op, client[c].block, client[c].buffer, client[c].done)
  BY DEF SeenCalls, SeenCall
<1>2. (client[c].done => client[c].done = TRUE) /\ (~client[c].done => client[c].done = FALSE)
  OBVIOUS
<1> QED BY <1>1, <1>2 DEF Done, Open

\* The fields of a call that is under way.
LEMMA CallFields ==
    ASSUME NEW B, CallsTyped(client, B), NEW c \in Context
    PROVE  /\ client[c] \in Calls(B) /\ client[c].op \in {"none", "read", "write"}
           /\ client[c].buffer \in Data /\ client[c].done \in BOOLEAN /\ client[c].pc \in Stops
           /\ client[c].unit \in Units(B)
           /\ client[c].op # "none" => client[c].block \in B
           /\ client[c].pc # "idle" => client[c].op # "none"
<1>1. CallOK(client[c], B)
  BY DEF CallsTyped
<1>2. client[c] \in Calls(B) /\ (client[c].op # "none" => client[c].block \in B)
  BY <1>1 DEF CallOK
<1>3. client[c].pc # "idle" => client[c].op # "none"
  BY <1>1, RestOK DEF CallOK
<1> QED BY <1>2, <1>3 DEF Calls

\* A read gets its data.
LEMMA SyncRead ==
    ASSUME NEW B, CallsInv(B), NEW c \in Context, client[c].op = "read", ~client[c].done,
           NEW b, b = client[c].block, NEW x,
           \/ cache' = cache /\ x = disk[b]
           \/ is_cached(cache, b) /\ cache' = Touch(cache, get(cache, b)) /\ x = get(cache, b).data,
           NEW r, Goes(c, r, x, TRUE, B),
           disk' = disk, latest' = latest, lost' = lost, writes' = writes
    PROVE  CallsKept(B) /\ Turned(c, r, B)
<1>1. client[c].op # "none" /\ client[c].done \in BOOLEAN /\ b \in B
  BY CallFields DEF CallsInv
<1>2. SeenCalls(client)[c] = Open("read", b, client[c].buffer)
  BY <1>1, CallIs
<1>3. Went(c, r, x, TRUE, B)
  BY CallGoes
<1>4. SeenCalls(client') = With(SeenCalls(client), c, Done("read", b, x))
  BY <1>3 DEF Went, Done
<1>5. Storage(cache, capacity, disk, SeenCalls(client), latest, lost, writes, B)
  BY DEF CallsInv
<1>6. Keeps(cache, capacity, disk, SeenCalls(client), latest, lost,
            cache', disk, SeenCalls(client'), latest, lost, writes, B)
  BY <1>1, <1>2, <1>4, <1>5, ReadDoneKeeps
<1> QED BY <1>3, <1>6 DEF CallsKept, Turned, Went

\* The device carries out the write of a block that is not cached.
LEMMA SyncWritten ==
    ASSUME NEW B, CallsInv(B), NEW c \in Context, client[c].op = "write", ~client[c].done,
           NEW b, b = client[c].block, NEW x, x = client[c].buffer, ~is_cached(cache, b),
           NEW r, Goes(c, r, x, TRUE, B), disk' = [disk EXCEPT ![b] = x],
           cache' = cache, latest' = latest, lost' = lost, writes' = writes
    PROVE  CallsKept(B) /\ Turned(c, r, B)
<1>1. client[c].op # "none" /\ client[c].done \in BOOLEAN /\ b \in B
  BY CallFields DEF CallsInv
<1>2. SeenCalls(client)[c] = Open("write", b, x)
  BY <1>1, CallIs
<1>3. Went(c, r, x, TRUE, B)
  BY CallGoes
<1>4. SeenCalls(client') = With(SeenCalls(client), c, Done("write", b, x))
  BY <1>3 DEF Went, Done
<1>5. Storage(cache, capacity, disk, SeenCalls(client), latest, lost, writes, B)
  BY DEF CallsInv
<1>6. Keeps(cache, capacity, disk, SeenCalls(client), latest, lost,
            cache, disk', SeenCalls(client'), latest, lost, writes, B)
  BY <1>1, <1>2, <1>4, <1>5, WrittenKeeps
<1> QED BY <1>3, <1>6 DEF CallsKept, Turned, Went

\* A call returns.
LEMMA SyncReturns ==
    ASSUME NEW B, CallsInv(B), NEW c \in Context, client[c].op # "none", client[c].done,
           client' = [client EXCEPT ![c] = Rest],
           cache' = cache, disk' = disk, latest' = latest, lost' = lost, writes' = writes
    PROVE  CallsKept(B) /\ Turned(c, Rest, B)
<1>1. Turned(c, Rest, B)
  BY RestOK, CallTurned DEF CallsInv, Turns
<1>2. SeenCalls(client)[c].op # "none" /\ SeenCalls(client)[c].done
  BY CallSeen
<1>3. SeenCalls(client') = With(SeenCalls(client), c, [op |-> "none"])
  BY <1>1, RestOK DEF Turned
<1>4. Storage(cache, capacity, disk, SeenCalls(client), latest, lost, writes, B)
  BY DEF CallsInv
<1>5. Keeps(cache, capacity, disk, SeenCalls(client), latest, lost,
            cache, disk, SeenCalls(client'), latest, lost, writes, B)
  BY <1>2, <1>3, <1>4, EndKeeps
<1> QED BY <1>1, <1>5 DEF CallsKept, Turned

\* What a call has read or written goes into the cache.
LEMMA SyncFill ==
    ASSUME CachesFit, NEW B, IsFiniteSet(B), CallsInv(B), NEW c \in Context,
           client[c].op # "none", client[c].done,
           NEW b, b = client[c].block, NEW x, x = client[c].buffer,
           cache' = write(cache, b, x, FALSE, capacity),
           lost' = IF Loses(cache, b, capacity, disk)
                   THEN lost \cup {evict_unit(cache).id} ELSE lost,
           NEW r, Goes(c, r, x, client[c].done, B),
           disk' = disk, latest' = latest, writes' = writes
    PROVE  /\ CallsKept(B) /\ Turned(c, r, B)
           /\ Fills(cache, capacity, disk, SeenCalls(client), latest, lost, cache', lost', writes,
                    b, x, B)
<1>1. Went(c, r, x, client[c].done, B)
  BY CallGoes
<1>2. /\ SeenCalls(client)[c].op # "none" /\ SeenCalls(client)[c].done
      /\ b = SeenCalls(client)[c].block /\ x = SeenCalls(client)[c].data
  BY CallSeen
<1>3. SeenCalls(client') = SeenCalls(client)
  BY <1>1 DEF Went
<1>4. Storage(cache, capacity, disk, SeenCalls(client), latest, lost, writes, B)
  BY DEF CallsInv
<1>5. Fills(cache, capacity, disk, SeenCalls(client), latest, lost, cache', lost', writes, b, x, B)
  BY <1>2, <1>4, FillKeeps
<1>6. Keeps(cache, capacity, disk, SeenCalls(client), latest, lost,
            cache', disk, SeenCalls(client'), latest, lost', writes, B)
  BY <1>3, <1>5 DEF Fills
<1> QED BY <1>1, <1>5, <1>6 DEF CallsKept, Turned, Went

\* A call goes on, and nothing else changes.
LEMMA SyncMoves ==
    ASSUME NEW B, CallsInv(B), NEW c \in Context, client[c].op # "none",
           NEW r, Goes(c, r, client[c].buffer, client[c].done, B),
           cache' = cache, disk' = disk, latest' = latest, lost' = lost, writes' = writes
    PROVE  CallsKept(B) /\ Turned(c, r, B)
<1>1. Went(c, r, client[c].buffer, client[c].done, B)
  BY CallGoes
<1>2. SeenCalls(client') = SeenCalls(client)
  BY <1>1 DEF Went
<1>3. Storage(cache, capacity, disk, SeenCalls(client), latest, lost, writes, B)
  BY DEF CallsInv
<1>4. client[c].block \in B
  BY CallFields DEF CallsInv
<1>5. Keeps(cache, capacity, disk, SeenCalls(client), latest, lost,
            cache, disk, SeenCalls(client), latest, lost, writes, B)
  BY <1>3, <1>4, DropKeeps
<1> QED BY <1>1, <1>2, <1>5 DEF CallsKept, Turned, Went

-----------------------------------------------------------------------------
(* The file accessor *)

\* A write has taken effect when it is in the cache.  A thread has a unit while it
\* has to write it.
FileCall(r, B) ==
    /\ r.pc \in {"idle", "read", "fill", "pwrite", "return"}
    /\ r.op # "none" => (r.done <=> r.pc # "read")
    /\ r.pc \in {"read", "fill"} => r.op = "read"
    /\ r.pc # "pwrite" => r.unit = <<>>
    /\ r.pc = "pwrite" => \E u \in CacheUnit(B, Data) : r.unit = <<u>>

\* A call that is to read b from the file, one that has the content of b, and one
\* that is to write content of b to the file.
Fetches(r, b) == r.op = "read" /\ r.block = b /\ ~r.done
Fetched(r, b) == r.op = "read" /\ r.block = b /\ r.done
Carries(r, b, d) == \E u : r.unit = <<u>> /\ u.id = b /\ u.data = d

\* The last content of a block has not gone astray: the cache and every read have
\* it, and when a call has to look further, it is in the file or on its way there.
BlockKept(b, C, dk, cl, lt) ==
    /\ is_cached(C, b) => get(C, b).data = lt[b]
    /\ \A c \in Context : Fetched(cl[c], b) => cl[c].buffer = lt[b]
    /\ \/ dk[b] = lt[b]
       \/ \E c \in Context : Carries(cl[c], b, lt[b])
       \/ is_cached(C, b) /\ \A c \in Context : ~Fetches(cl[c], b)

FileState(C, dk, cl, lt, ls, n, B) ==
    /\ CacheOK(C, B) /\ Len(C) <= capacity
    /\ dk \in [B -> Data] /\ lt \in [B -> Data] /\ n \in Data /\ ls \subseteq B
    /\ CallsTyped(cl, B) /\ \A c \in Context : FileCall(cl[c], B)
    /\ \A b \in B : b \notin ls => BlockKept(b, C, dk, cl, lt)

\* Nothing is evicted while all blocks fit into the cache.
Fits(B) == capacity >= Cardinality(B)

FileInv(B) ==
    /\ capacity \in Nat \ {0}
    /\ FileState(cache, disk, client, latest, lost, writes, B)
    /\ Fits(B) => CallsInv(B) /\ \A c \in Context : client[c].unit = <<>>

FileKept(B) ==
    /\ FileState(cache', disk', client', latest', lost', writes', B)
    /\ Fits(B) => CallsKept(B) /\ \A c \in Context : client'[c].unit = <<>>

\* What is left to show of a step of one thread.
LEMMA FileStep ==
    ASSUME NEW B, FileInv(B), NEW c \in Context, NEW r, Turned(c, r, B), FileCall(r, B),
           CacheOK(cache', B), Len(cache') <= capacity, disk' \in [B -> Data],
           latest' \in [B -> Data], writes' \in Data, lost' \subseteq B,
           \A b \in B : b \notin lost' => BlockKept(b, cache', disk', client', latest'),
           Fits(B) => CallsKept(B) /\ r.unit = <<>>
    PROVE  FileKept(B)
<1>1. \A d \in Context : FileCall(client'[d], B)
  BY DEF FileInv, FileState, Turned
<1>2. FileState(cache', disk', client', latest', lost', writes', B)
  BY <1>1 DEF FileState, Turned
<1>3. Fits(B) => \A d \in Context : client'[d].unit = <<>>
  BY DEF FileInv, Turned
<1> QED BY <1>2, <1>3 DEF FileKept

\* A block stays in order when the cache has nothing else of it, and its content
\* is in the file, with the thread that moves, or as easy to find as before.
LEMMA BlockStep ==
    ASSUME NEW B, NEW b, NEW c \in Context, NEW r, Turned(c, r, B),
           BlockKept(b, cache, disk, client, latest), latest'[b] = latest[b],
           is_cached(cache', b) => get(cache', b).data = latest[b],
           Fetched(r, b) => r.buffer = latest[b],
           \/ disk'[b] = latest[b]
           \/ Carries(r, b, latest[b])
           \/ /\ disk[b] # latest[b] /\ ~Carries(client[c], b, latest[b])
              /\ is_cached(cache, b) => is_cached(cache', b)
              /\ is_cached(cache, b) /\ Fetches(r, b) => Fetches(client[c], b)
    PROVE  BlockKept(b, cache', disk', client', latest')
<1>1. client'[c] = r /\ \A d \in Context : d # c => client'[d] = client[d]
  BY DEF Turned
<1>2. \A d \in Context : Fetched(client'[d], b) => client'[d].buffer = latest[b]
  BY <1>1 DEF BlockKept
<1>3. \/ disk'[b] = latest[b]
      \/ \E d \in Context : Carries(client'[d], b, latest[b])
      \/ is_cached(cache', b) /\ \A d \in Context : ~Fetches(client'[d], b)
  <2>1. CASE disk'[b] = latest[b]
    BY <2>1
  <2>2. CASE Carries(r, b, latest[b])
    BY <1>1, <2>2
  <2>3. CASE /\ disk[b] # latest[b] /\ ~Carries(client[c], b, latest[b])
             /\ is_cached(cache, b) => is_cached(cache', b)
             /\ is_cached(cache, b) /\ Fetches(r, b) => Fetches(client[c], b)
    <3>1. CASE \E d \in Context : Carries(client[d], b, latest[b])
      BY <1>1, <2>3, <3>1
    <3>2. CASE is_cached(cache, b) /\ \A d \in Context : ~Fetches(client[d], b)
      BY <1>1, <2>3, <3>2
    <3> QED BY <2>3, <3>1, <3>2 DEF BlockKept
  <2> QED BY <2>1, <2>2, <2>3
<1> QED BY <1>2, <1>3 DEF BlockKept

\* The parts of the invariant.
LEMMA FileParts ==
    ASSUME NEW B, FileInv(B)
    PROVE  /\ CacheOK(cache, B) /\ capacity \in Nat \ {0} /\ Len(cache) <= capacity
           /\ disk \in [B -> Data] /\ latest \in [B -> Data] /\ writes \in Data /\ lost \subseteq B
           /\ CallsTyped(client, B) /\ \A c \in Context : FileCall(client[c], B)
           /\ \A b \in B : b \notin lost => BlockKept(b, cache, disk, client, latest)
           /\ Fits(B) => CallsInv(B) /\ lost = {} /\ \A c \in Context : client[c].unit = <<>>
<1>1. ASSUME Fits(B) PROVE CallsInv(B) /\ lost = {} /\ \A c \in Context : client[c].unit = <<>>
  <2>1. CallsInv(B) /\ \A c \in Context : client[c].unit = <<>>
    BY <1>1 DEF FileInv
  <2>2. Storage(cache, capacity, disk, SeenCalls(client), latest, lost, writes, B)
    BY <2>1 DEF CallsInv
  <2> QED BY <1>1, <2>1, <2>2, StorageParts DEF Fits
<1> QED BY <1>1 DEF FileInv, FileState

LEMMA FileHit ==
    ASSUME NEW B, FileInv(B), NEW c \in Context, NEW b \in B, client[c] = Rest,
           Nobody(b, "write"), is_cached(cache, b), cache' = Touch(cache, get(cache, b)),
           client' = [client EXCEPT ![c] = CallOf("read", b, get(cache, b).data, "return", TRUE)],
           disk' = disk, latest' = latest, lost' = lost, writes' = writes
    PROVE  FileKept(B)
<1>1. PICK x, r : x = get(cache, b).data /\ r = CallOf("read", b, x, "return", TRUE)
  OBVIOUS
<1>2. /\ CacheOK(cache, B) /\ Len(cache) <= capacity /\ CallsTyped(client, B)
      /\ disk \in [B -> Data] /\ latest \in [B -> Data] /\ writes \in Data /\ lost \subseteq B
      /\ \A y \in B : y \notin lost => BlockKept(y, cache, disk, client, latest)
      /\ Fits(B) => CallsInv(B)
  BY FileParts
<1>3. x \in Data
  BY <1>1, <1>2, UnitOf DEF CacheUnit
<1>4. /\ r.op = "read" /\ r.block = b /\ r.buffer = x /\ r.pc = "return" /\ r.done = TRUE
      /\ r.unit = <<>>
  BY <1>1 DEF CallOf
<1>5. Turned(c, r, B)
  <2>1. Begun(r, "read", b, x, "return", TRUE, B)
    BY <1>1, <1>3, CallBegins DEF Stops
  <2> QED BY <1>1, <1>2, <2>1, CallTurned DEF Begun, Turns
<1>6. CacheOK(cache', B) /\ Len(cache') = Len(cache) /\ SameUnits(cache, cache')
  BY <1>2, TouchEffect
<1>7. ASSUME NEW y \in B, y \notin lost' PROVE BlockKept(y, cache', disk', client', latest')
  <2>1. BlockKept(y, cache, disk, client, latest) /\ Agree(cache, cache', y)
    BY <1>2, <1>6, <1>7 DEF SameUnits
  <2>2. is_cached(cache', y) => get(cache', y).data = latest[y]
    BY <2>1 DEF BlockKept, Agree
  <2>3. Fetched(r, y) => r.buffer = latest[y]
    BY <1>1, <1>4, <2>1 DEF BlockKept, Fetched
  <2>4. ~Fetches(r, y) /\ ~Carries(client[c], y, latest[y])
    <3>1. \A u : <<>> # <<u>>
      BY SMTT(30)
    <3> QED BY <1>4, <3>1, RestOK DEF Fetches, Carries
  <2> QED BY <1>5, <2>1, <2>2, <2>3, <2>4, BlockStep DEF Agree
<1>8. FileCall(r, B)
  BY <1>4 DEF FileCall
<1>9. Fits(B) => CallsKept(B)
  BY <1>1, <1>2, SyncHit
<1> QED BY <1>2, <1>4, <1>5, <1>6, <1>7, <1>8, <1>9, FileStep

LEMMA FileMiss ==
    ASSUME NEW B, FileInv(B), NEW c \in Context, NEW b \in B, client[c] = Rest,
           Nobody(b, "write"), ~is_cached(cache, b),
           client' = [client EXCEPT ![c] = CallOf("read", b, 0, "read", FALSE)],
           cache' = cache, disk' = disk, latest' = latest, lost' = lost, writes' = writes
    PROVE  FileKept(B)
<1>1. PICK r : r = CallOf("read", b, 0, "read", FALSE)
  OBVIOUS
<1>2. /\ CacheOK(cache, B) /\ Len(cache) <= capacity /\ CallsTyped(client, B)
      /\ disk \in [B -> Data] /\ latest \in [B -> Data] /\ writes \in Data /\ lost \subseteq B
      /\ \A y \in B : y \notin lost => BlockKept(y, cache, disk, client, latest)
      /\ Fits(B) => CallsInv(B)
  BY FileParts
<1>3. 0 \in Data
  BY SMTT(30), BoundsAssumption DEF Data
<1>4. r.op = "read" /\ r.block = b /\ r.pc = "read" /\ r.done = FALSE /\ r.unit = <<>>
  BY <1>1 DEF CallOf
<1>5. Turned(c, r, B)
  <2>1. Begun(r, "read", b, 0, "read", FALSE, B)
    BY <1>1, <1>3, CallBegins DEF Stops
  <2> QED BY <1>1, <1>2, <2>1, CallTurned DEF Begun, Turns
<1>6. ASSUME NEW y \in B, y \notin lost' PROVE BlockKept(y, cache', disk', client', latest')
  <2>1. BlockKept(y, cache, disk, client, latest)
    BY <1>2, <1>6
  <2>2. is_cached(cache', y) => get(cache', y).data = latest[y]
    BY <2>1 DEF BlockKept
  <2>3. ~Fetched(r, y) /\ (Fetches(r, y) => ~is_cached(cache, y))
    BY <1>4 DEF Fetched, Fetches
  <2>4. ~Carries(client[c], y, latest[y])
    <3>1. \A u : <<>> # <<u>>
      BY SMTT(30)
    <3> QED BY <3>1, RestOK DEF Carries
  <2> QED BY <1>5, <2>1, <2>2, <2>3, <2>4, BlockStep
<1>7. FileCall(r, B)
  BY <1>4 DEF FileCall
<1>8. Fits(B) => CallsKept(B)
  BY <1>1, <1>2, SyncMiss
<1> QED BY <1>2, <1>4, <1>5, <1>6, <1>7, <1>8, FileStep

\* The units that threads have to write.
Flight == {client[t].unit[1] : t \in {t \in Context : client[t].unit # <<>>}}

LEMMA InFlightIs ==
    ASSUME NEW c \in Context, NEW b, NEW d, Carries(client[c], b, d)
    PROVE  \E u \in Flight : u.id = b /\ u.data = d
<1>1. PICK u : client[c].unit = <<u>> /\ u.id = b /\ u.data = d
  BY DEF Carries
<1>2. client[c].unit # <<>> /\ client[c].unit[1] = u
  BY SMTT(30), <1>1
<1> QED BY <1>1, <1>2 DEF Flight

\* pread().
LEMMA FilePread ==
    ASSUME NEW B, FileInv(B), NEW c \in Context, client[c].pc = "read",
           client' = [client EXCEPT ![c] = [client[c] EXCEPT !.buffer = disk[client[c].block],
                                                             !.pc = "fill", !.done = TRUE]],
           NEW b, b = client[c].block,
           lost' = lost \cup (IF \E u \in Flight : u.id = b /\ u.data # disk[b] THEN {b} ELSE {}),
           cache' = cache, disk' = disk, latest' = latest, writes' = writes
    PROVE  FileKept(B)
<1>1. PICK x, r : x = disk[b] /\ r = [client[c] EXCEPT !.buffer = x, !.pc = "fill", !.done = TRUE]
  OBVIOUS
<1>2. /\ CacheOK(cache, B) /\ Len(cache) <= capacity /\ CallsTyped(client, B)
      /\ disk \in [B -> Data] /\ latest \in [B -> Data] /\ writes \in Data /\ lost \subseteq B
      /\ \A y \in B : y \notin lost => BlockKept(y, cache, disk, client, latest)
      /\ FileCall(client[c], B)
      /\ Fits(B) => CallsInv(B) /\ \A d \in Context : client[d].unit = <<>>
  BY FileParts
<1>3. /\ client[c].op = "read" /\ ~client[c].done /\ client[c].unit = <<>>
      /\ client[c] \in Calls(B) /\ b \in B
  <2>1. client[c].op = "read" /\ ~client[c].done /\ client[c].unit = <<>>
    BY <1>2 DEF FileCall
  <2> QED BY <1>2, <2>1, CallFields
<1>4. x \in Data
  BY <1>1, <1>2, <1>3
<1>5. /\ r \in Calls(B) /\ r.op = client[c].op /\ r.block = client[c].block /\ r.buffer = x
      /\ r.done = TRUE /\ r.pc = "fill" /\ r.unit = client[c].unit
  BY <1>1, <1>3, <1>4 DEF Calls, Stops
<1>6. Goes(c, r, x, TRUE, B)
  BY <1>1, <1>3, <1>5 DEF Goes
<1>7. Turned(c, r, B)
  <2>1. CallOK(r, B)
    BY <1>3, <1>5 DEF CallOK
  <2> QED BY <1>1, <1>2, <2>1, CallTurned DEF Turns
<1>8. ASSUME NEW y \in B, y \notin lost' PROVE BlockKept(y, cache', disk', client', latest')
  <2>1. BlockKept(y, cache, disk, client, latest)
    BY <1>2, <1>8
  <2>2. is_cached(cache', y) => get(cache', y).data = latest[y]
    BY <2>1 DEF BlockKept
  <2>3. ~Fetches(r, y) /\ ~Carries(client[c], y, latest[y])
    <3>1. \A u : <<>> # <<u>>
      BY SMTT(30)
    <3> QED BY <1>3, <1>5, <3>1 DEF Fetches, Carries
  <2>4. Fetched(r, y) => r.buffer = latest[y]
    <3> SUFFICES ASSUME Fetched(r, y) PROVE disk[b] = latest[b] /\ y = b
      BY <1>1, <1>5
    <3>1. y = b /\ Fetches(client[c], b)
      BY <1>3, <1>5 DEF Fetched, Fetches
    <3>2. ~\E u \in Flight : u.id = b /\ u.data # disk[b]
      BY <1>8, <3>1
    <3>3. ASSUME NEW d \in Context, Carries(client[d], b, latest[b]) PROVE disk[b] = latest[b]
      <4>1. PICK z : z = latest[b]
        OBVIOUS
      <4>2. Carries(client[d], b, z)
        BY <3>3, <4>1
      <4>3. \E u \in Flight : u.id = b /\ u.data = z
        BY SMTT(30), <3>3, <4>2, InFlightIs
      <4> QED BY <3>2, <4>1, <4>3
    <3> QED BY <2>1, <3>1, <3>3 DEF BlockKept
  <2> QED BY <1>7, <2>1, <2>2, <2>3, <2>4, BlockStep
<1>9. FileCall(r, B)
  BY <1>3, <1>5 DEF FileCall
<1>10. lost' \subseteq B
  BY <1>2, <1>3
<1>11. ASSUME Fits(B) PROVE CallsKept(B)
  <2>1. Flight = {}
    BY <1>2, <1>11 DEF Flight
  <2>2. lost' = lost
    BY <2>1
  <2> QED BY <1>1, <1>2, <1>3, <1>6, <1>11, <2>2, SyncRead
<1> QED BY <1>2, <1>3, <1>5, <1>7, <1>8, <1>9, <1>10, <1>11, FileStep

\* The call returns.
LEMMA FileReturns ==
    ASSUME NEW B, FileInv(B), NEW c \in Context, client[c].pc = "return",
           client' = [client EXCEPT ![c] = Rest],
           cache' = cache, disk' = disk, latest' = latest, lost' = lost, writes' = writes
    PROVE  FileKept(B)
<1>1. /\ CacheOK(cache, B) /\ Len(cache) <= capacity /\ CallsTyped(client, B)
      /\ disk \in [B -> Data] /\ latest \in [B -> Data] /\ writes \in Data /\ lost \subseteq B
      /\ \A y \in B : y \notin lost => BlockKept(y, cache, disk, client, latest)
      /\ FileCall(client[c], B)
      /\ Fits(B) => CallsInv(B)
  BY FileParts
<1>2. client[c].op # "none"
  BY <1>1, CallFields
<1>3. client[c].done /\ client[c].unit = <<>>
  BY <1>1, <1>2 DEF FileCall
<1>4. Turned(c, Rest, B)
  BY <1>1, RestOK, CallTurned DEF Turns
<1>5. ASSUME NEW y \in B, y \notin lost' PROVE BlockKept(y, cache', disk', client', latest')
  <2>1. BlockKept(y, cache, disk, client, latest)
    BY <1>1, <1>5
  <2>2. is_cached(cache', y) => get(cache', y).data = latest[y]
    BY <2>1 DEF BlockKept
  <2>3. ~Fetches(Rest, y) /\ ~Fetched(Rest, y) /\ ~Carries(client[c], y, latest[y])
    <3>1. \A u : <<>> # <<u>>
      BY SMTT(30)
    <3>2. Rest.op # "read"
      BY RestOK
    <3> QED BY <1>3, <3>1, <3>2 DEF Fetches, Fetched, Carries
  <2> QED BY <1>4, <2>1, <2>2, <2>3, BlockStep
<1>6. FileCall(Rest, B)
  BY RestOK DEF FileCall
<1>7. Fits(B) => CallsKept(B)
  BY <1>1, <1>2, <1>3, SyncReturns
<1> QED BY <1>1, <1>4, <1>5, <1>6, <1>7, RestOK, FileStep

\* The rest of read().
FillsFile(c, b, e, u) ==
    /\ client[c].pc = "fill" /\ b = client[c].block
    /\ e = Evicted(cache, b, capacity) /\ u = evict_unit(cache)
    /\ cache' = write(cache, b, client[c].buffer, FALSE, capacity)
    /\ client' = [client EXCEPT ![c] =
                     IF e THEN [client[c] EXCEPT !.pc = "pwrite", !.unit = <<u>>]
                     ELSE [client[c] EXCEPT !.pc = "return"]]
    /\ lost' = lost /\ disk' = disk /\ latest' = latest /\ writes' = writes

LEMMA FileFill ==
    ASSUME CachesFit, NEW B, IsFiniteSet(B), FileInv(B), NEW c \in Context,
           NEW b, NEW e, NEW u, FillsFile(c, b, e, u)
    PROVE  FileKept(B)
<1> SUFFICES ASSUME client[c].pc = "fill", b = client[c].block,
                    e = Evicted(cache, b, capacity), u = evict_unit(cache),
                    cache' = write(cache, b, client[c].buffer, FALSE, capacity),
                    client' = [client EXCEPT ![c] =
                                 IF e THEN [client[c] EXCEPT !.pc = "pwrite", !.unit = <<u>>]
                                 ELSE [client[c] EXCEPT !.pc = "return"]],
                    lost' = lost, disk' = disk, latest' = latest, writes' = writes
             PROVE  FileKept(B)
  BY DEF FillsFile
<1>1. PICK r : r = IF e THEN [client[c] EXCEPT !.pc = "pwrite", !.unit = <<u>>]
                   ELSE [client[c] EXCEPT !.pc = "return"]
  OBVIOUS
<1>2. /\ CacheOK(cache, B) /\ capacity \in Nat \ {0} /\ Len(cache) <= capacity
      /\ CallsTyped(client, B) /\ disk \in [B -> Data] /\ latest \in [B -> Data]
      /\ writes \in Data /\ lost \subseteq B
      /\ \A y \in B : y \notin lost => BlockKept(y, cache, disk, client, latest)
      /\ FileCall(client[c], B)
      /\ Fits(B) => CallsInv(B)
  BY FileParts
<1>3. /\ client[c].op = "read" /\ client[c].done /\ client[c].unit = <<>>
      /\ client[c] \in Calls(B) /\ b \in B /\ client[c].buffer \in Data
  <2>1. client[c].op = "read" /\ client[c].done /\ client[c].unit = <<>>
    BY <1>2 DEF FileCall
  <2> QED BY <1>2, <2>1, CallFields
<1>4. PICK x : x = client[c].buffer
  OBVIOUS
<1>5. Stores(cache, cache', b, x, FALSE, capacity, B) /\ (e => Victim(cache, b, u, B))
  BY <1>2, <1>3, <1>4, Written
<1>6. e => u \in CacheUnit(B, Data)
  BY <1>5 DEF Victim
<1>7. /\ r \in Calls(B) /\ r.op = client[c].op /\ r.block = client[c].block
      /\ r.buffer = x /\ r.done = client[c].done
      /\ IF e THEN r.pc = "pwrite" /\ r.unit = <<u>> ELSE r.pc = "return" /\ r.unit = <<>>
  <2>1. CASE e
    BY <1>1, <1>3, <1>4, <1>6, <2>1 DEF Calls, Stops, Units
  <2>2. CASE ~e
    BY <1>1, <1>3, <1>4, <2>2 DEF Calls, Stops
  <2> QED BY <2>1, <2>2
<1>8. Goes(c, r, x, client[c].done, B)
  BY <1>1, <1>3, <1>7 DEF Goes
<1>9. Turned(c, r, B)
  <2>1. CallOK(r, B)
    BY <1>3, <1>7 DEF CallOK
  <2> QED BY <1>1, <1>2, <2>1, CallTurned DEF Turns
<1>10. ASSUME NEW y \in B, y \notin lost' PROVE BlockKept(y, cache', disk', client', latest')
  <2>1. BlockKept(y, cache, disk, client, latest)
    BY <1>2, <1>10
  <2>2. ~Fetches(r, y) /\ ~Carries(client[c], y, latest[y])
    <3>1. \A v : <<>> # <<v>>
      BY SMTT(30)
    <3> QED BY <1>3, <1>7, <3>1 DEF Fetches, Carries
  <2>3. Fetched(r, y) => r.buffer = latest[y]
    <3>1. Fetched(r, y) => Fetched(client[c], y)
      BY <1>3, <1>7 DEF Fetched
    <3> QED BY <1>4, <1>7, <2>1, <3>1 DEF BlockKept
  <2>4. CASE y = b
    <3>1. Fetched(client[c], y)
      BY <1>3, <2>4 DEF Fetched
    <3>2. is_cached(cache', y) /\ get(cache', y).data = latest[y]
      BY <1>4, <1>5, <2>1, <2>4, <3>1 DEF Stores, BlockKept
    <3> QED BY <1>9, <2>1, <2>2, <2>3, <3>2, BlockStep
  <2>5. CASE e /\ y = u.id
    <3>1. is_cached(cache, y) /\ get(cache, y) = u /\ ~is_cached(cache', y)
      BY <1>5, <2>5 DEF Victim, Stores
    <3>2. u.data = latest[y]
      BY <2>1, <3>1 DEF BlockKept
    <3>3. Carries(r, y, latest[y])
      BY <1>7, <2>5, <3>2 DEF Carries
    <3> QED BY <1>9, <2>1, <2>3, <3>1, <3>3, BlockStep
  <2>6. CASE y # b /\ ~(e /\ y = u.id)
    <3>1. Agree(cache, cache', y)
      BY <1>5, <2>6 DEF Stores
    <3>2. is_cached(cache', y) => get(cache', y).data = latest[y]
      BY <2>1, <3>1 DEF Agree, BlockKept
    <3> QED BY <1>9, <2>1, <2>2, <2>3, <3>1, <3>2, BlockStep DEF Agree
  <2> QED BY <2>4, <2>5, <2>6
<1>11. FileCall(r, B)
  BY <1>3, <1>6, <1>7 DEF FileCall
<1>12. ASSUME Fits(B) PROVE CallsKept(B) /\ r.unit = <<>>
  <2>1. ~e
    BY <1>2, <1>3, <1>12 DEF Fits, CachesFit, CacheFits
  <2>2. lost' = IF Loses(cache, b, capacity, disk) THEN lost \cup {evict_unit(cache).id} ELSE lost
    BY <2>1 DEF Loses
  <2>3. client[c].op # "none"
    BY <1>3
  <2>4. CallsKept(B)
    BY <1>2, <1>3, <1>4, <1>8, <1>12, <2>2, <2>3, SyncFill
  <2> QED BY <1>7, <2>1, <2>4
<1>13. CacheOK(cache', B) /\ Len(cache') <= capacity
  BY <1>5 DEF Stores
<1> QED BY <1>2, <1>9, <1>10, <1>11, <1>12, <1>13, FileStep

\* The content of the next write.
LEMMA NextWrite ==
    ASSUME writes \in Data, writes < MaxWrites
    PROVE  writes + 1 \in Data
BY SMTT(30), BoundsAssumption DEF Data

\* write() of the file accessor.
WritesFile(c, b, m, e, u, r0) ==
    /\ client[c] = Rest /\ Nobody(b, "write") /\ Nobody(b, "read")
    /\ e = Evicted(cache, b, capacity) /\ u = evict_unit(cache)
    /\ cache' = write(cache, b, m, TRUE, capacity)
    /\ r0 = CallOf("write", b, m, "return", TRUE)
    /\ client' = [client EXCEPT ![c] =
                     IF e /\ u.dirty THEN [r0 EXCEPT !.pc = "pwrite", !.unit = <<u>>] ELSE r0]
    /\ lost' = (lost \ {b})
                  \cup (IF e /\ ~u.dirty THEN (IF u.data # disk[u.id] THEN {u.id} ELSE {}) ELSE {})
    /\ disk' = disk /\ latest' = [latest EXCEPT ![b] = m] /\ writes' = m

LEMMA FileWrite ==
    ASSUME CachesFit, NEW B, IsFiniteSet(B), FileInv(B), NEW c \in Context, NEW b \in B,
           NEW m \in Data, NEW e, NEW u, NEW r0, WritesFile(c, b, m, e, u, r0)
    PROVE  FileKept(B)
<1> SUFFICES ASSUME client[c] = Rest, Nobody(b, "write"), Nobody(b, "read"),
                    e = Evicted(cache, b, capacity), u = evict_unit(cache),
                    cache' = write(cache, b, m, TRUE, capacity),
                    r0 = CallOf("write", b, m, "return", TRUE),
                    client' = [client EXCEPT ![c] =
                                 IF e /\ u.dirty THEN [r0 EXCEPT !.pc = "pwrite", !.unit = <<u>>]
                                 ELSE r0],
                    lost' = (lost \ {b})
                              \cup (IF e /\ ~u.dirty
                                    THEN (IF u.data # disk[u.id] THEN {u.id} ELSE {}) ELSE {}),
                    disk' = disk, latest' = [latest EXCEPT ![b] = m], writes' = m
             PROVE  FileKept(B)
  BY DEF WritesFile
<1>1. PICK r : r = IF e /\ u.dirty THEN [r0 EXCEPT !.pc = "pwrite", !.unit = <<u>>] ELSE r0
  OBVIOUS
<1>2. /\ CacheOK(cache, B) /\ capacity \in Nat \ {0} /\ Len(cache) <= capacity
      /\ CallsTyped(client, B) /\ disk \in [B -> Data] /\ latest \in [B -> Data] /\ lost \subseteq B
      /\ \A y \in B : y \notin lost => BlockKept(y, cache, disk, client, latest)
      /\ Fits(B) => CallsInv(B) /\ lost = {}
  BY FileParts
<1>3. Stores(cache, cache', b, m, TRUE, capacity, B) /\ (e => Victim(cache, b, u, B))
  BY <1>2, Written
<1>4. e => u \in CacheUnit(B, Data) /\ u.id \in B
  BY <1>3 DEF Victim, CacheUnit
<1>5. /\ r \in Calls(B) /\ r.op = "write" /\ r.block = b /\ r.buffer = m /\ r.done = TRUE
      /\ IF e /\ u.dirty THEN r.pc = "pwrite" /\ r.unit = <<u>> ELSE r.pc = "return" /\ r.unit = <<>>
  <2>1. /\ r0 \in Calls(B) /\ r0.op = "write" /\ r0.block = b /\ r0.buffer = m /\ r0.done = TRUE
        /\ r0.pc = "return" /\ r0.unit = <<>>
    BY DEF Calls, CallOf, Stops, Units
  <2>2. CASE e /\ u.dirty
    BY <1>1, <1>4, <2>1, <2>2 DEF Calls, Stops, Units
  <2>3. CASE ~(e /\ u.dirty)
    BY <1>1, <2>1, <2>3
  <2> QED BY <2>2, <2>3
<1>6. r.op # "none" /\ r.op # "read" /\ r.pc # "idle"
  BY <1>5
<1>7. CallOK(r, B) /\ SeenCall(r) = Done("write", b, m)
  BY <1>5, <1>6 DEF CallOK, SeenCall, Done
<1>8. Turned(c, r, B)
  BY <1>1, <1>2, <1>7, CallTurned DEF Turns
<1>9. lost' \subseteq B /\ latest' \in [B -> Data]
  BY <1>2, <1>4
<1>10. ASSUME NEW y \in B, y \notin lost' PROVE BlockKept(y, cache', disk', client', latest')
  <2>1. CASE y = b
    <3>1. is_cached(cache', y) /\ get(cache', y).data = m /\ latest'[y] = m
      BY <1>2, <1>3, <2>1 DEF Stores
    <3>2. ASSUME NEW d \in Context PROVE ~Fetched(client'[d], y) /\ ~Fetches(client'[d], y)
      <4>1. CASE d = c
        BY <1>6, <1>8, <4>1 DEF Turned, Fetched, Fetches
      <4>2. CASE d # c
        BY <1>8, <2>1, <4>2 DEF Turned, Fetched, Fetches, Nobody
      <4> QED BY <4>1, <4>2
    <3> QED BY <3>1, <3>2 DEF BlockKept
  <2>2. CASE y # b
    <3>1. BlockKept(y, cache, disk, client, latest) /\ latest'[y] = latest[y]
      BY <1>2, <1>10, <2>2
    <3>2. ~Fetched(r, y) /\ ~Fetches(r, y) /\ ~Carries(client[c], y, latest[y])
      <4>1. \A v : <<>> # <<v>>
        BY SMTT(30)
      <4> QED BY <1>6, <4>1, RestOK DEF Fetched, Fetches, Carries
    <3>3. CASE e /\ y = u.id
      <4>1. is_cached(cache, y) /\ get(cache, y) = u /\ ~is_cached(cache', y)
        BY <1>3, <3>3 DEF Victim, Stores
      <4>2. u.data = latest[y]
        BY <3>1, <4>1 DEF BlockKept
      <4>3. disk[y] = latest[y] \/ Carries(r, y, latest[y])
        <5>1. CASE u.dirty
          BY <1>5, <3>3, <4>2, <5>1 DEF Carries
        <5>2. CASE ~u.dirty
          BY <1>10, <3>3, <4>2, <5>2
        <5> QED BY <5>1, <5>2
      <4> QED BY <1>8, <3>1, <3>2, <4>1, <4>3, BlockStep
    <3>4. CASE ~(e /\ y = u.id)
      <4>1. Agree(cache, cache', y)
        BY <1>3, <2>2, <3>4 DEF Stores
      <4>2. is_cached(cache', y) => get(cache', y).data = latest[y]
        BY <3>1, <4>1 DEF Agree, BlockKept
      <4> QED BY <1>8, <3>1, <3>2, <4>1, <4>2, BlockStep DEF Agree
    <3> QED BY <3>3, <3>4
  <2> QED BY <2>1, <2>2
<1>11. FileCall(r, B)
  BY <1>4, <1>5 DEF FileCall
<1>12. ASSUME Fits(B) PROVE CallsKept(B) /\ r.unit = <<>>
  <2>1. /\ CallsInv(B) /\ lost = {} /\ ~e
        /\ Storage(cache, capacity, disk, SeenCalls(client), latest, lost, writes, B)
    BY <1>2, <1>12 DEF Fits, CachesFit, CacheFits, CallsInv
  <2>2. lost' = {} /\ r.unit = <<>>
    BY <1>5, <2>1
  <2>3. Puts(cache, cache', b, m, TRUE, capacity, disk, B)
    BY <1>2, WriteEffect
  <2>4. SeenCalls(client') = With(SeenCalls(client), c, Done("write", b, m))
    BY <1>7, <1>8 DEF Turned
  <2>5. SeenCalls(client)[c].op = "none" /\ NoClient(SeenCalls(client), b)
    BY <2>1, CallSeen, RestOK, CallsApart
  <2>6. ~Loses(cache, b, capacity, disk)
    BY <2>1 DEF Loses
  <2>7. /\ lost' \subseteq B /\ lost \subseteq lost' \cup {b}
        /\ capacity >= Cardinality(B) => lost' = {}
        /\ Loses(cache, b, capacity, disk) => evict_unit(cache).id \in lost'
        /\ latest' = [latest EXCEPT ![b] = m] /\ TRUE \in BOOLEAN
    BY <2>1, <2>2, <2>6
  <2>8. Keeps(cache, capacity, disk, SeenCalls(client), latest, lost,
              cache', disk, SeenCalls(client'), latest', lost', m, B)
    BY ONLY ZenonT(20), b \in B, c \in Context, m \in Data, IsFiniteSet(B), <2>1, <2>3, <2>4, <2>5,
            <2>7, CachedWriteKeeps
  <2> QED BY <1>8, <2>2, <2>8 DEF CallsKept, Turned
<1>13. CacheOK(cache', B) /\ Len(cache') <= capacity
  BY <1>3 DEF Stores
<1> QED BY <1>2, <1>8, <1>9, <1>10, <1>11, <1>12, <1>13, FileStep

\* pwrite() of an evicted unit.
LEMMA FilePwrite ==
    ASSUME NEW B, FileInv(B), NEW c \in Context, client[c].pc = "pwrite",
           NEW u, u = client[c].unit[1], disk' = [disk EXCEPT ![u.id] = u.data],
           client' = [client EXCEPT ![c] = [client[c] EXCEPT !.pc = "return", !.unit = <<>>]],
           lost' = lost \cup (IF disk[u.id] = latest[u.id] /\ u.data # disk[u.id]
                              THEN {u.id} ELSE {}),
           cache' = cache, latest' = latest, writes' = writes
    PROVE  FileKept(B)
<1>1. PICK r : r = [client[c] EXCEPT !.pc = "return", !.unit = <<>>]
  OBVIOUS
<1>2. /\ CacheOK(cache, B) /\ Len(cache) <= capacity /\ CallsTyped(client, B)
      /\ disk \in [B -> Data] /\ latest \in [B -> Data] /\ writes \in Data /\ lost \subseteq B
      /\ \A y \in B : y \notin lost => BlockKept(y, cache, disk, client, latest)
      /\ FileCall(client[c], B)
      /\ Fits(B) => \A d \in Context : client[d].unit = <<>>
  BY FileParts
<1>3. client[c] \in Calls(B) /\ client[c].op # "none"
  BY <1>2, CallFields
<1>4. client[c].done /\ client[c].unit = <<u>> /\ u \in CacheUnit(B, Data)
  <2>1. PICK v \in CacheUnit(B, Data) : client[c].unit = <<v>>
    BY <1>2 DEF FileCall
  <2>2. u = v
    BY SMTT(30), <2>1
  <2>3. client[c].done
    BY <1>2, <1>3 DEF FileCall
  <2> QED BY <2>1, <2>2, <2>3
<1>5. u.id \in B /\ u.data \in Data
  BY <1>4 DEF CacheUnit
<1>6. /\ r \in Calls(B) /\ r.op = client[c].op /\ r.block = client[c].block
      /\ r.buffer = client[c].buffer /\ r.done = client[c].done /\ r.pc = "return" /\ r.unit = <<>>
  BY <1>1, <1>3 DEF Calls, Stops, Units
<1>7. Turned(c, r, B)
  <2>1. CallOK(r, B)
    <3>1. CallOK(client[c], B)
      BY <1>2 DEF CallsTyped
    <3> QED BY <1>3, <1>6, <3>1 DEF CallOK
  <2> QED BY <1>1, <1>2, <2>1, CallTurned DEF Turns
<1>8. disk' \in [B -> Data] /\ lost' \subseteq B
  BY <1>2, <1>5
<1>9. ASSUME NEW y \in B, y \notin lost' PROVE BlockKept(y, cache', disk', client', latest')
  <2>1. BlockKept(y, cache, disk, client, latest)
    BY <1>2, <1>9
  <2>2. is_cached(cache', y) => get(cache', y).data = latest[y]
    BY <2>1 DEF BlockKept
  <2>3. Fetched(r, y) => r.buffer = latest[y]
    <3>1. Fetched(r, y) => Fetched(client[c], y)
      BY <1>6 DEF Fetched
    <3> QED BY <1>6, <2>1, <3>1 DEF BlockKept
  <2>4. ~Fetches(r, y)
    BY <1>4, <1>6 DEF Fetches
  <2>5. Carries(client[c], y, latest[y]) => y = u.id /\ u.data = latest[y]
    <3>1. ASSUME NEW v, client[c].unit = <<v>> PROVE v = u
      BY SMTT(30), <1>4, <3>1
    <3> QED BY <3>1 DEF Carries
  <2>6. CASE y = u.id /\ u.data = latest[y]
    <3>1. disk'[y] = latest[y]
      BY <1>2, <1>5, <2>6
    <3> QED BY <1>7, <2>1, <2>2, <2>3, <3>1, BlockStep
  <2>7. CASE y = u.id /\ u.data # latest[y]
    <3>1. disk[y] # latest[y]
      BY <1>9, <2>7
    <3> QED BY <1>7, <2>1, <2>2, <2>3, <2>4, <2>5, <2>7, <3>1, BlockStep
  <2>8. CASE y # u.id
    <3>1. disk'[y] = disk[y]
      BY <1>2, <1>5, <2>8
    <3> QED BY <1>7, <2>1, <2>2, <2>3, <2>4, <2>5, <2>8, <3>1, BlockStep
  <2> QED BY <2>6, <2>7, <2>8
<1>10. FileCall(r, B)
  BY <1>4, <1>6 DEF FileCall
<1>11. ~Fits(B)
  <2>1. <<u>> # <<>>
    BY SMTT(30)
  <2> QED BY <1>2, <1>4, <2>1
<1> QED BY <1>2, <1>7, <1>8, <1>9, <1>10, <1>11, FileStep

-----------------------------------------------------------------------------
(* Accessors whose cache has nothing that the device does not have *)

\* A block that one of the threads S is writing is not cached.
DroppedBy(cl, C, S) ==
    \A c \in S : cl[c].op = "write" /\ ~cl[c].done => ~is_cached(C, cl[c].block)

SavedState(C, dk, ls, B) == Clean(C) /\ Saved(C, dk, B) /\ ls = {}

\* A call changes, and the cache holds nothing new.
LEMMA StillDropped ==
    ASSUME NEW B, NEW S, S \subseteq Context, DroppedBy(client, cache, S),
           NEW c, NEW r, Turned(c, r, B),
           c \in S /\ r.op = "write" /\ ~r.done => ~is_cached(cache', r.block),
           \A x : is_cached(cache', x) => is_cached(cache, x)
    PROVE  DroppedBy(client', cache', S)
BY DEF DroppedBy, Turned

\* The block of a call that has taken effect goes into the cache.
LEMMA FillDropped ==
    ASSUME NEW B, CallsInv(B), NEW S, S \subseteq Context, DroppedBy(client, cache, S),
           NEW c \in Context, client[c].op # "none", client[c].done, NEW b, b = client[c].block,
           NEW r, Turned(c, r, B), r.done,
           \A x : is_cached(cache', x) => x = b \/ is_cached(cache, x)
    PROVE  DroppedBy(client', cache', S)
<1>1. Apart(SeenCalls(client))
  BY StorageParts DEF CallsInv
<1>2. ASSUME NEW d \in S, d # c, client[d].op = "write", ~client[d].done
      PROVE  ~is_cached(cache', client[d].block)
  <2>1. d \in Context /\ client[d].op # "none"
    BY SMTT(30), <1>2
  <2>2. SeenCalls(client)[d].op = "write" /\ SeenCalls(client)[d].block = client[d].block
    BY <1>2, <2>1, CallSeen
  <2>3. SeenCalls(client)[c].op # "none" /\ SeenCalls(client)[c].block = b
    <3>1. SeenCalls(client)[c].op = client[c].op /\ SeenCalls(client)[c].block = client[c].block
      BY CallSeen
    <3> QED BY <3>1
  <2>4. client[d].block # b
    BY <1>1, <1>2, <2>1, <2>2, <2>3 DEF Apart
  <2> QED BY <1>2, <2>4 DEF DroppedBy
<1> QED BY <1>2 DEF DroppedBy, Turned

\* A unit that the device has too is evicted.
LEMMA SavedLoses ==
    ASSUME NEW B, NEW C, CacheOK(C, B), NEW k \in Nat \ {0}, Len(C) <= k, NEW b \in B,
           NEW dk, Saved(C, dk, B)
    PROVE  ~Loses(C, b, k, dk)
<1>0. 0 \in Data
  BY SMTT(30), BoundsAssumption DEF Data
<1>1. PICK C2 : C2 = write(C, b, 0, FALSE, k)
  OBVIOUS
<1>2. Evicted(C, b, k) => Victim(C, b, evict_unit(C), B)
  BY <1>0, <1>1, Written
<1> QED BY <1>2 DEF Loses, Victim, Saved, CacheUnit

\* What a call has read or written goes into the cache.
FillsSaved(c, b, x, r, B) ==
    /\ client[c].op # "none" /\ client[c].done /\ b = client[c].block /\ x = client[c].buffer
    /\ cache' = write(cache, b, x, FALSE, capacity) /\ lost' = lost
    /\ Goes(c, r, x, client[c].done, B)
    /\ disk' = disk /\ latest' = latest /\ writes' = writes

FilledSaved(c, b, r, B) ==
    /\ CallsKept(B) /\ Turned(c, r, B) /\ SavedState(cache', disk', lost', B)
    /\ \A y : is_cached(cache', y) => y = b \/ is_cached(cache, y)

LEMMA SavedFill ==
    ASSUME CachesFit, NEW B, IsFiniteSet(B), CallsInv(B), SavedState(cache, disk, lost, B),
           NEW c \in Context, NEW b, NEW x, NEW r, FillsSaved(c, b, x, r, B)
    PROVE  FilledSaved(c, b, r, B)
<1> USE DEF FillsSaved, FilledSaved
<1>1. CacheOK(cache, B) /\ capacity \in Nat \ {0} /\ Len(cache) <= capacity
  BY StorageParts DEF CallsInv
<1>2. b \in B
  BY CallFields DEF CallsInv
<1>3. ~Loses(cache, b, capacity, disk)
  BY <1>1, <1>2, SavedLoses DEF SavedState
<1>4. lost' = IF Loses(cache, b, capacity, disk) THEN lost \cup {evict_unit(cache).id} ELSE lost
  BY <1>3
<1>5. /\ CallsKept(B) /\ Turned(c, r, B)
      /\ Fills(cache, capacity, disk, SeenCalls(client), latest, lost, cache', lost', writes, b, x, B)
  BY <1>4, SyncFill
<1>6. Puts(cache, cache', b, x, FALSE, capacity, disk, B) /\ x = View(cache, disk, B)[b]
  BY <1>5 DEF Fills, SavedState
<1>7. x = disk[b]
  BY <1>2, <1>6 DEF View, Saved, SavedState
<1>8. /\ Clean(cache') /\ Saved(cache', disk, B)
      /\ \A y : is_cached(cache', y) => y = b \/ is_cached(cache, y)
  BY <1>6, <1>7 DEF Puts, SavedState
<1> QED BY <1>5, <1>8 DEF SavedState

\* The device carries out a write.
LEMMA SavedWritten ==
    ASSUME NEW B, CallsInv(B), SavedState(cache, disk, lost, B), NEW b, ~is_cached(cache, b), NEW x,
           cache' = cache, lost' = lost, disk' = [disk EXCEPT ![b] = x]
    PROVE  SavedState(cache', disk', lost', B)
<1>1. disk \in [B -> Data]
  BY StorageParts DEF CallsInv
<1>2. \A y \in B : y # b => disk'[y] = disk[y]
  BY <1>1
<1>3. Saved(cache', disk', B)
  BY <1>2 DEF Saved, SavedState
<1> QED BY <1>3 DEF SavedState

\* A cached block is read.
LEMMA SavedTouch ==
    ASSUME NEW B, CallsInv(B), SavedState(cache, disk, lost, B), NEW b, is_cached(cache, b),
           cache' = Touch(cache, get(cache, b)), lost' = lost, disk' = disk
    PROVE  /\ SavedState(cache', disk', lost', B)
           /\ \A x : is_cached(cache', x) => is_cached(cache, x)
<1>1. CacheOK(cache, B)
  BY StorageParts DEF CallsInv
<1>2. CacheOK(cache', B) /\ SameUnits(cache, cache')
  BY <1>1, TouchEffect
<1>3. Clean(cache') /\ Saved(cache', disk, B)
  BY <1>1, <1>2, SameView DEF SavedState
<1>4. \A x : is_cached(cache', x) => is_cached(cache, x)
  BY <1>2 DEF SameUnits, Agree
<1> QED BY <1>3, <1>4 DEF SavedState

\* A block is dropped from the cache.
LEMMA SavedDrop ==
    ASSUME NEW B, CallsInv(B), SavedState(cache, disk, lost, B), NEW b \in B,
           cache' = invalidate(cache, b), lost' = lost, disk' = disk
    PROVE  /\ SavedState(cache', disk', lost', B) /\ ~is_cached(cache', b)
           /\ \A x : is_cached(cache', x) => is_cached(cache, x)
<1>1. CacheOK(cache, B)
  BY StorageParts DEF CallsInv
<1> QED BY <1>1, InvalidateEffect DEF SavedState

-----------------------------------------------------------------------------
(* The accessor with a queue pair for each thread *)

\* The lock of a queue pair is held from the submission to the end of the call,
\* and its one slot is taken while the command is on the device.  Q are the
\* queue pairs, pr is the queue pair of each thread, qp their locks and slots.
DedicatedCall(r, c, pr, qp) ==
    /\ r.pc \in {"idle", "read", "write", "device", "complete", "fill", "return"}
    /\ r.pc \in {"read", "write"} => ~r.done
    /\ r.pc \in {"complete", "fill", "return"} => r.done
    /\ r.pc \in {"read", "fill"} => r.op = "read"
    /\ r.pc = "write" => r.op = "write"
    /\ r.pc \in {"device", "complete"} => qp[pr[c]].lock = c
    /\ r.unit = <<>>

DedicatedCalls(cl, pr, qp) == \A c \in Context : DedicatedCall(cl[c], c, pr, qp)

Slots(cl, pr, qp, Q) ==
    \A q \in Q :
        qp[q].free_slots = IF \E c \in Context : pr[c] = q /\ cl[c].pc = "device" THEN 0 ELSE 1

PairsTyped(pr, qp, Q) ==
    /\ pr \in [Context -> Q]
    /\ qp \in [Q -> [lock : Context \cup {"free"}, free_slots : {0, 1}]]

DedicatedInv(pr, qp, Q, B) ==
    /\ CallsInv(B)
    /\ DedicatedCalls(client, pr, qp) /\ PairsTyped(pr, qp, Q) /\ Slots(client, pr, qp, Q)
    /\ DroppedBy(client, cache, Context) /\ SavedState(cache, disk, lost, B)

DedicatedKept(pr, qp2, Q, B) ==
    /\ CallsKept(B)
    /\ DedicatedCalls(client', pr, qp2) /\ PairsTyped(pr, qp2, Q) /\ Slots(client', pr, qp2, Q)
    /\ DroppedBy(client', cache', Context) /\ SavedState(cache', disk', lost', B)

\* A step that leaves the queue pairs alone.
LEMMA DedicatedStep ==
    ASSUME NEW B, NEW Q, NEW pr, NEW qp, DedicatedInv(pr, qp, Q, B), NEW c \in Context, NEW r,
           CallsKept(B), Turned(c, r, B), DedicatedCall(r, c, pr, qp),
           r.pc = "device" <=> client[c].pc = "device",
           DroppedBy(client', cache', Context), SavedState(cache', disk', lost', B)
    PROVE  DedicatedKept(pr, qp, Q, B)
<1>1. DedicatedCalls(client', pr, qp)
  BY DEF DedicatedInv, DedicatedCalls, Turned
<1>2. \A d \in Context : client'[d].pc = "device" <=> client[d].pc = "device"
  BY DEF Turned
<1>3. Slots(client', pr, qp, Q)
  <2> SUFFICES ASSUME NEW q \in Q
               PROVE  qp[q].free_slots = IF \E d \in Context : pr[d] = q /\ client'[d].pc = "device"
                                         THEN 0 ELSE 1
    BY DEF Slots
  <2>1. qp[q].free_slots = IF \E d \in Context : pr[d] = q /\ client[d].pc = "device" THEN 0 ELSE 1
    BY DEF DedicatedInv, Slots
  <2>2. (\E d \in Context : pr[d] = q /\ client[d].pc = "device")
          <=> \E d \in Context : pr[d] = q /\ client'[d].pc = "device"
    BY <1>2
  <2> QED BY <2>1, <2>2
<1> QED BY <1>1, <1>3 DEF DedicatedInv, DedicatedKept

LEMMA DedicatedHit ==
    ASSUME NEW B, NEW Q, NEW pr, NEW qp, DedicatedInv(pr, qp, Q, B), NEW c \in Context, NEW b \in B,
           client[c] = Rest, Nobody(b, "write"), is_cached(cache, b),
           cache' = Touch(cache, get(cache, b)),
           client' = [client EXCEPT ![c] = CallOf("read", b, get(cache, b).data, "return", TRUE)],
           disk' = disk, latest' = latest, lost' = lost, writes' = writes
    PROVE  DedicatedKept(pr, qp, Q, B)
<1>1. PICK r : r = CallOf("read", b, get(cache, b).data, "return", TRUE)
  OBVIOUS
<1>2. /\ CallsInv(B) /\ DroppedBy(client, cache, Context) /\ SavedState(cache, disk, lost, B)
  BY DEF DedicatedInv
<1>3. CallsKept(B) /\ Turned(c, r, B)
  BY <1>1, <1>2, SyncHit
<1>4. r.op = "read" /\ r.pc = "return" /\ r.done = TRUE /\ r.unit = <<>>
  BY <1>1 DEF CallOf
<1>5. DedicatedCall(r, c, pr, qp)
  BY <1>4 DEF DedicatedCall
<1>6. /\ SavedState(cache', disk', lost', B) /\ \A x : is_cached(cache', x) => is_cached(cache, x)
  BY <1>2, SavedTouch
<1>7. DroppedBy(client', cache', Context)
  BY <1>2, <1>3, <1>4, <1>6, StillDropped
<1>8. client[c].pc # "device" /\ r.pc # "device"
  BY <1>4, RestOK
<1> QED BY <1>3, <1>5, <1>6, <1>7, <1>8, DedicatedStep

LEMMA DedicatedMiss ==
    ASSUME NEW B, NEW Q, NEW pr, NEW qp, DedicatedInv(pr, qp, Q, B), NEW c \in Context, NEW b \in B,
           client[c] = Rest, Nobody(b, "write"), ~is_cached(cache, b),
           client' = [client EXCEPT ![c] = CallOf("read", b, 0, "read", FALSE)],
           cache' = cache, disk' = disk, latest' = latest, lost' = lost, writes' = writes
    PROVE  DedicatedKept(pr, qp, Q, B)
<1>1. PICK r : r = CallOf("read", b, 0, "read", FALSE)
  OBVIOUS
<1>2. /\ CallsInv(B) /\ DroppedBy(client, cache, Context) /\ SavedState(cache', disk', lost', B)
  BY DEF DedicatedInv
<1>3. CallsKept(B) /\ Turned(c, r, B)
  BY <1>1, <1>2, SyncMiss
<1>4. r.op = "read" /\ r.pc = "read" /\ r.done = FALSE /\ r.unit = <<>>
  BY <1>1 DEF CallOf
<1>5. DedicatedCall(r, c, pr, qp)
  BY <1>4 DEF DedicatedCall
<1>6. DroppedBy(client', cache', Context)
  BY <1>2, <1>3, <1>4, StillDropped
<1>7. client[c].pc # "device" /\ r.pc # "device"
  BY <1>4, RestOK
<1> QED BY <1>2, <1>3, <1>5, <1>6, <1>7, DedicatedStep

LEMMA DedicatedWrite ==
    ASSUME NEW B, NEW Q, NEW pr, NEW qp, DedicatedInv(pr, qp, Q, B), NEW c \in Context, NEW b \in B,
           client[c] = Rest, Nobody(b, "write"), Nobody(b, "read"), NEW m \in Data,
           client' = [client EXCEPT ![c] = CallOf("write", b, m, "write", FALSE)],
           cache' = invalidate(cache, b), disk' = disk, lost' = lost,
           latest' = [latest EXCEPT ![b] = m], writes' = m
    PROVE  DedicatedKept(pr, qp, Q, B)
<1>1. PICK r : r = CallOf("write", b, m, "write", FALSE)
  OBVIOUS
<1>2. /\ CallsInv(B) /\ DroppedBy(client, cache, Context) /\ SavedState(cache, disk, lost, B)
      /\ Saved(cache, disk, B) /\ lost = {}
  BY DEF DedicatedInv, SavedState
<1>3. CallsKept(B) /\ Turned(c, r, B)
  BY <1>1, <1>2, SyncBegin
<1>4. r.op = "write" /\ r.pc = "write" /\ r.done = FALSE /\ r.unit = <<>> /\ r.block = b
  BY <1>1 DEF CallOf
<1>5. DedicatedCall(r, c, pr, qp)
  BY <1>4 DEF DedicatedCall
<1>6. /\ SavedState(cache', disk', lost', B) /\ ~is_cached(cache', b)
      /\ \A x : is_cached(cache', x) => is_cached(cache, x)
  BY <1>2, SavedDrop
<1>7. DroppedBy(client', cache', Context)
  BY <1>2, <1>3, <1>4, <1>6, StillDropped
<1>8. client[c].pc # "device" /\ r.pc # "device"
  BY <1>4, RestOK
<1> QED BY <1>3, <1>5, <1>6, <1>7, <1>8, DedicatedStep

\* The state of a call of the dedicated accessor.
LEMMA DedicatedState ==
    ASSUME NEW B, NEW Q, NEW pr, NEW qp, DedicatedInv(pr, qp, Q, B), NEW c \in Context
    PROVE  /\ CallsInv(B) /\ DedicatedCall(client[c], c, pr, qp)
           /\ DroppedBy(client, cache, Context) /\ SavedState(cache, disk, lost, B)
           /\ client[c] \in Calls(B) /\ client[c].unit = <<>>
           /\ client[c].pc # "idle" => client[c].op # "none"
           /\ pr[c] \in Q /\ qp[pr[c]].free_slots \in {0, 1}
<1>1. /\ CallsInv(B) /\ DedicatedCall(client[c], c, pr, qp)
      /\ DroppedBy(client, cache, Context) /\ SavedState(cache, disk, lost, B)
      /\ PairsTyped(pr, qp, Q)
  BY DEF DedicatedInv, DedicatedCalls
<1>2. pr[c] \in Q
  BY <1>1 DEF PairsTyped
<1>3. qp[pr[c]].free_slots \in {0, 1}
  BY <1>1, <1>2 DEF PairsTyped
<1> QED BY <1>1, <1>2, <1>3, CallFields DEF CallsInv, DedicatedCall

\* The command is carried out.
LEMMA DedicatedDevice ==
    ASSUME NEW B, NEW Q, NEW pr, NEW qp, DedicatedInv(pr, qp, Q, B), NEW c \in Context,
           client[c].pc = "device", ~client[c].done, NEW b, b = client[c].block,
           \/ /\ client[c].op = "read" /\ disk' = disk
              /\ client' = [client EXCEPT ![c] = [client[c] EXCEPT !.done = TRUE, !.buffer = disk[b]]]
           \/ /\ client[c].op # "read" /\ disk' = [disk EXCEPT ![b] = client[c].buffer]
              /\ client' = [client EXCEPT ![c] = [client[c] EXCEPT !.done = TRUE]],
           cache' = cache, latest' = latest, lost' = lost, writes' = writes
    PROVE  DedicatedKept(pr, qp, Q, B)
<1>1. /\ CallsInv(B) /\ DedicatedCall(client[c], c, pr, qp)
      /\ DroppedBy(client, cache, Context) /\ SavedState(cache, disk, lost, B)
      /\ client[c] \in Calls(B) /\ client[c].unit = <<>>
  BY DedicatedState
<1>2. client[c].op \in {"none", "read", "write"} /\ client[c].op # "none" /\ b \in B
  BY <1>1, CallFields DEF CallsInv
<1>3. qp[pr[c]].lock = c
  BY <1>1 DEF DedicatedCall
<1>4. ASSUME NEW r, CallsKept(B), Turned(c, r, B), r.pc = "device", r.done = TRUE, r.unit = <<>>,
             SavedState(cache', disk', lost', B)
      PROVE  DedicatedKept(pr, qp, Q, B)
  <2>1. DedicatedCall(r, c, pr, qp)
    BY <1>3, <1>4 DEF DedicatedCall
  <2>2. DroppedBy(client', cache', Context)
    BY <1>1, <1>4, StillDropped
  <2> QED BY <1>4, <2>1, <2>2, DedicatedStep
<1>5. CASE client[c].op = "read"
  <2>1. PICK x, r : x = disk[b] /\ r = [client[c] EXCEPT !.done = TRUE, !.buffer = x]
    OBVIOUS
  <2>2. client' = [client EXCEPT ![c] = r] /\ disk' = disk
    BY <1>5, <2>1
  <2>3. disk \in [B -> Data]
    BY <1>1, StorageParts DEF CallsInv
  <2>4. x \in Data
    BY <1>2, <2>1, <2>3
  <2>5. /\ r \in Calls(B) /\ r.op = client[c].op /\ r.block = client[c].block /\ r.buffer = x
        /\ r.done = TRUE /\ r.pc = "device" /\ r.unit = <<>>
    BY <1>1, <2>1, <2>4 DEF Calls
  <2>6. Goes(c, r, x, TRUE, B)
    BY <1>2, <2>2, <2>5 DEF Goes
  <2>7. CallsKept(B) /\ Turned(c, r, B)
    BY <1>1, <1>5, <2>1, <2>2, <2>6, SyncRead
  <2>8. SavedState(cache', disk', lost', B)
    BY <1>1, <2>2
  <2> QED BY <1>4, <2>5, <2>7, <2>8
<1>6. CASE client[c].op # "read"
  <2>1. PICK x, r : x = client[c].buffer /\ r = [client[c] EXCEPT !.done = TRUE]
    OBVIOUS
  <2>2. client' = [client EXCEPT ![c] = r] /\ disk' = [disk EXCEPT ![b] = x] /\ client[c].op = "write"
    BY <1>2, <1>6, <2>1
  <2>3. ~is_cached(cache, b)
    BY <1>1, <2>2 DEF DroppedBy
  <2>4. /\ r \in Calls(B) /\ r.op = client[c].op /\ r.block = client[c].block /\ r.buffer = x
        /\ r.done = TRUE /\ r.pc = "device" /\ r.unit = <<>>
    BY <1>1, <2>1 DEF Calls
  <2>5. Goes(c, r, x, TRUE, B)
    BY <1>2, <2>2, <2>4 DEF Goes
  <2>6. CallsKept(B) /\ Turned(c, r, B)
    BY <1>1, <2>1, <2>2, <2>3, <2>5, SyncWritten
  <2>7. SavedState(cache', disk', lost', B)
    BY <1>1, <2>2, <2>3, SavedWritten
  <2> QED BY <1>4, <2>4, <2>6, <2>7
<1> QED BY <1>5, <1>6

\* The rest of read().
LEMMA DedicatedFill ==
    ASSUME CachesFit, NEW B, IsFiniteSet(B), NEW Q, NEW pr, NEW qp, DedicatedInv(pr, qp, Q, B),
           NEW c \in Context, client[c].pc = "fill",
           cache' = write(cache, client[c].block, client[c].buffer, FALSE, capacity),
           client' = [client EXCEPT ![c] = [client[c] EXCEPT !.pc = "return"]],
           disk' = disk, latest' = latest, lost' = lost, writes' = writes
    PROVE  DedicatedKept(pr, qp, Q, B)
<1>1. /\ CallsInv(B) /\ DedicatedCall(client[c], c, pr, qp)
      /\ DroppedBy(client, cache, Context) /\ SavedState(cache, disk, lost, B)
      /\ client[c] \in Calls(B) /\ client[c].unit = <<>> /\ client[c].op # "none"
  BY DedicatedState
<1>2. client[c].done
  BY <1>1 DEF DedicatedCall
<1>3. PICK r : r = [client[c] EXCEPT !.pc = "return"]
  OBVIOUS
<1>4. /\ r \in Calls(B) /\ r.op = client[c].op /\ r.block = client[c].block
      /\ r.buffer = client[c].buffer /\ r.done = client[c].done /\ r.pc = "return" /\ r.unit = <<>>
  BY <1>1, <1>3 DEF Calls, Stops
<1>5. Goes(c, r, client[c].buffer, client[c].done, B)
  BY <1>1, <1>3, <1>4 DEF Goes
<1>6. PICK b : b = client[c].block
  OBVIOUS
<1>7. /\ CallsKept(B) /\ Turned(c, r, B) /\ SavedState(cache', disk', lost', B)
      /\ \A y : is_cached(cache', y) => y = b \/ is_cached(cache, y)
  <2>1. FillsSaved(c, b, client[c].buffer, r, B)
    BY <1>1, <1>2, <1>5, <1>6 DEF FillsSaved
  <2>2. FilledSaved(c, b, r, B)
    BY <1>1, <2>1, SavedFill
  <2> QED BY <2>2 DEF FilledSaved
<1>8. DroppedBy(client', cache', Context)
  BY <1>1, <1>2, <1>4, <1>6, <1>7, FillDropped
<1>9. DedicatedCall(r, c, pr, qp)
  BY <1>2, <1>4 DEF DedicatedCall
<1> QED BY <1>4, <1>7, <1>8, <1>9, DedicatedStep

LEMMA DedicatedReturns ==
    ASSUME NEW B, NEW Q, NEW pr, NEW qp, DedicatedInv(pr, qp, Q, B), NEW c \in Context,
           client[c].pc = "return", client' = [client EXCEPT ![c] = Rest],
           cache' = cache, disk' = disk, latest' = latest, lost' = lost, writes' = writes
    PROVE  DedicatedKept(pr, qp, Q, B)
<1>1. /\ CallsInv(B) /\ DedicatedCall(client[c], c, pr, qp)
      /\ DroppedBy(client, cache, Context) /\ SavedState(cache', disk', lost', B)
      /\ client[c].op # "none"
  BY DedicatedState
<1>2. client[c].done
  BY <1>1 DEF DedicatedCall
<1>3. CallsKept(B) /\ Turned(c, Rest, B)
  BY <1>1, <1>2, SyncReturns
<1>4. Rest.op = "none" /\ Rest.pc = "idle" /\ Rest.unit = <<>>
  BY RestOK
<1>5. DedicatedCall(Rest, c, pr, qp)
  BY <1>4 DEF DedicatedCall
<1>6. DroppedBy(client', cache', Context)
  BY <1>1, <1>3, <1>4, StillDropped
<1> QED BY <1>1, <1>3, <1>4, <1>5, <1>6, DedicatedStep

\* A thread has its queue pair q0 for itself.
OwnPair(c, r, q0, pr, qp, qp2, Q) ==
    /\ q0 = pr[c] /\ PairsTyped(pr, qp2, Q)
    /\ \A q \in Q : q # q0 => qp2[q] = qp[q]
    /\ \A d \in Context : d # c /\ pr[d] = q0 => client[d].pc \notin {"device", "complete"}
    /\ qp2[q0].free_slots = IF r.pc = "device" THEN 0 ELSE 1

\* It moves on.
LEMMA DedicatedTurn ==
    ASSUME NEW B, NEW Q, NEW pr, NEW qp, DedicatedInv(pr, qp, Q, B), NEW c \in Context, NEW r,
           client[c].pc # "idle", Goes(c, r, client[c].buffer, client[c].done, B),
           cache' = cache, disk' = disk, latest' = latest, lost' = lost, writes' = writes,
           NEW q0, NEW qp2, OwnPair(c, r, q0, pr, qp, qp2, Q), DedicatedCall(r, c, pr, qp2)
    PROVE  DedicatedKept(pr, qp2, Q, B)
<1>0. /\ q0 = pr[c] /\ PairsTyped(pr, qp2, Q)
      /\ \A q \in Q : q # q0 => qp2[q] = qp[q]
      /\ \A d \in Context : d # c /\ pr[d] = q0 => client[d].pc \notin {"device", "complete"}
      /\ qp2[q0].free_slots = IF r.pc = "device" THEN 0 ELSE 1
  BY DEF OwnPair
<1>1. /\ CallsInv(B) /\ DroppedBy(client, cache, Context) /\ SavedState(cache, disk, lost, B)
      /\ client[c].op # "none"
  BY DedicatedState
<1>2. CallsKept(B) /\ Turned(c, r, B)
  BY <1>1, SyncMoves
<1>3. client'[c] = r /\ \A d \in Context : d # c => client'[d] = client[d]
  BY <1>2 DEF Turned
<1>4. DroppedBy(client', cache', Context)
  <2>1. c \in Context /\ r.op = "write" /\ ~r.done => ~is_cached(cache', r.block)
    BY <1>1 DEF DroppedBy, Goes
  <2> QED BY <1>1, <1>2, <2>1, StillDropped
<1>5. ASSUME NEW d \in Context, d # c PROVE DedicatedCall(client'[d], d, pr, qp2)
  <2>1. DedicatedCall(client[d], d, pr, qp) /\ pr[d] \in Q
    BY DedicatedState
  <2>2. client[d].pc \in {"device", "complete"} => qp2[pr[d]] = qp[pr[d]]
    BY <1>0, <1>5, <2>1
  <2> QED BY <1>3, <1>5, <2>1, <2>2 DEF DedicatedCall
<1>6. DedicatedCalls(client', pr, qp2)
  BY <1>3, <1>5 DEF DedicatedCalls
<1>7. ASSUME NEW q \in Q
      PROVE  qp2[q].free_slots = IF \E d \in Context : pr[d] = q /\ client'[d].pc = "device"
                                 THEN 0 ELSE 1
  <2>1. CASE q = q0
    <3>1. (\E d \in Context : pr[d] = q /\ client'[d].pc = "device") <=> r.pc = "device"
      BY <1>0, <1>3, <2>1
    <3> QED BY <1>0, <2>1, <3>1
  <2>2. CASE q # q0
    <3>1. qp2[q].free_slots = IF \E d \in Context : pr[d] = q /\ client[d].pc = "device"
                              THEN 0 ELSE 1
      BY <1>0, <2>2 DEF DedicatedInv, Slots
    <3>2. (\E d \in Context : pr[d] = q /\ client[d].pc = "device")
            <=> \E d \in Context : pr[d] = q /\ client'[d].pc = "device"
      BY <1>0, <1>3, <2>2
    <3> QED BY <3>1, <3>2
  <2> QED BY <2>1, <2>2
<1>8. Slots(client', pr, qp2, Q)
  BY <1>7 DEF Slots
<1> QED BY <1>0, <1>1, <1>2, <1>4, <1>6, <1>8 DEF DedicatedKept

\* A call at another place, with the queue pair of its thread as it was.
Shifted(c, r, p, B) ==
    /\ Goes(c, r, client[c].buffer, client[c].done, B)
    /\ r.pc = p /\ r.op = client[c].op /\ r.done = client[c].done /\ r.unit = <<>>

LEMMA DedicatedMoves ==
    ASSUME NEW B, NEW Q, NEW pr, NEW qp, DedicatedInv(pr, qp, Q, B), NEW c \in Context,
           client[c].pc # "idle", NEW p \in Stops \ {"idle"},
           client' = [client EXCEPT ![c] = [client[c] EXCEPT !.pc = p]],
           NEW r, r = [client[c] EXCEPT !.pc = p]
    PROVE  Shifted(c, r, p, B)
<1>1. client[c] \in Calls(B) /\ client[c].unit = <<>> /\ client[c].op # "none"
  BY DedicatedState
<1>2. /\ r \in Calls(B) /\ r.op = client[c].op /\ r.block = client[c].block
      /\ r.buffer = client[c].buffer /\ r.done = client[c].done /\ r.pc = p /\ r.unit = <<>>
  BY <1>1 DEF Calls
<1> QED BY <1>1, <1>2 DEF Goes, Shifted

\* synchronous_read, synchronous_write.
LEMMA DedicatedSubmit ==
    ASSUME NEW B, NEW Q, NEW pr, NEW qp, DedicatedInv(pr, qp, Q, B), NEW c \in Context,
           client[c].pc \in {"read", "write"}, "free" \notin Context, qp[pr[c]].lock = "free",
           NEW qp2, qp2 = [qp EXCEPT ![pr[c]] = [lock |-> c, free_slots |-> @.free_slots - 1]],
           client' = [client EXCEPT ![c] = [client[c] EXCEPT !.pc = "device"]],
           cache' = cache, disk' = disk, latest' = latest, lost' = lost, writes' = writes
    PROVE  DedicatedKept(pr, qp2, Q, B)
<1>1. PICK q0, r : q0 = pr[c] /\ r = [client[c] EXCEPT !.pc = "device"]
  OBVIOUS
<1>2. client[c].pc # "idle"
  OBVIOUS
<1>3. /\ Goes(c, r, client[c].buffer, client[c].done, B)
      /\ r.pc = "device" /\ r.unit = <<>>
  <2>1. Shifted(c, r, "device", B)
    BY <1>1, <1>2, DedicatedMoves DEF Stops
  <2> QED BY <2>1 DEF Shifted
<1>4. PairsTyped(pr, qp, Q) /\ Slots(client, pr, qp, Q) /\ DedicatedCalls(client, pr, qp)
  BY DEF DedicatedInv
<1>5. \A d \in Context : pr[d] = q0 => client[d].pc \notin {"device", "complete"}
  BY <1>1, <1>4 DEF DedicatedCalls, DedicatedCall
<1>6. q0 \in Q /\ qp \in [Q -> [lock : Context \cup {"free"}, free_slots : {0, 1}]]
  BY <1>1, <1>4 DEF PairsTyped
<1>7. qp[q0].free_slots = 1
  BY <1>4, <1>5, <1>6 DEF Slots
<1>8. PICK n : n = qp[q0].free_slots - 1
  OBVIOUS
<1>9. n = 0
  BY SMTT(30), <1>7, <1>8
<1>10. qp2 = [qp EXCEPT ![q0] = [lock |-> c, free_slots |-> n]]
  BY <1>1, <1>8
<1>11. /\ qp2 \in [Q -> [lock : Context \cup {"free"}, free_slots : {0, 1}]]
       /\ qp2[q0].lock = c /\ qp2[q0].free_slots = 0
       /\ \A q \in Q : q # q0 => qp2[q] = qp[q]
  <2>1. PICK v : v = [lock |-> c, free_slots |-> n]
    OBVIOUS
  <2>2. v \in [lock : Context \cup {"free"}, free_slots : {0, 1}] /\ v.lock = c /\ v.free_slots = 0
    BY <1>9, <2>1
  <2>3. qp2 = [qp EXCEPT ![q0] = v]
    BY <1>10, <2>1
  <2>4. PICK S : S = [lock : Context \cup {"free"}, free_slots : {0, 1}]
    OBVIOUS
  <2>5. q0 \in Q /\ qp \in [Q -> S] /\ v \in S
    BY <1>6, <2>2, <2>4
  <2>6. qp2 \in [Q -> S] /\ qp2[q0] = v /\ \A q \in Q : q # q0 => qp2[q] = qp[q]
    BY <2>3, <2>5
  <2> QED BY <2>2, <2>4, <2>6
<1>12. PairsTyped(pr, qp2, Q)
  BY <1>4, <1>11 DEF PairsTyped
<1>13. DedicatedCall(r, c, pr, qp2)
  BY <1>1, <1>3, <1>11 DEF DedicatedCall
<1>14. OwnPair(c, r, q0, pr, qp, qp2, Q)
  BY <1>1, <1>3, <1>5, <1>11, <1>12 DEF OwnPair
<1> QED BY <1>2, <1>3, <1>13, <1>14, DedicatedTurn

\* cb_function.
LEMMA DedicatedCallback ==
    ASSUME NEW B, NEW Q, NEW pr, NEW qp, DedicatedInv(pr, qp, Q, B), NEW c \in Context,
           client[c].pc = "device", client[c].done,
           NEW qp2, qp2 = [qp EXCEPT ![pr[c]].free_slots = @ + 1],
           client' = [client EXCEPT ![c] = [client[c] EXCEPT !.pc = "complete"]],
           cache' = cache, disk' = disk, latest' = latest, lost' = lost, writes' = writes
    PROVE  DedicatedKept(pr, qp2, Q, B)
<1>1. PICK q0, r : q0 = pr[c] /\ r = [client[c] EXCEPT !.pc = "complete"]
  OBVIOUS
<1>2. client[c].pc # "idle"
  OBVIOUS
<1>3. /\ Goes(c, r, client[c].buffer, client[c].done, B)
      /\ r.pc = "complete" /\ r.done = client[c].done /\ r.unit = <<>>
  <2>1. Shifted(c, r, "complete", B)
    BY <1>1, <1>2, DedicatedMoves DEF Stops
  <2> QED BY <2>1 DEF Shifted
<1>4. PairsTyped(pr, qp, Q) /\ Slots(client, pr, qp, Q) /\ DedicatedCalls(client, pr, qp)
  BY DEF DedicatedInv
<1>5. qp[q0].lock = c
  BY <1>1, <1>4 DEF DedicatedCalls, DedicatedCall
<1>6. \A d \in Context : d # c /\ pr[d] = q0 => client[d].pc \notin {"device", "complete"}
  BY <1>4, <1>5 DEF DedicatedCalls, DedicatedCall
<1>7. q0 \in Q /\ qp \in [Q -> [lock : Context \cup {"free"}, free_slots : {0, 1}]]
  BY <1>1, <1>4 DEF PairsTyped
<1>8. qp[q0].free_slots = 0
  BY <1>1, <1>4, <1>7 DEF Slots
<1>9. PICK n : n = qp[q0].free_slots + 1
  OBVIOUS
<1>10. n = 1
  BY SMTT(30), <1>8, <1>9
<1>11. qp2 = [qp EXCEPT ![q0].free_slots = n]
  BY <1>1, <1>9
<1>12. /\ qp2 \in [Q -> [lock : Context \cup {"free"}, free_slots : {0, 1}]]
       /\ qp2[q0].lock = c /\ qp2[q0].free_slots = 1
       /\ \A q \in Q : q # q0 => qp2[q] = qp[q]
  <2>1. PICK v : v = [qp[q0] EXCEPT !.free_slots = n]
    OBVIOUS
  <2>2. v \in [lock : Context \cup {"free"}, free_slots : {0, 1}] /\ v.lock = c /\ v.free_slots = 1
    BY <1>5, <1>7, <1>10, <2>1
  <2>3. qp2 = [qp EXCEPT ![q0] = v]
    BY <1>7, <1>11, <2>1
  <2>4. PICK S : S = [lock : Context \cup {"free"}, free_slots : {0, 1}]
    OBVIOUS
  <2>5. q0 \in Q /\ qp \in [Q -> S] /\ v \in S
    BY <1>7, <2>2, <2>4
  <2>6. qp2 \in [Q -> S] /\ qp2[q0] = v /\ \A q \in Q : q # q0 => qp2[q] = qp[q]
    BY <2>3, <2>5
  <2> QED BY <2>2, <2>4, <2>6
<1>13. PairsTyped(pr, qp2, Q)
  BY <1>4, <1>12 DEF PairsTyped
<1>14. DedicatedCall(r, c, pr, qp2)
  BY <1>1, <1>3, <1>12 DEF DedicatedCall
<1>15. OwnPair(c, r, q0, pr, qp, qp2, Q)
  BY <1>1, <1>3, <1>6, <1>12, <1>13 DEF OwnPair
<1> QED BY <1>2, <1>3, <1>14, <1>15, DedicatedTurn

\* The lock is given back.
LEMMA DedicatedLeave ==
    ASSUME NEW B, NEW Q, NEW pr, NEW qp, DedicatedInv(pr, qp, Q, B), NEW c \in Context,
           client[c].pc \in {"device", "complete"},
           IF client[c].op = "write" THEN client[c].pc = "complete" ELSE qp[pr[c]].free_slots # 0,
           NEW qp2, qp2 = [qp EXCEPT ![pr[c]].lock = "free"],
           NEW p, p = IF client[c].op = "read" THEN "fill" ELSE "return",
           client' = [client EXCEPT ![c] = [client[c] EXCEPT !.pc = p]],
           cache' = cache, disk' = disk, latest' = latest, lost' = lost, writes' = writes
    PROVE  DedicatedKept(pr, qp2, Q, B)
<1>1. PICK q0, r : q0 = pr[c] /\ r = [client[c] EXCEPT !.pc = p]
  OBVIOUS
<1>2. client[c].pc # "idle" /\ p \in Stops \ {"idle"}
  BY DEF Stops
<1>3. /\ Goes(c, r, client[c].buffer, client[c].done, B)
      /\ r.pc = p /\ r.op = client[c].op /\ r.done = client[c].done /\ r.unit = <<>>
  <2>1. Shifted(c, r, p, B)
    BY <1>1, <1>2, DedicatedMoves
  <2> QED BY <2>1 DEF Shifted
<1>4. PairsTyped(pr, qp, Q) /\ Slots(client, pr, qp, Q) /\ DedicatedCalls(client, pr, qp)
  BY DEF DedicatedInv
<1>5. qp[q0].lock = c
  BY <1>1, <1>4 DEF DedicatedCalls, DedicatedCall
<1>6. \A d \in Context : d # c /\ pr[d] = q0 => client[d].pc \notin {"device", "complete"}
  BY <1>4, <1>5 DEF DedicatedCalls, DedicatedCall
<1>7. q0 \in Q /\ qp \in [Q -> [lock : Context \cup {"free"}, free_slots : {0, 1}]]
  BY <1>1, <1>4 DEF PairsTyped
<1>8. client[c].pc = "complete"
  BY <1>1, <1>4, <1>7 DEF Slots
<1>9. qp[q0].free_slots = 1
  <2>1. ~ \E d \in Context : pr[d] = q0 /\ client[d].pc = "device"
    BY <1>6, <1>8
  <2> QED BY <1>4, <1>7, <2>1 DEF Slots
<1>10. qp2 = [qp EXCEPT ![q0].lock = "free"]
  BY <1>1
<1>11. /\ qp2 \in [Q -> [lock : Context \cup {"free"}, free_slots : {0, 1}]]
       /\ qp2[q0].free_slots = 1
       /\ \A q \in Q : q # q0 => qp2[q] = qp[q]
  BY <1>7, <1>9, <1>10
<1>12. PairsTyped(pr, qp2, Q)
  BY <1>4, <1>11 DEF PairsTyped
<1>13. client[c].done
  BY <1>4, <1>8 DEF DedicatedCalls, DedicatedCall
<1>14. DedicatedCall(r, c, pr, qp2)
  BY <1>3, <1>13 DEF DedicatedCall
<1>15. r.pc # "device"
  BY <1>3
<1>16. OwnPair(c, r, q0, pr, qp, qp2, Q)
  BY <1>1, <1>6, <1>11, <1>12, <1>15 DEF OwnPair
<1> QED BY <1>2, <1>3, <1>14, <1>16, DedicatedTurn

-----------------------------------------------------------------------------
(* The accessor with one I/O thread *)

\* A caller waits in the queue q, or for the device.
SharedCall(r, c, q, cmds) ==
    /\ r.pc \in {"idle", "wait", "return"} /\ r.unit = <<>>
    /\ r.pc = "return" => r.done
    /\ r.pc = "wait" <=> IsReady(c, q) \/ c \in cmds
    /\ IsReady(c, q) => ~r.done /\ c \notin cmds

SharedCalls(cl, q, cmds) == \A c \in Context : SharedCall(cl[c], c, q, cmds)

QueueTyped(q, cmds) == q \in Seq(Context) /\ Distinct(q) /\ cmds \subseteq Context

SharedInv(q, B) ==
    /\ CallsInv(B) /\ QueueTyped(q, io) /\ SharedCalls(client, q, io)
    /\ DroppedBy(client, cache, io) /\ SavedState(cache, disk, lost, B)

SharedKept(q2, B) ==
    /\ CallsKept(B) /\ QueueTyped(q2, io') /\ SharedCalls(client', q2, io')
    /\ DroppedBy(client', cache', io') /\ SavedState(cache', disk', lost', B)

\* The others wait where they waited.
OthersWait(c, q, q2, cmds, cmds2) ==
    \A d \in Context : d # c => (IsReady(d, q2) <=> IsReady(d, q)) /\ (d \in cmds2 <=> d \in cmds)

LEMMA SharedStep ==
    ASSUME NEW B, NEW q, SharedInv(q, B), NEW c \in Context, NEW r, CallsKept(B), Turned(c, r, B),
           NEW q2, QueueTyped(q2, io'), SharedCall(r, c, q2, io'), OthersWait(c, q, q2, io, io'),
           DroppedBy(client', cache', io'), SavedState(cache', disk', lost', B)
    PROVE  SharedKept(q2, B)
<1>1. client'[c] = r /\ \A d \in Context : d # c => client'[d] = client[d]
  BY DEF Turned
<1>2. ASSUME NEW d \in Context, d # c PROVE SharedCall(client'[d], d, q2, io')
  <2>1. /\ SharedCall(client[d], d, q, io) /\ (IsReady(d, q2) <=> IsReady(d, q))
        /\ d \in io' <=> d \in io
    BY <1>2 DEF SharedInv, SharedCalls, OthersWait
  <2> QED BY <1>1, <1>2, <2>1 DEF SharedCall
<1>3. SharedCalls(client', q2, io')
  BY <1>1, <1>2 DEF SharedCalls
<1> QED BY <1>3 DEF SharedKept

\* A request is enqueued.
LEMMA SharedEnqueue ==
    ASSUME NEW B, NEW q, SharedInv(q, B), NEW c \in Context, client[c] = Rest,
           NEW q2, q2 = Append(q, c), io' = io
    PROVE  /\ QueueTyped(q2, io') /\ OthersWait(c, q, q2, io, io') /\ IsReady(c, q2) /\ c \notin io
<1>1. SharedCall(client[c], c, q, io) /\ QueueTyped(q, io)
  BY DEF SharedInv, SharedCalls
<1>2. client[c].pc # "wait"
  BY RestOK
<1>3. ~IsReady(c, q) /\ c \notin io
  BY <1>1, <1>2 DEF SharedCall
<1>4. /\ q2 \in Seq(Context) /\ Distinct(q2) /\ \A x : IsReady(x, q2) <=> IsReady(x, q) \/ x = c
  BY <1>1, <1>3, Joined DEF QueueTyped
<1> QED BY <1>1, <1>3, <1>4 DEF QueueTyped, OthersWait

LEMMA SharedRead ==
    ASSUME NEW B, NEW q, SharedInv(q, B), NEW c \in Context, NEW b \in B, client[c] = Rest,
           Nobody(b, "write"), NEW q2, q2 = Append(q, c), io' = io,
           client' = [client EXCEPT ![c] = CallOf("read", b, 0, "wait", FALSE)],
           cache' = cache, disk' = disk, latest' = latest, lost' = lost, writes' = writes
    PROVE  SharedKept(q2, B)
<1>1. PICK r : r = CallOf("read", b, 0, "wait", FALSE)
  OBVIOUS
<1>2. CallsInv(B) /\ DroppedBy(client, cache, io) /\ SavedState(cache, disk, lost, B) /\ io \subseteq Context
  BY DEF SharedInv, QueueTyped
<1>3. is_cached(cache, b) => get(cache, b).data = disk[b]
  BY <1>2 DEF SavedState, Saved
<1>4. CallsKept(B) /\ Turned(c, r, B)
  BY <1>1, <1>2, <1>3, SyncMiss
<1>5. r.op = "read" /\ r.pc = "wait" /\ r.done = FALSE /\ r.unit = <<>>
  BY <1>1 DEF CallOf
<1>6. QueueTyped(q2, io') /\ OthersWait(c, q, q2, io, io') /\ IsReady(c, q2) /\ c \notin io
  BY SharedEnqueue
<1>7. SharedCall(r, c, q2, io')
  BY <1>5, <1>6 DEF SharedCall
<1>8. DroppedBy(client', cache', io)
  BY <1>2, <1>4, <1>6, StillDropped
<1> QED BY <1>2, <1>4, <1>6, <1>7, <1>8, SharedStep

LEMMA SharedWrite ==
    ASSUME NEW B, NEW q, SharedInv(q, B), NEW c \in Context, NEW b \in B, client[c] = Rest,
           Nobody(b, "write"), Nobody(b, "read"), NEW m \in Data, NEW q2, q2 = Append(q, c), io' = io,
           client' = [client EXCEPT ![c] = CallOf("write", b, m, "wait", FALSE)],
           cache' = cache, disk' = disk, lost' = lost,
           latest' = [latest EXCEPT ![b] = m], writes' = m
    PROVE  SharedKept(q2, B)
<1>1. PICK r : r = CallOf("write", b, m, "wait", FALSE)
  OBVIOUS
<1>2. /\ CallsInv(B) /\ DroppedBy(client, cache, io) /\ SavedState(cache, disk, lost, B)
      /\ io \subseteq Context /\ lost = {}
  BY DEF SharedInv, QueueTyped, SavedState
<1>3. CallsKept(B) /\ Turned(c, r, B)
  BY <1>1, <1>2, SyncBegin
<1>4. r.op = "write" /\ r.pc = "wait" /\ r.done = FALSE /\ r.unit = <<>>
  BY <1>1 DEF CallOf
<1>5. QueueTyped(q2, io') /\ OthersWait(c, q, q2, io, io') /\ IsReady(c, q2) /\ c \notin io
  BY SharedEnqueue
<1>6. SharedCall(r, c, q2, io')
  BY <1>4, <1>5 DEF SharedCall
<1>7. DroppedBy(client', cache', io)
  BY <1>2, <1>3, <1>5, StillDropped
<1> QED BY <1>2, <1>3, <1>5, <1>6, <1>7, SharedStep

\* The state of a call of the shared accessor.
LEMMA SharedState ==
    ASSUME NEW B, NEW q, SharedInv(q, B), NEW c \in Context
    PROVE  /\ CallsInv(B) /\ SharedCall(client[c], c, q, io) /\ QueueTyped(q, io)
           /\ DroppedBy(client, cache, io) /\ SavedState(cache, disk, lost, B)
           /\ client[c] \in Calls(B) /\ client[c].unit = <<>>
           /\ client[c].pc # "idle" => client[c].op # "none"
           /\ client[c].op \in {"none", "read", "write"}
           /\ client[c].op # "none" => client[c].block \in B
<1>1. /\ CallsInv(B) /\ SharedCall(client[c], c, q, io) /\ QueueTyped(q, io)
      /\ DroppedBy(client, cache, io) /\ SavedState(cache, disk, lost, B)
  BY DEF SharedInv, SharedCalls
<1> QED BY <1>1, CallFields DEF CallsInv, SharedCall

LEMMA SharedReturns ==
    ASSUME NEW B, NEW q, SharedInv(q, B), NEW c \in Context, client[c].pc = "return", io' = io,
           client' = [client EXCEPT ![c] = Rest],
           cache' = cache, disk' = disk, latest' = latest, lost' = lost, writes' = writes
    PROVE  SharedKept(q, B)
<1>1. /\ CallsInv(B) /\ SharedCall(client[c], c, q, io) /\ QueueTyped(q, io')
      /\ DroppedBy(client, cache, io) /\ SavedState(cache', disk', lost', B) /\ client[c].op # "none"
  BY SharedState
<1>2. client[c].done /\ ~IsReady(c, q) /\ c \notin io
  BY <1>1 DEF SharedCall
<1>3. CallsKept(B) /\ Turned(c, Rest, B)
  BY <1>1, <1>2, SyncReturns
<1>4. Rest.op = "none" /\ Rest.pc = "idle" /\ Rest.unit = <<>>
  BY RestOK
<1>5. SharedCall(Rest, c, q, io')
  BY <1>2, <1>4 DEF SharedCall
<1>6. DroppedBy(client', cache', io')
  BY <1>1, <1>2, <1>3, StillDropped DEF QueueTyped
<1>7. OthersWait(c, q, q, io, io')
  BY DEF OthersWait
<1> QED BY <1>1, <1>3, <1>5, <1>6, <1>7, SharedStep

\* What is known of the caller whose request is taken.
Dequeued(c, q, q2) ==
    /\ c \in Context /\ client[c].pc = "wait" /\ client[c].op # "none" /\ ~client[c].done
    /\ c \notin io /\ q2 \in Seq(Context) /\ Distinct(q2) /\ ~IsReady(c, q2)
    /\ \A d : d # c => (IsReady(d, q2) <=> IsReady(d, q))

\* A request is taken from the queue.
LEMMA SharedDequeue ==
    ASSUME NEW B, NEW q, SharedInv(q, B), q # <<>>, NEW c, c = Head(q), NEW q2, q2 = Tail(q)
    PROVE  Dequeued(c, q, q2)
<1>1. /\ q2 \in Seq(Context) /\ Distinct(q2) /\ c \in Context /\ IsReady(c, q)
      /\ \A x : IsReady(x, q2) <=> IsReady(x, q) /\ x # c
  BY Left DEF SharedInv, QueueTyped
<1>2. SharedCall(client[c], c, q, io)
  BY <1>1 DEF SharedInv, SharedCalls
<1>3. client[c].pc = "wait" /\ ~client[c].done /\ c \notin io
  BY <1>1, <1>2 DEF SharedCall
<1>4. client[c].pc # "idle"
  BY <1>3
<1>5. client[c].op # "none"
  BY <1>1, <1>4, SharedState
<1> QED BY <1>1, <1>3, <1>5 DEF Dequeued

\* The request of a read is answered from the cache.
LEMMA SharedHit ==
    ASSUME NEW B, NEW q, SharedInv(q, B), q # <<>>, NEW c, c = Head(q), NEW q2, q2 = Tail(q),
           NEW b, b = client[c].block, client[c].op = "read", is_cached(cache, b),
           cache' = Touch(cache, get(cache, b)), io' = io,
           client' = [client EXCEPT ![c] = [client[c] EXCEPT !.buffer = get(cache, b).data,
                                                             !.done = TRUE, !.pc = "return"]],
           disk' = disk, latest' = latest, lost' = lost, writes' = writes
    PROVE  SharedKept(q2, B)
<1>0. Dequeued(c, q, q2)
  BY SharedDequeue
<1>1. /\ c \in Context /\ client[c].pc = "wait" /\ client[c].op # "none" /\ ~client[c].done
      /\ c \notin io /\ q2 \in Seq(Context) /\ Distinct(q2) /\ ~IsReady(c, q2)
      /\ \A d : d # c => (IsReady(d, q2) <=> IsReady(d, q))
  BY <1>0 DEF Dequeued
<1>2. /\ CallsInv(B) /\ QueueTyped(q, io)
      /\ DroppedBy(client, cache, io) /\ SavedState(cache, disk, lost, B)
      /\ client[c] \in Calls(B) /\ client[c].unit = <<>>
  BY <1>1, SharedState
<1>3. PICK x, r : /\ x = get(cache, b).data
                  /\ r = [client[c] EXCEPT !.buffer = x, !.done = TRUE, !.pc = "return"]
  OBVIOUS
<1>4. CacheOK(cache, B)
  BY <1>2, StorageParts DEF CallsInv
<1>5. x \in Data
  BY <1>3, <1>4, UnitOf DEF CacheUnit
<1>6. /\ r \in Calls(B) /\ r.op = client[c].op /\ r.block = client[c].block /\ r.buffer = x
      /\ r.done = TRUE /\ r.pc = "return" /\ r.unit = <<>>
  BY <1>2, <1>3, <1>5 DEF Calls, Stops
<1>7. Goes(c, r, x, TRUE, B)
  BY <1>1, <1>3, <1>6 DEF Goes
<1>8. CallsKept(B) /\ Turned(c, r, B)
  BY <1>1, <1>2, <1>3, <1>7, SyncRead
<1>9. /\ SavedState(cache', disk', lost', B) /\ \A y : is_cached(cache', y) => is_cached(cache, y)
  BY <1>2, SavedTouch
<1>10. QueueTyped(q2, io') /\ OthersWait(c, q, q2, io, io') /\ io \subseteq Context
  BY <1>1, <1>2 DEF QueueTyped, OthersWait
<1>11. SharedCall(r, c, q2, io')
  BY <1>1, <1>6 DEF SharedCall
<1>12. DroppedBy(client', cache', io)
  BY <1>1, <1>2, <1>8, <1>9, <1>10, StillDropped
<1> QED BY <1>1, <1>8, <1>9, <1>10, <1>11, <1>12, SharedStep

\* Another request is submitted.
LEMMA SharedSubmit ==
    ASSUME NEW B, NEW q, SharedInv(q, B), q # <<>>, NEW c, c = Head(q), NEW q2, q2 = Tail(q),
           NEW b, b = client[c].block,
           cache' = IF client[c].op = "write" THEN invalidate(cache, b) ELSE cache,
           io' = io \cup {c}, client' = client,
           disk' = disk, latest' = latest, lost' = lost, writes' = writes
    PROVE  SharedKept(q2, B)
<1>0. Dequeued(c, q, q2)
  BY SharedDequeue
<1>1. /\ c \in Context /\ client[c].pc = "wait" /\ client[c].op # "none" /\ ~client[c].done
      /\ c \notin io /\ q2 \in Seq(Context) /\ Distinct(q2) /\ ~IsReady(c, q2)
      /\ \A d : d # c => (IsReady(d, q2) <=> IsReady(d, q))
  BY <1>0 DEF Dequeued
<1>2. /\ CallsInv(B) /\ SharedCall(client[c], c, q, io) /\ QueueTyped(q, io)
      /\ DroppedBy(client, cache, io) /\ SavedState(cache, disk, lost, B) /\ b \in B
      /\ Saved(cache, disk, B)
  BY <1>1, SharedState DEF SavedState
<1>3. cache' = cache \/ (cache' = invalidate(cache, b) /\ Saved(cache, disk, B))
  BY <1>2
<1>4. Storage(cache, capacity, disk, SeenCalls(client), latest, lost, writes, B)
  BY <1>2 DEF CallsInv
<1>5. Keeps(cache, capacity, disk, SeenCalls(client), latest, lost,
            cache', disk, SeenCalls(client), latest, lost, writes, B)
  BY <1>2, <1>3, <1>4, DropKeeps
<1>6. CallsKept(B)
  BY <1>2, <1>5 DEF CallsKept, CallsInv
<1>7. /\ SavedState(cache', disk', lost', B) /\ \A y : is_cached(cache', y) => is_cached(cache, y)
      /\ client[c].op = "write" => ~is_cached(cache', b)
  <2>1. CASE client[c].op = "write"
    BY <1>2, <2>1, SavedDrop
  <2>2. CASE client[c].op # "write"
    BY <1>2, <2>2
  <2> QED BY <2>1, <2>2
<1>8. DroppedBy(client', cache', io')
  BY <1>2, <1>7 DEF DroppedBy
<1>9. QueueTyped(q2, io') /\ OthersWait(c, q, q2, io, io')
  BY <1>1, <1>2 DEF QueueTyped, OthersWait
<1>10. SharedCall(client[c], c, q2, io')
  BY <1>1, <1>2 DEF SharedCall
<1>11. Turned(c, client[c], B)
  <2>1. CallOK(client[c], B) /\ client \in [Context -> Calls(B)]
    BY <1>1, <1>2 DEF CallsInv, CallsTyped
  <2>2. client' = [client EXCEPT ![c] = client[c]]
    BY <1>1, <2>1
  <2> QED BY <1>1, <1>2, <2>1, <2>2, CallTurned DEF CallsInv, Turns
<1> QED BY <1>1, <1>6, <1>7, <1>8, <1>9, <1>10, <1>11, SharedStep

\* The command is carried out.
LEMMA SharedDevice ==
    ASSUME NEW B, NEW q, SharedInv(q, B), NEW c \in Context, c \in io, ~client[c].done,
           NEW b, b = client[c].block,
           \/ /\ client[c].op = "read" /\ disk' = disk
              /\ client' = [client EXCEPT ![c] = [client[c] EXCEPT !.done = TRUE, !.buffer = disk[b]]]
           \/ /\ client[c].op # "read" /\ disk' = [disk EXCEPT ![b] = client[c].buffer]
              /\ client' = [client EXCEPT ![c] = [client[c] EXCEPT !.done = TRUE]],
           cache' = cache, io' = io, latest' = latest, lost' = lost, writes' = writes
    PROVE  SharedKept(q, B)
<1>1. /\ CallsInv(B) /\ SharedCall(client[c], c, q, io) /\ QueueTyped(q, io')
      /\ DroppedBy(client, cache, io) /\ SavedState(cache, disk, lost, B)
      /\ client[c] \in Calls(B) /\ client[c].unit = <<>>
  BY SharedState
<1>2. client[c].pc = "wait" /\ ~IsReady(c, q)
  BY <1>1 DEF SharedCall
<1>3. client[c].pc # "idle"
  BY <1>2
<1>4. client[c].op \in {"none", "read", "write"} /\ client[c].op # "none" /\ b \in B
  BY <1>1, <1>3, CallFields DEF CallsInv
<1>5. OthersWait(c, q, q, io, io') /\ io \subseteq Context
  BY <1>1 DEF OthersWait, QueueTyped
<1>6. ASSUME NEW r, CallsKept(B), Turned(c, r, B), r.pc = "wait", r.done = TRUE, r.unit = <<>>,
             SavedState(cache', disk', lost', B)
      PROVE  SharedKept(q, B)
  <2>1. SharedCall(r, c, q, io')
    BY <1>2, <1>6 DEF SharedCall
  <2>2. DroppedBy(client', cache', io')
    BY <1>1, <1>5, <1>6, StillDropped
  <2> QED BY <1>1, <1>5, <1>6, <2>1, <2>2, SharedStep
<1>7. CASE client[c].op = "read"
  <2>1. PICK x, r : x = disk[b] /\ r = [client[c] EXCEPT !.done = TRUE, !.buffer = x]
    OBVIOUS
  <2>2. client' = [client EXCEPT ![c] = r] /\ disk' = disk
    BY <1>7, <2>1
  <2>3. disk \in [B -> Data]
    BY <1>1, StorageParts DEF CallsInv
  <2>4. x \in Data
    BY <1>4, <2>1, <2>3
  <2>5. /\ r \in Calls(B) /\ r.op = client[c].op /\ r.block = client[c].block /\ r.buffer = x
        /\ r.done = TRUE /\ r.pc = "wait" /\ r.unit = <<>>
    BY <1>1, <1>2, <2>1, <2>4 DEF Calls
  <2>6. Goes(c, r, x, TRUE, B)
    BY <1>4, <2>2, <2>5 DEF Goes
  <2>7. CallsKept(B) /\ Turned(c, r, B)
    BY <1>1, <1>7, <2>1, <2>2, <2>6, SyncRead
  <2>8. SavedState(cache', disk', lost', B)
    BY <1>1, <2>2
  <2> QED BY <1>6, <2>5, <2>7, <2>8
<1>8. CASE client[c].op # "read"
  <2>1. PICK x, r : x = client[c].buffer /\ r = [client[c] EXCEPT !.done = TRUE]
    OBVIOUS
  <2>2. client' = [client EXCEPT ![c] = r] /\ disk' = [disk EXCEPT ![b] = x] /\ client[c].op = "write"
    BY <1>4, <1>8, <2>1
  <2>3. ~is_cached(cache, b)
    BY <1>1, <2>2 DEF DroppedBy
  <2>4. /\ r \in Calls(B) /\ r.op = client[c].op /\ r.block = client[c].block /\ r.buffer = x
        /\ r.done = TRUE /\ r.pc = "wait" /\ r.unit = <<>>
    BY <1>1, <1>2, <2>1 DEF Calls
  <2>5. Goes(c, r, x, TRUE, B)
    BY <1>4, <2>2, <2>4 DEF Goes
  <2>6. CallsKept(B) /\ Turned(c, r, B)
    BY <1>1, <2>1, <2>2, <2>3, <2>5, SyncWritten
  <2>7. SavedState(cache', disk', lost', B)
    BY <1>1, <2>2, <2>3, SavedWritten
  <2> QED BY <1>6, <2>4, <2>6, <2>7
<1> QED BY <1>7, <1>8

\* callback_function.
LEMMA SharedCallback ==
    ASSUME CachesFit, NEW B, IsFiniteSet(B), NEW q, SharedInv(q, B), NEW c \in Context, c \in io,
           client[c].done,
           cache' = write(cache, client[c].block, client[c].buffer, FALSE, capacity),
           io' = io \ {c}, client' = [client EXCEPT ![c] = [client[c] EXCEPT !.pc = "return"]],
           disk' = disk, latest' = latest, lost' = lost, writes' = writes
    PROVE  SharedKept(q, B)
<1>1. /\ CallsInv(B) /\ SharedCall(client[c], c, q, io) /\ QueueTyped(q, io)
      /\ DroppedBy(client, cache, io) /\ SavedState(cache, disk, lost, B)
      /\ client[c] \in Calls(B) /\ client[c].unit = <<>>
  BY SharedState
<1>2. client[c].pc = "wait" /\ ~IsReady(c, q)
  BY <1>1 DEF SharedCall
<1>3. client[c].pc # "idle"
  BY <1>2
<1>4. client[c].op # "none"
  BY <1>1, <1>3, CallFields DEF CallsInv
<1>5. PICK r : r = [client[c] EXCEPT !.pc = "return"]
  OBVIOUS
<1>6. /\ r \in Calls(B) /\ r.op = client[c].op /\ r.block = client[c].block
      /\ r.buffer = client[c].buffer /\ r.done = client[c].done /\ r.pc = "return" /\ r.unit = <<>>
  BY <1>1, <1>5 DEF Calls, Stops
<1>7. Goes(c, r, client[c].buffer, client[c].done, B)
  BY <1>4, <1>5, <1>6 DEF Goes
<1>8. PICK b : b = client[c].block
  OBVIOUS
<1>9. /\ CallsKept(B) /\ Turned(c, r, B) /\ SavedState(cache', disk', lost', B)
      /\ \A y : is_cached(cache', y) => y = b \/ is_cached(cache, y)
  <2>1. FillsSaved(c, b, client[c].buffer, r, B)
    BY <1>4, <1>7, <1>8 DEF FillsSaved
  <2>2. FilledSaved(c, b, r, B)
    BY <1>1, <2>1, SavedFill
  <2> QED BY <2>2 DEF FilledSaved
<1>10. io \subseteq Context /\ QueueTyped(q, io') /\ OthersWait(c, q, q, io, io') /\ c \notin io'
  BY <1>1 DEF QueueTyped, OthersWait
<1>11. DroppedBy(client', cache', io)
  BY <1>1, <1>4, <1>6, <1>8, <1>9, <1>10, FillDropped
<1>12. DroppedBy(client', cache', io')
  BY <1>11 DEF DroppedBy
<1>13. SharedCall(r, c, q, io')
  BY <1>2, <1>6, <1>10 DEF SharedCall
<1> QED BY <1>9, <1>10, <1>12, <1>13, SharedStep

-----------------------------------------------------------------------------
(* The initial storage *)

\* The storage of an accessor that was opened.
LEMMA FirstStorage ==
    ASSUME NEW B, NEW k \in Nat \ {0}, NEW zero, zero = [b \in B |-> 0],
           NEW cmd, cmd = [c \in Context |-> [op |-> "none"]],
           NEW C, C = <<>>, NEW ls, ls = {}, NEW n, n = 0
    PROVE  Storage(C, k, zero, cmd, zero, ls, n, B) /\ Clean(C) /\ (\A x : ~is_cached(C, x)) /\ 0 \in Data
<1>1. 0 \in Data
  BY SMTT(30), BoundsAssumption DEF Data
<1>2. C \in Seq(CacheUnit(B, Data)) /\ Len(C) = 0 /\ DOMAIN C = {}
  BY SMTT(30)
<1>3. CacheOK(C, B) /\ Len(C) <= k
  BY SMTT(30), <1>2 DEF CacheOK
<1>4. Clean(C) /\ \A x : ~is_cached(C, x)
  BY <1>2 DEF Clean, is_cached
<1>5. zero \in [B -> Data] /\ \A b \in B : zero[b] = 0
  BY <1>1
<1>6. View(C, zero, B) = zero
  BY <1>4, <1>5 DEF View
<1>7. \A c \in Context : cmd[c] = [op |-> "none"] /\ cmd[c].op = "none"
  OBVIOUS
<1>8. MemTyped(cmd, zero, zero, zero, ls, B)
  BY <1>5 DEF MemTyped
<1>9. Apart(cmd) /\ Fresh(cmd, zero, zero, ls, B)
  BY SMTT(30), <1>7 DEF Apart, Fresh
<1>10. \A c \in Context : CommandOK(cmd[c], zero, zero, ls)
  BY SMTT(30), <1>7 DEF CommandOK
<1>11. Memory(cmd, View(C, zero, B), zero, zero, ls, B)
  BY <1>6, <1>8, <1>9, <1>10 DEF Memory
<1> QED BY <1>1, <1>3, <1>4, <1>11 DEF Storage

=============================================================================
