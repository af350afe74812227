--------------------------- MODULE FileBlkAccessor --------------------------
(***************************************************************************)
(* read() and write() of the file accessor (blk/file_blk_accessor.h) under *)
(* several threads.  The lock of the cache is not held during pread() and  *)
(* pwrite().                                                               *)
(***************************************************************************)
EXTENDS SyncClients

VARIABLE lost   \* history: the blocks whose last content went astray when a unit
                \* was evicted, and which were not written since

vars == <<cache, capacity, disk, client, writes, latest, lost>>

Init == InitClients /\ lost = {}

\* The evicted units that wait for their pwrite().
InFlight == {client[t].unit[1] : t \in {t \in Thread : client[t].unit # <<>>}}

\* How content goes astray.  A unit is evicted and not written, although the file
\* has other content;
Dropped(unit) == IF unit.data # disk[unit.id] THEN {unit.id} ELSE {}

\* the file is read before an evicted unit of the block is written;
Missed(b) == IF \E u \in InFlight : u.id = b /\ u.data # disk[b] THEN {b} ELSE {}

\* or the last content of the block is in the file, and an older unit, evicted
\* before, is written over it.
Overwritten(unit) ==
    IF disk[unit.id] = latest[unit.id] /\ unit.data # disk[unit.id] THEN {unit.id} ELSE {}

read(t, b) == (read_hit(t, b) \/ read_miss(t, b)) /\ UNCHANGED lost

pread(t) ==
    LET r == client[t] IN
    /\ r.pc = "read"
    /\ Update(t, [r EXCEPT !.buffer = disk[r.block], !.pc = "fill", !.done = TRUE])
    /\ lost' = lost \cup Missed(r.block)
    /\ UNCHANGED <<cache, capacity, disk>>

\* The rest of read(): the block goes into the cache, under the lock, and an
\* evicted unit has to be written, dirty or not.
fill(t) ==
    LET r       == client[t]
        evicted == Evicted(cache, r.block, capacity)
        unit    == evict_unit(cache)
    IN
    /\ r.pc = "fill"
    /\ cache' = write(cache, r.block, r.buffer, FALSE, capacity)
    /\ Update(t, IF evicted THEN [r EXCEPT !.pc = "pwrite", !.unit = <<unit>>]
                 ELSE [r EXCEPT !.pc = "return"])
    /\ UNCHANGED <<capacity, disk, lost>>

\* Mutant: an evicted unit is never written.
write_block_drops(t, b) ==
    LET evicted == Evicted(cache, b, capacity)
        unit    == evict_unit(cache)
    IN
    /\ BeginWrite(t, Call("write", b, NewData, "return", TRUE))
    /\ cache' = write(cache, b, NewData, TRUE, capacity)
    /\ lost' = (lost \ {b}) \cup (IF evicted /\ ~unit.dirty THEN Dropped(unit) ELSE {})
    /\ UNCHANGED <<capacity, disk>>

\* write(): the block is written in the cache, under the lock, and an evicted
\* unit has to be written when it is dirty.
write_block(t, b) ==
    LET evicted == Evicted(cache, b, capacity)
        unit    == evict_unit(cache)
        r       == Call("write", b, NewData, "return", TRUE)
    IN
    /\ BeginWrite(t, IF evicted /\ unit.dirty
                     THEN [r EXCEPT !.pc = "pwrite", !.unit = <<unit>>] ELSE r)
    /\ cache' = write(cache, b, NewData, TRUE, capacity)
    /\ lost' = (lost \ {b}) \cup (IF evicted /\ ~unit.dirty THEN Dropped(unit) ELSE {})
    /\ UNCHANGED <<capacity, disk>>

\* pwrite() of the evicted unit.
pwrite(t) ==
    LET r    == client[t]
        unit == r.unit[1]
    IN
    /\ r.pc = "pwrite"
    /\ disk' = [disk EXCEPT ![unit.id] = unit.data]
    /\ Update(t, [r EXCEPT !.pc = "return", !.unit = <<>>])
    /\ lost' = lost \cup Overwritten(unit)
    /\ UNCHANGED <<cache, capacity>>

step(t) == pread(t) \/ fill(t) \/ pwrite(t) \/ (returns(t) /\ UNCHANGED lost)

Next ==
    \E t \in Thread :
        \/ step(t)
        \/ \E b \in Block : read(t, b) \/ write_block(t, b)

Spec == Init /\ [][Next]_vars

=============================================================================
