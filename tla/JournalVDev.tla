---------------------------- MODULE JournalVDev ----------------------------
(***************************************************************************)
(* The journal virtual device: lib/device/journal_vdev.cpp, the ChunkPool  *)
(* of device_manager.cpp, and the log stream reader with which LogDev      *)
(* loads its groups after a restart.                                       *)
(*                                                                         *)
(* A log device writes log groups at growing logical offsets.  The offsets *)
(* are laid over a list of chunks, linked on disk by next_chunk in the     *)
(* chunks' private data; a group never crosses a chunk, so a chunk may end *)
(* early (end_of_chunk).  Chunks come from and return to a shared pool     *)
(* without being erased.  Under its flush lock a log device does one write *)
(* or one truncation at a time.  Every write of private data, of a group   *)
(* and of the log device's superblock is a point at which it may crash.    *)
(*                                                                         *)
(* Sizes are in pages.  A group's crc is a stamp no other group has.       *)
(***************************************************************************)
EXTENDS Integers, Sequences, SequencesExt, FiniteSets, FiniteSetsExt

CONSTANTS LogDevs,    \* log devices that share the journal device
          NumChunks,  \* bound: chunks that fit on the device
          ChunkSize,  \* m_vdev_info.chunk_size
          PoolCap,    \* generic.journal_chunk_pool_capacity
          MaxWrites,  \* bound: groups written in a behaviour
          MaxTime,    \* bound: the clock stands still from then on
          NoLogDev, None, Destroying

ASSUME JournalAssumption ==
    /\ {NumChunks, ChunkSize, PoolCap, MaxWrites, MaxTime} \subseteq Nat
    /\ ChunkSize > 1 /\ MaxTime > 0 /\ NoLogDev \notin LogDevs

Chunks == 1..NumChunks   \* 0 is "no chunk" in next_chunk
NoChunk == 0

VARIABLES
    priv,    \* JournalChunkPrivate of a chunk, as persisted
    owned,   \* VirtualDev::m_all_chunks
    pool,    \* ChunkPool::m_pool
    clock,   \* get_time_since_epoch_ms
    page,    \* what is on the pages of a chunk
    desc,    \* Descriptor: m_journal_chunks, start, written and end offset
    wr, tr,  \* the group being written, the truncation under way
    log,     \* groups the log device knows
    idx,     \* LogDev::m_log_idx
    crc,     \* LogDev::m_last_crc
    meta,    \* start offset and index in the LogDev superblock
    cur,     \* do_load's position, None when it is done
    phase,   \* running, down, loading, or stopped by an assertion
    stamps,  \* stamps used so far
    acked,   \* ghost: completed and not truncated groups
    torn     \* ghost: a crash cut off a change of the chunk list, see Crash

devVars == <<priv, owned, page, meta>>
memVars == <<desc, wr, tr, log, idx, crc, cur>>
vars == <<priv, owned, pool, clock, page, desc, wr, tr, log, idx, crc, meta,
          cur, phase, stamps, acked, torn>>

RoundDown(o) == o - (o % ChunkSize)
RoundUp(o) == RoundDown(o + ChunkSize - 1)

Cleared == [ld |-> NoLogDev, head |-> FALSE, at |-> 0, eoc |-> 0,
            next |-> NoChunk]
Fresh(t) == [Cleared EXCEPT !.at = t, !.eoc = ChunkSize]

Times == {t \in {clock, clock + 1} : t <= MaxTime}

NoDesc == [chunks |-> <<>>, start |-> 0, size |-> 0, end |-> 0]

Init ==
    /\ priv = [c \in Chunks |-> Cleared]
    /\ owned = {} /\ pool = <<>> /\ clock = 1
    /\ page = [c \in Chunks |-> [i \in 0..(ChunkSize - 1) |-> None]]
    /\ desc = [l \in LogDevs |-> NoDesc]
    /\ wr = [l \in LogDevs |-> None] /\ tr = [l \in LogDevs |-> None]
    /\ log = [l \in LogDevs |-> {}]
    /\ idx = [l \in LogDevs |-> 0] /\ crc = [l \in LogDevs |-> 0]
    /\ meta = [l \in LogDevs |-> [off |-> 0, idx |-> 0]]
    /\ cur = [l \in LogDevs |-> None]
    /\ phase = "run" /\ stamps = 0
    /\ acked = [l \in LogDevs |-> {}]
    /\ torn = FALSE

----------------------------------------------------------------------------
(* Addresses *)

(* Descriptor::offset_to_chunk: position in the list and page in the chunk. *)
ChunkNo(d, o) == (o - RoundDown(d.start)) \div ChunkSize + 1
ChunkAt(d, o) == d.chunks[ChunkNo(d, o)]
PageAt(d, o) == page[ChunkAt(d, o)][o % ChunkSize]

(* Descriptor::tail_offset *)
TailOf(d) == d.start + d.size

(* Descriptor::update_data_start_offset *)
WithStart(d, o) ==
    IF d.chunks = <<>> THEN [d EXCEPT !.start = RoundUp(o), !.end = RoundUp(o)]
    ELSE [d EXCEPT !.start = o,
                   !.end = RoundDown(o) + Len(d.chunks) * ChunkSize]

(* Descriptor::dev_offset, one group further: the end of a chunk's data is  *)
(* the start of the next chunk.                                             *)
After(d, o) ==
    IF o % ChunkSize = 0 \/ o % ChunkSize >= priv[ChunkAt(d, o - 1)].eoc
    THEN RoundUp(o) ELSE o

----------------------------------------------------------------------------
(* The pool's producer thread keeps it half full; create_chunk takes the    *)
(* lowest free chunk id.                                                    *)
Produce ==
    /\ phase = "run" /\ Len(pool) < PoolCap \div 2
    /\ owned # Chunks
    /\ \E c \in {Min(Chunks \ owned)}, t \in Times :
        /\ priv' = [priv EXCEPT ![c] = Fresh(t)]
        /\ owned' = owned \cup {c}
        /\ pool' = Append(pool, c)
        /\ clock' = t
    /\ UNCHANGED <<page, memVars, meta, phase, stamps, acked, torn>>

(* The flush lock is free. *)
Idle(l) == phase = "run" /\ meta[l] # None /\ wr[l] = None /\ tr[l] = None

(* Mutants: the unused end of a chunk is not counted, or not recorded.      *)
NoHole(o) == 0
EndUnchanged(o, eoc) == eoc

NeedsChunk(d, n) == TailOf(d) + n >= d.end
Hole(o) == IF o % ChunkSize = 0 THEN 0 ELSE ChunkSize - (o % ChunkSize)
EndOfChunk(o, eoc) == IF o % ChunkSize = 0 THEN eoc ELSE o % ChunkSize

(* append_chunk: the most recent chunk of the pool becomes the last one. *)
AppendChunk(l, d, c) ==
    /\ pool # <<>> /\ c = Last(pool)
    /\ pool' = Front(pool)
    /\ IF d.chunks = <<>>
       THEN priv' = [priv EXCEPT ![c].head = TRUE, ![c].ld = l,
                                 ![c].eoc = ChunkSize]
       ELSE priv' = [priv EXCEPT ![Last(d.chunks)].next = c,
                                 ![Last(d.chunks)].eoc =
                                     EndOfChunk(TailOf(d), @)]

(* alloc_next_append_blk for a group of n pages; dequeue waits for a chunk. *)
FlushAlloc(l, n) ==
    LET d == desc[l] IN
    /\ Idle(l) /\ stamps < MaxWrites
    /\ \/ /\ ~NeedsChunk(d, n)
          /\ wr' = [wr EXCEPT ![l] = [off |-> TailOf(d), len |-> n]]
          /\ UNCHANGED <<priv, pool, desc>>
       \/ /\ NeedsChunk(d, n)
          /\ \E c \in Chunks :
              /\ AppendChunk(l, d, c)
              /\ desc' = [desc EXCEPT
                    ![l].chunks = Append(@, c),
                    ![l].end = @ + ChunkSize,
                    ![l].size = IF d.chunks = <<>> THEN @
                                ELSE @ + Hole(TailOf(d))]
          /\ wr' = [wr EXCEPT ![l] = [off |-> TailOf(desc'[l]), len |-> n]]
    /\ UNCHANGED <<owned, clock, page, tr, log, idx, crc, meta, cur, phase,
                   stamps, acked, torn>>

(* The chunk's pages once those of the group numbered in ks are written. *)
Group(l) == [ld |-> l, idx |-> idx[l], len |-> wr[l].len, crc |-> stamps + 1,
             prev |-> crc[l]]
Written(l, ks) ==
    LET base == wr[l].off % ChunkSize
    IN  [i \in 0..(ChunkSize - 1) |->
            IF i - base \in ks
            THEN [part |-> i - base] @@ Group(l)
            ELSE page[ChunkAt(desc[l], wr[l].off)][i]]

(* sync_pwritev and on_flush_completion *)
FlushWrite(l) ==
    LET e == [idx |-> idx[l], off |-> wr[l].off, crc |-> stamps + 1] IN
    /\ wr[l] # None
    /\ page' = [page EXCEPT ![ChunkAt(desc[l], wr[l].off)] =
                                Written(l, 0..(wr[l].len - 1))]
    /\ desc' = [desc EXCEPT ![l].size = @ + wr[l].len]
    /\ log' = [log EXCEPT ![l] = @ \cup {e}]
    /\ acked' = [acked EXCEPT ![l] = @ \cup {e}]
    /\ idx' = [idx EXCEPT ![l] = @ + 1]
    /\ crc' = [crc EXCEPT ![l] = stamps + 1]
    /\ stamps' = stamps + 1
    /\ wr' = [wr EXCEPT ![l] = None]
    /\ UNCHANGED <<priv, owned, pool, clock, tr, meta, cur, phase, torn>>

----------------------------------------------------------------------------
(* Mutant: the new head of the list is not marked. *)
NotMarked(p, l) == p
Marked(p, l) == [p EXCEPT !.head = TRUE, !.ld = l]

(* truncate's release loop: chunks the truncation offset lies past.  The    *)
(* last one is covered up to the tail only, the others up to their end.     *)
Covered(d, o) ==
    LET n == Len(d.chunks)
        base(i) == RoundDown(d.start) + (i - 1) * ChunkSize
    IN  {i \in 1..n : o >= base(i) + IF i = n THEN TailOf(d) % ChunkSize
                                     ELSE priv[d.chunks[i]].eoc}

(* LogDev::truncate up to the group e, first half of Descriptor::truncate:  *)
(* the chunk that will be first becomes a head of the list.                 *)
TruncateMark(l, e) ==
    LET d == desc[l]
        n == ChunkNo(d, e.off)
        past == e.off % ChunkSize >= priv[d.chunks[n]].eoc /\ n < Len(d.chunks)
        hd == d.chunks[IF past THEN n + 1 ELSE n]
    IN
    /\ Idle(l) /\ e \in log[l] /\ e.idx > meta[l].idx
    /\ priv' = [priv EXCEPT ![hd] = Marked(@, l)]
    /\ tr' = [tr EXCEPT ![l] =
                [off |-> IF past THEN RoundUp(e.off) ELSE e.off, at |-> e,
                 cut |-> e.off - d.start
                         + IF past THEN ChunkSize - priv[d.chunks[n]].eoc ELSE 0,
                 left |-> Cardinality(Covered(d, e.off)),
                 moves |-> hd # Head(d.chunks)]]
    /\ acked' = [acked EXCEPT ![l] = {g \in @ : g.idx >= e.idx}]
    /\ UNCHANGED <<owned, pool, clock, page, desc, wr, log, idx, crc, meta, cur,
                   phase, stamps, torn>>

(* release_chunk_to_pool: ChunkPool::enqueue stamps the chunk anew, or has  *)
(* it removed when the pool is full.                                        *)
Release(c) ==
    \/ /\ Len(pool) < PoolCap
       /\ \E t \in Times :
            /\ priv' = [priv EXCEPT ![c] = Fresh(t)]
            /\ clock' = t
       /\ pool' = Append(pool, c)
       /\ UNCHANGED owned
    \/ /\ Len(pool) >= PoolCap
       /\ priv' = [priv EXCEPT ![c] = Cleared]
       /\ owned' = owned \ {c}
       /\ UNCHANGED <<pool, clock>>

TruncateRelease(l) ==
    /\ tr[l] \notin {None, Destroying} /\ tr[l].left > 0
    /\ Release(Head(desc[l].chunks))
    /\ desc' = [desc EXCEPT ![l].chunks = Tail(@)]
    /\ tr' = [tr EXCEPT ![l].left = @ - 1]
    /\ UNCHANGED <<page, wr, log, idx, crc, meta, cur, phase, stamps, acked,
                   torn>>

(* The rest of Descriptor::truncate and of LogDev::truncate: the superblock *)
(* gets the new start.                                                      *)
TruncateDone(l) ==
    LET t == tr[l] IN
    /\ t \notin {None, Destroying} /\ t.left = 0
    /\ desc' = [desc EXCEPT ![l] =
                  [WithStart(@, t.off) EXCEPT !.size = @ - t.cut]]
    /\ meta' = [meta EXCEPT ![l] = [off |-> t.at.off, idx |-> t.at.idx]]
    /\ log' = [log EXCEPT ![l] = {g \in @ : g.idx >= t.at.idx}]
    /\ tr' = [tr EXCEPT ![l] = None]
    /\ UNCHANGED <<priv, owned, pool, clock, page, wr, idx, crc, cur, phase,
                   stamps, acked, torn>>

(* JournalVirtualDev::destroy when the log device is destroyed: its chunks  *)
(* go one by one, its superblock last.  A log device id is not used again.  *)
Destroy(l) ==
    /\ Idle(l)
    /\ tr' = [tr EXCEPT ![l] = Destroying]
    /\ acked' = [acked EXCEPT ![l] = {}]
    /\ UNCHANGED <<devVars, pool, clock, desc, wr, log, idx, crc, cur, phase,
                   stamps, torn>>

DestroyChunk(l) ==
    LET d == desc[l] IN
    /\ tr[l] = Destroying /\ d.chunks # <<>>
    /\ priv' = [priv EXCEPT ![Head(d.chunks)] = Cleared]
    /\ owned' = owned \ {Head(d.chunks)}
    /\ desc' = [desc EXCEPT ![l].chunks = Tail(@)]
    /\ UNCHANGED <<pool, clock, page, wr, tr, log, idx, crc, meta, cur, phase,
                   stamps, acked, torn>>

DestroyDone(l) ==
    /\ tr[l] = Destroying /\ desc[l].chunks = <<>>
    /\ meta' = [meta EXCEPT ![l] = None]
    /\ tr' = [tr EXCEPT ![l] = None]
    /\ desc' = [desc EXCEPT ![l] = NoDesc]
    /\ log' = [log EXCEPT ![l] = {}]
    /\ UNCHANGED <<priv, owned, pool, clock, page, wr, idx, crc, cur, phase,
                   stamps, acked, torn>>

----------------------------------------------------------------------------
(* JournalVirtualDev::init: of the heads of a log device the one created    *)
(* last, of those created in the same millisecond the lowest chunk.         *)
Heads(l) == {c \in owned : priv[c].head /\ priv[c].ld = l}
(* Mutant: any head will do. *)
LowestHead(l) == IF Heads(l) = {} THEN NoChunk ELSE Min(Heads(l))
HeadOf(l) ==
    LET last == {c \in Heads(l) : \A b \in Heads(l) : priv[b].at <= priv[c].at}
    IN  IF last = {} THEN NoChunk ELSE Min(last)

(* The chunks reached from c by next_chunk. *)
ListFrom(c) ==
    LET step[i \in 1..NumChunks] ==
            IF i = 1 THEN c
            ELSE IF step[i - 1] = NoChunk THEN NoChunk
            ELSE priv[step[i - 1]].next
    IN  SelectSeq([i \in 1..NumChunks |-> step[i]], LAMBDA x : x # NoChunk)

OnDisk(l) == ListFrom(HeadOf(l))

(* Mutant: only chunks that were in a list are cleaned up. *)
OrphanHeads == {c \in owned : priv[c].ld # NoLogDev} \ UNION {Range(OnDisk(l)) : l \in LogDevs}

Orphans == owned \ UNION {Range(OnDisk(l)) : l \in LogDevs}

(* The process stops at any point; of a group that was being written some   *)
(* pages are on the device.  It is torn if it cuts off a truncation that    *)
(* gave the list a new head and has not told the superblock, or a           *)
(* destruction.                                                             *)
Crash ==
    /\ phase \in {"run", "load"}
    /\ \E k \in [LogDevs -> SUBSET (0..(ChunkSize - 1))] :
        /\ \A l \in LogDevs :
             IF wr[l] = None THEN k[l] = {}
             ELSE k[l] \in {0..(n - 1) : n \in 0..wr[l].len}
        /\ page' = [c \in Chunks |->
             LET w == {l \in LogDevs : wr[l] # None
                                        /\ c = ChunkAt(desc[l], wr[l].off)}
             IN  IF w = {} THEN page[c]
                 ELSE LET l == CHOOSE l \in w : TRUE IN Written(l, k[l])]
    /\ stamps' = stamps + IF \E l \in LogDevs : wr[l] # None THEN 1 ELSE 0
    /\ torn' = (torn \/ \E l \in LogDevs :
                           /\ tr[l] # None
                           /\ tr[l] = Destroying \/ tr[l].moves)
    /\ phase' = "down" /\ pool' = <<>>
    /\ desc' = [l \in LogDevs |-> NoDesc]
    /\ wr' = [l \in LogDevs |-> None] /\ tr' = [l \in LogDevs |-> None]
    /\ log' = [l \in LogDevs |-> {}]
    /\ idx' = [l \in LogDevs |-> 0] /\ crc' = [l \in LogDevs |-> 0]
    /\ cur' = [l \in LogDevs |-> None]
    /\ UNCHANGED <<priv, owned, clock, meta, acked>>

RemoveOrphan(c) ==
    /\ phase = "down" /\ c \in Orphans
    /\ priv' = [priv EXCEPT ![c] = Cleared]
    /\ owned' = owned \ {c}
    /\ UNCHANGED <<pool, clock, page, memVars, meta, phase, stamps, acked, torn>>

(* The lists are read and LogDev::start puts the cursor at the start. *)
Open ==
    LET live == {l \in LogDevs : meta[l] # None} IN
    /\ phase = "down" /\ Orphans = {}
    /\ desc' = [l \in LogDevs |->
                  IF l \in live
                  THEN WithStart([NoDesc EXCEPT !.chunks = OnDisk(l)], meta[l].off)
                  ELSE NoDesc]
    /\ idx' = [l \in LogDevs |-> IF l \in live THEN meta[l].idx ELSE 0]
    /\ cur' = [l \in LogDevs |-> IF l \in live
                                THEN [off |-> desc'[l].start, crc |-> 0]
                                ELSE None]
    /\ phase' = IF live = {} THEN "run" ELSE "load"
    /\ UNCHANGED <<devVars, pool, clock, wr, tr, log, crc, stamps, acked, torn>>

(* log_stream_reader::next_group at the current position of log device l. *)
AtEnd(l) == desc[l].chunks = <<>> \/ cur[l].off >= desc[l].end
Here(l) == PageAt(desc[l], cur[l].off)
NotHeader(l) == \/ Here(l) = None
                \/ Here(l).part # 0
                \/ Here(l).ld # l
NoFooter(l) ==
    LET f == PageAt(desc[l], cur[l].off + Here(l).len - 1)
    IN  f = None \/ f.part # f.len - 1 \/ f.idx # Here(l).idx
BadCrc(l) == \E i \in 0..(Here(l).len - 1) :
    LET f == PageAt(desc[l], cur[l].off + i)
    IN  f = None \/ f.crc # Here(l).crc \/ f.ld # l
AtLastChunk(l) == ChunkNo(desc[l], cur[l].off) = Len(desc[l].chunks)

(* Mutant: a group is taken whatever group it was written after. *)
AnyChain(l) == FALSE
OtherChain(l) == cur[l].crc # 0 /\ Here(l).prev # cur[l].crc

(* do_load stops at a first group of an earlier life of the chunk. *)
Outdated(l) == log[l] = {} /\ Here(l).idx < idx[l]

(* What next_group and do_load make of the current position. *)
Found(l) ==
    IF AtEnd(l) \/ NotHeader(l) THEN "end"
    ELSE IF OtherChain(l) \/ NoFooter(l)
         THEN IF AtLastChunk(l) THEN "end" ELSE "data is corrupted"
    ELSE IF BadCrc(l) THEN "data is corrupted"
    ELSE IF Outdated(l) THEN "end"
    ELSE IF Here(l).idx # idx[l] THEN "log indx is not the expected one"
    ELSE "group"

Loading(l) == phase = "load" /\ cur[l] # None

LoadGroup(l) ==
    LET g == Here(l)
        o == cur[l].off
    IN
    /\ Loading(l) /\ Found(l) = "group"
    /\ log' = [log EXCEPT ![l] = @ \cup {[idx |-> g.idx, off |-> o, crc |-> g.crc]}]
    /\ idx' = [idx EXCEPT ![l] = @ + 1]
    /\ crc' = [crc EXCEPT ![l] = g.crc]
    /\ cur' = [cur EXCEPT ![l] = [off |-> After(desc[l], o + g.len),
                                 crc |-> g.crc]]
    /\ UNCHANGED <<devVars, pool, clock, desc, wr, tr, phase, stamps, acked, torn>>

LoadDone(l) ==
    /\ Loading(l) /\ Found(l) = "end"
    /\ desc' = [desc EXCEPT ![l].size = cur[l].off - desc[l].start]
    /\ cur' = [cur EXCEPT ![l] = None]
    /\ phase' = IF \A m \in LogDevs \ {l} : cur[m] = None THEN "run" ELSE phase
    /\ acked' = [acked EXCEPT ![l] = @ \cup log[l]]
    /\ UNCHANGED <<devVars, pool, clock, wr, tr, log, idx, crc, stamps, torn>>

(* An assertion of the reader, or of do_load on the index, stops the boot. *)
LoadFails(l) ==
    /\ Loading(l) /\ Found(l) \notin {"group", "end"}
    /\ phase' = Found(l)
    /\ UNCHANGED <<devVars, pool, clock, memVars, stamps, acked, torn>>

Next ==
    \/ Produce \/ Crash \/ Open
    \/ \E c \in Chunks : RemoveOrphan(c)
    \/ \E l \in LogDevs :
        \/ \E n \in 1..(ChunkSize - 1) : FlushAlloc(l, n)
        \/ FlushWrite(l)
        \/ \E e \in log[l] : TruncateMark(l, e)
        \/ TruncateRelease(l) \/ TruncateDone(l)
        \/ Destroy(l) \/ DestroyChunk(l) \/ DestroyDone(l)
        \/ LoadGroup(l) \/ LoadDone(l) \/ LoadFails(l)

Spec == Init /\ [][Next]_vars

----------------------------------------------------------------------------
(* A chunk has one user: it waits in the pool or lies once in the list of   *)
(* one log device.  Chunks move between both by append_chunk and truncate.  *)
OneUserPerChunk ==
    LET uses(c) ==
            Cardinality({i \in DOMAIN pool : pool[i] = c})
            + FoldSet(LAMBDA l, n : n + Cardinality({i \in DOMAIN desc[l].chunks :
                                                     desc[l].chunks[i] = c}),
                      0, LogDevs)
    IN  phase = "run" => \A c \in Chunks : uses(c) = IF c \in owned THEN 1 ELSE 0

(* Whatever flushes, holes and truncations moved the window, the page at a  *)
(* group's offset is the group's own first page: LogDev::read finds what    *)
(* was acknowledged (it waits for a truncation, which holds the flush       *)
(* lock), and a reused chunk never held a live group.                       *)
LiveGroupsReadable ==
    phase = "run" /\ ~torn => \A l \in LogDevs : \A g \in acked[l] :
        tr[l] = None =>
        /\ g.off >= desc[l].start /\ g.off < TailOf(desc[l])
        /\ LET p == PageAt(desc[l], g.off)
           IN  p # None /\ p.ld = l /\ p.crc = g.crc /\ p.part = 0

(* Acknowledged groups that were not truncated are found again after any    *)
(* crash, unless one cut off a truncation that moves the list's head, or a  *)
(* destruction.                                                             *)
AckedRecovered ==
    phase = "run" /\ ~torn => \A l \in LogDevs : acked[l] \subseteq log[l]

(* The release assertions on the journal's window (tail_offset, "No space   *)
(* for append blk", update_data_start_offset, truncate) hold, and after a   *)
(* crash do_load finds the group index the superblock leads it to expect,   *)
(* unless one cut off a change of the chunk list.                           *)
AssertionsHold ==
    /\ phase = "run" => \A l \in LogDevs :
        LET d == desc[l] IN
        /\ TailOf(d) <= d.end
        /\ wr[l] # None => wr[l].off + wr[l].len < d.end
        /\ tr[l] = None => d.end - RoundDown(d.start) = Len(d.chunks) * ChunkSize
        /\ tr[l] \notin {None, Destroying} => tr[l].off <= d.end
    /\ ~torn => phase # "log indx is not the expected one"
=============================================================================
