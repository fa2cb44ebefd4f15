------------------------------- MODULE BlkData -------------------------------
(***************************************************************************)
(* The block data service over a persistent bitmap allocator: allocation    *)
(* and commit of blocks, reads and the read tracker, frees that wait for    *)
(* the reads and then for the checkpoint, and the flush of the bitmap.      *)
(* A block is one allocation unit; a MultiBlkId is a set of them.  No       *)
(* virtual device of the library asks for slabs, so the allocator works     *)
(* directly on its bitmap.                                                  *)
(***************************************************************************)
EXTENDS Naturals, Sequences, FiniteSets, SequencesExt

CONSTANTS Blks,        \* the blocks of the data device
          RecordOf     \* [Blks -> records]: the read tracker's base block of a block

VARIABLES
    al,      \* the allocator: cache and disk bitmaps, its dirty flag, the list a flush opens
    trk,     \* the read tracker: reads in flight and waiters
    cp,      \* the checkpoint: phase, free lists of the current and of the flushing one
    bitmap,  \* durable: the bitmap in the meta block
    content, \* durable: who wrote each block last
    bad      \* release assertions that failed

dataVars == <<al, trk, cp, bitmap, content, bad>>

NoList == [open |-> FALSE, blks |-> {}]
Loaded(bits) == [cache |-> bits, disk |-> bits, dirty |-> FALSE, list |-> NoList]
IdleCP == [phase |-> "idle", cur |-> <<>>, flushing |-> <<>>]
NoReads == [reads |-> {}, waiters |-> {}]

DataInit ==
    /\ al = Loaded({})
    /\ trk = NoReads
    /\ cp = IdleCP
    /\ bitmap = {}
    /\ content = [b \in Blks |-> 0]
    /\ bad = {}

----------------------------------------------------------------------------
(* Allocation. *)

Free(a) == Blks \ a.cache

\* The pieces one call hands out: the caller keeps asking the chunks for what is missing, and when a
\* round finds nothing the blocks of the earlier rounds are neither returned nor freed.
Taken(a, n) == {s \in SUBSET Free(a) : Cardinality(s) = IF n <= Cardinality(Free(a)) THEN n ELSE Cardinality(Free(a))}

WithAlloced(a, s) == [a EXCEPT !.cache = @ \cup s]

\* async_write, complete.
Written(c, s, id) == [b \in Blks |-> IF b \in s THEN id ELSE c[b]]

----------------------------------------------------------------------------
(* Commit: reserve_on_disk runs in an RCU read section.  The path it takes   *)
(* is fixed when it looks at the list and applied later.                     *)

Path(a) == IF a.list.open THEN "list" ELSE "disk"

\* (a plausible slip: the block is set on the bitmap without marking it dirty)
ReservedClean(a, b) == [a EXCEPT !.disk = @ \cup {b}]
Reserved(a, b) == [a EXCEPT !.disk = @ \cup {b}, !.dirty = TRUE]

ReservedBy(a, b, path) ==
    IF path = "list" THEN [a EXCEPT !.list.blks = @ \cup {b}] ELSE Reserved(a, b)

ReserveAsserts(a, b, path) ==
    IF path = "disk" /\ b \in a.disk THEN {"Expected disk blks to reset"} ELSE {}

Recommitted(a, blks) ==
    IF blks = {} THEN a
    ELSE [a EXCEPT !.cache = @ \cup blks, !.disk = @ \cup blks, !.dirty = TRUE]

----------------------------------------------------------------------------
(* Reads and frees. *)

Busy(t) == {RecordOf[r.blk] : r \in t.reads}

\* async_read: the reference is taken before the device is read.
StartRead(n, b) ==
    /\ \A r \in trk.reads : r.n # n
    /\ trk' = [trk EXCEPT !.reads = @ \cup {[n |-> n, blk |-> b, id |-> content[b]]}]
    /\ UNCHANGED <<al, cp, bitmap, content, bad>>

\* A waiter is held by every busy record of its blocks; with none it is run at once.
\* (a plausible slip: the free does not wait for the reads)
HoldersNone(t, blks) == {}
Holders(t, blks) == {RecordOf[b] : b \in blks} \cap Busy(t)

\* The frees of a waiter that is let go join the current checkpoint's list.
Listed(c, blks) == [c EXCEPT !.cur = @ \o SetToSeq(blks)]

AfterFree(t, blks) ==
    IF Holders(t, blks) = {} THEN t
    ELSE [t EXCEPT !.waiters = @ \cup {[blks |-> blks, on |-> Holders(t, blks)]}]
\* (a plausible slip: the free is listed whether it waits or not)
ListedAnyway(t, c, blks) == Listed(c, blks)
CPAfterFree(t, c, blks) == IF Holders(t, blks) = {} THEN Listed(c, blks) ELSE c

Released(t) == {w \in t.waiters : w.on \cap Busy(t) = {}}

\* Dropping the last read of a record erases it, and with it its hold on the waiters.
EndRead(r) ==
    LET left == [trk EXCEPT !.reads = @ \ {r}]
        held == [left EXCEPT !.waiters = {[w EXCEPT !.on = @ \cap Busy(left)] : w \in @}]
    IN /\ trk' = [held EXCEPT !.waiters = @ \ Released(held)]
       /\ cp' = Listed(cp, UNION {w.blks : w \in Released(held)})
       /\ UNCHANGED <<al, bitmap, content, bad>>

----------------------------------------------------------------------------
(* The checkpoint of the data service. *)

\* Switchover: the lists change hands; a dirty allocator opens its list.
CPStart ==
    /\ cp.phase = "idle"
    /\ cp' = [phase |-> IF al.dirty THEN "sync" ELSE "free", flushing |-> cp.cur, cur |-> <<>>]
    /\ al' = [al EXCEPT !.list.open = al.dirty]
    /\ UNCHANGED <<trk, bitmap, content, bad>>

\* synchronize_rcu: no reader is left on the path the exchange closed.
Quiet(readers, path) == path \notin readers

\* The copy of the bitmap is what the meta block gets; meanwhile commits go to the list.
CPWrite(readers) ==
    /\ cp.phase = "sync"
    /\ Quiet(readers, "disk")
    /\ bitmap' = al.disk
    /\ cp' = [cp EXCEPT !.phase = "clean"]
    /\ UNCHANGED <<al, trk, content, bad>>

\* The flag is cleared before the list is taken down.
CPClean ==
    /\ cp.phase = "clean"
    /\ al' = [al EXCEPT !.dirty = FALSE, !.list.open = FALSE]
    /\ cp' = [cp EXCEPT !.phase = "resync"]
    /\ UNCHANGED <<trk, bitmap, content, bad>>

CPReplayList(readers) ==
    /\ cp.phase = "resync"
    /\ Quiet(readers, "list")
    /\ al' = [al EXCEPT !.disk = @ \cup al.list.blks, !.dirty = @ \/ al.list.blks # {}, !.list = NoList]
    /\ bad' = bad \cup UNION {ReserveAsserts(al, b, "disk") : b \in al.list.blks}
    /\ cp' = [cp EXCEPT !.phase = "free"]
    /\ UNCHANGED <<trk, bitmap, content>>

\* The blocks freed under the flushed checkpoint become allocatable: first the disk bitmap, then the cache.
\* free_on_disk leaves the dirty flag as it is.
CPFreeOne ==
    /\ cp.phase = "free"
    /\ cp.flushing # <<>>
    /\ LET b == Head(cp.flushing)
       IN /\ al' = [al EXCEPT !.disk = @ \ {b}, !.cache = @ \ {b}]
          /\ bad' = bad \cup IF b \in al.cache THEN {} ELSE {"Expected bits to be set"}
    /\ cp' = [cp EXCEPT !.flushing = Tail(@)]
    /\ UNCHANGED <<trk, bitmap, content>>

\* stop waits for the requests in flight.
DataStopped == trk.reads = {}

DataFlushed == cp.phase = "free" /\ cp.flushing = <<>>
==============================================================================
