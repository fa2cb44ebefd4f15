------------------------------- MODULE SoloRepl -------------------------------
(***************************************************************************)
(* SoloReplDev and SoloReplService over the data service: a request         *)
(* allocates blocks, writes its data, appends a journal entry, and commits  *)
(* when the entry is durable; a checkpoint seals the commit lsn in the      *)
(* superblock and truncates the journal; a restart reads the bitmap back    *)
(* and replays the journal.  The client (external) keeps an index from      *)
(* blocks to the request that wrote them; an entry may delete blocks of     *)
(* earlier ones, which its on_commit then frees.                            *)
(***************************************************************************)
EXTENDS BlkData, Integers

CONSTANTS MaxReq,      \* bound: requests
          Sizes,       \* block counts by request: what the n-th request may ask for
          ReadIds,     \* bound: concurrent reads
          MaxRestarts, \* bound: crashes and shutdowns
          MaxOpen,     \* bound: requests in flight
          ForceReplay  \* the solo_force_replay option

VARIABLES
    req,    \* requests in flight, by id
    jnl,    \* the journal: entries on disk, first live lsn, next lsn
    cb,     \* the journal's completion thread: entries to complete and the one it is at
    upto,   \* m_commit_upto
    sb,     \* durable: the superblock
    svc,    \* the service: up, stopping, flushing, down or crashed
    index,  \* the client's index: the request that wrote a live block, 0 for none
    hist    \* ghost: requests made, restarts, blocks no one returned, boots that lost a commit

soloVars == <<req, jnl, cb, upto, sb, svc, index, hist>>
vars == <<dataVars, soloVars>>

Ids == 1..MaxReq
None == 0
NoCb == [id |-> None, todo |-> {}, blk |-> None, path |-> "none", e |-> <<>>]
NoIndex == [b \in Blks |-> None]

\* superblk::create value-initialises the superblock: durable_commit_lsn is 0.
FreshSb == [durable |-> 0, lsn |-> -1, lsn1 |-> -1, lsn2 |-> -1]

Init ==
    /\ DataInit
    /\ req = <<>>
    /\ jnl = [log |-> <<>>, start |-> 0, next |-> 0]
    /\ cb = [queue |-> <<>>, at |-> NoCb]
    /\ upto = -1
    /\ sb = FreshSb
    /\ svc = "up"
    /\ index = NoIndex
    /\ hist = [made |-> 0, restarts |-> 0, stray |-> {}, lost |-> FALSE, shut |-> 0]

----------------------------------------------------------------------------
(* A request. *)

Deleting == UNION {req[i].del : i \in DOMAIN req}
Deletable == {b \in Blks : index[b] # None} \ Deleting

With(r, i, v) == [j \in DOMAIN r \cup {i} |-> IF j = i THEN v ELSE r[j]]
Without(r, i) == [j \in DOMAIN r \ {i} |-> r[j]]

\* alloc_blks (or the allocation at the start of async_alloc_write).  A request that cannot be served
\* fails, and the blocks found before it failed stay allocated; one for which nothing at all is found
\* pops an empty vector, and is not followed.
Start(n, del) ==
    /\ svc = "up"
    /\ hist.made < MaxReq /\ Cardinality(DOMAIN req) < MaxOpen
    /\ \E s \in Taken(al, n) :
          /\ al' = WithAlloced(al, s)
          /\ IF Cardinality(s) = n
             THEN /\ req' = With(req, hist.made + 1, [st |-> "alloced", blks |-> s, del |-> del, lsn |-> -1])
                  /\ hist' = [hist EXCEPT !.made = @ + 1]
             ELSE /\ s # {}
                  /\ req' = req
                  /\ hist' = [hist EXCEPT !.made = @ + 1, !.stray = @ \cup s]
    /\ UNCHANGED <<trk, cp, bitmap, content, bad, jnl, cb, upto, sb, svc, index>>

\* async_write completes and write_journal draws the lsn; the log device queues the record later.
WriteData(i) ==
    /\ req[i].st = "alloced"
    /\ content' = Written(content, req[i].blks, i)
    /\ req' = [req EXCEPT ![i].st = "lsn", ![i].lsn = jnl.next]
    /\ jnl' = [jnl EXCEPT !.next = @ + 1]
    /\ UNCHANGED <<al, trk, cp, bitmap, bad, cb, upto, sb, svc, index, hist>>

Entry(i) == [id |-> i, lsn |-> req[i].lsn, blks |-> req[i].blks, del |-> req[i].del]

\* The log device makes its records durable in the order they were queued in, not in the order of their
\* lsns, and completes them in that order (LogDev); a record still queued is as good as not appended.
Append_(i) ==
    /\ req[i].st = "lsn"
    /\ req' = [req EXCEPT ![i].st = "durable"]
    /\ jnl' = [jnl EXCEPT !.log = Append(@, Entry(i))]
    /\ cb' = [cb EXCEPT !.queue = Append(@, Entry(i))]
    /\ UNCHANGED <<dataVars, upto, sb, svc, index, hist>>

----------------------------------------------------------------------------
(* The completion of a journal write. *)

Raised(cur, lsn) == IF cur < lsn THEN lsn ELSE cur

CbStart ==
    /\ cb.at = NoCb
    /\ cb.queue # <<>>
    /\ LET e == Head(cb.queue)
       IN /\ upto' = Raised(upto, e.lsn)
          /\ cb' = [queue |-> Tail(cb.queue), at |-> [NoCb EXCEPT !.id = e.id, !.todo = e.blks, !.e = e]]
    /\ UNCHANGED <<dataVars, req, jnl, sb, svc, index, hist>>

\* commit_blk: the block must be allocated; reserve_on_disk enters its read section.
CbReserve(b) ==
    /\ cb.at.id # None /\ cb.at.blk = None
    /\ b \in cb.at.todo
    /\ cb' = [cb EXCEPT !.at.blk = b, !.at.path = Path(al), !.at.todo = @ \ {b}]
    /\ bad' = bad \cup IF b \in al.cache THEN {} ELSE {"commiting blkid is not allocated in non-recovery mode"}
    /\ UNCHANGED <<al, trk, cp, bitmap, content, req, jnl, upto, sb, svc, index, hist>>

CbApply ==
    /\ cb.at.blk # None
    /\ al' = ReservedBy(al, cb.at.blk, cb.at.path)
    /\ bad' = bad \cup ReserveAsserts(al, cb.at.blk, cb.at.path)
    /\ cb' = [cb EXCEPT !.at.blk = None, !.at.path = "none"]
    /\ UNCHANGED <<trk, cp, bitmap, content, req, jnl, upto, sb, svc, index, hist>>

Indexed(x, e) == [b \in Blks |-> IF b \in e.blks THEN e.id ELSE IF b \in e.del THEN None ELSE x[b]]

\* on_commit: the client updates its index and frees what the entry deletes.
CbDone ==
    /\ cb.at.id # None /\ cb.at.blk = None /\ cb.at.todo = {}
    /\ index' = Indexed(index, cb.at.e)
    /\ trk' = AfterFree(trk, cb.at.e.del)
    /\ cp' = CPAfterFree(trk, cp, cb.at.e.del)
    /\ req' = Without(req, cb.at.id)
    /\ cb' = [cb EXCEPT !.at = NoCb]
    /\ UNCHANGED <<al, bitmap, content, bad, jnl, upto, sb, svc, hist>>

Read(n, b) == svc = "up" /\ index[b] # None /\ StartRead(n, b) /\ UNCHANGED soloVars
ReadEnds(r) == EndRead(r) /\ UNCHANGED soloVars

----------------------------------------------------------------------------
(* The checkpoint. *)

Readers == {cb.at.path}
Running == svc \in {"up", "stopping"}

\* The data service flushes first; the timer starts a checkpoint while the services run, the shutdown
\* two more.
Trigger ==
    /\ \/ Running /\ hist' = hist
       \/ svc = "flushing" /\ hist.shut < 2 /\ hist' = [hist EXCEPT !.shut = @ + 1]
    /\ CPStart
    /\ UNCHANGED <<req, jnl, cb, upto, sb, svc, index>>

DataFlush ==
    /\ \/ CPWrite(Readers) \/ CPClean \/ CPReplayList(Readers) \/ CPFreeOne
    /\ UNCHANGED soloVars

\* SoloReplDev::cp_flush, the sealer: the lsn is the one committed now.
Sealed == [durable |-> upto, lsn |-> upto, lsn1 |-> sb.lsn, lsn2 |-> sb.lsn1]

\* truncate needs three checkpoints with entries, and a stopped log store refuses.
Truncated(s) ==
    IF s.lsn2 > 0 /\ s.lsn2 >= jnl.start /\ svc # "flushing" THEN [jnl EXCEPT !.start = s.lsn2 + 1] ELSE jnl

\* The superblock is written and cp_cleanup truncates the journal behind it.
Seal ==
    /\ DataFlushed
    /\ sb' = Sealed
    /\ jnl' = Truncated(Sealed)
    /\ cp' = [cp EXCEPT !.phase = "idle"]
    /\ UNCHANGED <<al, trk, bitmap, content, bad, req, cb, upto, svc, index, hist>>

----------------------------------------------------------------------------
(* Shutdown, crash and restart. *)

Stop ==
    /\ svc = "up"
    /\ hist.restarts < MaxRestarts
    /\ svc' = "stopping"
    /\ hist' = [hist EXCEPT !.restarts = @ + 1]
    /\ UNCHANGED <<dataVars, req, jnl, cb, upto, sb, index>>

\* The repl device waits for its requests, the data service for its reads.
Stopped ==
    /\ svc = "stopping"
    /\ req = <<>> /\ DataStopped
    /\ svc' = "flushing"
    /\ hist' = [hist EXCEPT !.shut = 0]
    /\ UNCHANGED <<dataVars, req, jnl, cb, upto, sb, index>>

Down ==
    /\ svc = "flushing" /\ hist.shut = 2 /\ cp.phase = "idle"
    /\ svc' = "down"
    /\ UNCHANGED <<dataVars, req, jnl, cb, upto, sb, index, hist>>

Crash ==
    /\ svc \in {"up", "stopping", "flushing"}
    /\ hist.restarts < MaxRestarts
    /\ svc' = "crashed"
    /\ hist' = [hist EXCEPT !.restarts = @ + 1]
    /\ UNCHANGED <<dataVars, req, jnl, cb, upto, sb, index>>

InJournal == SelectSeq(jnl.log, LAMBDA e : e.lsn >= jnl.start)

\* on_log_found: entries up to the commit lsn are skipped.
Skips(r, e) == r.upto >= e.lsn /\ ~ForceReplay

Replayed(r, e) ==
    IF Skips(r, e) THEN [r EXCEPT !.skipped = Append(@, e)]
    ELSE [upto |-> Raised(r.upto, e.lsn), al |-> Recommitted(r.al, e.blks),
          cp |-> Listed(r.cp, e.del), skipped |-> r.skipped, done |-> Append(r.done, e)]

Replay == FoldLeft(Replayed, [upto |-> sb.durable, al |-> Loaded(bitmap), cp |-> IdleCP,
                              skipped |-> <<>>, done |-> <<>>], InJournal)

\* What the whole history of durable entries leaves alive.
Alive == FoldLeft(Indexed, NoIndex, jnl.log)

NotIn(done) == SelectSeq(jnl.log, LAMBDA e : e \notin ToSet(done))

\* A block the journal frees and uses again further on, both to be replayed: the replayed free is
\* carried out by the next checkpoint, after the block was reserved again.
Refreed(done) == \E i, j \in DOMAIN done : i < j /\ done[i].del \cap done[j].blks # {}

\* Entries that are not replayed leave a block alive which the loaded bitmap does not have.
Dropped(entries) == \E b \in Blks : FoldLeft(Indexed, NoIndex, entries)[b] # None /\ b \notin bitmap

NextLsn(log) == FoldLeft(LAMBDA n, e : Raised(n, e.lsn + 1), 0, log)

\* The restart: nothing else runs until the replay is over.
Boot ==
    /\ svc \in {"down", "crashed"}
    /\ \E r \in {Replay} :
          /\ al' = r.al
          /\ cp' = r.cp
          /\ upto' = r.upto
          /\ jnl' = [jnl EXCEPT !.next = NextLsn(jnl.log)]
          /\ hist' = [hist EXCEPT !.stray = {}, !.lost = @ \/ Dropped(NotIn(r.done)) \/ Refreed(r.done)]
    /\ trk' = NoReads
    /\ req' = <<>>
    /\ cb' = [queue |-> <<>>, at |-> NoCb]
    /\ index' = Alive
    /\ svc' = "up"
    /\ UNCHANGED <<bitmap, content, bad, sb>>

Active == svc \in {"up", "stopping", "flushing"}

Steps(i) == i \in DOMAIN req /\ Active /\ (WriteData(i) \/ Append_(i))
Journal == Active /\ (CbStart \/ CbApply \/ CbDone \/ \E b \in cb.at.todo : CbReserve(b))
Reads == \/ \E n \in ReadIds, b \in Blks : Read(n, b)
         \/ \E r \in trk.reads : Active /\ ReadEnds(r)
Flush == Active /\ (DataFlush \/ Seal)

AsksFor == IF hist.made < MaxReq THEN Sizes[hist.made + 1] ELSE {}

Next ==
    \/ \E n \in AsksFor : \E del \in {{b} : b \in Deletable} \cup IF n = 0 THEN {} ELSE {{}} : Start(n, del)
    \/ \E i \in Ids : Steps(i)
    \/ Journal \/ Reads \/ Trigger \/ Flush
    \/ Stop \/ Stopped \/ Down \/ Crash \/ Boot

\* Behaviours are followed up to the first restart that loses a commit.
Unspoiled == ~hist.lost

Fair ==
    /\ \A i \in Ids : WF_vars(Steps(i))
    /\ WF_vars(Journal)
    /\ WF_vars(\E r \in trk.reads : Active /\ ReadEnds(r))
    /\ WF_vars(Trigger) /\ WF_vars(Flush)
    /\ WF_vars(Stopped) /\ WF_vars(Down)

Spec == Init /\ [][Next]_vars /\ Fair

----------------------------------------------------------------------------
(* Properties. *)

Live == {b \in Blks : index[b] # None}
Serving == svc \in {"up", "stopping", "flushing"} /\ ~hist.lost


\* A read in flight never sees its block overwritten: a free waits for the reads of the block's record,
\* and only then joins a checkpoint (blk_read_tracker.hpp:56).
ReadsStable == ~hist.lost => \A r \in trk.reads : content[r.blk] = r.id

\* With no flush under way a clean allocator has every committed block in the meta block's bitmap:
\* the list the flush opens, the dirty flag and the two RCU grace periods lose no commit.
CleanMeansPersisted ==
    (Serving /\ cp.phase = "idle" /\ ~al.dirty) => Live \subseteq bitmap

\* None of the release assertions on the bitmaps fails: no block is committed, freed or reserved twice.
AssertionsHold == ~hist.lost => bad = {}

PendingFree == UNION {w.blks : w \in trk.waiters} \cup ToSet(cp.cur) \cup ToSet(cp.flushing)

==============================================================================
