---------------------------- MODULE RaftReplDev ----------------------------
(***************************************************************************)
(* One member (Me) of a replication group: RaftReplDev with its state      *)
(* machine and its raft log store.  Data travels on a channel of its own   *)
(* (push by the proposer, fetch by a member that lacks it) and is written  *)
(* to locally allocated blks; the raft log carries the blkids, which every *)
(* member replaces by its own.                                             *)
(*                                                                         *)
(* Raft and the other members are the environment: they keep logs of keys, *)
(* elect leaders and commit what a majority holds.  A key stands for one   *)
(* write (its header, data and dsn, in the order of the proposals).  Raft  *)
(* handles one append request at a time, of one entry here; pushes,        *)
(* fetches, data writes, the commit thread, the gc timer, checkpoints and  *)
(* faults interleave with it.                                              *)
(***************************************************************************)
EXTENDS Integers, Sequences, FiniteSets, FiniteSetsExt

CONSTANTS
    Me, Peers,     \* the members of the group
    NumKeys,       \* bound: writes proposed in a behaviour
    NumBlks,       \* blks of the data chunk
    Rids,          \* bound: repl_req_ctx objects alive at a time
    MaxTerm,       \* bound: terms
    MaxFaults,     \* bound: crashes of Me, elections, failed fetches and time outs
    Dedup,         \* the listener answers a known write with its committed blk
    None

Servers == Peers \cup {Me}
Keys == 1..NumKeys
Blks == 1..NumBlks
INT64_MAX == NumKeys + 1       \* above every lsn

ASSUME ReplAssumption ==
    /\ Me \notin Peers /\ IsFiniteSet(Peers)
    /\ NumKeys \in Nat /\ MaxTerm \in Nat /\ MaxFaults \in Nat /\ Dedup \in BOOLEAN
    /\ Keys \subseteq Rids /\ Rids \subseteq Nat /\ NumBlks \in Nat
    /\ None \notin Servers \cup Nat

VARIABLES
    term, leader, glog, termOf, gcommit,   \* the group
    mem,           \* the memory of Me
    content,       \* what the blks hold
    log, durable,  \* the raft log of Me and how much of it is flushed
    disk,          \* the superblk, and the bitmap and the listener's state as of
                   \* the last checkpoint
    cp,            \* the checkpoint being taken
    pushes,        \* pushes on their way to Me
    pushing,       \* requests whose push is being handled
    fetching,      \* requests whose data was asked for
    writes,        \* data writes in flight
    ap,            \* the append request being handled
    slips,         \* ghost: which of the hazards named at Slip have happened
    faults

group == <<term, leader, glog, termOf, gcommit>>
flight == <<pushes, pushing, fetching, writes>>
vars == <<group, mem, content, log, durable, disk, cp, flight, ap, slips, faults>>

NoAppend == [pc |-> "idle", lsn |-> 0, k |-> 0, srv |-> None, r |-> None]

Init ==
    /\ term = 1 /\ leader \in Servers /\ gcommit = 0
    /\ glog = <<>> /\ termOf = [k \in Keys |-> 0]
    /\ mem = [req |-> [r \in Rids |-> None],               \* repl_req_ctx objects
              rmap |-> [x \in Servers \X Keys |-> None],   \* m_repl_key_req_map
              lmap |-> [l \in Keys |-> None],              \* m_lsn_req_map
              next |-> 0, upto |-> 0, freed |-> {},        \* the append allocator
              commit |-> 0, dsn |-> 1, latch |-> INT64_MAX,
              quiesce |-> FALSE, full |-> 0,               \* the lsn without space
              app |-> [k \in Keys |-> None],               \* the listener's blkids
              failed |-> FALSE]                            \* an assertion failed
    /\ content = [b \in Blks |-> None]
    /\ log = <<>> /\ durable = 0
    /\ disk = [dc |-> 0, cp |-> 0, dsn |-> 0, upto |-> 0, app |-> mem.app]
    /\ cp = None
    /\ pushes = {} /\ pushing = {} /\ fetching = {} /\ writes = {}
    /\ ap = NoAppend /\ slips = {} /\ faults = 0

-----------------------------------------------------------------------------
(* The group, as far as Me can tell. *)

\* A log entry of Me: the write, the server_id of its journal entry, its blk.
Entry(k, srv, b) == [k |-> k, srv |-> srv, blk |-> b]
KeysOf(l) == [i \in DOMAIN l |-> l[i].k]
LogOf(s) == IF s = Me THEN KeysOf(log) ELSE glog
Fresh == Cardinality({k \in Keys : termOf[k] # 0}) + 1

Fault == faults < MaxFaults /\ faults' = faults + 1

\* A member whose log has everything committed becomes leader; what the last leader
\* did not get committed may be lost.  Me gives no vote while it handles an append,
\* and RaftReplDev::become_leader resets the latch.
Elect(s) ==
    /\ term < MaxTerm /\ ap.pc = "idle"
    /\ IF leader = None THEN UNCHANGED faults ELSE Fault
    /\ term' = term + 1 /\ leader' = s
    /\ IF s = Me
       THEN /\ \A l \in 1..gcommit : l <= Len(log) /\ log[l].k = LogOf(leader)[l]
            /\ mem' = [mem EXCEPT !.latch = INT64_MAX] /\ glog' = <<>>
       ELSE \E n \in gcommit..Len(LogOf(leader)) :
            glog' = SubSeq(LogOf(leader), 1, n) /\ UNCHANGED mem
    /\ UNCHANGED <<termOf, gcommit, content, log, durable, disk, cp, flight, ap, slips>>

\* A peer that leads proposes a write and pushes its data; the push may be lost.
PeerPropose ==
    /\ leader \in Peers /\ Fresh \in Keys
    /\ glog' = Append(glog, Fresh)
    /\ termOf' = [termOf EXCEPT ![Fresh] = term]
    /\ pushes' \in {pushes, pushes \cup {<<leader, Fresh>>}}
    /\ UNCHANGED <<term, leader, gcommit, mem, content, log, durable, disk, cp, pushing,
                   fetching, writes, ap, slips, faults>>

\* The leader commits an entry of its term, and all before it; Me as the leader
\* counts itself when the entry is flushed.
GroupCommit ==
    /\ leader # None
    /\ \E n \in (gcommit + 1)..(IF leader = Me THEN durable ELSE Len(glog)) :
        termOf[LogOf(leader)[n]] = term /\ gcommit' = n
    /\ UNCHANGED <<term, leader, glog, termOf, mem, content, log, durable, disk, cp, flight,
                   ap, slips, faults>>

-----------------------------------------------------------------------------
(* Requests. *)

Has(r, s) == s \in mem.req[r].st
Mark(m, r, s) == [m EXCEPT !.req[r].st = @ \cup {s}]
Fail(m) == [m EXCEPT !.failed = TRUE]

\* Objects nobody points to are gone.
Referenced ==
    {mem.rmap[x] : x \in DOMAIN mem.rmap} \cup {mem.lmap[l] : l \in Keys}
        \cup pushing \cup fetching \cup {w.r : w \in writes} \cup {ap.r}
NewRid == Min(Rids \ Referenced)
Room == Rids \ Referenced # {}

\* AppendBlkAllocator: blks are handed out in order and a freed blk is only counted;
\* a commit moves the offset that a checkpoint saves.  VirtualDev::commit_blk asserts
\* that the blk is allocated.
HasSpace(m) == m.next < NumBlks
FreeBlk(m, b) == [m EXCEPT !.freed = @ \cup {b}]
CommitBlk(m, b) ==
    IF b > m.next THEN Fail(m) ELSE [m EXCEPT !.upto = Max({@, b})]

\* repl_req_ctx::init and alloc_local_blks: a request comes with its blk.
NewReq(m, r, srv, k, prop, b) ==
    [m EXCEPT !.req[r] = [srv |-> srv, k |-> k, st |-> {"BLK_ALLOCATED"}, blk |-> b,
                          lsn |-> -1, prop |-> prop, vol |-> TRUE],
              !.rmap[<<srv, k>>] = r, !.next = Max({@, b})]

\* RaftStateMachine::link_lsn_to_req: the first request of an lsn stays.
Link(m, r, l) ==
    [Mark(m, r, "LOG_RECEIVED") EXCEPT
        !.req[r].lsn = l, !.lmap[l] = IF @ = None THEN r ELSE @]
Unlink(m, r, l) == [m EXCEPT !.lmap[l] = IF @ = r THEN None ELSE @]
Erase(m, r) == [m EXCEPT !.rmap[<<m.req[r].srv, m.req[r].k>>] = None]

\* RaftReplDev::handle_error.
LsnFlushed(m, r) ==
    LET l == m.req[r].lsn
    IN  l # -1 /\ m.lmap[l] # None /\ ~m.req[m.lmap[l]].vol
HandleError(m, r) ==
    IF "ERRORED" \in m.req[r].st THEN m
    ELSE IF LsnFlushed(m, r) THEN Fail(m)
    ELSE FreeBlk(Erase(Mark(m, r, "ERRORED"), r), m.req[r].blk)

\* What the code leaves open and the properties below name: "early", write_at flushed
\* an entry before its data was written; "errored", an entry was flushed whose request
\* had been errored, and its blk freed; "cleared", clear_chunk_req freed the blk of a
\* flushed entry; "shared", a request was collected or cleared that had the blk of an
\* earlier commit.
Slip(s, happened) == IF happened THEN {s} ELSE {}

-----------------------------------------------------------------------------
(* The proposer. *)

\* RaftReplDev::async_alloc_write on the leader: a dsn, a blk, the push, the write.
AllocWrite ==
    /\ leader = Me /\ Fresh \in Keys /\ Room /\ HasSpace(mem) /\ ~mem.quiesce
    /\ LET r == NewRid
           b == mem.next + 1
       IN  /\ mem' = [NewReq(mem, r, Me, Fresh, TRUE, b) EXCEPT !.dsn = Fresh + 1]
           /\ writes' = writes \cup {[r |-> r, k |-> Fresh, blk |-> b]}
    /\ termOf' = [termOf EXCEPT ![Fresh] = term]
    /\ UNCHANGED <<term, leader, glog, gcommit, content, log, durable, disk, cp, pushes,
                   pushing, fetching, ap, slips, faults>>

\* The write of the proposer's data is done: propose_to_raft appends the entry and
\* links its lsn if Me still leads in the term of the request, else handle_error.
Propose(w) ==
    /\ w \in writes /\ mem.req[w.r].prop /\ ap.pc = "idle"
    /\ content' = [content EXCEPT ![w.blk] = w.k]
    /\ writes' = writes \ {w}
    /\ IF leader = Me /\ termOf[w.k] = term
       THEN LET l == Len(log) + 1 IN
            /\ log' = Append(log, Entry(w.k, Me, w.blk))
            /\ mem' = Link(mem, w.r, l)
            /\ ap' = [pc |-> "flush", lsn |-> l, k |-> w.k, srv |-> Me, r |-> w.r]
       ELSE /\ mem' = HandleError(mem, w.r)
            /\ UNCHANGED <<log, ap>>
    /\ UNCHANGED <<group, durable, disk, cp, pushes, pushing, fetching, slips, faults>>

-----------------------------------------------------------------------------
(* The data channel. *)

\* applier_create_req: the request of <<srv, k>>, made with a blk if there is none
\* yet.  A listener that knows the write already answers with the blk it committed.
Known(m, r, srv, k) ==
    [NewReq(m, r, srv, k, FALSE, m.app[k]) EXCEPT
        !.req[r].st = @ \cup {"DATA_RECEIVED", "DATA_WRITTEN", "DATA_COMMITTED"}]
Create(m, srv, k) ==
    LET old == m.rmap[<<srv, k>>] IN
    IF old # None THEN {[r |-> old, m |-> m]}
    ELSE IF m.quiesce THEN {}
    ELSE IF Dedup /\ m.app[k] # None
    THEN {[r |-> NewRid, m |-> Known(m, NewRid, srv, k)]}
    ELSE {[r |-> NewRid, m |-> NewReq(m, NewRid, srv, k, FALSE, b)] :
            b \in {m.next + 1} \cap Blks}

\* on_push_data_received finds or makes the request; without space it gives up.
PushArrives(p, k) ==
    /\ <<p, k>> \in pushes /\ Room
    /\ pushes' = pushes \ {<<p, k>>}
    /\ IF Create(mem, p, k) = {} THEN UNCHANGED <<mem, pushing>>
       ELSE \E c \in Create(mem, p, k) : mem' = c.m /\ pushing' = pushing \cup {c.r}
    /\ UNCHANGED <<group, content, log, durable, disk, cp, fetching, writes, ap, slips, faults>>

\* save_pushed_data and save_fetched_data: the first data received is written.
Save(r) ==
    IF Has(r, "DATA_RECEIVED") THEN UNCHANGED <<mem, writes>>
    ELSE /\ mem' = Mark(mem, r, "DATA_RECEIVED")
         /\ writes' = writes \cup {[r |-> r, k |-> mem.req[r].k, blk |-> mem.req[r].blk]}
PushSaved(r) ==
    /\ r \in pushing /\ pushing' = pushing \ {r} /\ Save(r)
    /\ UNCHANGED <<group, content, log, durable, disk, cp, pushes, fetching, ap, slips, faults>>

\* handle_fetch_data_response; it ignores an empty response.  When the fetch fails, a
\* request that still has no data is errored.
FetchDone(r) ==
    /\ r \in fetching /\ fetching' = fetching \ {r} /\ Save(r)
    /\ UNCHANGED <<group, content, log, durable, disk, cp, pushes, pushing, ap, slips, faults>>
FetchFails(r) ==
    /\ Fault /\ r \in fetching /\ fetching' = fetching \ {r}
    /\ mem' \in {mem, IF Has(r, "DATA_RECEIVED") THEN mem ELSE HandleError(mem, r)}
    /\ UNCHANGED <<group, content, log, durable, disk, cp, pushes, pushing, writes, ap, slips>>

\* The data write of an applier is done.
DataWritten(w) ==
    /\ w \in writes /\ ~mem.req[w.r].prop
    /\ content' = [content EXCEPT ![w.blk] = w.k]
    /\ writes' = writes \ {w}
    /\ mem' = Mark(mem, w.r, "DATA_WRITTEN")
    /\ UNCHANGED <<group, log, durable, disk, cp, pushes, pushing, fetching, ap, slips, faults>>

-----------------------------------------------------------------------------
(* The raft channel of a follower. *)

\* raft_event(GotAppendEntryReqFromLeader): an entry that is not committed yet, below
\* the latch, whose predecessor matches, is localized; data that is not there yet is
\* waited for and fetched.  Without space the lsn becomes the latch and the listener
\* quiesces the device.
Fetch(c) ==
    IF "DATA_RECEIVED" \in c.m.req[c.r].st THEN fetching ELSE fetching \cup {c.r}
\* (a plausible slip: the latch is not looked at)
AnyLsn(l) == TRUE
BelowLatch(l) == l < mem.latch
Matches(l) == l > 1 => l - 1 <= Len(log) /\ log[l - 1].k = glog[l - 1]
GotAppend ==
    /\ leader \in Peers /\ ap.pc = "idle" /\ Room
    /\ \E l \in (mem.commit + 1)..Len(glog) :
        LET k == glog[l] IN
        /\ Matches(l) /\ BelowLatch(l)
        /\ IF Create(mem, leader, k) = {}
           THEN /\ ~mem.quiesce
                /\ mem' = [mem EXCEPT !.latch = l, !.full = l, !.quiesce = TRUE]
                /\ UNCHANGED <<ap, fetching>>
           ELSE \E c \in Create(mem, leader, k) :
                /\ mem' = c.m
                /\ ap' = [pc |-> "wait", lsn |-> l, k |-> k, srv |-> leader, r |-> c.r]
                /\ fetching' = Fetch(c)
    /\ UNCHANGED <<group, content, log, durable, disk, cp, pushes, pushing, writes, slips,
                   faults>>

\* wait_for_data_receive: the data is there, or the wait times out and the request is
\* errored; data may still arrive between the two.
WaitEnds ==
    /\ ap.pc = "wait"
    /\ IF Has(ap.r, "DATA_RECEIVED")
       THEN ap' = [ap EXCEPT !.pc = "append"] /\ UNCHANGED faults
       ELSE ap' = [ap EXCEPT !.pc = "timeout"] /\ Fault
    /\ UNCHANGED <<group, mem, content, log, durable, disk, cp, flight, slips>>
TimedOut ==
    /\ ap.pc = "timeout"
    /\ mem' = HandleError(mem, ap.r)
    /\ ap' = NoAppend
    /\ UNCHANGED <<group, content, log, durable, disk, cp, flight, slips, faults>>

\* handle_rollback of every entry from lsn l on that has a request.
Rollback(m, l) ==
    LET gone == {m.lmap[i] : i \in l..NumKeys} \ {None}
        keys == {<<m.req[r].srv, m.req[r].k>> : r \in gone}
    IN  [m EXCEPT !.lmap = [i \in Keys |-> IF i >= l THEN None ELSE @[i]],
                  !.rmap = [x \in DOMAIN @ |-> IF x \in keys THEN None ELSE @[x]],
                  !.freed = @ \cup {m.req[r].blk : r \in gone},
                  !.latch = IF gone = {} THEN @ ELSE INT64_MAX]

\* notify_after_data_written: what an applier's batch waits for.
\* (a plausible slip: data that was only received will do)
DataComing(m, r) == m.req[r].prop \/ "DATA_RECEIVED" \in m.req[r].st
DataThere(m, r) == m.req[r].prop \/ "DATA_WRITTEN" \in m.req[r].st

\* HomeRaftLogStore: append leaves the flush to the end of the batch, write_at drops
\* the conflicting entries and flushes at once, before the request is linked to the
\* lsn, so that end_of_append_batch finds nothing to wait for.
Overwrites == ap.lsn <= Len(log)
Written(e) == Append(SubSeq(log, 1, ap.lsn - 1), e)

\* Raft skips an entry it has; it rolls back what conflicts with it, and ReplLogStore
\* finishes the localization, writes the entry with the local blk and links the lsn.
\* The request may have been given up meanwhile and is made anew then.
Have == ap.lsn <= Len(log) /\ log[ap.lsn].k = ap.k
Localized == Create(Rollback(mem, ap.lsn), ap.srv, ap.k)
AppendEntry ==
    /\ ap.pc = "append" /\ Room
    /\ IF Have
       THEN ap' = [ap EXCEPT !.pc = "flush"] /\ UNCHANGED <<mem, log, durable, fetching, slips>>
       ELSE \E c \in Localized :
            /\ log' = Written(Entry(ap.k, Me, c.m.req[c.r].blk))
            /\ durable' = IF Overwrites THEN ap.lsn ELSE durable
            /\ mem' = Link(c.m, c.r, ap.lsn)
            /\ fetching' = Fetch(c)
            /\ slips' = slips \cup Slip("early", Overwrites /\ ~DataThere(c.m, c.r))
            /\ ap' = [ap EXCEPT !.pc = "flush", !.r = c.r]
    /\ UNCHANGED <<group, content, disk, cp, pushes, pushing, writes, faults>>

\* ReplLogStore::end_of_append_batch: the data of an applier's request is on its blk
\* before the log is flushed.
EndBatch ==
    LET r == mem.lmap[ap.lsn] IN
    /\ ap.pc = "flush"
    /\ r # None => DataThere(mem, r)
    /\ durable' = Len(log)
    /\ mem' = IF r = None THEN mem
              ELSE [Mark(mem, r, "LOG_FLUSHED") EXCEPT !.req[r].vol = Has(r, "ERRORED")]
    /\ slips' = slips \cup Slip("errored", r # None /\ Has(r, "ERRORED"))
    /\ ap' = NoAppend
    /\ UNCHANGED <<group, content, log, disk, cp, flight, faults>>

-----------------------------------------------------------------------------
(* The commit thread, timers and the checkpoint. *)

\* handle_commit.  In recovery m_commit_upto_lsn stays.
HandleCommit(m, r) ==
    LET q == m.req[r]
        m1 == IF "DATA_COMMITTED" \in q.st THEN m ELSE CommitBlk(m, q.blk)
    IN  [Unlink(Erase(m1, r), r, q.lsn) EXCEPT
            !.dsn = Max({@, q.k + 1}), !.app[q.k] = q.blk]

Commit ==
    LET l == mem.commit + 1
        r == mem.lmap[l]
    IN  /\ leader # None /\ l <= gcommit /\ l <= durable /\ log[l].k = LogOf(leader)[l]
        /\ mem' = IF r = None THEN Fail(mem)
                  ELSE [HandleCommit(mem, r) EXCEPT !.commit = l]
        /\ UNCHANGED <<group, content, log, durable, disk, cp, flight, ap, slips, faults>>

\* flush_durable_commit_lsn.
FlushDcLsn ==
    /\ disk.dc # mem.commit
    /\ disk' = [disk EXCEPT !.dc = mem.commit]
    /\ UNCHANGED <<group, mem, content, log, durable, cp, flight, ap, slips, faults>>

\* gc_repl_reqs: an applier's request below the committed dsns that has expired.  One
\* that was touched lately (the append, a push, a fetch or a write works on it) has not.
Busy(r) == r \in pushing \cup fetching \cup {ap.r} \cup {w.r : w \in writes}
Collectable(r) == ~mem.req[r].prop /\ ~Busy(r) /\ ~Has(r, "LOG_FLUSHED")
GcReq(r) ==
    /\ \E x \in DOMAIN mem.rmap : mem.rmap[x] = r
    /\ mem.req[r].k < mem.dsn - 1 /\ Collectable(r)
    /\ mem' = FreeBlk(Erase(mem, r), mem.req[r].blk)
    /\ slips' = slips \cup Slip("shared", Has(r, "DATA_COMMITTED"))
    /\ UNCHANGED <<group, content, log, durable, disk, cp, flight, ap, faults>>

\* The listener handles the lack of space: clear_chunk_req when everything below that
\* lsn is committed, then resume_accepting_reqs.
Mapped == {mem.rmap[x] : x \in DOMAIN mem.rmap} \ {None}
ClearChunk ==
    /\ mem.quiesce /\ mem.commit >= mem.full - 1 /\ Mapped # {}
    /\ mem' = [mem EXCEPT !.rmap = [x \in DOMAIN @ |-> None],
                          !.freed = @ \cup {mem.req[r].blk : r \in Mapped}]
    /\ slips' = slips \cup UNION {
            Slip("cleared", Has(r, "LOG_FLUSHED")) \cup
            Slip("shared", Has(r, "DATA_COMMITTED")) : r \in Mapped}
    /\ UNCHANGED <<group, content, log, durable, disk, cp, flight, ap, faults>>
Resume ==
    /\ mem.quiesce /\ mem.commit >= mem.full - 1
    /\ mem' = [mem EXCEPT !.quiesce = FALSE, !.full = 0, !.latch = INT64_MAX]
    /\ UNCHANGED <<group, content, log, durable, disk, cp, flight, ap, slips, faults>>

\* get_cp_ctx at the switchover, the bitmap and the listener's state, then cp_flush.
CpSwitch ==
    /\ cp = None /\ disk.cp # mem.commit
    /\ cp' = [lsn |-> mem.commit, dsn |-> mem.dsn, sealed |-> FALSE]
    /\ UNCHANGED <<group, mem, content, log, durable, disk, flight, ap, slips, faults>>
CpFlushOthers ==
    /\ cp # None /\ ~cp.sealed
    /\ disk' = [disk EXCEPT !.upto = mem.upto, !.app = mem.app]
    /\ cp' = [cp EXCEPT !.sealed = TRUE]
    /\ UNCHANGED <<group, mem, content, log, durable, flight, ap, slips, faults>>
CpFlush ==
    /\ cp # None /\ cp.sealed
    /\ disk' = [disk EXCEPT !.dc = Max({@, cp.lsn}), !.cp = cp.lsn, !.dsn = cp.dsn]
    /\ cp' = None
    /\ UNCHANGED <<group, mem, content, log, durable, flight, ap, slips, faults>>

-----------------------------------------------------------------------------
(* Crash and restart. *)

\* on_log_found for the flushed entries above the checkpoint: those the superblk
\* knows to be committed are committed again, the others get their request back and
\* their blk is kept from being allocated.
Replayed(l) ==
    [srv |-> log[l].srv, k |-> log[l].k, blk |-> log[l].blk, lsn |-> l, prop |-> FALSE,
     vol |-> TRUE, st |-> {"BLK_ALLOCATED", "DATA_RECEIVED", "DATA_WRITTEN",
                           "LOG_RECEIVED", "LOG_FLUSHED"}]
\* AppendBlkAllocator starts at the saved offset and the replay moves it on.
\* (a plausible slip: only what is known to be committed is reserved)
ReservedCommitted(ls) == Max({disk.upto} \cup {log[l].blk : l \in ls \cap 1..disk.dc})
Reserved(ls) == Max({disk.upto} \cup {log[l].blk : l \in ls})
Restart ==
    LET redo == (disk.cp + 1)..durable
        done == {l \in redo : l <= disk.dc}
        open == redo \ done
    IN  /\ mem' = [req |-> [r \in Rids |-> IF r \in open THEN Replayed(r) ELSE None],
                   rmap |-> [x \in Servers \X Keys |->
                                IF \E l \in open : <<log[l].srv, log[l].k>> = x
                                THEN CHOOSE l \in open : <<log[l].srv, log[l].k>> = x ELSE None],
                   lmap |-> [l \in Keys |-> IF l \in open THEN l ELSE None],
                   next |-> Reserved(redo), upto |-> Reserved(redo), freed |-> {},
                   commit |-> disk.dc,
                   dsn |-> Max({disk.dsn + 1} \cup {log[l].k + 1 : l \in done}),
                   latch |-> INT64_MAX, quiesce |-> FALSE, full |-> 0,
                   app |-> [k \in Keys |->
                               IF \E l \in done : log[l].k = k
                               THEN log[CHOOSE l \in done : log[l].k = k].blk ELSE disk.app[k]],
                   failed |-> FALSE]
        /\ log' = SubSeq(log, 1, durable)
        /\ IF leader = Me THEN leader' = None /\ glog' = KeysOf(log)
           ELSE UNCHANGED <<leader, glog>>
        /\ cp' = None /\ pushes' \in {{}, pushes}
        /\ pushing' = {} /\ fetching' = {} /\ writes' = {}
        /\ ap' = NoAppend
        /\ UNCHANGED <<term, termOf, gcommit, content, durable, disk, slips>>

Crash == Fault /\ Restart

\* localize_journal_entry_finish asserts that it gets a request: without space "there
\* is no recourse" and the process stops.  The latch is to keep the quiesced state
\* from being a reason.  notify_after_data_written stops the process when the data of
\* an appended entry never comes.
AppendAborts ==
    /\ \/ ap.pc = "append" /\ Room /\ ~Have /\ Localized = {}
       \/ /\ ap.pc = "flush" /\ mem.lmap[ap.lsn] # None
          /\ ~Has(mem.lmap[ap.lsn], "DATA_RECEIVED") /\ ~mem.req[mem.lmap[ap.lsn]].prop
    /\ IF ap.pc = "append" /\ mem.quiesce
       THEN /\ mem' = Fail(mem)
            /\ UNCHANGED <<group, content, log, durable, disk, cp, flight, ap, slips>>
       ELSE Restart
    /\ UNCHANGED faults

Next ==
    \/ \E s \in Servers : Elect(s)
    \/ PeerPropose \/ GroupCommit
    \/ AllocWrite
    \/ \E w \in writes : Propose(w) \/ DataWritten(w)
    \/ \E x \in pushes : PushArrives(x[1], x[2])
    \/ \E r \in Rids : PushSaved(r) \/ FetchDone(r) \/ FetchFails(r) \/ GcReq(r)
    \/ GotAppend \/ WaitEnds \/ TimedOut \/ AppendEntry \/ EndBatch
    \/ Commit \/ FlushDcLsn \/ ClearChunk \/ Resume
    \/ CpSwitch \/ CpFlushOthers \/ CpFlush
    \/ Crash \/ AppendAborts

Spec == Init /\ [][Next]_vars

-----------------------------------------------------------------------------
\* No release assertion fails: handle_error never meets a lsn that is ready to commit,
\* a committed blk was allocated, every committed lsn has its request, and an append
\* that passed the latch is never refused for the quiesced state.
NeverFails == ~mem.failed

\* handle_commit: every committed entry reached the listener with the blk of its log
\* entry, and a blk the listener knows holds the write's data and is one the allocator
\* will not hand out again after a restart.
CommittedData ==
    "early" \notin slips =>
        /\ \A l \in 1..mem.commit : mem.app[log[l].k] = log[l].blk
        /\ \A k \in Keys : mem.app[k] # None =>
                content[mem.app[k]] = k /\ mem.app[k] <= mem.upto

\* end_of_append_batch and on_log_found: a flushed entry that a restart replays has its
\* data on its blk, and the blk is not free to be handed out.
FlushedData ==
    "early" \notin slips =>
        \A l \in (disk.cp + 1)..durable :
            content[log[l].blk] = log[l].k /\ log[l].blk <= mem.next


\* Behaviours are followed up to the first of the named slips.
NoSlip == slips = {}

\* Request objects nobody points to do not tell states apart.
View == <<group, [mem EXCEPT !.req = [r \in Rids |-> IF r \in Referenced THEN @[r] ELSE None]],
          content, log, durable, disk, cp, flight, ap, slips, faults>>
=============================================================================
