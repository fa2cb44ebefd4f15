----------------------------- MODULE IndexCache ------------------------------
(***************************************************************************)
(* The index write-back cache (src/lib/index/wb_cache.cpp, index_cp.cpp)   *)
(* under an IndexTable: changes of the tree dirty buffers of a checkpoint, *)
(* link them in flush order and record the transaction in the checkpoint's *)
(* journal; the flush writes the journal, the buffers bottom up, the       *)
(* superblock and the block bitmap.  The next checkpoint collects changes  *)
(* meanwhile, and the program may crash between any two writes.            *)
(***************************************************************************)
EXTENDS IndexRecovery

CONSTANTS
    Keys,           \* keys that are put and removed
    Trees,          \* trees on disk to start from: [node, root]
    MaxOps,         \* transactions
    MaxCrashes,     \* crashes, those during recovery included
    FirstBatch,     \* buffers the flush fibers take at the start
    CrashAnywhere,  \* FALSE: one crash of the running program, not while a change of the root is not
                    \* durable, and none of a recovery that keeps freed interior nodes or changes the root
    EvictCopies     \* FALSE: the cache evicts no copy of a buffer that is still to be flushed

VARIABLES
    disk,   \* what survives a crash
    mem,    \* the running program
    hist    \* history: keys of the tree by checkpoint, and the bounds used up

vars == <<disk, mem, hist>>

Slots == {0, 1}                 \* a block has at most two buffers: of two checkpoints
Bufs == Key0 \X Slots
NoUp == <<None, 0>>
NoBuf == [c |-> Blank, dirtied |-> -1, created |-> -1, st |-> "none", up |-> NoUp, wait |-> 0, freed |-> FALSE]
NoCtx == [list |-> <<>>, cnt |-> 0, recs |-> <<>>, freed |-> <<>>]

FreeList(bm) == SelectSeq([i \in Blk |-> i], LAMBDA b : b \notin bm)

Fresh(d) == [st |-> "up", cp |-> d.cp + 1, old |-> "none", pos |-> 0,
             buf |-> [k \in Bufs |-> NoBuf], at |-> [b \in Key0 |-> -1], root |-> d.root, moved |-> 0,
             ctx |-> [old |-> NoCtx, cur |-> NoCtx], bm |-> d.bm, free |-> FreeList(d.bm)]

\* The nodes as the program sees them: cached, or on disk.
Cached(m, b) == m.at[b] # -1
BufOf(m, b) == <<b, m.at[b]>>
NodeAt(m, b) == IF Cached(m, b) THEN m.buf[BufOf(m, b)].c.n ELSE disk.node[b].n
Gone(m, b) == b \notin m.bm \/ b \in ToSet(m.ctx.old.freed) \cup ToSet(m.ctx.cur.freed)
\* The next k blocks of the free queue can be allocated.
View(m, k) ==
    [b \in Blk |-> IF ~Gone(m, b) /\ NodeAt(m, b).live THEN NodeAt(m, b)
                   ELSE IF \E i \in 1..BT!Least(k, Len(m.free)) : m.free[i] = b THEN BT!Unallocated
                   ELSE BT!Deleted]

RECURSIVE KeysUnder(_, _)
KeysUnder(ns, id) ==
    IF ns[id].leaf THEN ToSet(ns[id].keys)
    ELSE UNION {KeysUnder(ns, c) : c \in ToSet(Kids(ns[id]))}

Init ==
    \E t \in Trees :
        /\ disk = [node |-> [b \in Blk |-> IF b \in DOMAIN t.node THEN Content(t.node[b], 0) ELSE Blank],
                   root |-> t.root, cp |-> 0, jrnl |-> [cp |-> -1, recs |-> <<>>], bm |-> DOMAIN t.node]
        /\ mem = Fresh(disk)
        /\ hist = [base |-> KeysUnder(t.node, t.root), old |-> {}, cur |-> KeysUnder(t.node, t.root), oldT |-> {}, curT |-> {},
                   ops |-> 0, crashes |-> 0]

------------------------------------------------------------------------------
(* Buffers of a checkpoint c, which is the current one or the one before.  *)

Which(m, c) == IF c = m.cp THEN "cur" ELSE "old"
FreeSlot(m, b) == IF m.buf[<<b, 0>>].st = "none" THEN 0 ELSE 1

\* (a plausible slip: a buffer of the checkpoint before is changed in place)
CanReuseDirty(buf) == TRUE

\* Only a buffer that was flushed can be used again.
CanReuse(buf) == buf.st = "clean"

\* get_writable_buf and, when it says no, cp_mismatch.
CanWrite(m, b, c) == Cached(m, b) => m.buf[BufOf(m, b)].dirtied <= c
Writable(m, b, c) ==
    LET s == FreeSlot(m, b)
        buf == m.buf[BufOf(m, b)]
        loaded == [NoBuf EXCEPT !.c = disk.node[b], !.dirtied = c, !.st = "clean"]
        copied == [loaded EXCEPT !.c = buf.c, !.created = buf.created]
    IN  IF ~Cached(m, b) THEN [m EXCEPT !.buf[<<b, s>>] = loaded, !.at[b] = s]
        ELSE IF buf.dirtied = c \/ CanReuse(buf) THEN [m EXCEPT !.buf[BufOf(m, b)].dirtied = c]
        ELSE [m EXCEPT !.buf[<<b, 1 - m.at[b]>>] = copied, !.at[b] = 1 - @]

\* alloc_buf: the block is committed right away.
AllocBuf(m, b, c) ==
    LET s == FreeSlot(m, b)
    IN  [m EXCEPT !.buf[<<b, s>>] = [NoBuf EXCEPT !.dirtied = c, !.created = c, !.st = "clean"], !.at[b] = s,
                  !.bm = @ \cup {b}, !.free = SelectSeq(@, LAMBDA x : x # b)]

AddDirty(m, k, c) ==
    [m EXCEPT !.ctx[Which(m, c)].list = Append(@, k), !.ctx[Which(m, c)].cnt = @ + 1, !.buf[k].st = "dirty"]

\* write_node_impl
Write(m, b, n, c) ==
    LET k == BufOf(m, b)
        m1 == [m EXCEPT !.buf[k].c.n = n]
    IN  IF m.buf[k].st = "clean" THEN AddDirty([m1 EXCEPT !.buf[k].c.cp = c], k, c) ELSE m1

\* free_buf: the buffer stays in the flush order, its block is freed with the checkpoint.
FreeBuf(m, b, c) ==
    [m EXCEPT !.buf[BufOf(m, b)].freed = TRUE, !.at[b] = -1, !.ctx[Which(m, c)].freed = Append(@, b)]

\* link_buf
LinkBuf(m, up, down, sibling, c) ==
    LET real == IF m.buf[up].created = c THEN m.buf[up].up ELSE up
        had == m.buf[down].up
        m1 == IF had = NoUp THEN m ELSE [m EXCEPT !.buf[had].wait = @ - 1]
    IN  IF had # NoUp /\ (~sibling \/ had = real) THEN m
        ELSE [m1 EXCEPT !.buf[down].up = real, !.buf[real].wait = @ + 1]

Record(m, rec, c) == [m EXCEPT !.ctx[Which(m, c)].recs = Append(@, rec)]

\* transact_bufs; keys of buffers: parent, child, the new and the freed ones.
LinkAll(m, parent, child, new, freed, c) ==
    LET m1 == LinkBuf(m, parent, child, FALSE, c)
        m2 == FoldLeft(LAMBDA x, k : LinkBuf(x, child, k, TRUE, c), m1, new)
    IN  FoldLeft(LAMBDA x, k : IF x.buf[k].wait = 0 THEN x ELSE LinkBuf(x, child, k, TRUE, c), m2, freed)
Blks(ks) == [i \in DOMAIN ks |-> ks[i][1]]
Journal(m, child, new, freed, level, c) ==
    Record(m, [parent |-> m.buf[child].up[1], child |-> child[1], new |-> Blks(new), freed |-> Blks(freed),
               level |-> level], c)
TransactBufs(m, parent, child, new, freed, level, c) ==
    Journal(LinkAll(m, parent, child, new, freed, c), child, new, freed, level, c)

\* transact_nodes: ns has the nodes as they are to be.
Transact(m, ns, p, b, new, freed, c) ==
    LET m1 == FoldLeft(LAMBDA x, i : Writable(x, i, c), m, <<p, b>> \o freed)
        m2 == FoldLeft(LAMBDA x, i : Write(AllocBuf(x, i, c), i, ns[i], c), m1, new)
        m3 == Write(Write(m2, b, ns[b], c), p, ns[p], c)
        keys(s) == [i \in DOMAIN s |-> BufOf(m3, s[i])]
    IN  TransactBufs(FoldLeft(LAMBDA x, i : FreeBuf(x, i, c), m3, freed),
                     BufOf(m3, p), BufOf(m3, b), keys(new), keys(freed), ns[b].level, c)

------------------------------------------------------------------------------
(* The superblock.                                                         *)

\* refresh_meta_buf: a new buffer, or the one of this checkpoint again.
RefreshMeta(m, c) ==
    LET k == BufOf(m, Meta)
        s == FreeSlot(m, Meta)
        new == [NoBuf EXCEPT !.c = Content(m.root, c), !.dirtied = c, !.st = "clean"]
    IN  IF Cached(m, Meta) /\ m.buf[k].dirtied = c THEN [m EXCEPT !.buf[k].c.n = m.root]
        ELSE AddDirty([m EXCEPT !.buf[<<Meta, s>>] = new, !.at[Meta] = s], <<Meta, s>>, c)

\* on_root_changed, and transact_bufs with no new and no freed nodes.
LinkRoot(m, b, c) ==
    LET k == BufOf(m, b)
        fresh == m.buf[k].created = c
    IN  Record(LinkBuf(m, BufOf(m, Meta), k, FALSE, c),
               [parent |-> Meta, child |-> IF fresh THEN None ELSE b, new |-> IF fresh THEN <<b>> ELSE <<>>,
                freed |-> <<>>, level |-> 0], c)
OnRootChange(m, b, c) == LinkRoot(RefreshMeta([m EXCEPT !.root = b, !.moved = c], c), b, c)

------------------------------------------------------------------------------
(* Changes of the tree.  A put or remove of k goes down from the root; the *)
(* first split or merge it needs on the way is one transaction, and the    *)
(* change of the leaf the last.  The checkpoint c is the one whose guard   *)
(* the caller holds.                                                       *)

Plan2(ns, p, i) ==
    LET n == ns[p]
        olds == [j \in 1..BT!MergeEnd(n, i) - i |-> BT!Child(n, i + j)]
    IN  [olds |-> olds, plan |-> BT!MergePlan(ns[BT!Child(n, i)], [j \in DOMAIN olds |-> ns[olds[j]]])]

RECURSIVE Way(_, _, _, _)
Way(ns, op, k, id) ==
    LET n == ns[id]
        i == BT!BSearch(n, k).idx
        b == BT!Child(n, i)
        here(kind) == [kind |-> kind, p |-> id, i |-> i, b |-> b]
    IN  IF n.leaf THEN here("leaf")
        ELSE IF op = "put" /\ Len(ns[b].keys) >= BT!Cap THEN here("split")
        ELSE IF op = "rm" /\ BT!MergeNeeded(ns[b]) /\ BT!MergeEnd(n, i) > i /\ Plan2(ns, id, i).plan.ok
        THEN here("merge")
        ELSE Way(ns, op, k, b)

RootWay(ns, op, k, root) ==
    LET n == ns[root]
        here(kind) == [kind |-> kind, p |-> root, i |-> 1, b |-> root]
    IN  IF op = "put" /\ Len(n.keys) >= BT!Cap THEN here("splitroot")
        ELSE IF op = "rm" /\ n.keys = <<>> /\ ~n.leaf THEN here("collapse")
        ELSE Way(ns, op, k, root)

\* Checkpoints a caller may hold: the one before until its flush starts.
OpenCps == {mem.cp} \cup (IF mem.old = "open" THEN {mem.cp - 1} ELSE {})

Counted(h) == [h EXCEPT !.ops = @ + 1]
Noted(h, op, k, w) ==
    LET set(s) == IF op = "put" THEN s \cup {k} ELSE s \ {k}
    IN  IF w = "cur" THEN [Counted(h) EXCEPT !.cur = set(@), !.curT = @ \cup {k}]
        ELSE [Counted(h) EXCEPT !.cur = set(@), !.old = set(@), !.oldT = @ \cup {k}]

Running == mem.st = "up" /\ hist.ops < MaxOps
InLeaf(ns, w, k) == k \in ToSet(ns[w.p].keys)

\* mutate_write_leaf_node and remove of a key that is there: the leaf is written.
LeafPut(n, k) ==
    LET at == BT!BSearch(n, k)
    IN  IF at.found THEN BT!UpdateEntry(n, at.idx, k, 0) ELSE BT!InsertEntry(n, at.idx, k, 0)
LeafRemove(n, k) == LET i == BT!BSearch(n, k).idx IN BT!RemoveEntries(n, i, i)
ChangeLeaf(op, k, c, ns, w) ==
    /\ w.kind = "leaf" /\ (op = "put" \/ InLeaf(ns, w, k))
    /\ CanWrite(mem, w.p, c)
    /\ mem' = Write(Writable(mem, w.p, c), w.p, IF op = "put" THEN LeafPut(ns[w.p], k) ELSE LeafRemove(ns[w.p], k), c)
    /\ hist' = Noted(hist, op, k, Which(mem, c))

\* A remove that finds nothing has locked the leaf for writing all the same.
LockLeaf(op, k, c, ns, w) ==
    /\ w.kind = "leaf" /\ op = "rm" /\ ~InLeaf(ns, w, k)
    /\ CanWrite(mem, w.p, c)
    /\ mem' = Writable(mem, w.p, c)
    /\ hist' = Counted(hist)

SplitChild(c, w) ==
    /\ w.kind = "split"
    /\ mem.free # <<>> /\ CanWrite(mem, w.p, c) /\ CanWrite(mem, w.b, c)
    /\ mem' = Transact(mem, BT!SplitNode(View(mem, 1), w.p, w.b, w.i), w.p, w.b, <<Head(mem.free)>>, <<>>, c)
    /\ hist' = Counted(hist)

MergeChildren(c, w) ==
    /\ w.kind = "merge"
    /\ \E t \in {Plan2(View(mem, 0), w.p, w.i)} :
        LET k == Len(t.plan.news)
            new == SortSeq(SubSeq(mem.free, 1, k), <)
        IN  /\ Len(mem.free) >= k
            /\ \A b \in {w.p, w.b} \cup ToSet(t.olds) : CanWrite(mem, b, c)
            /\ mem' = Transact(mem, BT!MergeNodes(View(mem, k), w.p, w.b, w.i, t.olds, t.plan),
                               w.p, w.b, new, t.olds, c)
    /\ hist' = Counted(hist)

\* check_split_root: the superblock learns of the new root before the split.
SplitRoot(c, w) ==
    /\ w.kind = "splitroot"
    /\ Len(mem.free) >= 2 /\ CanWrite(mem, w.p, c) /\ CanWrite(mem, Meta, c)
    /\ LET id == Head(mem.free)
           new == BT!NewNode(FALSE, NodeAt(mem, w.p).level + 1)
           m1 == AllocBuf(mem, id, c)
           m2 == OnRootChange([m1 EXCEPT !.buf[BufOf(m1, id)].c = Content(new, c)], id, c)
       IN  mem' = Transact(m2, BT!SplitNode(View(m2, 1), id, w.p, 1), id, w.p, <<mem.free[2]>>, <<>>, c)
    /\ hist' = Counted(hist)

\* check_collapse_root: the child is written before it becomes the root.
CollapseRoot(c, w) ==
    /\ w.kind = "collapse"
    /\ LET b == NodeAt(mem, w.p).edge
       IN  /\ CanWrite(mem, w.p, c) /\ CanWrite(mem, b, c) /\ CanWrite(mem, Meta, c)
           /\ LET m1 == Writable(Writable(mem, w.p, c), b, c)
                  m2 == OnRootChange(Write(m1, b, NodeAt(m1, b), c), b, c)
              IN  mem' = FreeBuf(m2, w.p, c)
    /\ hist' = Counted(hist)

Change(op, k, c) ==
    /\ Running
    /\ \E ns \in {View(mem, 0)} : \E w \in {RootWay(ns, op, k, mem.root)} :
        \/ ChangeLeaf(op, k, c, ns, w)
        \/ LockLeaf(op, k, c, ns, w)
        \/ SplitChild(c, w)
        \/ MergeChildren(c, w)
        \/ SplitRoot(c, w)
        \/ CollapseRoot(c, w)
    /\ UNCHANGED disk

\* The cache may evict a clean buffer; the node is read from disk again.
Evict(b) ==
    /\ mem.st = "up" /\ Cached(mem, b) /\ mem.buf[BufOf(mem, b)].st = "clean"
    /\ EvictCopies \/ mem.buf[<<b, 1 - mem.at[b]>>].st \in {"none", "clean"}
    /\ mem' = [mem EXCEPT !.buf[BufOf(mem, b)] = NoBuf, !.at[b] = -1]
    /\ UNCHANGED <<disk, hist>>

------------------------------------------------------------------------------
(* The checkpoint.                                                         *)

\* CP switchover: callers may still hold the old one.
SwitchCp ==
    /\ mem.st = "up" /\ mem.old = "none"
    /\ \E k \in Bufs : mem.buf[k].dirtied = mem.cp      \* (bound: not an untouched one)
    /\ mem' = [mem EXCEPT !.old = "open", !.cp = @ + 1, !.ctx = [old |-> mem.ctx.cur, cur |-> NoCtx]]
    /\ hist' = [hist EXCEPT !.old = hist.cur, !.oldT = hist.curT, !.curT = {}]
    /\ UNCHANGED disk

\* (a plausible slip: a buffer the next checkpoint has dirtied again is flushed with this one)
ReadyAny(m, k) == m.buf[k].wait = 0 /\ m.buf[k].st = "dirty"

\* get_next_bufs: a listed buffer can be flushed when nothing below it is to be.
Ready(m, k) == m.buf[k].st = "dirty" /\ m.buf[k].dirtied = m.cp - 1 /\ m.buf[k].wait = 0

\* The next ready buffer of the list, at most n of them.
RECURSIVE TakeNext(_, _)
TakeNext(m, n) ==
    IF n = 0 \/ m.pos = Len(m.ctx.old.list) THEN m
    ELSE LET k == m.ctx.old.list[m.pos + 1]
             m1 == [m EXCEPT !.pos = @ + 1]
         IN  IF Ready(m, k) THEN TakeNext([m1 EXCEPT !.buf[k].st = "flushing"], n - 1) ELSE TakeNext(m1, n)

\* async_cp_flush: the journal first; the fibers take their first buffers.
StartFlush ==
    /\ mem.st = "up" /\ mem.old = "open"
    /\ IF mem.ctx.old.cnt = 0
       THEN /\ disk' = disk
            /\ mem' = [mem EXCEPT !.old = "done"]
       ELSE /\ disk' = IF mem.ctx.old.recs = <<>> THEN disk
                       ELSE [disk EXCEPT !.jrnl = [cp |-> mem.cp - 1, recs |-> mem.ctx.old.recs]]
            /\ mem' = TakeNext([mem EXCEPT !.old = "flush", !.pos = 0], FirstBatch)
    /\ UNCHANGED hist

Flushed(k) ==
    LET buf == mem.buf[k]
    IN  IF buf.freed THEN disk
        ELSE IF k[1] = Meta THEN [disk EXCEPT !.root = buf.c.n]
        ELSE [disk EXCEPT !.node[k[1]] = buf.c]

\* on_buf_flush_done: the buffer above is next when this was the last one below it.
UpDone(m, up) ==
    LET m1 == [m EXCEPT !.buf[up].wait = @ - 1]
    IN  IF up = NoUp THEN TakeNext(m, 1)
        ELSE IF m1.buf[up].wait = 0 THEN [m1 EXCEPT !.buf[up].st = "flushing"] ELSE TakeNext(m1, 1)
FlushDone(m, k) ==
    LET m1 == [m EXCEPT !.ctx.old.cnt = @ - 1]
        m2 == UpDone(m1, m.buf[k].up)
    IN  IF m1.ctx.old.cnt = 0 THEN [m1 EXCEPT !.buf[k].st = "clean", !.old = "sb"]
        ELSE [m2 EXCEPT !.buf[k].st = "clean", !.buf[k].up = NoUp]

\* A buffer is written and its completion processed; several are in flight.
FlushBuf(k) ==
    /\ mem.st = "up" /\ mem.old = "flush"
    /\ mem.buf[k].st = "flushing"
    /\ disk' = Flushed(k)
    /\ mem' = FlushDone(mem, k)
    /\ UNCHANGED hist

\* IndexService::write_sb writes the superblock as it is in memory now.
WriteSb ==
    /\ mem.st = "up" /\ mem.old = "sb"
    /\ disk' = [disk EXCEPT !.root = mem.root]
    /\ mem' = [mem EXCEPT !.old = "vdev"]
    /\ UNCHANGED hist

\* The blocks the checkpoint freed leave the bitmap in memory.
VdevFlushed(m) == [m EXCEPT !.bm = @ \ ToSet(m.ctx.old.freed), !.free = @ \o m.ctx.old.freed]

\* VirtualDev::cp_flush: the bitmap is written, then the freed blocks can be allocated.
FlushVdev ==
    /\ mem.st = "up" /\ mem.old = "vdev"
    /\ disk' = [disk EXCEPT !.bm = mem.bm]
    /\ mem' = [VdevFlushed(mem) EXCEPT !.old = "done", !.ctx.old.freed = <<>>]
    /\ UNCHANGED hist

\* Buffers of the finished checkpoint that nobody dirtied again are as good as not cached.
Finished(m, k) == m.buf[k].st = "clean" /\ m.buf[k].dirtied < m.cp
Forget(m) ==
    [m EXCEPT !.buf = [k \in Bufs |-> IF Finished(m, k) THEN NoBuf ELSE m.buf[k]],
              !.at = [b \in Key0 |-> IF Cached(m, b) /\ Finished(m, BufOf(m, b)) THEN -1 ELSE m.at[b]]]

\* The CP manager persists its superblock: the checkpoint is complete.
CompleteCp ==
    /\ mem.st = "up" /\ mem.old = "done"
    /\ disk' = [disk EXCEPT !.cp = mem.cp - 1]
    /\ mem' = [Forget(mem) EXCEPT !.old = "none", !.ctx.old = NoCtx, !.pos = 0]
    /\ hist' = [hist EXCEPT !.base = hist.old, !.old = {}, !.oldT = {}]

------------------------------------------------------------------------------
(* Crash and restart.                                                      *)

Crash ==
    /\ mem.st = "up" /\ hist.crashes < MaxCrashes
    /\ CrashAnywhere \/ (hist.crashes = 0 /\ mem.moved <= disk.cp)
    /\ mem' = [Fresh(disk) EXCEPT !.st = "down"]
    /\ hist' = [hist EXCEPT !.crashes = @ + 1, !.old = {}, !.curT = {},
                            !.oldT = IF mem.old = "none" THEN hist.curT ELSE hist.oldT]
    /\ UNCHANGED disk

\* The disk after the first j writes of the recovery r.
After(r, j) ==
    FoldLeft(LAMBDA d, w : IF w[1] = Meta THEN [d EXCEPT !.root = w[2]] ELSE [d EXCEPT !.node[w[1]] = w[2]],
             disk, SubSeq(r.writes, 1, j))

\* IndexService::start: recovery runs through, or stops at an assertion, or crashes again.
Boot ==
    /\ mem.st = "down"
    /\ \E r \in {Recover(disk, FreeList(disk.bm))} :
        \/ /\ disk' = After(r, Len(r.writes))
           /\ mem' = [Fresh(disk') EXCEPT !.st = IF r.ok THEN "recovered" ELSE "asserted",
                                          !.bm = r.bm, !.free = r.free, !.root = r.root]
           /\ UNCHANGED hist
        \/ \E j \in 1..Len(r.writes) :
           /\ hist.crashes < MaxCrashes
           /\ CrashAnywhere \/ (r.kept = <<>> /\ r.root = disk.root)
           /\ disk' = After(r, j)
           /\ mem' = [Fresh(disk') EXCEPT !.st = "down"]
           /\ hist' = [hist EXCEPT !.crashes = @ + 1]

\* The checkpoint forced at the end of start() finds nothing dirty.
ForcedCp ==
    /\ mem.st = "recovered"
    /\ disk' = [disk EXCEPT !.cp = @ + 1]
    /\ mem' = [mem EXCEPT !.st = "up", !.cp = @ + 1]
    /\ LET ks == KeysUnder([b \in Blk |-> disk.node[b].n], mem.root)
       IN  hist' = [hist EXCEPT !.base = ks, !.cur = ks, !.oldT = {}, !.curT = {}]

Next ==
    \/ \E op \in {"put", "rm"}, k \in Keys, c \in OpenCps : Change(op, k, c)
    \/ \E b \in Blk : Evict(b)
    \/ SwitchCp
    \/ StartFlush
    \/ \E k \in Bufs : FlushBuf(k)
    \/ WriteSb
    \/ FlushVdev
    \/ CompleteCp
    \/ Crash
    \/ Boot
    \/ ForcedCp

Spec == Init /\ [][Next]_vars

------------------------------------------------------------------------------
(* Properties.                                                             *)

OnDisk == [b \in Blk |-> disk.node[b].n]

\* Nodes and keys a traversal from id can reach; d bounds a walk through a damaged tree.
RECURSIVE Reached(_, _, _)
Reached(ns, id, d) ==
    {id} \cup (IF d = 0 \/ ns[id].leaf THEN {}
               ELSE UNION {Reached(ns, c, d - 1) : c \in ToSet(Kids(ns[id])) \ {None}})
RECURSIVE Find(_, _, _, _)
Find(ns, id, k, d) ==
    IF d = 0 \/ id = None THEN FALSE
    ELSE IF ns[id].leaf THEN k \in ToSet(ns[id].keys)
    ELSE Find(ns, BT!Child(ns[id], BT!BSearch(ns[id], k).idx), k, d - 1)
Found(ns, id) == {k \in hist.base \cup Keys : Find(ns, id, k, NBlks)}

\* After recovery a lookup finds every key of the last complete checkpoint that the
\* interrupted one did not touch, and no key that neither of them had (the index
\* README: "it will not lose anything that was previously persisted").
NothingPersistedLost ==
    mem.st = "recovered" =>
        LET ks == Found(OnDisk, mem.root)
        IN  hist.base \ hist.oldT \subseteq ks /\ ks \subseteq hist.base \cup hist.oldT


\* The running program finds exactly the keys that were put and not removed, whatever
\* buffers were copied, flushed, freed or evicted meanwhile (get_writable_buf, read_buf).
ReadsSeeWrites == mem.st = "up" => Found(View(mem, 0), mem.root) = hist.cur

\* A checkpoint flush that has not written everything always has a write in flight:
\* the wait counts of link_buf never hold back every buffer (on_buf_flush_done).
FlushNeverStuck == mem.st = "up" /\ mem.old = "flush" => \E k \in Bufs : mem.buf[k].st = "flushing"
==============================================================================
