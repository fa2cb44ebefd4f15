---------------------------- MODULE IndexRecovery ----------------------------
(***************************************************************************)
(* Recovery of an index table after a crash in the middle of a checkpoint: *)
(* IndexWBCache::recover with IndexCPContext::recover, and the repair of    *)
(* interior nodes by IndexTable.  It is a sequential program that reads    *)
(* and writes the disk, so it is written as functions on a record r: the   *)
(* disk image, the buffers rebuilt from the journal, the work lists and    *)
(* the sequence of writes made so far.                                     *)
(***************************************************************************)
EXTENDS Integers, Sequences, FiniteSets, SequencesExt

CONSTANTS
    NBlks,          \* blocks of the index device
    NodeSize, EntrySize, IdealPct, MinPct, SplitPct, MaxMergeNodes, MaxMergeLevel

BT == INSTANCE Btree WITH MaxNodes <- NBlks, Threads <- {}, Rebalance <- FALSE, Loads <- {},
        Requests <- <<>>, MaxOps <- 0, nodes <- <<>>, root <- 0, thr <- <<>>, load <- <<>>

None == 0
Meta == -1          \* key of the superblock's buffer among the block numbers
Blk == 1..NBlks
Key0 == {Meta} \cup Blk

\* What a block holds: a node and its modified_cp_id.
Content(n, cp) == [n |-> n, cp |-> cp]
Blank == Content(BT!Unallocated, -1)

------------------------------------------------------------------------------
(* IndexCPContext::recover: the buffers and their links from the journal.  *)

NoRBuf == [in |-> FALSE, up |-> None, wait |-> 0, new |-> FALSE, freed |-> FALSE, level |-> 0,
           dirtied |-> -1, st |-> "clean", c |-> Blank]

\* Link buffer b under up, away from the one it had.
Relink(bufs, b, up) ==
    LET had == bufs[b].up
        one == IF had = None THEN bufs ELSE [bufs EXCEPT ![had].wait = @ - 1]
    IN  [one EXCEPT ![b].up = up, ![up].wait = @ + 1]


\* Buffers of this checkpoint and freed ones stand for the buffer above them.
RealUp(bufs, up) == IF bufs[up].new \/ bufs[up].freed THEN bufs[up].up ELSE up

RecToBuf(bufs, b, up) ==
    LET all == [bufs EXCEPT ![b].in = TRUE]
        real == RealUp(all, up)
    IN  IF up = None \/ all[b].up = real THEN all ELSE Relink(all, b, real)

\* A record: the parent, the child changed in place, the new and the freed nodes.
ProcessTxn(bufs, rec) ==
    LET one == IF rec.parent = None THEN bufs ELSE RecToBuf(bufs, rec.parent, None)
        two == IF rec.child = None THEN one ELSE RecToBuf(one, rec.child, rec.parent)
        over == IF rec.child = None THEN rec.parent ELSE rec.child
        three == FoldLeft(LAMBDA bs, b : [RecToBuf(bs, b, over) EXCEPT ![b].new = TRUE], two, rec.new)
    IN  FoldLeft(LAMBDA bs, b : [RecToBuf(bs, b, over) EXCEPT ![b].freed = TRUE, ![b].level = rec.level],
                 three, rec.freed)

RECURSIVE Unfreed(_, _)
Unfreed(bufs, b) == IF b # None /\ bufs[b].freed THEN Unfreed(bufs, bufs[b].up) ELSE b

\* Keys of the buffer map, in its order.
InOrder(bufs) == SelectSeq([i \in 1..NBlks + 1 |-> IF i = 1 THEN Meta ELSE i - 1], LAMBDA b : bufs[b].in)

ModifyBuffer(bufs, b) ==
    LET real == Unfreed(bufs, bufs[b].up)
    IN  IF real = bufs[b].up THEN bufs ELSE Relink(bufs, b, real)

\* The release assertions at the end of IndexCPContext::recover.
LinksSane(bufs) ==
    \A b \in {k \in Key0 : bufs[k].in} :
        LET up == bufs[b].up
        IN  /\ up # None => ~bufs[up].freed /\ ~bufs[up].new /\ b # Meta /\ bufs[up].wait # 0
            /\ bufs[b].freed => bufs[b].wait = 0

Loaded(bufs, node) ==
    [b \in Key0 |-> IF b = Meta \/ ~bufs[b].in THEN bufs[b]
                    ELSE [bufs[b] EXCEPT !.c = node[b], !.dirtied = node[b].cp]]

Replay(recs) ==
    LET bufs == FoldLeft(ProcessTxn, [b \in Key0 |-> NoRBuf], recs)
    IN  FoldLeft(ModifyBuffer, bufs, InOrder(bufs))

------------------------------------------------------------------------------
(* Reading and writing nodes during recovery: straight from and to disk.   *)

Read(r, id) == r.node[id].n

Put(r, b, c) == [r EXCEPT !.node[b] = c, !.writes = Append(@, <<b, c>>)]
PutRoot(r) == [r EXCEPT !.writes = Append(@, <<Meta, r.root>>)]

\* write_node_impl on a buffer of the map: only a clean buffer is written.
WriteBuf(r, b, n) ==
    IF r.bufs[b].st = "clean"
    THEN Put([r EXCEPT !.bufs[b].c = Content(n, r.cp), !.bufs[b].st = "dirty"], b, Content(n, r.cp))
    ELSE [r EXCEPT !.bufs[b].c.n = n]

\* write_node_impl on a node that was just read, or just made.
WriteNode(r, b, n) == Put(r, b, Content(n, r.cp))

\* FixedBlkAllocator while recovering: reserved blocks are skipped.
AllocR(r) == [r EXCEPT !.free = Tail(@), !.bm = @ \cup {Head(r.free)}]
Reserve(r, b) == [r EXCEPT !.free = SelectSeq(@, LAMBDA x : x # b), !.bm = @ \cup {b}]

\* on_root_changed: the superblock is written for the first change only.
OnRootChanged(r, id) ==
    LET one == [r EXCEPT !.root = id, !.msb = TRUE]
    IN  IF r.msb THEN one ELSE PutRoot(one)

RECURSIVE TrueSibling(_, _)
TrueSibling(r, n) ==
    IF n.next = None \/ ~Read(r, n.next).deleted THEN n.next ELSE TrueSibling(r, Read(r, n.next))

FirstChild(n) == IF n.keys # <<>> THEN n.vals[1] ELSE n.edge
SiblingFirstChild(r, n, sib) == IF BT!HasEdge(n) \/ sib = None THEN None ELSE FirstChild(Read(r, sib))

------------------------------------------------------------------------------
(* repair_links: rebuild an interior node from the chain of its children.  *)

\* The largest key along the chain up to the sibling's first child, and what follows it.
RECURSIVE LastChild(_, _, _, _)
LastChild(r, id, sfc, key) ==
    LET c == Read(r, id)
        k == IF ~c.deleted /\ c.keys # <<>> THEN BT!LastKey(c) ELSE key
    IN  IF c.next = None \/ c.next = sfc THEN [key |-> k, next |-> c.next]
        ELSE LastChild(r, c.next, sfc, k)

Cur(w) == Last(w.parents).n
WithCur(w, n) == [w EXCEPT !.parents[Len(w.parents)].n = n]
Ended(w) == [w EXCEPT !.child = None]
Failed(w, st) == [Ended(w) EXCEPT !.ret = st]

\* The last child: it becomes the edge when the parent is the rightmost of its level.
RepairEdge(w, c) ==
    LET p == Cur(w)
    IN  IF c.deleted
        THEN IF p.keys = <<>> THEN Ended(w)
             ELSE Ended(WithCur(w, [p EXCEPT !.keys = Front(@), !.vals = Front(@), !.edge = Last(p.vals)]))
        ELSE IF w.sib = None
        THEN Ended(WithCur(w, [p EXCEPT !.next = None, !.edge = w.child]))
        ELSE Ended(WithCur(w, [p EXCEPT !.next = w.sib]))

\* No room in the parent: go on in a new node to its right.
SplitParent(w) ==
    LET id == Head(w.r.free)
        p == Cur(w)
        right == [BT!NewNode(FALSE, p.level) EXCEPT !.next = p.next]
    IN  [WithCur(w, [p EXCEPT !.next = id]) EXCEPT !.parents = Append(@, [id |-> id, n |-> right]),
                                                   !.r = AllocR(@)]

Advance(w, c) ==
    IF c.next = None THEN IF c.deleted THEN Ended(w) ELSE Failed(w, "not_found")
    ELSE IF c.next = w.stop THEN Ended(w)
    ELSE [w EXCEPT !.child = c.next, !.pre = IF c.deleted THEN @ ELSE w.child]

AddChild(w, c) ==
    LET p == Cur(w)
        key == IF c.keys = <<>> THEN w.orig[w.child] ELSE BT!LastKey(c)
    IN  WithCur(w, [p EXCEPT !.keys = Append(@, key), !.vals = Append(@, w.child)])

\* A deleted child is skipped: the child before it is linked past it, on disk.
SkipChild(w, c) ==
    IF w.pre = None THEN w
    ELSE [w EXCEPT !.r = WriteNode(@, w.pre, [Read(@, w.pre) EXCEPT !.next = c.next])]

TakeChild(w, c) ==
    IF c.deleted THEN Advance(SkipChild(w, c), c)
    ELSE IF c.keys = <<>> /\ w.child \notin DOMAIN w.orig THEN Ended(w)
    ELSE Advance(AddChild(w, c), c)

WalkChild(w, c) ==
    LET foreign == w.sib # None /\ w.child \notin DOMAIN w.orig
        p == Cur(w)
    IN  IF BT!HasEdge(c) \/ (c.leaf /\ c.next = None) THEN RepairEdge(w, c)
        ELSE IF foreign /\ BT!LastKey(c) > w.last THEN Ended(w)
        ELSE IF foreign /\ c.keys = <<>> THEN Ended(WithCur(w, [p EXCEPT !.next = TrueSibling(w.r, p)]))
        ELSE IF Len(p.keys) < BT!Cap THEN TakeChild(w, c)
        ELSE IF w.r.free = <<>> THEN Failed(w, "space_not_avail")
        ELSE TakeChild(SplitParent(w), c)

RECURSIVE Walk(_)
Walk(w) == IF w.child = None THEN w ELSE Walk(WalkChild(w, Read(w.r, w.child)))

\* The key a parent ends with covers what its children hold.
FixLastKey(w) ==
    LET p == Cur(w)
    IN  IF p.keys # <<>> /\ ~BT!HasEdge(p) /\ BT!LastKey(p) < w.last
        THEN WithCur(w, [p EXCEPT !.keys[Len(p.keys)] = w.last]) ELSE w

FixLastChild(w) ==
    LET p == Cur(w)
        id == Last(p.vals)
        c == Read(w.r, id)
    IN  IF p.keys = <<>> \/ BT!HasEdge(p) \/ p.level < 2 THEN w
        ELSE IF c.keys # <<>> /\ BT!LastKey(p) > BT!LastKey(c)
        THEN [w EXCEPT !.ret = "success",
                       !.r = WriteNode(@, id, [c EXCEPT !.keys[Len(c.keys)] = w.last])]
        ELSE [w EXCEPT !.ret = "success"]

\* update_root: the root did not fit into one node any more.
UpdateRoot(w) ==
    LET id == Head(w.r.free)
        inner == Front(w.parents)
        last == Last(w.parents)
        root == [BT!NewNode(FALSE, w.parents[1].n.level + 1) EXCEPT
                    !.keys = [i \in DOMAIN inner |-> BT!LastKey(inner[i].n)] \o
                             (IF BT!HasEdge(last.n) THEN <<>> ELSE <<BT!LastKey(last.n)>>),
                    !.vals = [i \in DOMAIN inner |-> inner[i].id] \o
                             (IF BT!HasEdge(last.n) THEN <<>> ELSE <<last.id>>),
                    !.edge = IF BT!HasEdge(last.n) THEN last.id ELSE None]
    IN  IF Len(w.parents) = 1 \/ w.r.root # w.parents[1].id \/ w.r.free = <<>> THEN w
        ELSE [w EXCEPT !.extra = <<[id |-> id, n |-> root]>>, !.r = OnRootChanged(AllocR(@), id)]

\* transact_nodes with the new nodes, then the repaired one; or nothing of it.
Commit(w, b, before) ==
    IF w.ret # "success" THEN [w.r EXCEPT !.bufs[b].c.n = before]
    ELSE LET news == Tail(w.parents) \o w.extra
             r1 == FoldLeft(LAMBDA r, p : WriteNode(r, p.id, p.n), w.r, news)
         IN  WriteBuf([r1 EXCEPT !.bufs[b].st = "clean", !.bufs[b].wait = @ + Len(news)],
                      b, w.parents[1].n)

\* What the walk starts from; past is the result of following the children.
Adjusted(r, n, sib, past) ==
    LET raise == past.key > BT!LastKey(n)
    IN  [n |-> IF raise /\ sib # None THEN [n EXCEPT !.next = sib] ELSE n,
         last |-> IF raise /\ sib # None THEN past.key ELSE BT!LastKey(n),
         stop |-> IF raise \/ past.key = 0 THEN past.next ELSE None]
Plan(r, n, sib) ==
    IF n.keys = <<>> THEN [n |-> n, last |-> 0, stop |-> None]
    ELSE Adjusted(r, n, sib, LastChild(r, n.vals[1], SiblingFirstChild(r, n, sib), 0))

WalkOf(r, b, n, sib, a) ==
    Walk([r |-> r, child |-> FirstChild(n), pre |-> None, sib |-> sib, last |-> a.last, stop |-> a.stop,
          orig |-> [c \in ToSet(n.vals) |-> n.keys[CHOOSE i \in DOMAIN n.vals : n.vals[i] = c]],
          parents |-> <<[id |-> b, n |-> [a.n EXCEPT !.keys = <<>>, !.vals = <<>>, !.edge = None]]>>,
          extra |-> <<>>, ret |-> "success"])

Rebuild(r, b, n, sib, a) == Commit(FixLastChild(FixLastKey(UpdateRoot(WalkOf(r, b, n, sib, a)))), b, a.n)

RepairWith(r, b, n, sib) ==
    IF n.keys = <<>> /\ sib # None THEN r ELSE Rebuild(r, b, n, sib, Plan(r, n, sib))

RepairLinks(r, b, n) == RepairWith(r, b, n, TrueSibling(r, n))

\* repair_node: an interior node is rebuilt; one linked to the superblock is the root.
RepairNode(r, b) ==
    LET r1 == [r EXCEPT !.bufs[b].dirtied = r.cp]
        n == r.bufs[b].c.n
        r2 == IF n.leaf THEN r1 ELSE RepairLinks(r1, b, n)
    IN  IF b = Meta THEN r
        ELSE IF r.bufs[b].up = Meta THEN OnRootChanged(r2, b) ELSE r2

\* repair_root_node: the old root was written after its split, the superblock was not.
RepairRootNode(r, b) ==
    LET n == r.bufs[b].c.n
    IN  IF r.root # b THEN r
        ELSE IF BT!HasEdge(n) THEN [r EXCEPT !.ok = FALSE]
        ELSE WriteBuf(r, b, [n EXCEPT !.next = None, !.edge = n.next])

------------------------------------------------------------------------------
(* IndexWBCache::recover.                                                  *)

\* was_node_committed: a freed node is when the node above it is; the superblock never is.
RECURSIVE Committed(_, _)
Committed(r, b) ==
    IF b \in {None, Meta} THEN FALSE
    ELSE IF r.bufs[b].freed THEN Committed(r, r.bufs[b].up)
    ELSE r.bufs[b].c.n.live /\ r.bufs[b].dirtied = r.cp

RECURSIVE UpdateCounters(_, _)
UpdateCounters(bufs, b) ==
    LET up == bufs[b].up
    IN  IF bufs[b].wait # 0 \/ up = None THEN bufs
        ELSE UpdateCounters([bufs EXCEPT ![up].wait = @ - 1, ![b].up = None], up)

\* prune_up_buffers: nothing below up is left to wait for.
Prune(r, up) ==
    LET grand == r.bufs[up].up
        bufs == UpdateCounters(r.bufs, up)
    IN  IF r.bufs[up].wait # 0 THEN r
        ELSE [r EXCEPT !.bufs = bufs,
                       !.pruned = @ \o <<up>> \o
                           (IF grand \notin {None, Meta} /\ bufs[grand].wait = 0 THEN <<grand>> ELSE <<>>)]
Detach(r, b) == Prune([r EXCEPT !.bufs[r.bufs[b].up].wait = @ - 1], r.bufs[b].up)

\* The node is freed for good: it is marked on disk.
FreeForGood(r, b) ==
    LET c == [r.bufs[b].c EXCEPT !.n.deleted = TRUE]
    IN  [Put(r, b, c) EXCEPT !.bufs[b].c = c, !.del = @ \cup {b}, !.pend = Append(@, r.bufs[b].up)]

\* The node above was not written: a node of an earlier checkpoint is kept after all.
KeepFreed(r, b) ==
    LET r1 == IF r.bufs[b].new THEN [r EXCEPT !.del = @ \cup {b}]
              ELSE [Reserve(r, b) EXCEPT !.bufs[b].freed = FALSE, !.bufs[b].c.n.deleted = FALSE,
                                         !.parents = IF r.bufs[b].level > 0 THEN Append(@, b) ELSE @]
    IN  IF r.bufs[b].up = None THEN r1 ELSE [Detach(r1, b) EXCEPT !.bufs[b].up = None]

RecoverNew(r, b) ==
    IF Committed(r, b) /\ Committed(r, r.bufs[b].up)
    THEN [Reserve(r, b) EXCEPT !.pend = Append(@, r.bufs[b].up)]
    ELSE [Detach(r, b) EXCEPT !.skip = @ \cup {b}]

\* The first pass: keep or drop what the checkpoint made and freed.
FirstPass(r, b) ==
    IF r.bufs[b].freed THEN IF Committed(r, b) THEN FreeForGood(r, b) ELSE KeepFreed(r, b)
    ELSE IF r.bufs[b].new THEN RecoverNew(r, b) ELSE r

\* delete_stale_links: children that were freed for good leave a parent that was kept.
DropStale(r, n, i) ==
    IF ~Read(r, n.vals[i]).deleted THEN n
    ELSE IF i = 1 THEN BT!RemoveEntries(n, 1, 1)
    ELSE BT!RemoveEntries(BT!UpdateVal(n, i, n.vals[i - 1]), i - 1, i - 1)
DropEdge(r, n) ==
    IF ~BT!HasEdge(n) \/ ~Read(r, n.edge).deleted THEN n
    ELSE IF n.keys = <<>> THEN [n EXCEPT !.edge = None]
    ELSE [n EXCEPT !.edge = Last(n.vals), !.keys = Front(@), !.vals = Front(@)]
Stale(r, n) ==
    DropEdge(r, FoldLeft(LAMBDA m, i : DropStale(r, m, i), n, Reverse([i \in DOMAIN n.keys |-> i])))
StaleWritten(r, b, n, left) ==
    IF left.vals = n.vals /\ left.edge = n.edge THEN r
    ELSE IF left.keys = <<>> /\ left.edge = None
    THEN [WriteBuf(r, b, [left EXCEPT !.deleted = TRUE]) EXCEPT !.bufs[b].freed = TRUE]
    ELSE WriteBuf(r, b, left)
ParentRecover(r, b) ==
    LET n == r.bufs[b].c.n
        r1 == [r EXCEPT !.bufs[b].dirtied = r.cp]
        r2 == IF n.leaf THEN r1 ELSE StaleWritten(r1, b, n, Stale(r1, n))
    IN  IF r2.bufs[b].c.n.deleted THEN [r2 EXCEPT !.del = @ \cup {b}] ELSE [r2 EXCEPT !.kept = Append(@, b)]

\* recover_buf: the last of the buffers below reported; go on upwards.
RECURSIVE RecoverBuf(_, _)
RecoverBuf(r, b) ==
    LET r1 == [r EXCEPT !.bufs[b].wait = @ - 1]
        up == r.bufs[b].up
        r2 == IF ~Committed(r1, b) THEN RepairNode(r1, b)
              ELSE IF up = Meta THEN RepairRootNode(r1, b) ELSE r1
    IN  IF r1.bufs[b].wait # 0 THEN r1 ELSE IF up = None THEN r2 ELSE RecoverBuf(r2, up)

------------------------------------------------------------------------------
(* Btree::validate_node on the disk image.                                 *)

Kids(n) == IF BT!HasEdge(n) THEN Append(n.vals, n.edge) ELSE n.vals

ChildrenValid(node, n, kids) ==
    /\ \A i \in DOMAIN kids :
        LET c == node[kids[i]].n
        IN  /\ ~c.deleted /\ c.level = n.level - 1
            /\ c.keys # <<>> \/ c.leaf \/ BT!HasEdge(c)
            /\ c.keys # <<>> /\ i <= Len(n.keys) => BT!LastKey(c) <= n.keys[i]
            /\ i > 1 => node[kids[i - 1]].n.next = kids[i]
            /\ i > 1 /\ c.keys # <<>> => c.keys[1] > n.keys[i - 1]
    /\ LET c == node[Last(kids)].n
           ends == IF c.leaf THEN c.next = None ELSE BT!HasEdge(c)
       IN  BT!HasEdge(n) <=> ends

NeighborValid(node, n, m, kids) ==
    /\ ~m.deleted /\ m.level = n.level
    /\ m.keys # <<>> => m.keys[1] >= BT!LastKey(n)
    /\ ~n.leaf => /\ m.keys # <<>> \/ BT!HasEdge(m)
                  /\ node[Last(kids)].n.next = FirstChild(m)

ValidNode(node, b) ==
    LET n == node[b].n
        kids == Kids(n)
    IN  n.deleted \/
        /\ n.live
        /\ \A i \in 2..Len(n.keys) : n.keys[i - 1] < n.keys[i]
        /\ ~n.leaf => kids # <<>> /\ None \notin ToSet(kids) /\ ChildrenValid(node, n, kids)
        /\ ~n.leaf => (BT!HasEdge(n) <=> n.next = None)
        /\ n.next # None => n.next # b /\ NeighborValid(node, n, node[n.next].n, kids)

------------------------------------------------------------------------------

Recovering(disk, free) ==
    LET bufs == IF disk.jrnl.cp = disk.cp + 1 THEN Replay(disk.jrnl.recs) ELSE [b \in Key0 |-> NoRBuf]
    IN  [cp |-> disk.cp + 1, node |-> disk.node, root |-> disk.root, msb |-> FALSE, writes |-> <<>>,
         free |-> free, bm |-> disk.bm, bufs |-> Loaded(bufs, disk.node), pend |-> <<>>, del |-> {},
         parents |-> <<>>, kept |-> <<>>, pruned |-> <<>>, skip |-> {}, ok |-> LinksSane(bufs)]

ByLevel(r) == SortSeq(r.parents, LAMBDA a, b : r.bufs[a].level < r.bufs[b].level)

Parents(r) == FoldLeft(ParentRecover, r, ByLevel(r))
RepairKept(r) == FoldLeft(RepairNode, r, r.kept)
RepairPending(r) == FoldLeft(RecoverBuf, r, r.pend)
RepairPruned(r) == FoldLeft(RepairNode, r, r.pruned)

\* The second pass: stale links first, then the kept parents, what is above the
\* committed nodes, and the pruned buffers.
SecondPass(r) == RepairPruned(RepairPending(RepairKept(Parents(r))))

SanityChecked(r) ==
    [r EXCEPT !.ok = /\ @
                     /\ r.pend # <<>> =>
                          \A b \in {k \in Blk : r.bufs[k].in /\ ~r.bufs[k].freed} \ r.skip : ValidNode(r.node, b)]

Recover(disk, free) ==
    LET r == Recovering(disk, free)
    IN  SanityChecked(SecondPass(FoldLeft(FirstPass, r, InOrder(r.bufs))))
==============================================================================
