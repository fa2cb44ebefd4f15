-------------------------------- MODULE Btree --------------------------------
(***************************************************************************)
(* The concurrent B+tree of src/include/homestore/btree: put, range put,   *)
(* get, get_any, remove, range remove, remove_any and the two query kinds  *)
(* run by several threads over nodes with shared locks.  A thread's step   *)
(* takes one lock and then does everything the code does until the next    *)
(* lock is taken; what it does in between touches only nodes it holds.     *)
(* Nodes are SimpleNodes: all entries have one size.                       *)
(***************************************************************************)
EXTENDS Integers, Sequences, FiniteSets, SequencesExt

CONSTANTS
    Threads,        \* threads calling the tree
    MaxNodes,       \* nodes that can be allocated before space runs out
    NodeSize,       \* bytes of a node's data area
    EntrySize,      \* bytes of one entry
    IdealPct,       \* m_ideal_fill_pct
    MinPct,         \* m_suggested_min_pct
    SplitPct,       \* m_split_pct
    MaxMergeNodes,  \* m_max_merge_nodes
    MaxMergeLevel,  \* m_max_merge_level
    Rebalance,      \* m_rebalance_turned_on
    Loads,          \* sequences of requests that may have built the tree
    Requests,       \* thread -> the requests it may make on the tree
    MaxOps          \* requests per thread

VARIABLES
    nodes,  \* node id -> the node
    root,   \* m_root_node_info
    thr,    \* thread -> the request it runs and where it is in it
    load    \* requests of the loading phase still to run

vars == <<nodes, root, thr, load>>

None == 0
Cap == NodeSize \div EntrySize
Size(n) == Len(n.keys) * EntrySize
IdealFill == (NodeSize * IdealPct) \div 100
SuggestedMin == (NodeSize * MinPct) \div 100

Unallocated == [leaf |-> FALSE, level |-> 0, keys |-> <<>>, vals |-> <<>>, edge |-> None,
                next |-> None, gen |-> 0, deleted |-> FALSE, live |-> FALSE]
Deleted == [Unallocated EXCEPT !.deleted = TRUE]
NewNode(leaf, level) == [Unallocated EXCEPT !.leaf = leaf, !.level = level, !.live = TRUE]
Alloc(ns) == {i \in DOMAIN ns : ~ns[i].live /\ ~ns[i].deleted}
FirstOf(ids) == CHOOSE i \in ids : \A j \in ids : i <= j

LastKey(n) == IF n.keys = <<>> THEN 0 ELSE Last(n.keys)
HasEdge(n) == ~n.leaf /\ n.edge # None
Child(n, i) == IF i = Len(n.keys) + 1 THEN n.edge ELSE n.vals[i]

------------------------------------------------------------------------------
(* BtreeNode: searching a node.  Indices start at 1; Len + 1 is the edge.  *)

BSearch(n, k) ==
    LET above == {i \in DOMAIN n.keys : n.keys[i] >= k}
        at == IF above = {} THEN Len(n.keys) + 1 ELSE FirstOf(above)
    IN  [found |-> at <= Len(n.keys) /\ k \in ToSet(n.keys), idx |-> at]

\* The children, or entries, a range covers; lo > hi when there are none.  The range
\* starts at entry start, and e is what the search for its end found.
Covered(n, start, e) ==
    LET last == Len(n.keys) + 1
        none == [lo |-> 1, hi |-> 0]
        end == IF e.found THEN e.idx ELSE e.idx - 1
    IN  IF start = last THEN IF HasEdge(n) THEN [lo |-> start, hi |-> start] ELSE none
        ELSE IF n.leaf \/ (e.idx = last /\ ~HasEdge(n))
        THEN IF end < start THEN none ELSE [lo |-> start, hi |-> end]
        ELSE [lo |-> start, hi |-> e.idx]
FirstIn(s, r) == IF s.found /\ ~r.incl THEN s.idx + 1 ELSE s.idx
MatchRange(n, r) == Covered(n, FirstIn(BSearch(n, r.lo), r), BSearch(n, r.hi))

FirstOfAny(n, s, e) ==
    IF s.found \/ (s.idx <= Len(n.keys) /\ (e.idx > s.idx \/ (e.idx = s.idx /\ e.found)))
    THEN s.idx ELSE 0
GetAny(n, r) == FirstOfAny(n, BSearch(n, r.lo), BSearch(n, r.hi))

------------------------------------------------------------------------------
(* SimpleNode: changing a node.                                            *)

Changed(n) == [n EXCEPT !.gen = @ + 1]
InsertEntry(n, i, k, v) ==
    Changed([n EXCEPT !.keys = InsertAt(@, i, k), !.vals = InsertAt(@, i, v)])
UpdateVal(n, i, v) ==
    Changed(IF i = Len(n.keys) + 1 THEN [n EXCEPT !.edge = v] ELSE [n EXCEPT !.vals[i] = v])
UpdateEntry(n, i, k, v) ==
    IF i = Len(n.keys) + 1 THEN UpdateVal(n, i, v)
    ELSE Changed([n EXCEPT !.keys[i] = k, !.vals[i] = v])
Without(s, from, to) == SubSeq(s, 1, from - 1) \o SubSeq(s, to + 1, Len(s))
RemoveEntries(n, from, to) ==
    Changed(IF to = Len(n.keys) + 1
            THEN [n EXCEPT !.edge = n.vals[from - 1],
                           !.keys = SubSeq(@, 1, from - 2), !.vals = SubSeq(@, 1, from - 2)]
            ELSE [n EXCEPT !.keys = Without(@, from, to), !.vals = Without(@, from, to)])

\* copy_by_entries: the edge comes along with the last entry.
CopyEntries(n, o, from, count) ==
    Changed([n EXCEPT !.keys = @ \o SubSeq(o.keys, from + 1, from + count),
                      !.vals = @ \o SubSeq(o.vals, from + 1, from + count),
                      !.edge = IF HasEdge(o) /\ from + count = Len(o.keys) THEN o.edge ELSE @])

Least(a, b) == IF a < b THEN a ELSE b

\* is_split_needed: an interior node must have room for one more child.
HasRoom(n, req) ==
    IF n.leaf /\ (req.op = "rput" \/ req.type = "UPDATE") THEN TRUE ELSE Len(n.keys) < Cap

\* split_node: the upper part of child c, entry i of p, moves to a new right sibling.
SplitNode(ns, p, c, i) ==
    LET n == ns[c]
        id == FirstOf(Alloc(ns))
        move == Least(((Size(n) * SplitPct) \div 100) \div EntrySize, Len(n.keys))
        keep == Len(n.keys) - move
        left == Changed([n EXCEPT !.keys = SubSeq(@, 1, keep), !.vals = SubSeq(@, 1, keep),
                                  !.edge = None, !.next = id])
        right == [NewNode(n.leaf, n.level) EXCEPT
                    !.keys = SubSeq(n.keys, keep + 1, Len(n.keys)),
                    !.vals = SubSeq(n.vals, keep + 1, Len(n.vals)),
                    !.edge = n.edge, !.next = n.next]
        parent == InsertEntry(UpdateVal(ns[p], i, id), i, LastKey(left), c)
    IN  [ns EXCEPT ![p] = parent, ![c] = left, ![id] = right]

------------------------------------------------------------------------------
(* merge_nodes: the plan, made on the locked nodes, and its commit.        *)

MergeNeeded(n) == n.level <= MaxMergeLevel /\ Size(n) < SuggestedMin

\* How much of the right siblings fits into the leftmost node in place.
RECURSIVE TakeLeft(_, _, _)
TakeLeft(olds, i, avail) ==
    IF i > Len(olds) THEN [ith |-> i, nth |-> 0]
    ELSE LET n == Len(olds[i].keys)
         IN  IF avail \div EntrySize >= n THEN TakeLeft(olds, i + 1, avail - n * EntrySize)
             ELSE [ith |-> i, nth |-> avail \div EntrySize]

\* The rest goes to new nodes.  A negative size is a huge one once it is unsigned.
Fits(o, cur, st) ==
    LET left == Len(o.keys) - cur.nth
    IN  Least(Least(IF st.avail < 0 THEN left ELSE st.avail \div EntrySize, left),
              Cap - Len(Last(st.news).keys))

\* count entries of o are copied to the newest node; what is left for it.
Filled(o, cur, st, plan, count) ==
    LET m == CopyEntries(Last(st.news), o, cur.nth, count)
        size == IF st.size > count * EntrySize THEN st.size - count * EntrySize ELSE 0
        room == NodeSize - Size(m)
    IN  [news |-> Append(Front(st.news), m), size |-> size, entries |-> st.entries - count,
         avail |-> IF cur.nth + count = Len(o.keys) THEN plan.balanced - Size(m)
                   ELSE IF Len(st.news) = plan.num - 1 /\ size < room THEN room ELSE 0]

Onward(o, cur, count) ==
    IF cur.nth + count = Len(o.keys) THEN [ith |-> cur.ith + 1, nth |-> 0]
    ELSE [cur EXCEPT !.nth = @ + count]

RECURSIVE Pack(_, _, _, _)
Pack(olds, cur, st, plan) ==
    IF cur.ith > Len(olds) THEN st.news
    ELSE IF st.avail = 0 /\ st.entries > 0
    THEN Pack(olds, cur, [st EXCEPT !.news = Append(@, NewNode(plan.leaf, plan.level)),
                                    !.avail = plan.balanced], plan)
    ELSE IF st.news = <<>> THEN <<>>
    ELSE LET o == olds[cur.ith]
             count == Fits(o, cur, st)
         IN  Pack(olds, Onward(o, cur, count), Filled(o, cur, st, plan, count), plan)

SumSizes(s) == FoldLeft(LAMBDA a, n : a + Size(n), 0, s)
SumEntries(s) == FoldLeft(LAMBDA a, n : a + Len(n.keys), 0, s)

\* The number of nodes to end up with, and the size each should have.
Targets(left, total) ==
    LET num == IF total = 0 THEN 1 ELSE (total - 1) \div IdealFill + 1
    IN  [leaf |-> left.leaf, level |-> left.level, num |-> num, total |-> total,
         balanced |-> IF total = 0 THEN 0 ELSE (total - 1) \div num + 1]

\* The leftmost node with all of the siblings before cur.ith and cur.nth entries of that one.
Taken(left, olds, cur) ==
    FoldLeft(LAMBDA n, i : CopyEntries(n, olds[i], 0, IF i < cur.ith THEN Len(olds[i].keys) ELSE cur.nth),
             left, [i \in 1..Least(cur.ith, Len(olds)) |-> i])

NewNodes(left, olds, plan, cur, merged) ==
    Pack(olds, cur, [news |-> <<>>, avail |-> 0, size |-> plan.total - plan.balanced,
                     entries |-> SumEntries(olds) - (Len(merged.keys) - Len(left.keys))], plan)

\* The leftmost node and the new nodes after the merge, or that none is required.
Judged(left, olds, plan, merged, news) ==
    [ok |-> /\ plan.num < Len(olds) + 1 \/ Rebalance
            /\ Size(left) <= plan.balanced
            /\ Len(news) < Len(olds) \/ (Len(news) = Len(olds) /\ Size(olds[1]) # Size(news[1])),
     left |-> merged, news |-> news]
Planned(left, olds, plan) ==
    LET cur == TakeLeft(olds, 1, plan.balanced - Size(left))
        merged == Taken(left, olds, cur)
    IN  Judged(left, olds, plan, merged, NewNodes(left, olds, plan, cur, merged))
MergePlan(left, olds) == Planned(left, olds, Targets(left, Size(left) + SumSizes(olds)))

\* Commit a plan: parent p, leftmost node c at entry i, the nodes olds to its right.
MergeNodes(ns, p, c, i, olds, plan) ==
    LET k == Len(plan.news)
        ids == SetToSortSeq({j \in Alloc(ns) : Cardinality({h \in Alloc(ns) : h < j}) < k}, <)
        after == ns[Last(olds)].next
        plast == LastKey(ns[p])
        excess == Len(olds) - k
        p1 == IF excess = 0 THEN ns[p] ELSE RemoveEntries(ns[p], i + 1, i + excess)
        p2 == FoldLeft(LAMBDA q, j : UpdateEntry(q, i + j, LastKey(plan.news[j]), ids[j]), p1,
                       [j \in 1..k |-> j])
        left == [plan.left EXCEPT !.next = IF k = 0 THEN after ELSE ids[1]]
        p3 == IF left.keys = <<>> THEN p2 ELSE UpdateEntry(p2, i, LastKey(left), c)
        p4 == IF p3.keys # <<>> /\ ~HasEdge(p3) /\ LastKey(p3) # plast
              THEN UpdateEntry(p3, Len(p3.keys), plast, IF k = 0 THEN c ELSE ids[k]) ELSE p3
        new(id) == LET j == CHOOSE h \in 1..k : ids[h] = id
                   IN  [plan.news[j] EXCEPT !.next = IF j = k THEN after ELSE ids[j + 1]]
    IN  [id \in DOMAIN ns |-> IF id = p THEN p4 ELSE IF id = c THEN left
                              ELSE IF id \in ToSet(olds) THEN Deleted
                              ELSE IF id \in ToSet(ids) THEN new(id) ELSE ns[id]]

------------------------------------------------------------------------------
(* A thread: the request, the locks it holds, the frames of the recursive  *)
(* calls that still have children to visit, and where it is.  seen and     *)
(* kept are history: the entries the tree had at some time during the      *)
(* request, and the keys it had all the time.                              *)

Idle == [pc |-> "idle", req |-> [op |-> "none"], acq |-> "R", bt |-> FALSE, held |-> {}, stack |-> <<>>,
         up |-> [p |-> None, c |-> None, pg |-> 0, cg |-> 0], sib |-> <<>>,
         wr |-> [lo |-> 0, incl |-> TRUE, hi |-> 0, trimmed |-> FALSE],
         out |-> {}, page |-> 0, res |-> "none", ops |-> 0, seen |-> {}, kept |-> {}]

Entries(ns) == UNION {{<<ns[i].keys[j], ns[i].vals[j]>> : j \in DOMAIN ns[i].keys} :
                      i \in {i \in DOMAIN ns : ns[i].live /\ ns[i].leaf}}
KeysOf(es) == {e[1] : e \in es}

Init ==
    /\ nodes = [i \in 1..MaxNodes |-> IF i = 1 THEN NewNode(TRUE, 0) ELSE Unallocated]
    /\ root = 1
    /\ thr = [t \in Threads |-> Idle]
    /\ load \in Loads

\* Another thread's locks decide whether t may lock node n in a mode.
CanLock(t, n, mode) ==
    \A u \in Threads \ {t} : \A h \in thr[u].held : h[1] = n => mode = "R" /\ h[2] = "R"
Lock(th, n, mode) == [th EXCEPT !.held = @ \cup {<<n, mode>>}]
Unlock(th, n) == [th EXCEPT !.held = {h \in @ : h[1] # n}]

\* What a step of a thread with record th has come to: the nodes, the root, the
\* node it goes on into, and the status it returns to the frames above.
World(th) == [nodes |-> nodes, root |-> root, th |-> th, into |-> None, mod |-> FALSE, ret |-> "none"]
Into(w, id, mod) == [w EXCEPT !.into = id, !.mod = mod]
Ret(w, st) == [w EXCEPT !.ret = st]

IsPut(req) == req.op \in {"put", "rput"}
IsRemove(req) == req.op \in {"rm", "rrm", "any"}
IsQuery(req) == req.op \in {"sweep", "trav"}

Loaded == \A u \in Threads : thr[u].pc # "done" => thr[u].ops > 0 \/ thr[u].pc = "idle"

Done(w, st) == [w EXCEPT !.th = [@ EXCEPT !.pc = "done", !.bt = FALSE, !.res = st, !.acq = "R", !.page = 0]]
FromRoot(w) == [w EXCEPT !.th = [@ EXCEPT !.pc = "root", !.acq = "R"]]

\* query(): the range moves past the last key returned; on has_more the caller asks again.
QueryDone(w, st) ==
    LET ks == KeysOf(w.th.out)
        top == CHOOSE k \in ks : \A j \in ks : j <= k
        st2 == IF ks # {} /\ top >= w.th.req.hi THEN "success" ELSE st
        w2 == IF ks = {} THEN w ELSE [w EXCEPT !.th.wr = [lo |-> top, incl |-> FALSE, hi |-> w.th.req.hi, trimmed |-> FALSE]]
    IN  IF st2 = "has_more" THEN FromRoot([w2 EXCEPT !.th.page = 0]) ELSE Done(w2, st2)

Finish(w, st) ==
    IF IsQuery(w.th.req) THEN QueryDone(w, st)
    ELSE IF st = "retry" THEN FromRoot(w)
    ELSE Done(w, st)

\* What a call with children visited returns: do_remove forgets a retry once a child was modified.
Masked(f, st) == IF f.mod THEN "success" ELSE st

\* Return st to the frames above; a frame goes on to its next child or returns as well.
RECURSIVE Return(_, _)
Return(w, st) ==
    IF w.th.stack = <<>> THEN Finish(w, st)
    ELSE LET f == Last(w.th.stack)
             popped == [w EXCEPT !.th.stack = Front(@)]
             leave == [popped EXCEPT !.th = Unlock(@, f.node)]
             g == [f EXCEPT !.mod = @ \/ (IsRemove(w.th.req) /\ st = "success")]
             onward == [w EXCEPT !.th = [@ EXCEPT !.stack = Append(Front(@), [g EXCEPT !.cur = @ + 1]),
                                                  !.pc = "child"]]
         IN  IF IsRemove(w.th.req)
             THEN IF f.cur = f.end THEN Return(popped, Masked(g, st)) ELSE onward
             ELSE IF st # "success" THEN Return(leave, st) ELSE onward

\* Fail in the top frame itself, after its locks were given up.
Abort(w, st) ==
    LET f == Last(w.th.stack)
    IN  Ret([w EXCEPT !.th = [Unlock(@, f.node) EXCEPT !.stack = Front(@)]], Masked(f, st))

------------------------------------------------------------------------------
(* Leaves.                                                                  *)

\* mutate_write_leaf_node, single put.
PutLeaf(n, req, at) ==
    IF at.found
    THEN IF req.type = "INSERT" THEN [node |-> n, st |-> "already_exists"]
         ELSE [node |-> UpdateEntry(n, at.idx, req.lo, req.val), st |-> "success"]
    ELSE IF req.type = "UPDATE" THEN [node |-> n, st |-> "not_found"]
    ELSE [node |-> InsertEntry(n, at.idx, req.lo, req.val), st |-> "success"]

\* shift_working_range: go on after the part that was trimmed off.
Shifted(th) ==
    IF th.wr.trimmed
    THEN [th EXCEPT !.wr = [lo |-> @.hi, incl |-> FALSE, hi |-> th.req.hi, trimmed |-> FALSE]]
    ELSE th

KeysIn(n, m) == {<<n.keys[i], n.vals[i]>> : i \in m.lo..m.hi}

\* multi_put and multi_remove: the entries m of a leaf.
MultiPut(n, m, v) == Changed([n EXCEPT !.vals = [i \in DOMAIN @ |-> IF i \in m.lo..m.hi THEN v ELSE @[i]]])
MultiRemove(n, m) == RemoveEntries(n, m.lo, m.hi)

\* What do_put, do_remove and do_get make of the leaf n and the thread th, and the status
\* they return: m is what match_range says, at where the key is, any what get_any finds.
Outcome(n, th, st) == [node |-> n, th |-> th, st |-> st]
LeafPut(n, th, m, at) ==
    LET put == PutLeaf(n, th.req, at)
    IN  IF th.req.op = "put" THEN Outcome(put.node, th, put.st)
        ELSE IF m.hi < m.lo THEN Outcome(n, th, "not_found")
        ELSE Outcome(MultiPut(n, m, th.req.val), Shifted([th EXCEPT !.out = @ \cup KeysIn(n, m)]), "success")
LeafRemove(n, th, m, at, any) ==
    CASE th.req.op = "rm" /\ at.found -> Outcome(RemoveEntries(n, at.idx, at.idx), th, "success")
      [] th.req.op = "rrm" /\ m.hi >= m.lo -> Outcome(MultiRemove(n, m), Shifted(th), "success")
      [] th.req.op = "any" /\ any # 0 ->
           Outcome(RemoveEntries(n, any, any), [th EXCEPT !.out = {<<n.keys[any], n.vals[any]>>}], "success")
      [] OTHER -> Outcome(n, IF th.req.op = "rrm" THEN Shifted(th) ELSE th, "not_found")
LeafGet(n, th, at, any) ==
    LET i == IF th.req.op = "getany" THEN any ELSE IF at.found THEN at.idx ELSE 0
    IN  IF i = 0 THEN Outcome(n, th, "not_found")
        ELSE Outcome(n, [th EXCEPT !.out = {<<n.keys[i], n.vals[i]>>}], "success")
Leaf(n, th, m, at, any) ==
    IF IsPut(th.req) THEN LeafPut(n, th, m, at)
    ELSE IF IsRemove(th.req) THEN LeafRemove(n, th, m, at, any) ELSE LeafGet(n, th, at, any)
LeaveLeaf(w, id, o) == Ret([w EXCEPT !.nodes[id] = o.node, !.th = Unlock(o.th, id)], o.st)

\* multi_get: the entries of the range m, no more than the batch has room for.
Page(th, n, m) ==
    LET hi == Least(m.hi, m.lo + th.req.batch - th.page - 1)
    IN  [th EXCEPT !.out = @ \cup KeysIn(n, [m EXCEPT !.hi = hi]),
                   !.page = IF hi < m.lo THEN @ ELSE @ + hi - m.lo + 1]
MultiGet(th, n) == Page(th, n, MatchRange(n, th.wr))

\* (a plausible slip: a leaf with nothing in the range ends a sweep)
QueryLeafEmpty(w, id, n, th) ==
    IF th.page >= th.req.batch THEN Ret([w EXCEPT !.th = Unlock(th, id)], "has_more")
    ELSE IF th.req.op = "trav" \/ th.page = 0 \/ LastKey(n) >= th.req.hi \/ n.next = None
    THEN Ret([w EXCEPT !.th = Unlock(th, id)], "success")
    ELSE [w EXCEPT !.th = [th EXCEPT !.pc = "next", !.up.c = id]]

\* do_sweep_query and do_traversal_query on a leaf, with its entries in th.  A sweep
\* locks the next leaf before it unlocks this one.
QueryLeaf(w, id, n, th) ==
    IF th.page >= th.req.batch THEN Ret([w EXCEPT !.th = Unlock(th, id)], "has_more")
    ELSE IF th.req.op = "trav" \/ LastKey(n) >= th.req.hi \/ n.next = None
    THEN Ret([w EXCEPT !.th = Unlock(th, id)], "success")
    ELSE [w EXCEPT !.th = [th EXCEPT !.pc = "next", !.up.c = id]]

\* The children of an interior node a request goes down to; m is what match_range says.
Middle(m) == LET i == 1 + (m.hi - m.lo) \div 2 IN IF m.hi < m.lo THEN m ELSE [lo |-> i, hi |-> i]
Between(n, s, e) ==
    LET edge == Len(n.keys) + 1
    IN  IF s = edge /\ ~HasEdge(n) THEN [lo |-> 1, hi |-> 0]
        ELSE [lo |-> s, hi |-> IF e = edge /\ ~HasEdge(n) THEN e - 1 ELSE e]
Route(n, th) ==
    LET s == BSearch(n, IF IsQuery(th.req) THEN th.wr.lo ELSE th.req.lo).idx
    IN  CASE th.req.op \in {"rput", "rrm"} -> MatchRange(n, th.wr)
          [] th.req.op = "any" -> Middle(MatchRange(n, th.wr))
          [] th.req.op = "trav" -> Between(n, s, BSearch(n, th.req.hi).idx)
          [] OTHER -> [lo |-> s, hi |-> s]

\* Go down to the children r of the interior node w.into.
GoDown(w, r) ==
    IF r.hi < r.lo
    THEN Ret([w EXCEPT !.th = Unlock(@, w.into)],
             IF w.th.req.op = "trav" \/ w.mod THEN "success" ELSE "not_found")
    ELSE [w EXCEPT !.th = [@ EXCEPT !.pc = "child",
                             !.stack = Append(@, [node |-> w.into, cur |-> r.lo, end |-> r.hi, mod |-> w.mod])]]

\* Enter a locked node: do_put, do_remove, do_get, do_sweep_query, do_traversal_query.
Enter(w) ==
    LET n == w.nodes[w.into]
    IN  IF ~n.leaf THEN GoDown(w, Route(n, w.th))
        ELSE IF IsQuery(w.th.req) THEN QueryLeaf(w, w.into, n, MultiGet(w.th, n))
        ELSE LeaveLeaf(w, w.into,
                       Leaf(n, w.th, MatchRange(n, w.th.wr), BSearch(n, w.th.req.lo), GetAny(n, w.th.req)))

\* A step of t: into the node it has locked, back to the frames above, and the history.
Step(t, w) ==
    \E v \in {IF w.into = None THEN w ELSE Enter(w)} :
    \E r \in {IF v.ret = "none" THEN v ELSE Return(v, v.ret)} :
        LET now == Entries(r.nodes)
        IN  /\ nodes' = r.nodes
            /\ root' = r.root
            /\ thr' = [u \in Threads |->
                         LET th == IF u = t THEN r.th ELSE thr[u]
                         IN  IF u # t /\ th.pc \in {"idle", "done"} THEN th
                             ELSE [th EXCEPT !.seen = @ \cup now, !.kept = @ \cap KeysOf(now)]]

\* m_btree_lock is taken shared for the whole request; exclusive holders are single steps.
Start(t, req) ==
    /\ thr[t].pc \in {"idle", "done"}
    /\ IF load # <<>> THEN req = Head(load) /\ t = CHOOSE u \in Threads : TRUE
       ELSE req \in Requests[t] /\ thr[t].ops < MaxOps /\ Loaded
    /\ load' = IF load = <<>> THEN load ELSE Tail(load)
    /\ Step(t, World([Idle EXCEPT !.pc = "root", !.req = req, !.bt = TRUE,
                         !.wr = [lo |-> req.lo, incl |-> TRUE, hi |-> req.hi, trimmed |-> FALSE],
                         !.ops = IF load = <<>> THEN thr[t].ops + 1 ELSE 0,
                         !.seen = Entries(nodes), !.kept = KeysOf(Entries(nodes))]))

------------------------------------------------------------------------------
(* The root.                                                                *)

\* check_split_root, under the exclusive lock of the tree.
SplitRoot(t) ==
    /\ thr[t].pc = "splitroot"
    /\ \A u \in Threads \ {t} : ~thr[u].bt
    /\ LET free == Alloc(nodes)
           id == FirstOf(free)
           ns == [nodes EXCEPT ![id] = NewNode(FALSE, nodes[root].level + 1)]
           th == [thr[t] EXCEPT !.pc = "root", !.bt = TRUE]
       IN  Step(t, IF HasRoom(nodes[root], th.req) THEN World(th)
                   ELSE IF Cardinality(free) < 2 THEN Done(World(th), "space_not_avail")
                   ELSE [World(th) EXCEPT !.nodes = SplitNode(ns, id, root, 1), !.root = id])
    /\ UNCHANGED load

\* check_collapse_root: a root without entries gives way to its only child.
CollapseRoot(t) ==
    /\ thr[t].pc = "collapse"
    /\ \A u \in Threads \ {t} : ~thr[u].bt
    /\ LET th == [thr[t] EXCEPT !.pc = "root", !.bt = TRUE]
       IN  Step(t, IF nodes[root].leaf \/ nodes[root].keys # <<>> THEN World(th)
                   ELSE [World(th) EXCEPT !.nodes[root] = Deleted, !.root = nodes[root].edge])
    /\ UNCHANGED load

\* put, get, remove and query: the root is locked, and what it looks like decides.
LockRoot(t) ==
    /\ thr[t].pc = "root"
    /\ CanLock(t, root, thr[t].acq)
    /\ LET th == thr[t]
           n == nodes[root]
           leave(pc) == World([th EXCEPT !.pc = pc, !.bt = FALSE])
           writes == IsPut(th.req) \/ IsRemove(th.req)
       IN  Step(t, IF IsPut(th.req) /\ ~HasRoom(n, th.req) THEN leave("splitroot")
                   ELSE IF IsRemove(th.req) /\ n.keys = <<>>
                   THEN IF n.leaf THEN Done(World(th), "not_found") ELSE leave("collapse")
                   ELSE IF writes /\ n.leaf /\ th.acq = "R" THEN World([th EXCEPT !.acq = "W"])
                   ELSE Into(World(Lock(th, root, th.acq)), root, FALSE))
    /\ UNCHANGED load

------------------------------------------------------------------------------
(* Going down.                                                              *)

\* The parent's key ends what a range request does in this leaf.
Trim(th, p, c, i) ==
    IF th.req.op \in {"rput", "rrm"} /\ c.leaf /\ i <= Len(p.keys) /\ p.keys[i] < th.wr.hi
    THEN [th EXCEPT !.wr.hi = p.keys[i], !.wr.trimmed = TRUE] ELSE th

\* The frame is left before its last child is entered.
Descend(w, c) ==
    LET f == Last(w.th.stack)
        th == Trim(w.th, w.nodes[f.node], w.nodes[c], f.cur)
        last == f.cur = f.end
        kept == IF ~last THEN th.stack
                ELSE IF f.mod THEN Append(Front(th.stack), [f EXCEPT !.node = None]) ELSE Front(th.stack)
    IN  Into([w EXCEPT !.th = [IF last THEN Unlock(th, f.node) ELSE th EXCEPT !.stack = kept]], c, FALSE)

\* The last sibling a merge of the child at i of p may take in.
MergeEnd(p, i) ==
    Least(IF HasEdge(p) THEN Len(p.keys) + 1 ELSE Len(p.keys), i + MaxMergeNodes - 1)

\* A put splits a full child first, a remove tries to merge a thin one with its siblings.
NeedsRestructure(req, p, c, i) ==
    \/ IsPut(req) /\ ~HasRoom(c, req)
    \/ IsRemove(req) /\ MergeNeeded(c) /\ MergeEnd(p, i) > i

\* (a plausible slip: the shared lock is kept while the exclusive one is awaited)
GiveUpNone(th, p) == th

\* upgrade_node_locks: both shared locks are given up; the child's is not in th yet.
GiveUp(th, p) == Unlock(th, p)

\* get_child_and_lock_node; to restructure, both locks are given up and taken for writing.
LockChild(t) ==
    /\ thr[t].pc = "child"
    /\ LET th == thr[t]
           f == Last(th.stack)
           p == nodes[f.node]
           c == Child(p, f.cur)
           writes == IsPut(th.req) \/ IsRemove(th.req)
           mode == IF writes /\ nodes[c].leaf THEN "W" ELSE "R"
       IN  /\ CanLock(t, c, mode)
           /\ Step(t, IF NeedsRestructure(th.req, p, nodes[c], f.cur)
                      THEN World([GiveUp(th, f.node) EXCEPT !.pc = "upgrade",
                                    !.up = [p |-> f.node, c |-> c, pg |-> p.gen, cg |-> nodes[c].gen]])
                      ELSE Descend(World(Lock(th, c, mode)), c))
    /\ UNCHANGED load

\* upgrade_node_locks: the parent first.
LockParent(t) ==
    /\ thr[t].pc = "upgrade"
    /\ CanLock(t, thr[t].up.p, "W")
    /\ Step(t, World([Lock(thr[t], thr[t].up.p, "W") EXCEPT !.pc = "both"]))
    /\ UNCHANGED load

\* (a plausible slip: only freed nodes are noticed)
StaleDeleted(up) == nodes[up.p].deleted \/ nodes[up.c].deleted

\* A node that was changed or freed meanwhile sends the request back to the root.
Stale(up) ==
    \/ nodes[up.p].deleted \/ nodes[up.p].gen # up.pg
    \/ nodes[up.c].deleted \/ nodes[up.c].gen # up.cg

\* Start again in the top frame's node, which is locked.
Again(w) ==
    LET f == Last(w.th.stack)
    IN  Into([w EXCEPT !.th.stack = Front(@)], f.node, f.mod)

NoUp == Idle.up

\* upgrade_node_locks: then the child; a put splits it.
LockBoth(t) ==
    /\ thr[t].pc = "both"
    /\ CanLock(t, thr[t].up.c, "W")
    /\ LET up == thr[t].up
           th == [thr[t] EXCEPT !.up = NoUp]
           f == Last(th.stack)
       IN  Step(t, IF Stale(up) THEN Abort(World(th), "retry")
                   ELSE IF IsRemove(th.req)
                   THEN World([Lock(thr[t], up.c, "W") EXCEPT !.pc = "sibling"])
                   ELSE IF Alloc(nodes) = {} THEN Abort(World(th), "space_not_avail")
                   ELSE Again([World(th) EXCEPT !.nodes = SplitNode(@, up.p, up.c, f.cur)]))
    /\ UNCHANGED load

\* merge_nodes with every sibling locked: nothing to gain, no space, or the merge and
\* the parent's children once more.
Merge(th, up, i, olds, plan) ==
    IF ~plan.ok THEN Descend(World(th), up.c)
    ELSE IF Cardinality(Alloc(nodes)) < Len(plan.news) THEN Abort(World(Unlock(th, up.c)), "merge_failed")
    ELSE Again([World(Unlock(th, up.c)) EXCEPT !.nodes = MergeNodes(@, up.p, up.c, i, olds, plan)])

\* merge_nodes: the siblings are locked from left to right.
LockSibling(t) ==
    /\ thr[t].pc = "sibling"
    /\ LET th == thr[t]
           i == Last(th.stack).cur
           p == nodes[th.up.p]
           s == Child(p, i + Len(th.sib) + 1)
           olds == Append(th.sib, s)
       IN  /\ CanLock(t, s, "W")
           /\ Step(t, IF i + Len(olds) < MergeEnd(p, i) THEN World([Lock(th, s, "W") EXCEPT !.sib = olds])
                      ELSE Merge([th EXCEPT !.up = NoUp, !.sib = <<>>,
                                            !.held = {h \in @ : h[1] \notin ToSet(olds)}],
                                 th.up, i, olds,
                                 MergePlan(nodes[th.up.c], [j \in DOMAIN olds |-> nodes[olds[j]]])))
    /\ UNCHANGED load

\* do_sweep_query: the next leaf.
LockNext(t) ==
    /\ thr[t].pc = "next"
    /\ LET cur == thr[t].up.c
           n == nodes[cur].next
       IN  /\ CanLock(t, n, "R")
           /\ Step(t, Into(World([Unlock(Lock(thr[t], n, "R"), cur) EXCEPT !.up = NoUp]), n, FALSE))
    /\ UNCHANGED load

Quiet == load = <<>> /\ \A t \in Threads : thr[t].pc = "done" /\ thr[t].ops = MaxOps

Advance(t) ==
    \/ LockRoot(t) \/ SplitRoot(t) \/ CollapseRoot(t) \/ LockChild(t) \/ LockParent(t)
    \/ LockBoth(t) \/ LockSibling(t) \/ LockNext(t)

Next ==
    \/ \E t \in Threads : Advance(t) \/ \E req \in Requests[t] \cup ToSet(load) : Start(t, req)
    \/ Quiet /\ UNCHANGED vars

Spec == Init /\ [][Next]_vars

\* The lock t waits for is free, and t takes it.
Ready(t) ==
    LET th == thr[t]
        f == Last(th.stack)
        c == Child(nodes[f.node], f.cur)
        writes == IsPut(th.req) \/ IsRemove(th.req)
    IN  CASE th.pc = "root" -> CanLock(t, root, th.acq)
          [] th.pc \in {"splitroot", "collapse"} -> \A u \in Threads \ {t} : ~thr[u].bt
          [] th.pc = "child" -> CanLock(t, c, IF writes /\ nodes[c].leaf THEN "W" ELSE "R")
          [] th.pc = "upgrade" -> CanLock(t, th.up.p, "W")
          [] th.pc = "both" -> CanLock(t, th.up.c, "W")
          [] th.pc = "sibling" -> CanLock(t, Child(nodes[th.up.p], f.cur + Len(th.sib) + 1), "W")
          [] th.pc = "next" -> CanLock(t, nodes[th.up.c].next, "R")
          [] OTHER -> FALSE
Moved(t) == [thr'[t] EXCEPT !.seen = {}, !.kept = {}] # [thr[t] EXCEPT !.seen = {}, !.kept = {}]

\* Weak fairness of Advance(t), in which Ready(t) stands for ENABLED Advance(t).
LiveSpec == Spec /\ \A t \in Threads : []<>~Ready(t) \/ []<><<Moved(t)>>_vars

------------------------------------------------------------------------------
(* Properties.                                                             *)

\* validate_node_child_relation, one child of an interior node.
ValidChild(n, i) ==
    LET c == nodes[Child(n, i)]
        prev == nodes[Child(n, i - 1)]
    IN  /\ c.live /\ c.level = n.level - 1 /\ c.leaf = (c.level = 0)
        /\ c.keys = <<>> => c.leaf \/ HasEdge(c)
        /\ i <= Len(n.keys) => \A k \in ToSet(c.keys) : k <= n.keys[i]
        /\ i > 1 => prev.next = Child(n, i) /\ \A k \in ToSet(c.keys) : k > n.keys[i - 1]

\* validate_node and validate_next_node_relation.
ValidNode(n) ==
    LET count == IF HasEdge(n) THEN Len(n.keys) + 1 ELSE Len(n.keys)
        last == nodes[Child(n, count)]
        right == nodes[n.next]
    IN  /\ \A i, j \in DOMAIN n.keys : i < j => n.keys[i] < n.keys[j]
        /\ n.next # None => right.live /\ right.level = n.level
        /\ ~n.leaf => /\ count > 0
                      /\ HasEdge(n) = (n.next = None)
                      /\ \A i \in 1..count : ValidChild(n, i)
                      /\ IF last.leaf THEN HasEdge(n) = (last.next = None) ELSE HasEdge(n) = HasEdge(last)
                      /\ n.next # None => last.next = Child(right, 1)

\* The leaf the search for a key ends in.
RECURSIVE LeafOf(_, _)
LeafOf(id, k) ==
    IF nodes[id].leaf THEN id ELSE LeafOf(Child(nodes[id], BSearch(nodes[id], k).idx), k)

\* At every step between two locks, every node of the tree passes validate_node
\* and every entry of a leaf is where the search for its key ends: a split, a
\* merge or a change of the root never loses, misplaces or duplicates an entry,
\* whatever other requests are on their way down.
TreeSane ==
    /\ \A i \in DOMAIN nodes : nodes[i].live => ValidNode(nodes[i])
    /\ nodes[root].live /\ nodes[root].next = None
    /\ \A i \in DOMAIN nodes : nodes[i].live /\ nodes[i].leaf =>
          \A k \in ToSet(nodes[i].keys) : LeafOf(root, k) = i

\* What a request answers is true of the tree at some moment while it ran: a
\* key reported missing was not there all the time, a value returned was there,
\* and a query or a range update that ends with success has every key of its
\* range that was there throughout, and nothing that never was.
Answers ==
    \A t \in Threads :
        LET r == thr[t]
            kept == r.kept \cap (r.req.lo..r.req.hi)
        IN  r.pc = "done" /\ r.ops > 0 =>
              /\ r.out \subseteq r.seen
              /\ r.held = {} /\ r.stack = <<>>
              /\ r.req.op \in {"get", "rm", "put"} /\ r.res = "not_found" => kept = {}
              /\ r.res = "already_exists" => r.req.lo \in KeysOf(r.seen)
              /\ r.req.op = "rm" /\ r.res = "success" => kept = {}
              /\ r.req.op \in {"sweep", "trav", "rput"} /\ r.res = "success" => kept \subseteq KeysOf(r.out)

\* Every request ends: threads that give up their locks to take them again for
\* writing, and start from the root when the tree has changed, do not keep
\* each other from finishing.
RequestsEnd == \A t \in Threads : thr[t].pc # "idle" ~> thr[t].pc = "done"
==============================================================================
