--------------------------- MODULE MetaBlkService ---------------------------
(***************************************************************************)
(* The store of superblocks (MetaBlkService).  On disk: the super super    *)
(* block (ssb), a list of meta blks, and for a superblock that does not    *)
(* fit in its meta blk a chain of overflow headers that name data blks.    *)
(*                                                                         *)
(* All operations run under m_meta_mtx, so an operation is one action that *)
(* changes memory and queues its block writes in the order of the code;    *)
(* WriteBlk performs them one at a time, Return ends the operation, and    *)
(* Crash may fall between any two writes.  The content of a blk nobody     *)
(* refers to is Garbage: reading one is a failure.  A data blkid stands    *)
(* for one blk, and sizes are counted in blks.                             *)
(***************************************************************************)
EXTENDS Integers, Sequences, SequencesExt

CONSTANTS
    Bids,      \* the blks of the meta vdev besides the ssb: 1..n
    OvfMax,    \* ovf_blk_max_num_data_blk
    Frags,     \* the numbers of data blkids a superblock may need; 0: it is inline
    Values,    \* contents of superblocks
    Early,     \* client types registered before start()
    Late,      \* client types registered after it, which call read_sub_sb
    Deps,      \* <<x, t>>: t was registered with x among its deps
    None

Types == Early \cup Late

ASSUME MetaAssumption ==
    /\ IsFiniteSet(Bids) /\ Bids = 1..Cardinality(Bids)
    /\ OvfMax \in Nat \ {0} /\ Frags \subseteq Nat
    /\ Early \cap Late = {} /\ Deps \subseteq Early \X Early

Ssb == 0          \* the bid of the ssb
Invalid == -1     \* an invalid BlkId
Garbage == [kind |-> "garbage"]

VARIABLES
    disk,      \* blk contents
    first,     \* the vdev's private data holds first_blkid
    phase,     \* "blank" "scan" "recover" "run" "down" "failed"
    ssbNext,   \* m_ssb->next_bid
    blks,      \* m_meta_blks
    last,      \* *m_last_mblk_id
    used,      \* the blks allocated in the vdev
    todo,      \* block writes of the running operation, in order
    frees,     \* blks the running operation frees at its end
    subs,      \* the types with a registered handler
    told,      \* the types whose superblocks were handed to their client
    held,      \* the superblocks the clients hold, by cookie
    req        \* the request being served

memVars == <<ssbNext, blks, last, used>>
cliVars == <<subs, told, held, req>>
vars == <<disk, first, phase, memVars, todo, frees, cliVars>>

-----------------------------------------------------------------------------
(* Blocks. *)

SsbBlk(next) == [kind |-> "ssb", next |-> next]

\* meta_blk_hdr; sz is context_sz, comp the compressed flag, data the inline
\* context data.  What is stored is the data and whether it was compressed.
Stored(v, z) == [v |-> v, z |-> z]
Mblk(type, prev, next, ovf, sz, z, data) ==
    [kind |-> "mblk", type |-> type, prev |-> prev, next |-> next, ovf |-> ovf,
     sz |-> sz, comp |-> z, data |-> data]

OvfHdr(next, data, sz) == [kind |-> "ovf", next |-> next, data |-> data, sz |-> sz]
DataBlk(s, part) == [kind |-> "data", s |-> s, part |-> part]

\* The number of overflow headers for n data blkids, and the blkids of header i.
NumHdrs(n) == Min({k \in 1..n : n - (k - 1) * OvfMax - 1 <= OvfMax})
HdrData(data, i) == SubSeq(data, (i - 1) * OvfMax + 1, Min({i * OvfMax, Len(data)}))

\* context_sz of header i of k: what is left, for the last one.
HdrSz(data, i, k) == IF i < k THEN OvfMax ELSE Len(data) - (k - 1) * OvfMax

Hdrs(hdrs, data) ==
    [i \in DOMAIN hdrs |->
        OvfHdr(IF i = Len(hdrs) THEN Invalid ELSE hdrs[i + 1],
               HdrData(data, i), HdrSz(data, i, Len(hdrs)))]

\* write_ovf_blk_to_disk: the header, then its data blks; the last one is written
\* with all that is left, past its end if that is more than it holds.
Extent(h, j) == IF j < Len(h.data) THEN 1 ELSE h.sz - Len(h.data) + 1
WriteOvf(bid, h, done, s) ==
    <<<<bid, h>>>> \o
    FlattenSeq([j \in DOMAIN h.data |->
        [e \in 1..Extent(h, j) |-> <<h.data[j] + e - 1, DataBlk(s, done + j + e - 1)>>]])

OvfWrites(hdrs, data, s) ==
    LET h == Hdrs(hdrs, data)
    IN  FlattenSeq([i \in DOMAIN hdrs |-> WriteOvf(hdrs[i], h[i], (i - 1) * OvfMax, s)])

-----------------------------------------------------------------------------
(* Reading the disk. *)

\* The bids met from b on through the next pointers; a walk that ran into a cycle
\* would still end.
RECURSIVE WalkUpTo(_, _)
WalkUpTo(b, n) ==
    IF b = Invalid \/ n = 0 THEN <<>>
    ELSE <<b>> \o (IF b \in Bids /\ "next" \in DOMAIN disk[b]
                   THEN WalkUpTo(disk[b].next, n - 1) ELSE <<>>)

Walk(b) == WalkUpTo(b, Cardinality(Bids) + 1)

Chain == IF disk[Ssb].kind = "ssb" THEN Walk(disk[Ssb].next) ELSE <<>>
OvfChain(b) == IF disk[b].kind = "mblk" THEN Walk(disk[b].ovf) ELSE <<>>

\* The blks of the data of header o, and all blks superblock b occupies.
DataOf(o) == IF disk[o].kind = "ovf" THEN disk[o].data ELSE <<>>
BlksOf(b) ==
    {b} \cup UNION {{o} \cup Range(DataOf(o)) : o \in Range(OvfChain(b))}
Reachable == UNION {BlksOf(b) : b \in Range(Chain)}

\* read_sub_sb_internal: every part is read from where it was written.
PartAt(o, j, e) ==
    LET p == disk[o].data[j] + e - 1 IN IF p \in Bids THEN disk[p] ELSE Garbage
Whole(chain, s) ==
    \A i \in DOMAIN chain : \A j \in DOMAIN DataOf(chain[i]) :
        \A e \in 1..Extent(disk[chain[i]], j) :
            PartAt(chain[i], j, e) = DataBlk(s, (i - 1) * OvfMax + j + e - 1)

\* recover_meta_block: the superblock, or None if the size, the crc or the
\* decompression does not check.
SizeOk(chain, sz) ==
    chain # <<>> /\ (Len(chain) - 1) * OvfMax + disk[Last(chain)].sz = sz
Sb(m, s) == IF m.comp = s.z THEN [type |-> m.type, v |-> s.v] ELSE None
ReadSb(b) ==
    LET m     == disk[b]
        chain == OvfChain(b)
        part1 == PartAt(chain[1], 1, 1)
    IN  IF m.kind # "mblk" THEN None
        ELSE IF m.sz = 0 THEN Sb(m, m.data)
        ELSE IF SizeOk(chain, m.sz) /\ part1.kind = "data" /\ Whole(chain, part1.s)
        THEN Sb(m, part1.s) ELSE None

\* The checks of scan_and_load_meta_blks.
ScanOk ==
    \A b \in Range(Chain) :
        /\ b \in Bids /\ disk[b].kind = "mblk"
        /\ \A o \in Range(OvfChain(b)) : o \in Bids /\ disk[o].kind = "ovf"

-----------------------------------------------------------------------------
Init ==
    /\ disk = [b \in Bids \cup {Ssb} |-> Garbage]
    /\ first = FALSE
    /\ phase = "blank"
    /\ ssbNext = Invalid /\ blks = <<>> /\ last = Invalid /\ used = {}
    /\ todo = <<>> /\ frees = {}
    /\ subs = Early /\ told = {} /\ held = <<>> /\ req = None

Idle == phase \in {"recover", "run"} /\ todo = <<>> /\ req = None

\* format_ssb: the vdev learns the bid of the ssb before the ssb is written.
Format ==
    /\ phase = "blank"
    /\ first' = TRUE
    /\ phase' = "recover"
    /\ todo' = <<<<Ssb, SsbBlk(Invalid)>>>>
    /\ UNCHANGED <<disk, memVars, frees, cliVars>>

\* One write of the running operation.
WriteBlk ==
    /\ todo # <<>>
    /\ disk' = IF Head(todo)[1] \in DOMAIN disk
               THEN [disk EXCEPT ![Head(todo)[1]] = Head(todo)[2]] ELSE disk
    /\ todo' = Tail(todo)
    /\ UNCHANGED <<first, phase, memVars, frees, cliVars>>

\* alloc_meta_blk(s): the allocator serves the lowest free blks.
Alloc(n, u) ==
    LET free == Bids \ u
    IN  [i \in 1..n |-> CHOOSE b \in free : Cardinality({c \in free : c < b}) = i - 1]
Room(n)     == Cardinality(Bids \ used) >= n
NumBlks(n)  == IF n = 0 THEN 0 ELSE n + NumHdrs(n)

\* The data blkids and the headers of a superblock that needs n data blkids,
\* and the writes of its overflow chain.
Laid(n, u, s) ==
    LET bs   == Alloc(NumBlks(n), u)
        data == SubSeq(bs, 1, n)
        hdrs == SubSeq(bs, n + 1, Len(bs))
    IN  [ovf |-> IF n = 0 THEN Invalid ELSE hdrs[1], blks |-> Range(bs),
         writes |-> OvfWrites(hdrs, data, s)]

NoData == Stored(None, FALSE)
InlineData(n, s) == IF n = 0 THEN s ELSE NoData

MayUse(t) == t \in subs /\ t \in told

\* init_meta_blk links: the last meta blk, or the ssb, points to the new one.
LinkedTo(bid, m) ==
    IF last # Invalid
    THEN <<<<last, [blks[last] EXCEPT !.next = bid]>>>>
    ELSE <<<<Ssb, SsbBlk(bid)>>>>

LinkFirst(ovf, bid, m) == LinkedTo(bid, m) \o ovf \o <<<<bid, m>>>>

\* "write blks to disks in reverse order": the chain, the meta blk, the link.
AddWrites(ovf, bid, m) == ovf \o <<<<bid, m>>>> \o LinkedTo(bid, m)

\* add_sub_sb.
AddSubSb(t, v, n, z) ==
    /\ Idle /\ MayUse(t) /\ Room(NumBlks(n) + 1)
    /\ LET bid  == Alloc(1, used)[1]
           s    == Stored(v, z)
           l    == Laid(n, used \cup {bid}, s)
           prev == IF last # Invalid THEN last ELSE Ssb
           m    == Mblk(t, prev, Invalid, l.ovf, n, z, InlineData(n, s))
       IN  /\ todo' = AddWrites(l.writes, bid, m)
           /\ used' = used \cup {bid} \cup l.blks
           /\ blks' = [b \in DOMAIN blks \cup {bid} |->
                          IF b = bid THEN m
                          ELSE IF b = last THEN [blks[b] EXCEPT !.next = bid] ELSE blks[b]]
           /\ ssbNext' = IF last = Invalid THEN bid ELSE ssbNext
           /\ last' = bid
           /\ req' = [op |-> "put", cookie |-> bid, data |-> [type |-> t, v |-> v]]
    /\ UNCHANGED <<disk, first, phase, frees, subs, told, held>>

\* update_sub_sb: in place, the new overflow chain first; compressed is reset before
\* write_meta_blk_internal decides anew.
UpdatedMblk(m, ovf, n, z, data) ==
    [m EXCEPT !.ovf = ovf, !.sz = n, !.comp = z, !.data = data]

OldOvfLeaked(b) == {}

\* What the operation frees once the meta blk is written.
OldOvf(b) == BlksOf(b) \ {b}

UpdateSubSb(b, v, n, z) ==
    /\ Idle /\ b \in DOMAIN held /\ MayUse(blks[b].type) /\ Room(NumBlks(n))
    /\ LET s == Stored(v, z)
           l == Laid(n, used, s)
           m == UpdatedMblk(blks[b], l.ovf, n, z, InlineData(n, s))
       IN  /\ todo' = l.writes \o <<<<b, m>>>>
           /\ used' = used \cup l.blks
           /\ frees' = OldOvf(b)
           /\ blks' = [blks EXCEPT ![b] = m]
           /\ req' = [op |-> "put", cookie |-> b, data |-> [type |-> m.type, v |-> v]]
    /\ UNCHANGED <<disk, first, phase, ssbNext, last, subs, told, held>>

\* remove_sub_sb: the previous blk's next pointer, then the next blk's prev pointer.
RemoveWrites(b) ==
    LET p == blks[b].prev
        n == blks[b].next
    IN  (IF p = Ssb THEN <<<<Ssb, SsbBlk(n)>>>>
                    ELSE <<<<p, [blks[p] EXCEPT !.next = n]>>>>)
        \o (IF n = Invalid THEN <<>> ELSE <<<<n, [blks[n] EXCEPT !.prev = p]>>>>)

\* Some superblock (the checkpoint's) is always there.
RemoveSubSb(b) ==
    /\ Idle /\ b \in DOMAIN held /\ MayUse(blks[b].type) /\ Cardinality(DOMAIN blks) > 1
    /\ LET p == blks[b].prev
           n == blks[b].next
       IN  /\ todo' = RemoveWrites(b)
           /\ blks' = [c \in DOMAIN blks \ {b} |->
                          CASE c = p -> [blks[c] EXCEPT !.next = n]
                            [] c = n -> [blks[c] EXCEPT !.prev = p]
                            [] OTHER -> blks[c]]
           /\ ssbNext' = IF p = Ssb THEN n ELSE ssbNext
           /\ last' = IF n = Invalid THEN p ELSE last
    /\ frees' = BlksOf(b)
    /\ req' = [op |-> "del", cookie |-> b]
    /\ UNCHANGED <<disk, first, phase, used, subs, told, held>>

\* The operation's writes are done: it frees its blks and returns to the client.
Return ==
    /\ req # None /\ todo = <<>>
    /\ used' = used \ frees
    /\ disk' = [b \in DOMAIN disk |-> IF b \in frees THEN Garbage ELSE disk[b]]
    /\ held' = IF req.op = "del" THEN Restrict(held, DOMAIN held \ {req.cookie})
               ELSE [c \in DOMAIN held \cup {req.cookie} |->
                        IF c = req.cookie THEN req.data ELSE held[c]]
    /\ frees' = {} /\ req' = None
    /\ UNCHANGED <<first, phase, ssbNext, blks, last, todo, subs, told>>

-----------------------------------------------------------------------------
(* Stop, crash and restart. *)

\* A crash, or stop(): memory is gone, and so is what no list on disk refers to.
Crash ==
    /\ phase \in {"scan", "recover", "run"}
    /\ phase' = IF first THEN "down" ELSE "blank"
    /\ disk' = [b \in DOMAIN disk |-> IF b \in Bids \ Reachable THEN Garbage ELSE disk[b]]
    /\ ssbNext' = Invalid /\ blks' = <<>> /\ last' = Invalid /\ used' = {}
    /\ todo' = <<>> /\ frees' = {}
    /\ subs' = Early /\ told' = {} /\ held' = <<>> /\ req' = None
    /\ UNCHANGED first

\* load_ssb: asserts the magic and that there is a first meta blk.
LoadSsb ==
    /\ phase = "down"
    /\ IF disk[Ssb].kind = "ssb" /\ disk[Ssb].next # Invalid
       THEN phase' = "scan" /\ ssbNext' = disk[Ssb].next
       ELSE phase' = "failed" /\ UNCHANGED ssbNext
    /\ UNCHANGED <<disk, first, blks, last, used, todo, frees, cliVars>>

PrevIn(chain, i) == IF i = 1 THEN Ssb ELSE chain[i - 1]

\* scan_and_load_meta_blks: a prev pointer a crashed remove left behind is set right
\* in memory and on disk, and the blks met are marked allocated.
Fixed(chain) ==
    [i \in DOMAIN chain |-> [disk[chain[i]] EXCEPT !.prev = PrevIn(chain, i)]]
NotRewritten(chain) == <<>>
Rewritten(chain) ==
    SelectSeq([i \in DOMAIN chain |-> <<chain[i], Fixed(chain)[i]>>], LAMBDA w : disk[w[1]] # w[2])

ScanMetaBlks ==
    /\ phase = "scan" /\ todo = <<>>
    /\ IF ScanOk
       THEN LET chain == Chain IN
            /\ phase' = "recover"
            /\ blks' = [b \in Range(chain) |->
                           Fixed(chain)[CHOOSE i \in DOMAIN chain : chain[i] = b]]
            /\ last' = Last(chain)
            /\ used' = Reachable
            /\ todo' = Rewritten(chain)
       ELSE phase' = "failed" /\ UNCHANGED <<blks, last, used, todo>>
    /\ UNCHANGED <<disk, first, ssbNext, frees, cliVars>>

Of(t) == {b \in DOMAIN blks : blks[b].type = t}

\* recover_meta_sub_type, and read_sub_sb: the client gets its superblocks, or a crc,
\* size or decompression assertion fails.
Deliver(t) ==
    /\ told' = told \cup {t}
    /\ IF \E b \in Of(t) : ReadSb(b) = None
       THEN phase' = "failed" /\ UNCHANGED held
       ELSE /\ held' = [b \in DOMAIN held \cup Of(t) |->
                           IF b \in Of(t) THEN ReadSb(b) ELSE held[b]]
            /\ phase' = IF Early \subseteq told' THEN "run" ELSE phase
    /\ UNCHANGED <<disk, first, memVars, todo, frees, subs, req>>

\* recover: the types with deps in topological order, then the independent ones.
HasDeps(t) == \E d \in Deps : t \in {d[1], d[2]}
DepsTold(t) == \A x \in Early : <<x, t>> \in Deps => x \in told
Recover(t) ==
    /\ phase = "recover" /\ todo = <<>> /\ req = None
    /\ t \in Early \ told
    /\ DepsTold(t)
    /\ HasDeps(t) \/ \A u \in Early : HasDeps(u) => u \in told
    /\ Deliver(t)

\* A client that registers after the scan reads its superblocks itself.
RegisterHandler(t) ==
    /\ phase = "run" /\ Idle /\ t \in Late \ subs
    /\ subs' = subs \cup {t}
    /\ UNCHANGED <<disk, first, phase, memVars, todo, frees, told, held, req>>

ReadSubSb(t) == phase = "run" /\ Idle /\ t \in (Late \cap subs) \ told /\ Deliver(t)

Next ==
    \/ Format \/ WriteBlk \/ Return \/ Crash \/ LoadSsb \/ ScanMetaBlks
    \/ \E t \in Types, v \in Values, n \in Frags, z \in BOOLEAN : AddSubSb(t, v, n, z)
    \/ \E b \in Bids, v \in Values, n \in Frags, z \in BOOLEAN : UpdateSubSb(b, v, n, z)
    \/ \E b \in Bids : RemoveSubSb(b)
    \/ \E t \in Types : Recover(t) \/ RegisterHandler(t) \/ ReadSubSb(t)

Spec == Init /\ [][Next]_vars

-----------------------------------------------------------------------------
(* Properties. *)

Kv == [b \in Range(Chain) |-> ReadSb(b)]

Store == INSTANCE MetaStore WITH
    Cookies <- Bids, Payloads <- [type : Types, v : Values], kv <- Kv

\* "Need to be able to survive crash in the middle at any point" (meta/README.md):
\* whatever writes a crash cuts off, what the list on disk says is a map of
\* superblocks on which add_sub_sb, update_sub_sb and remove_sub_sb are atomic, each
\* durable when it returns, and recover hands the clients exactly that map.
StoreImplemented == Store!Spec

\* The blks superblocks occupy on disk are disjoint and allocated at every instant of
\* every operation, so no allocation overwrites one a crash would bring back; between
\* operations nothing else is allocated: neither the old overflow chain of an update
\* nor anything a crashed operation left is lost.
BlocksAccounted ==
    phase \in {"recover", "run"} =>
        LET chain == Range(Chain)
            live  == UNION {BlksOf(b) : b \in chain}
        IN  /\ live \subseteq used
            /\ \A b, c \in chain : b # c => BlksOf(b) \cap BlksOf(c) = {}
            /\ Idle => used = live

\* The assertions of load_ssb, scan_and_load_meta_blks and recover_meta_block can fail
\* only if the first start crashed before it had added the first superblock, and
\* sanity_check passes between any two operations: the meta blks in memory are those
\* on disk, the prev pointers run against the next pointers although a crashed
\* remove_sub_sb left one behind, and the last blk is known.
SanityCheck ==
    LET chain == Chain
    IN  /\ phase = "failed" => chain = <<>>
        /\ Idle /\ chain # <<>> =>
            /\ DOMAIN blks = Range(chain)
            /\ \A i \in DOMAIN chain : /\ disk[chain[i]] = blks[chain[i]]
                                       /\ disk[chain[i]].prev = PrevIn(chain, i)
            /\ ssbNext = chain[1] /\ last = Last(chain)
=============================================================================
