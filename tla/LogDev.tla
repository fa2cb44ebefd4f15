------------------------------- MODULE LogDev -------------------------------
(***************************************************************************)
(* One LogDev and the HomeLogStores that share it.  Stores append records; *)
(* a flush writes a prefix of the unflushed records as one group; a store  *)
(* truncates its head or rolls back its tail; the device is truncated to   *)
(* the least group some store still needs; the persistent metadata are the *)
(* logdev superblk and the rollback superblk, two separate meta blocks.    *)
(* After a crash the records of the groups on the device, from the         *)
(* persisted start on, are handed back to the stores.                      *)
(*                                                                         *)
(* The journal device is abstracted to the sequence of records written to  *)
(* it (JournalVDev models the device).  A logdev_key is the log index of   *)
(* its record; the key of a group is the index of its first record.  Every *)
(* operation that changes the superblks writes them before it returns, so  *)
(* one copy stands for memory and disk; the one order that matters, a      *)
(* crash after the logdev superblk is written and before the rollback      *)
(* superblk is, is the action TruncateCrash.                               *)
(***************************************************************************)
EXTENDS Integers, Sequences, SequencesExt

CONSTANTS
    StoreIds,    \* the ids the IDReserver hands out, lowest first: 0..n
    AppendMode,  \* the ids whose store is opened with append_mode
    MaxLsn,      \* bound: lsns written or truncated to are at most this
    MaxIdx,      \* bound: log indices are below this
    None         \* no store / no group / no truncation under way

ASSUME StoreIdsAssumption == StoreIds \subseteq Nat /\ AppendMode \subseteq StoreIds
ASSUME BoundsAssumption   == MaxLsn \in Nat /\ MaxIdx \in Nat

VARIABLES
    log,          \* m_log_records and the device: record idx is log[idx + 1]
    stores,       \* m_id_logstore_map
    cut,          \* HomeLogStore::truncate under way on a store
    lastFlushKey, \* m_last_flush_ld_key
    lastTruncIdx, \* m_last_truncate_idx
    sb,           \* the logdev_superblk: start index, store superblks, num_stores
    ids,          \* m_store_info (and the bits of m_id_reserver)
    garbage,      \* m_garbage_store_ids
    rollbacks,    \* the rollback_superblk
    acked,        \* ghost: <<store, lsn, idx>> completed, not truncated nor rolled back
    undone,       \* ghost: indices of the records rolled back
    orphaned,     \* ghost: indices of the records of removed stores
    cutoff        \* ghost: the start lsn a returned truncation promised

vars == <<log, stores, cut, lastFlushKey, lastTruncIdx, sb, ids, garbage,
          rollbacks, acked, undone, orphaned, cutoff>>

Lsns    == 0..MaxLsn
Indices == 0..(MaxIdx - 1)

\* The key of a record that was never written (logdev_key's default).
EmptyKey == -1

NoLsn == -1

------------------------------------------------------------------------------
(* Reading the state. *)

Open      == {s \in StoreIds : stores[s] # None}
Flushed   == {i \in 0..(Len(log) - 1) : log[i + 1].group # None}
NFlushed  == Cardinality(Flushed)
Pending(s) == {i \in 0..(Len(log) - 1) : log[i + 1].group = None /\ log[i + 1].store = s}

IsRolledBackHalfOpen(s, i, rb) == \E r \in rb : r.store = s /\ r.lo <= i /\ i < r.hi

IsRolledBack(s, i, rb) == \E r \in rb : r.store = s /\ r.lo <= i /\ i <= r.hi

NewStore(first) ==
    [start |-> first, next |-> first, tail |-> first - 1, recs |-> <<>>, truncKey |-> 0]

\* The record of lsn, at index i of the group that starts at index g, is on the
\* device.  A record below the tail shares the tail's truncation key, so that
\* truncating to it does not drop the tail's group.
OnWriteCompletion(st, lsn, i, g) ==
    LET key == IF st.tail < lsn THEN g ELSE st.recs[st.tail].trunc
    IN  [st EXCEPT !.tail = Max({@, lsn}),
                   !.next = Max({@, lsn + 1}),
                   !.recs = (lsn :> [key |-> i, trunc |-> key]) @@ @]


OnLogFound(st, lsn, i, g) ==
    IF lsn < st.start THEN st ELSE OnWriteCompletion(st, lsn, i, g)

\* LogDevMetadata::load reads store superblks in id order until it has met
\* num_stores valid ones.
Valid(b)   == {s \in StoreIds : b.first[s] # NoLsn}
LoadList(b) ==
    {s \in Valid(b) : Cardinality({t \in Valid(b) : t <= s}) <= b.num}

------------------------------------------------------------------------------
(* The operations of a store and of the log device. *)

Init ==
    /\ log = <<>>
    /\ stores = [s \in StoreIds |-> None]
    /\ cut = [s \in StoreIds |-> None]
    /\ lastFlushKey = 0
    /\ lastTruncIdx = -1
    /\ sb = [key |-> 0, first |-> [s \in StoreIds |-> NoLsn], num |-> 0]
    /\ ids = {}
    /\ garbage = {}
    /\ rollbacks = {}
    /\ acked = {}
    /\ undone = {}
    /\ orphaned = {}
    /\ cutoff = [s \in StoreIds |-> 0]

\* create_new_log_store: the lowest free id, its superblk persisted.
CreateStore ==
    /\ ids # StoreIds
    /\ LET s == Min(StoreIds \ ids) IN
       /\ ids' = ids \cup {s}
       /\ sb' = [sb EXCEPT !.first[s] = 0, !.num = @ + 1]
       /\ stores' = [stores EXCEPT ![s] = NewStore(0)]
       /\ cutoff' = [cutoff EXCEPT ![s] = 0]
    /\ UNCHANGED <<log, cut, lastFlushKey, lastTruncIdx, garbage, rollbacks, acked,
                   undone, orphaned>>

\* The marker under which a store id becomes garbage.
Marker == Len(log) - 1

\* remove_log_store.  The owner waits for its writes and its truncation first.
RemoveStore(s) ==
    /\ s \in Open /\ cut[s] = None /\ Pending(s) = {}
    /\ stores' = [stores EXCEPT ![s] = None]
    /\ garbage' = garbage \cup {<<Marker, s>>}
    /\ acked' = {a \in acked : a[1] # s}
    /\ orphaned' = orphaned \cup {i \in Flushed : log[i + 1].store = s}
    /\ UNCHANGED <<log, cut, lastFlushKey, lastTruncIdx, sb, ids, rollbacks, undone, cutoff>>

Issue(s, lsn) ==
    /\ Len(log) < MaxIdx
    /\ log' = Append(log, [store |-> s, lsn |-> lsn, group |-> None])

\* append_async of a store in append mode takes the next lsn.
AppendAsync(s) ==
    /\ s \in Open \cap AppendMode
    /\ stores[s].next \in Lsns
    /\ Issue(s, stores[s].next)
    /\ stores' = [stores EXCEPT ![s].next = @ + 1]
    /\ UNCHANGED <<cut, lastFlushKey, lastTruncIdx, sb, ids, garbage, rollbacks,
                   acked, undone, orphaned, cutoff>>

\* write_async of any other store takes the lsn the caller chooses, in any order.
WriteAsync(s, lsn) ==
    /\ s \in Open \ AppendMode
    /\ lsn >= stores[s].start
    /\ cut[s] # None => lsn > cut[s].upto
    /\ lsn \notin DOMAIN stores[s].recs
    /\ \A i \in Pending(s) : log[i + 1].lsn # lsn
    /\ Issue(s, lsn)
    /\ UNCHANGED <<stores, cut, lastFlushKey, lastTruncIdx, sb, ids, garbage,
                   rollbacks, acked, undone, orphaned, cutoff>>

\* flush, under the flush lock: the first n unflushed records become a group
\* (prepare_flush may stop early: the group is full or a record is still being
\* created) and on_flush_completion tells every store.
Flush(n) ==
    LET from  == NFlushed
        group == [k \in 1..n |-> from + k - 1]
        Complete(f, i) ==
            [f EXCEPT ![log[i + 1].store] = OnWriteCompletion(@, log[i + 1].lsn, i, from)]
    IN  /\ n \in 1..(Len(log) - from)
        /\ log' = [k \in DOMAIN log |->
                      IF k \in (from + 1)..(from + n) THEN [log[k] EXCEPT !.group = from]
                                                      ELSE log[k]]
        /\ stores' = FoldLeft(Complete, stores, group)
        /\ lastFlushKey' = from
        /\ acked' = acked \cup {<<log[i + 1].store, log[i + 1].lsn, i>> : i \in Range(group)}
        /\ UNCHANGED <<cut, lastTruncIdx, sb, ids, garbage, rollbacks, undone,
                       orphaned, cutoff>>

\* fill_gap: an empty record for an lsn that will never be written.
FillGap(s, lsn) ==
    /\ s \in Open \ AppendMode
    /\ lsn \in stores[s].start..(stores[s].tail - 1)
    /\ lsn \notin DOMAIN stores[s].recs
    /\ \A i \in Pending(s) : log[i + 1].lsn # lsn
    /\ stores' = [stores EXCEPT ![s].recs =
                     (lsn :> [key |-> EmptyKey, trunc |-> EmptyKey]) @@ @]
    /\ UNCHANGED <<log, cut, lastFlushKey, lastTruncIdx, sb, ids, garbage,
                   rollbacks, acked, undone, orphaned, cutoff>>

\* truncate of a store, first half: the flush at its start has completed the
\* records up to upto (or upto lies beyond the tail: a baseline resync), and the
\* truncation key moves.  Nothing is locked.
TruncateKey(s, upto) ==
    /\ s \in Open /\ cut[s] = None
    /\ upto >= stores[s].start
    /\ IF upto > stores[s].tail
       THEN /\ Pending(s) = {}
            /\ stores' = [stores EXCEPT
                   ![s].tail = upto,
                   ![s].next = Max({@, upto + 1}),
                   ![s].recs = (upto :> [key |-> EmptyKey, trunc |-> EmptyKey]) @@ @]
       ELSE /\ upto \in DOMAIN stores[s].recs
            /\ \A i \in Pending(s) : log[i + 1].lsn > upto
            /\ stores' = [stores EXCEPT ![s].truncKey = stores[s].recs[upto].trunc]
    /\ cut' = [cut EXCEPT ![s] = [upto |-> upto, at |-> "start"]]
    /\ acked' = {a \in acked : a[1] # s \/ a[2] > upto}
    /\ UNCHANGED <<log, lastFlushKey, lastTruncIdx, sb, ids, garbage, rollbacks,
                   undone, orphaned, cutoff>>

\* Second half: the start lsn moves; the device follows unless the caller asked
\* for an in-memory truncation.
TruncateStart(s, memoryOnly) ==
    /\ cut[s] # None /\ cut[s].at = "start"
    /\ LET upto == cut[s].upto
           kept == {l \in DOMAIN stores[s].recs : l > upto}
       IN  stores' = [stores EXCEPT ![s].recs = Restrict(@, kept), ![s].start = upto + 1]
    /\ cut' = [cut EXCEPT ![s] = IF memoryOnly THEN None ELSE [@ EXCEPT !.at = "device"]]
    /\ UNCHANGED <<log, lastFlushKey, lastTruncIdx, sb, ids, garbage, rollbacks,
                   acked, undone, orphaned, cutoff>>

\* A store with no record above its start lets the device be truncated freely.
IsEmpty(st) == st.start - 1 = st.tail


\* The group the device can be truncated to.
SafeKey ==
    LET keys == {stores[s].truncKey : s \in {t \in Open : ~IsEmpty(stores[t])}}
    IN  IF keys = {} THEN lastFlushKey ELSE Min(keys)

NothingToTruncate == SafeKey <= 0 \/ SafeKey <= lastTruncIdx

WithoutStarts(b) == b

\* Every store's start lsn goes into the superblk, whatever is truncated.
WithStarts(b) ==
    [b EXCEPT !.first = [s \in StoreIds |-> IF s \in Open THEN stores[s].start ELSE @[s]]]

\* The ids whose marker has been truncated.
Reclaimed == {g \in garbage : g[1] <= SafeKey}

\* unreserve_store: shrinking the superblk drops the entries above the highest
\* id; otherwise only an id below the highest is cleared.
Unreserve(m, s, shrunk) ==
    LET left  == m.ids \ {s}
        clear == {t \in StoreIds : \/ t = s /\ \E u \in left : s < u
                                   \/ shrunk /\ \A u \in left : u < t}
    IN  [ids |-> left,
         sb  |-> [m.sb EXCEPT !.num = @ - 1,
                              !.first = [t \in StoreIds |-> IF t \in clear THEN NoLsn ELSE @[t]]]]

\* remove_rollback_record_upto and, for a reclaimed id, remove_all_rollback_records.
KeptRollbacks ==
    {r \in rollbacks : r.hi > SafeKey /\ \A g \in Reclaimed : g[2] # r.store}

\* The metadata LogDev::truncate leaves in memory before it persists them.
AfterTruncate(shrunk) ==
    LET order == SetToSortSeq(Reclaimed, LAMBDA a, b : a[1] < b[1])
        Free(m, g) == Unreserve(m, g[2], shrunk)
    IN  FoldLeft(Free, [ids |-> ids, sb |-> [WithStarts(sb) EXCEPT !.key = SafeKey]], order)

\* LogDev::truncate, under the flush lock, the store map lock and the meta mutex.
DeviceTruncate(shrunk) ==
    IF NothingToTruncate
    THEN /\ sb' = WithStarts(sb)
         /\ UNCHANGED <<lastTruncIdx, ids, garbage, rollbacks>>
    ELSE /\ sb' = AfterTruncate(shrunk).sb
         /\ ids' = AfterTruncate(shrunk).ids
         /\ lastTruncIdx' = SafeKey
         /\ garbage' = garbage \ Reclaimed
         /\ rollbacks' = KeptRollbacks

\* The device truncation a store's truncate ends with ...
TruncateDevice(s, shrunk) ==
    /\ cut[s] # None /\ cut[s].at = "device"
    /\ DeviceTruncate(shrunk)
    /\ cut' = [cut EXCEPT ![s] = None]
    /\ cutoff' = [cutoff EXCEPT ![s] = cut[s].upto + 1]
    /\ UNCHANGED <<log, stores, lastFlushKey, acked, undone, orphaned>>

\* ... and the one the resource manager triggers (LogStoreService::device_truncate).
ServiceTruncate(shrunk) ==
    /\ DeviceTruncate(shrunk)
    /\ UNCHANGED <<log, stores, cut, lastFlushKey, acked, undone, orphaned, cutoff>>

\* rollback, under the flush lock, once no append of the store is outstanding:
\* the indices of the records given up are persisted in the rollback superblk.
Rollback(s, to) ==
    LET st   == stores[s]
        gone == {l \in DOMAIN st.recs : l > to}
    IN  /\ s \in Open \cap AppendMode
        /\ to \in (st.start - 1)..(st.tail - 1)
        /\ cut[s] # None => to >= cut[s].upto
        /\ st.tail + 1 = st.next
        /\ to = st.start - 1 \/ to \in DOMAIN st.recs
        /\ gone = (to + 1)..st.tail
        /\ rollbacks' = rollbacks \cup
               {[store |-> s, lo |-> st.recs[to + 1].key, hi |-> st.recs[st.tail].key]}
        /\ stores' = [stores EXCEPT ![s].next = to + 1, ![s].tail = to,
                                    ![s].recs = Restrict(@, DOMAIN @ \ gone)]
        /\ undone' = undone \cup {st.recs[l].key : l \in gone}
        /\ acked' = {a \in acked : a[1] # s \/ a[2] <= to}
        /\ UNCHANGED <<log, cut, lastFlushKey, lastTruncIdx, sb, ids, garbage,
                       orphaned, cutoff>>

------------------------------------------------------------------------------
(* Crash and restart. *)

\* LogDev::start on what the disk holds: the superblk b, the rollback records rb
\* and the flushed records.  Their owners open the stores they had; do_load hands
\* every record from the start index on, unless it was rolled back, to its store;
\* an id nobody opens becomes garbage.
LoadFrom(b, rb) ==
    LET n      == NFlushed
        found  == LoadList(b)
        opened == [s \in StoreIds |->
                      IF s \in found \cap Open THEN NewStore(b.first[s]) ELSE None]
        order  == [k \in 1..(n - b.key) |-> b.key + k - 1]
        Found(f, i) ==
            LET r == log[i + 1]
            IN  IF f[r.store] = None \/ IsRolledBack(r.store, i, rb) THEN f
                ELSE [f EXCEPT ![r.store] = OnLogFound(@, r.lsn, i, r.group)]
    IN  /\ log' = SubSeq(log, 1, n)
        /\ stores' = FoldLeft(Found, opened, order)
        /\ cut' = [s \in StoreIds |-> None]
        /\ lastFlushKey' = 0
        /\ lastTruncIdx' = IF b.key < n THEN b.key ELSE -1
        /\ sb' = b
        /\ ids' = found
        /\ garbage' = {<<n - 1, s>> : s \in found \ Open}
        /\ rollbacks' = rb
        /\ UNCHANGED <<acked, undone, orphaned, cutoff>>

\* A crash at any point; nothing is written while loading.
Restart == LoadFrom(sb, rollbacks)

\* LogDevMetadata::persist writes the logdev superblk, then the rollback superblk:
\* a crash between the two.
TruncateCrash(shrunk) ==
    /\ ~NothingToTruncate
    /\ LoadFrom(AfterTruncate(shrunk).sb, rollbacks)

Next ==
    \/ CreateStore
    \/ \E s \in StoreIds : RemoveStore(s) \/ AppendAsync(s)
    \/ \E s \in StoreIds, lsn \in Lsns :
          WriteAsync(s, lsn) \/ FillGap(s, lsn) \/ TruncateKey(s, lsn)
    \/ \E s \in StoreIds, to \in Lsns \cup {NoLsn} : Rollback(s, to)
    \/ \E n \in 1..MaxIdx : Flush(n)
    \/ \E s \in StoreIds, b \in BOOLEAN : TruncateStart(s, b) \/ TruncateDevice(s, b)
    \/ \E b \in BOOLEAN : ServiceTruncate(b) \/ TruncateCrash(b)
    \/ Restart

Spec == Init /\ [][Next]_vars

------------------------------------------------------------------------------
(* Properties. *)

\* The record of lsn l is on the part of the device that is kept (or has no data).
Covered(s, l) == stores[s].recs[l].key \in {EmptyKey} \cup sb.key..MaxIdx

\* The lsns a store has not been asked to truncate.
Wanted(s) == {l \in DOMAIN stores[s].recs : cut[s] = None \/ l > cut[s].upto}


\* A record whose write was acknowledged, and that its store has neither truncated
\* nor rolled back, is found again at the same place after any crash, also one
\* between the two halves of a truncation or between the two superblk writes (for a
\* store not in append mode: its highest record).
AckedRecovered ==
    \A a \in acked :
        a[1] \in AppendMode \/ (\A b \in acked : b[1] = a[1] => b[2] <= a[2]) =>
            /\ a[1] \in Open
            /\ a[2] \in DOMAIN stores[a[1]].recs
            /\ stores[a[1]].recs[a[2]].key = a[3]

\* A truncation of a store that reached the device is not undone by a restart, even
\* if LogDev::truncate found nothing to truncate on the device (the baseline resync
\* the comment in it describes).
TruncationDurable == \A s \in Open : stores[s].start >= cutoff[s]

\* A record that was rolled back or belonged to a removed store can come back only
\* if it is the first of the group the log starts with: rollback records and store
\* ids are given up as soon as the device is truncated to their index, inclusive.
DeadOnlyAtStart ==
    \A s \in Open : \A l \in DOMAIN stores[s].recs :
        stores[s].recs[l].key \in undone \cup orphaned => stores[s].recs[l].key <= lastTruncIdx

==============================================================================
