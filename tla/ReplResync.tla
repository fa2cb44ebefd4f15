---------------------------- MODULE ReplResync ----------------------------
\* Snapshots, log truncation and baseline resync of a replication group: two members
\* whose raft state is in nuraft (external) and whose persistent state is the repl dev
\* superblk, the raft config superblk, the log store and what the application saved.
\* Conflicts and data blks are the business of RaftReplDev; here an append is durable at
\* once, and the rest of the group (a further member, always up to date) lets the leader
\* commit whatever it appends.
EXTENDS Naturals, FiniteSets, Sequences, FiniteSetsExt

CONSTANTS
    Servers,        \* the two members
    MaxLsn,         \* bound on the length of the log
    Reserve,        \* resource_limits.raft_logstore_reserve_threshold
    Distance,       \* consensus.snapshot_freq_distance
    MaxFaults,      \* bound on crashes, elections and manual snapshots
    None            \* no value

ASSUME ResyncAssumption ==
    /\ \A x, y, z \in Servers : x = y \/ y = z \/ x = z
    /\ MaxLsn \in Nat /\ Reserve \in Nat /\ Distance \in Nat \ {0} /\ MaxFaults \in Nat
    /\ None \notin Servers \cup Nat

VARIABLES
    leader,
    glog,           \* the leader's log: entries [kind, lim]
    mem,            \* per member, what a crash loses: nu (nuraft's commit index), commit
                    \* (m_commit_upto_lsn), limit (m_truncation_upper_limit), app (the data
                    \* entries the application has), inst (how far a snapshot is received)
                    \* and snp (its last lsn)
    disk,           \* per member: last (last log index), trunc (truncated upto), cp, dc and
                    \* snap (of the superblk), recv (of the raft state), app, rsnap (last
                    \* snapshot created or received)
    faults

vars == <<leader, glog, mem, disk, faults>>

Lsns == 1..MaxLsn
\* the entries whose commit the application sees
DataOf(log, ls) == {l \in ls \cap DOMAIN log : log[l].kind = "data"}
Data(ls) == DataOf(glog, ls)

FreshMem == [nu |-> 0, commit |-> 0, limit |-> 0, app |-> {},
             inst |-> "none", snp |-> 0]
Init ==
    /\ leader \in Servers /\ glog = << >> /\ faults = 0
    /\ mem = [s \in Servers |-> FreshMem]
    /\ disk = [s \in Servers |-> [last |-> 0, trunc |-> 0, cp |-> 0, dc |-> 0, snap |-> 0,
                                  recv |-> FALSE, app |-> {}, rsnap |-> 0]]

\* Crashes, elections and requests of the operator are bounded.
Fault == faults < MaxFaults /\ faults' = faults + 1

----------------------------------------------------------------------------
\* Replication.

Appended(e) ==
    /\ Len(glog) < MaxLsn
    /\ glog' = Append(glog, e)
    /\ disk' = [disk EXCEPT ![leader].last = Len(glog) + 1]

Propose ==
    /\ \E k \in {"data", "config"} :
        /\ k = "config" => \A l \in DOMAIN glog : glog[l].kind # "config"
        /\ Appended([kind |-> k, lim |-> 0])
    /\ UNCHANGED <<leader, mem, faults>>

\* A leader sends what it still has to a member that is not receiving a snapshot.
Replicate(s) ==
    /\ s # leader /\ ~disk[s].recv
    /\ disk[leader].trunc <= disk[s].last /\ disk[s].last < Len(glog)
    /\ disk' = [disk EXCEPT ![s].last = @ + 1]
    /\ UNCHANGED <<leader, glog, mem, faults>>

\* (a plausible slip: the boundary is taken as proposed)
AsProposed(s, lim) == lim
\* update_truncation_boundary: nothing above the checkpoint may go.
Expected(s, lim) == Min({lim, disk[s].cp})
UpdateBoundary(s, m, lim) == [m EXCEPT !.limit = Max({@, Expected(s, lim)})]

NeedSkip(s, l) == l <= disk[s].snap

\* handle_commit and handle_config_commit on the memory m of s
Handled(s, m, l) ==
    CASE glog[l].kind = "trunc"  -> UpdateBoundary(s, m, glog[l].lim)
      [] glog[l].kind = "data"   -> [m EXCEPT !.app = @ \cup {l}]
      [] glog[l].kind = "config" -> m

\* commit_ext and commit_config: what a snapshot covers is skipped.
Commit(s) ==
    LET l == mem[s].nu + 1 IN
    /\ l <= disk[s].last
    /\ mem' = [mem EXCEPT ![s] =
                IF NeedSkip(s, l) THEN [@ EXCEPT !.nu = l]
                ELSE [Handled(s, @, l) EXCEPT !.nu = l, !.commit = l]]
    /\ UNCHANGED <<leader, glog, disk, faults>>

----------------------------------------------------------------------------
\* Checkpoints.  The switchover, the flush of the application's state and that of the
\* superblk are one step: what else happens in between only makes the saved values older,
\* which an earlier checkpoint does too, and Restart chooses what of a checkpoint in
\* flight had reached the disk.

CpFlushed(m, d) == [d EXCEPT !.app = m.app, !.cp = m.commit, !.dc = Max({@, m.commit})]

CpFlush(s) ==
    /\ disk' = [disk EXCEPT ![s] = CpFlushed(mem[s], @)]
    /\ UNCHANGED <<leader, glog, mem, faults>>

----------------------------------------------------------------------------
\* Snapshots and truncation on the member that creates them.

\* ReplLogStore::compact: never above the local truncation limit.  Truncating past the
\* end leaves a hole up to the lsn.
Compact(s, d, upto) ==
    LET eff == Min({upto, mem[s].limit}) IN
    [d EXCEPT !.trunc = Max({@, eff}), !.last = Max({@, eff})]

\* propose_truncate_boundary
Boundary(s) ==
    LET minimum == Min({mem[s].commit} \cup {disk[p].last : p \in Servers})
        floor   == IF mem[s].commit > Reserve THEN mem[s].commit - Reserve ELSE 0
    IN  Max({floor, minimum})

\* on_create_snapshot, then nuraft compacts the log up to the snapshot.
CreateSnapshot(s) ==
    LET d == Compact(s, [disk[s] EXCEPT !.rsnap = mem[s].nu], mem[s].nu) IN
    /\ mem[s].inst = "none" /\ ~disk[s].recv
    /\ mem[s].nu >= disk[s].rsnap + Distance
    /\ IF s = leader /\ Boundary(s) > 0 /\ Len(glog) < MaxLsn
       THEN /\ glog' = Append(glog, [kind |-> "trunc", lim |-> Boundary(s)])
            /\ disk' = [disk EXCEPT ![s] = [d EXCEPT !.last = @ + 1]]
       ELSE disk' = [disk EXCEPT ![s] = d] /\ UNCHANGED glog
    /\ UNCHANGED <<leader, mem, faults>>

\* trigger_snapshot_creation(compact_lsn): flush, move the boundary, snapshot, compact.
TriggerSnapshot(s, l) ==
    LET d == CpFlushed(mem[s], disk[s])
        lim == Max({mem[s].limit, Min({l, d.cp})}) IN
    /\ mem[s].inst = "none" /\ ~disk[s].recv
    /\ l <= mem[s].commit /\ l > disk[s].trunc
    /\ Fault
    /\ mem' = [mem EXCEPT ![s].limit = lim]
    /\ disk' = [disk EXCEPT ![s] = [d EXCEPT !.rsnap = mem[s].nu,
                                            !.trunc = Max({@, Min({l, lim})})]]
    /\ UNCHANGED <<leader, glog>>

----------------------------------------------------------------------------
\* Baseline resync of a member the leader cannot serve from its log.

\* read_logical_snp_obj: a leader that has not yet committed again what its snapshot
\* includes is not ready.
\* (a plausible slip: the snapshot is read whatever has been committed)
AnySnapshot(snp) == snp > 0
ReadSnpObj(snp) == snp > 0 /\ snp <= mem[leader].commit

\* nuraft refuses a snapshot older than what it has committed, and marks the member as
\* receiving, in its saved state, before the first object; save_snp_resync_data keeps the
\* lsn of the snapshot.
SaveResyncData(s) ==
    /\ s # leader /\ mem[s].inst = "none"
    /\ disk[s].recv \/ disk[leader].trunc > disk[s].last
    /\ ReadSnpObj(disk[leader].rsnap) /\ disk[leader].rsnap >= disk[leader].trunc
    /\ disk[leader].rsnap >= mem[s].nu
    /\ disk' = [disk EXCEPT ![s].recv = TRUE, ![s].snap = disk[leader].rsnap]
    /\ mem' = [mem EXCEPT ![s].inst = "hs", ![s].snp = disk[leader].rsnap]
    /\ UNCHANGED <<leader, glog, faults>>

\* The first object of the application: it clears what it has.
SaveFirstObj(s) ==
    /\ mem[s].inst = "hs" /\ ReadSnpObj(mem[s].snp)
    /\ mem' = [mem EXCEPT ![s].inst = "app", ![s].app = {}]
    /\ UNCHANGED <<leader, glog, disk, faults>>

\* The last object: save_logical_snp_obj lifts the truncation limit and flushes.
\* (a plausible slip: the limit stays)
KeepLimit(m) == m
LiftLimit(m) == [m EXCEPT !.limit = m.snp]
SaveLastObj(s) ==
    LET m == [LiftLimit(mem[s]) EXCEPT !.inst = "last",
                                       !.app = mem[leader].app \cap 1..mem[s].snp] IN
    /\ mem[s].inst = "app" /\ ReadSnpObj(mem[s].snp)
    /\ mem' = [mem EXCEPT ![s] = m]
    /\ disk' = [disk EXCEPT ![s] = CpFlushed(m, @)]
    /\ UNCHANGED <<leader, glog, faults>>

\* nuraft compacts the whole log before it applies the snapshot.
CompactForSnapshot(s) ==
    /\ mem[s].inst = "last"
    /\ disk' = [disk EXCEPT ![s] = Compact(s, @, mem[s].snp)]
    /\ mem' = [mem EXCEPT ![s].inst = "compacted"]
    /\ UNCHANGED <<leader, glog, faults>>

ApplySnapshot(s) ==
    LET m == [mem[s] EXCEPT !.inst = "applied", !.commit = mem[s].snp, !.nu = mem[s].snp] IN
    /\ mem[s].inst = "compacted"
    /\ mem' = [mem EXCEPT ![s] = m]
    /\ disk' = [disk EXCEPT ![s] = CpFlushed(m, [@ EXCEPT !.rsnap = mem[s].snp])]
    /\ UNCHANGED <<leader, glog, faults>>

\* nuraft saves its state (save_state) without the mark.
ResyncDone(s) ==
    /\ mem[s].inst = "applied"
    /\ disk' = [disk EXCEPT ![s].recv = FALSE]
    /\ mem' = [mem EXCEPT ![s].inst = "none", ![s].snp = 0]
    /\ UNCHANGED <<leader, glog, faults>>

----------------------------------------------------------------------------
\* Faults.

\* on_log_found for what the superblk knows to be committed above the checkpoint.
Replayed(s, m, dc) ==
    LET redo == {l \in (disk[s].cp + 1)..dc :
                    ~NeedSkip(s, l) /\ l > disk[s].trunc /\ l <= disk[s].last}
        lims == {Expected(s, glog[l].lim) : l \in {x \in redo : glog[x].kind = "trunc"}}
    IN  [m EXCEPT !.app = @ \cup Data(redo), !.limit = Max({@} \cup lims)]

\* flush_durable_commit_lsn saves the commit lsn from time to time: the one a restart
\* finds is any since it was last seen.  A checkpoint in flight may have saved the
\* application's state and not yet the superblk.
DurableCommits(s) == disk[s].dc..mem[s].commit
DurableApps(s) == {disk[s].app, mem[s].app}

\* A leader that restarts sends a snapshot from its first object on.
Unsent(m) == IF m.inst \in {"hs", "app"} THEN [m EXCEPT !.inst = "none"] ELSE m

Restart(s) ==
    /\ Fault
    /\ \E dc \in DurableCommits(s), app \in DurableApps(s) :
        /\ mem' = [p \in Servers |->
                    IF p = s
                    THEN Replayed(s, [FreshMem EXCEPT !.commit = dc, !.app = app,
                                                      !.nu = Max({dc, disk[s].trunc})], dc)
                    ELSE IF s = leader THEN Unsent(mem[p]) ELSE mem[p]]
        /\ disk' = [disk EXCEPT ![s].dc = dc, ![s].app = app]
    /\ UNCHANGED <<leader, glog>>

\* Only a member that has every entry is elected, and none that is receiving a snapshot.
Elect(s) ==
    /\ Fault
    /\ s # leader /\ ~disk[s].recv /\ disk[s].last = Len(glog)
    /\ leader' = s
    /\ UNCHANGED <<glog, mem, disk>>

Next ==
    \/ Propose
    \/ \E s \in Servers :
        \/ Replicate(s) \/ Commit(s) \/ CpFlush(s) \/ CreateSnapshot(s)
        \/ \E l \in Lsns : TriggerSnapshot(s, l)
        \/ SaveResyncData(s) \/ SaveFirstObj(s) \/ SaveLastObj(s)
        \/ CompactForSnapshot(s) \/ ApplySnapshot(s) \/ ResyncDone(s)
        \/ Restart(s) \/ Elect(s)

\* nuraft replicates and commits whatever it can and resends a snapshot until it is
\* applied.
Resync(s) == \/ SaveResyncData(s) \/ SaveFirstObj(s) \/ SaveLastObj(s)
             \/ CompactForSnapshot(s) \/ ApplySnapshot(s) \/ ResyncDone(s)
Fairness ==
    \A s \in Servers :
        WF_vars(Replicate(s)) /\ WF_vars(Commit(s)) /\ WF_vars(Resync(s))

Spec == Init /\ [][Next]_vars /\ Fairness

----------------------------------------------------------------------------
\* Properties.

\* Whatever is truncated, skipped, replayed or received: a member that takes part in the
\* group has every data entry up to the index nuraft takes for applied.
AppComplete ==
    \A s \in Servers :
        ~disk[s].recv /\ mem[s].inst = "none" => Data(1..mem[s].nu) \subseteq mem[s].app

\* A member that fell behind, or crashed in the middle of a resync, ends up with the
\* whole log applied.
CatchesUp == <>[](\A s \in Servers : mem[s].nu = Len(glog) /\ ~disk[s].recv)

----------------------------------------------------------------------------
\* The inductive invariant behind AppComplete.

Entries == [kind : {"data", "config", "trunc"}, lim : Nat]
Stages == {"none", "hs", "app", "last", "compacted", "applied"}
MemType == [nu : Nat, commit : Nat, limit : Nat, app : SUBSET Nat, inst : Stages, snp : Nat]
DiskType == [last : Nat, trunc : Nat, cp : Nat, dc : Nat, snap : Nat, recv : BOOLEAN,
             app : SUBSET Nat, rsnap : Nat]
TypeOK ==
    /\ leader \in Servers
    /\ glog \in Seq(Entries)
    /\ mem \in [Servers -> MemType]
    /\ disk \in [Servers -> DiskType]

\* The lsns of a member are in order, and its log ends within the leader's.
Ordered(log, m, d) ==
    /\ d.cp <= d.dc /\ d.dc <= m.commit /\ m.commit <= m.nu /\ m.nu <= d.last
    /\ d.trunc <= d.last /\ d.last <= Len(log) /\ d.rsnap <= Len(log)

\* What a member that takes part has on disk is complete up to its checkpoint, and
\* nothing above the checkpoint is truncated, may be truncated or is skipped.
Complete(log, m, d) ==
    /\ d.snap <= d.cp /\ d.trunc <= d.cp /\ m.limit <= d.cp
    /\ DataOf(log, 1..d.cp) \subseteq d.app
    /\ DataOf(log, 1..m.nu) \subseteq m.app

\* A member that receives a snapshot has nothing above it in its log, and nothing that
\* the leader, which has truncated up to lt, could go on from.
Receiving(log, lt, d) ==
    d.last <= d.snap /\ d.snap <= Len(log) /\ (d.last <= lt \/ d.last <= d.trunc)

\* How far the transfer is: the limit is lifted with the last object, the log is empty
\* once it is compacted, and the superblk is saved with the snapshot's lsn before the
\* mark is taken away.
Transfer(log, m, d) ==
    /\ m.inst # "none" => d.recv /\ m.snp = d.snap
    /\ m.inst \in {"none", "hs", "app"} => d.trunc <= m.nu
    /\ m.inst \in {"last", "compacted", "applied"} =>
          m.limit = m.snp /\ DataOf(log, 1..m.snp) \subseteq m.app
    /\ m.inst \in {"compacted", "applied"} => d.trunc = m.snp /\ d.last = m.snp
    /\ m.inst = "applied" =>
          /\ d.cp = m.snp /\ m.nu = m.snp /\ m.commit = m.snp
          /\ DataOf(log, 1..d.cp) \subseteq d.app

MemberOK(log, lt, m, d) ==
    /\ Ordered(log, m, d) /\ Transfer(log, m, d)
    /\ IF d.recv THEN Receiving(log, lt, d) ELSE Complete(log, m, d)

RInv ==
    /\ TypeOK
    /\ ~disk[leader].recv /\ disk[leader].last = Len(glog)
    /\ \A s \in Servers : MemberOK(glog, disk[leader].trunc, mem[s], disk[s])
============================================================================
