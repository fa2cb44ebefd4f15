------------------------ MODULE ReplResyncProofs ------------------------
\* Proof that a member of a group is never taken to have applied what its application
\* does not have, for logs of any length, any snapshot distance and reserve, and any
\* number of crashes, elections and manual snapshots.
EXTENDS ReplResync, TLAPS, NaturalsInduction, WellFoundedInduction

----------------------------------------------------------------------------
\* Max and Min.

LEMMA MaxTwo ==
    ASSUME NEW a \in Nat, NEW b \in Nat
    PROVE  Max({a, b}) = IF a >= b THEN a ELSE b
<1>1. \E x \in {a, b} : \A y \in {a, b} : x >= y
  BY SMT
<1> QED BY SMT, <1>1 DEF Max

LEMMA MinTwo ==
    ASSUME NEW a \in Nat, NEW b \in Nat
    PROVE  Min({a, b}) = IF a <= b THEN a ELSE b
<1>1. \E x \in {a, b} : \A y \in {a, b} : x <= y
  BY SMT
<1> QED BY SMT, <1>1 DEF Min

LEMMA MaxBound ==
    ASSUME NEW a \in Nat, NEW b \in Nat, NEW c \in Nat, a <= c, b <= c
    PROVE  Max({a, b}) \in Nat /\ Max({a, b}) <= c /\ a <= Max({a, b})
BY SMT, MaxTwo

LEMMA MinInSet ==
    ASSUME NEW T \in SUBSET Nat, T # {}
    PROVE  Min(T) \in T /\ \A y \in T : Min(T) <= y
<1>1. PICK x \in T : \A y \in T : ~(<<y, x>> \in OpToRel(<, Nat))
  BY NatLessThanWellFounded, WFMin, Zenon
<1>2. \A y \in T : ~(y < x)
  BY Zenon, <1>1 DEF OpToRel
<1>3. \A y \in T : x <= y
  BY SMT, <1>2
<1> QED BY Zenon, <1>3 DEF Min

LEMMA MaxInSet ==
    ASSUME NEW n \in Nat, NEW T \in SUBSET (0..n), T # {}
    PROVE  Max(T) \in T
<1> DEFINE U == {n - x : x \in T}
<1>0. \A x \in T : x \in 0..n /\ n - x \in Nat
  BY SMT
<1>1. U \in SUBSET Nat /\ U # {}
  BY Zenon, <1>0
<1>2. Min(U) \in U /\ \A y \in U : Min(U) <= y
  BY Zenon, <1>1, MinInSet
<1>3. PICK x \in T : n - x = Min(U)
  BY Zenon, <1>2
<1>4. \A y \in T : n - x <= n - y
  BY Zenon, <1>2, <1>3
<1>5. \A y \in T : x >= y
  BY SMT, <1>4
<1> QED BY Zenon, <1>5 DEF Max

----------------------------------------------------------------------------
\* The data entries of a log.

LEMMA DataGrows ==
    ASSUME NEW log \in Seq(Entries), NEW e \in Entries, NEW n \in Nat, n <= Len(log)
    PROVE  DataOf(Append(log, e), 1..n) = DataOf(log, 1..n)
BY SMT DEF DataOf

LEMMA DataMono ==
    ASSUME NEW log, NEW a \in Nat, NEW b \in Nat, a <= b
    PROVE  DataOf(log, 1..a) \subseteq DataOf(log, 1..b)
BY SMT DEF DataOf

----------------------------------------------------------------------------
\* Members.

LEMMA Fields ==
    ASSUME NEW m \in MemType, NEW d \in DiskType
    PROVE  /\ m.nu \in Nat /\ m.commit \in Nat /\ m.limit \in Nat /\ m.app \in SUBSET Nat
           /\ m.inst \in Stages /\ m.snp \in Nat
           /\ d.last \in Nat /\ d.trunc \in Nat /\ d.cp \in Nat /\ d.dc \in Nat
           /\ d.snap \in Nat /\ d.recv \in BOOLEAN /\ d.app \in SUBSET Nat /\ d.rsnap \in Nat
BY Zenon DEF MemType, DiskType

\* Nothing that holds of a member is disturbed when the leader's log grows or is truncated.
LEMMA MemberGrows ==
    ASSUME NEW log \in Seq(Entries), NEW e \in Entries, NEW lt \in Nat, NEW lt2 \in Nat,
           lt <= lt2, NEW m \in MemType, NEW d \in DiskType, MemberOK(log, lt, m, d)
    PROVE  MemberOK(log, lt2, m, d) /\ MemberOK(Append(log, e), lt2, m, d)
<1> DEFINE long == Append(log, e)
<1>1. Len(log) \in Nat /\ Len(long) = Len(log) + 1
  BY SMT
<1>2. Ordered(log, m, d) /\ Transfer(log, m, d)
  BY Zenon DEF MemberOK
<1>3. Receiving(log, lt, d) => Receiving(log, lt2, d) /\ Receiving(long, lt2, d)
  <2> HIDE DEF long
  <2> QED BY SMT, <1>1, Fields DEF Receiving
<1>4. Ordered(long, m, d)
  <2> HIDE DEF long
  <2> QED BY SMT, <1>1, <1>2, Fields DEF Ordered
<1>5. d.cp <= Len(log) /\ m.nu <= Len(log)
  BY SMTT(30), <1>1, <1>2, Fields DEF Ordered
<1>6. Complete(log, m, d) => Complete(long, m, d)
  BY Zenon, <1>5, DataGrows, Fields DEF Complete
<1>7. m.inst \in {"last", "compacted", "applied"} => m.snp <= Len(log)
  <2>1. m.inst # "none" => d.recv /\ m.snp = d.snap
    BY Zenon, <1>2 DEF Transfer
  <2>2. d.recv => d.snap <= Len(log)
    BY Zenon DEF MemberOK, Receiving
  <2> QED BY Zenon, <2>1, <2>2
<1>8. Transfer(long, m, d)
  <2> HIDE DEF long
  <2> QED BY Zenon, <1>2, <1>5, <1>7, DataGrows, Fields DEF Transfer, long
<1> QED BY Zenon, <1>2, <1>3, <1>4, <1>6, <1>8 DEF MemberOK

\* A step of one member s, with the entry it appends when it leads.
LEMMA ServerStep ==
    ASSUME RInv, NEW s \in Servers, NEW m \in MemType, NEW d \in DiskType,
           mem' = [mem EXCEPT ![s] = m], disk' = [disk EXCEPT ![s] = d], leader' = leader,
           glog' = glog \/ \E e \in Entries : glog' = Append(glog, e) /\ s = leader,
           s = leader => ~d.recv /\ d.last = Len(glog') /\ disk[s].trunc <= d.trunc,
           MemberOK(glog', disk[leader].trunc, m, d)
    PROVE  RInv'
<1>1. TypeOK /\ leader \in Servers /\ glog \in Seq(Entries) /\ disk[leader] \in DiskType
      /\ disk[leader].trunc \in Nat /\ d.trunc \in Nat
  BY Zenon, Fields DEF RInv, TypeOK, DiskType
<1>2. glog' \in Seq(Entries)
  BY SMTT(30), <1>1
<1>3. TypeOK'
  BY Zenon, <1>1, <1>2 DEF TypeOK
<1>4. ~disk'[leader'].recv /\ disk'[leader'].last = Len(glog')
  <2>1. CASE s = leader
    BY Zenon, <2>1 DEF RInv, TypeOK
  <2>2. CASE s # leader
    BY Zenon, <2>2 DEF RInv, TypeOK
  <2> QED BY Zenon, <2>1, <2>2
<1>5. PICK lt \in Nat : lt = disk[leader].trunc
  BY Zenon, <1>1
<1>6. PICK lt2 \in Nat : lt2 = disk'[leader'].trunc /\ lt <= lt2
  <2>1. CASE s = leader
    BY Zenon, <2>1, <1>1, <1>5 DEF TypeOK
  <2>2. CASE s # leader
    <3>1. disk'[leader'].trunc = lt
      BY Zenon, <2>2, <1>1, <1>5 DEF TypeOK
    <3> QED BY SMT, <3>1
  <2> QED BY Zenon, <2>1, <2>2
<1>7. ASSUME NEW p \in Servers
      PROVE  MemberOK(glog', lt2, mem'[p], disk'[p])
  <2>0. PICK e0 \in Entries : e0 = [kind |-> "data", lim |-> 0]
    <3>1. [kind |-> "data", lim |-> 0] \in Entries
      BY SMT DEF Entries
    <3> QED BY Zenon, <3>1
  <2>1. CASE p = s
    <3>1. mem'[p] = m /\ disk'[p] = d
      BY Zenon, <2>1, <1>1 DEF TypeOK
    <3>2. MemberOK(glog', lt, m, d)
      BY Zenon, <1>5
    <3>3. PICK lg \in Seq(Entries) : lg = glog'
      BY Zenon, <1>2
    <3>4. MemberOK(lg, lt2, m, d)
      BY Zenon, <3>2, <3>3, <1>6, <2>0, MemberGrows
    <3> QED BY Zenon, <3>1, <3>3, <3>4
  <2>2. CASE p # s
    <3>1. mem'[p] = mem[p] /\ disk'[p] = disk[p] /\ mem[p] \in MemType /\ disk[p] \in DiskType
      BY Zenon, <2>2, <1>1 DEF TypeOK
    <3>2. MemberOK(glog, lt, mem[p], disk[p])
      BY Zenon, <1>5 DEF RInv
    <3>3. CASE glog' = glog
      <4>1. /\ MemberOK(glog, lt2, mem[p], disk[p])
            /\ MemberOK(Append(glog, e0), lt2, mem[p], disk[p])
        BY SMTT(30), <3>1, <3>2, <2>0, <1>1, <1>6, MemberGrows
      <4> QED BY Zenon, <4>1, <3>1, <3>3
    <3>4. ASSUME NEW e \in Entries, glog' = Append(glog, e)
          PROVE  MemberOK(glog', lt2, mem'[p], disk'[p])
      <4>1. MemberOK(Append(glog, e), lt2, mem[p], disk[p])
        BY Zenon, <3>1, <3>2, <1>1, <1>6, MemberGrows
      <4> QED BY Zenon, <4>1, <3>1, <3>4
    <3> QED BY Zenon, <3>3, <3>4
  <2> QED BY Zenon, <2>1, <2>2
<1> QED BY Zenon, <1>3, <1>4, <1>6, <1>7 DEF RInv

\* A member that takes part: what the invariant says of it, and what is enough for it.
LEMMA TakesPart ==
    ASSUME NEW log \in Seq(Entries), NEW lt, NEW m \in MemType, NEW d \in DiskType, ~d.recv
    PROVE  MemberOK(log, lt, m, d) <=>
              m.inst = "none" /\ Ordered(log, m, d) /\ Complete(log, m, d)
<1>1. MemberOK(log, lt, m, d) => m.inst = "none" /\ Ordered(log, m, d) /\ Complete(log, m, d)
  BY Zenon DEF MemberOK, Transfer
<1>2. Ordered(log, m, d) /\ Complete(log, m, d) => d.trunc <= m.nu
  BY SMTT(30), Fields DEF Ordered, Complete
<1>3. m.inst = "none" /\ Ordered(log, m, d) /\ Complete(log, m, d) => Transfer(log, m, d)
  BY Zenon, <1>2 DEF Transfer
<1> QED BY Zenon, <1>1, <1>3 DEF MemberOK

\* Propose and Replicate: the log of a member that takes part gets longer.
LEMMA LogLonger ==
    ASSUME NEW log \in Seq(Entries), NEW lt, NEW m \in MemType, NEW d \in DiskType,
           MemberOK(log, lt, m, d), ~d.recv,
           NEW n \in Nat, d.last <= n, n <= Len(log)
    PROVE  [d EXCEPT !.last = n] \in DiskType /\ MemberOK(log, lt, m, [d EXCEPT !.last = n])
<1> DEFINE e == [d EXCEPT !.last = n]
<1>1. /\ e \in DiskType /\ e.last = n /\ e.trunc = d.trunc /\ e.cp = d.cp /\ e.dc = d.dc
      /\ e.snap = d.snap /\ e.recv = d.recv /\ e.app = d.app /\ e.rsnap = d.rsnap
  BY Zenon DEF DiskType
<1>2. m.inst = "none" /\ Ordered(log, m, d) /\ Complete(log, m, d)
  BY Zenon, TakesPart
<1> HIDE DEF e
<1>3. Len(log) \in Nat
  BY SMT
<1>4. Ordered(log, m, e)
  BY SMT, <1>1, <1>2, <1>3, Fields DEF Ordered
<1>5. Complete(log, m, e)
  BY Zenon, <1>1, <1>2 DEF Complete
<1>6. MemberOK(log, lt, m, e)
  BY Zenon, <1>1, <1>2, <1>4, <1>5, TakesPart
<1> QED BY Zenon, <1>1, <1>6 DEF e

\* A checkpoint saves what the member has committed.
LEMMA FlushedOK ==
    ASSUME NEW log \in Seq(Entries), NEW lt, NEW m \in MemType, NEW d \in DiskType,
           MemberOK(log, lt, m, d)
    PROVE  /\ CpFlushed(m, d) \in DiskType /\ MemberOK(log, lt, m, CpFlushed(m, d))
           /\ CpFlushed(m, d).last = d.last /\ CpFlushed(m, d).trunc = d.trunc
           /\ CpFlushed(m, d).cp = m.commit /\ CpFlushed(m, d).dc = m.commit
           /\ CpFlushed(m, d).snap = d.snap /\ CpFlushed(m, d).recv = d.recv
           /\ CpFlushed(m, d).app = m.app /\ CpFlushed(m, d).rsnap = d.rsnap
<1> DEFINE e == CpFlushed(m, d)
<1>0. Ordered(log, m, d) /\ Transfer(log, m, d)
  BY Zenon DEF MemberOK
<1>a. d.dc \in Nat /\ m.commit \in Nat /\ d.dc <= m.commit
  BY Zenon, <1>0, Fields DEF Ordered
<1>1. Max({d.dc, m.commit}) = m.commit
  BY SMT, <1>a, MaxTwo
<1>2. /\ e \in DiskType /\ e.last = d.last /\ e.trunc = d.trunc /\ e.cp = m.commit
      /\ e.snap = d.snap /\ e.recv = d.recv /\ e.app = m.app /\ e.rsnap = d.rsnap
      /\ e.dc = m.commit
  BY Zenon, <1>1, Fields DEF DiskType, CpFlushed
<1> HIDE DEF e
<1>3. Ordered(log, m, e)
  BY SMT, <1>0, <1>2, Fields DEF Ordered
<1>4. d.recv => Receiving(log, lt, e)
  BY Zenon, <1>2 DEF Receiving, MemberOK
<1>5. ~d.recv => Complete(log, m, e)
  <2> SUFFICES ASSUME ~d.recv PROVE Complete(log, m, e)
    OBVIOUS
  <2>1. Complete(log, m, d)
    BY Zenon DEF MemberOK
  <2>2. e.snap <= e.cp /\ e.trunc <= e.cp /\ m.limit <= e.cp
    BY SMTT(30), <1>0, <1>2, <2>1, Fields DEF Ordered, Complete
  <2>3. m.commit <= m.nu
    BY Zenon, <1>0 DEF Ordered
  <2>4. DataOf(log, 1..m.commit) \subseteq m.app
    BY Zenon, <2>1, <2>3, DataMono, Fields DEF Complete
  <2> QED BY Zenon, <2>1, <2>2, <2>4, <1>2 DEF Complete
<1>6. Transfer(log, m, e)
  BY Zenon, <1>0, <1>2 DEF Transfer
<1>7. MemberOK(log, lt, m, e)
  BY Zenon, <1>2, <1>3, <1>4, <1>5, <1>6 DEF MemberOK
<1> QED BY Zenon, <1>2, <1>7 DEF e

LEMMA DataNext ==
    ASSUME NEW log \in Seq(Entries), NEW n \in Nat
    PROVE  /\ DataOf(log, 1..(n + 1)) \subseteq DataOf(log, 1..n) \cup {n + 1}
           /\ log[n + 1].kind # "data" =>
                 DataOf(log, 1..(n + 1)) \subseteq DataOf(log, 1..n)
<1>1. \A l \in 1..(n + 1) : l \in 1..n \/ l = n + 1
  BY SMT
<1> QED BY Zenon, <1>1 DEF DataOf

\* Commit: what a member that receives a snapshot has in its log is below the snapshot,
\* so it is skipped; a member that takes part skips nothing.
LEMMA CommitStep ==
    ASSUME RInv, NEW s \in Servers, Commit(s)
    PROVE  RInv'
<1> DEFINE m == mem[s]
           d == disk[s]
           l == mem[s].nu + 1
           lt == disk[leader].trunc
<1>1. /\ m \in MemType /\ d \in DiskType /\ glog \in Seq(Entries)
      /\ MemberOK(glog, lt, m, d) /\ l <= d.last
      /\ (s = leader => ~d.recv /\ d.last = Len(glog))
  BY Zenon DEF RInv, TypeOK, Commit
<1>2. /\ m.nu \in Nat /\ d.snap \in Nat /\ d.cp \in Nat /\ l \in Nat /\ d.last \in Nat
      /\ Ordered(glog, m, d) /\ Transfer(glog, m, d)
  BY SMT, <1>1, Fields DEF MemberOK
<1>3. ASSUME NEW r \in MemType, mem' = [mem EXCEPT ![s] = r], MemberOK(glog, lt, r, d)
      PROVE  RInv'
  <2>1. disk' = [disk EXCEPT ![s] = d] /\ leader' = leader /\ glog' = glog
    BY Zenon DEF Commit, RInv, TypeOK
  <2>2. disk[s].trunc <= d.trunc
    BY SMT, <1>1, Fields
  <2> QED BY Zenon, <1>1, <1>3, <2>1, <2>2, ServerStep
<1>4. CASE d.recv
  <2> DEFINE r == [m EXCEPT !.nu = l]
  <2>1. /\ r \in MemType /\ r.nu = l /\ r.commit = m.commit /\ r.limit = m.limit
        /\ r.app = m.app /\ r.inst = m.inst /\ r.snp = m.snp
    BY Zenon, <1>1, <1>2 DEF MemType
  <2>2. l <= d.snap /\ Receiving(glog, lt, d)
    <3>1. Receiving(glog, lt, d)
      BY Zenon, <1>1, <1>4 DEF MemberOK
    <3> QED BY SMTT(30), <1>1, <1>2, <3>1 DEF Receiving
  <2>3. mem' = [mem EXCEPT ![s] = r]
    BY Zenon, <2>2 DEF Commit, NeedSkip
  <2> HIDE DEF r
  <2>4. Ordered(glog, r, d)
    <3> HIDE DEF m, d
    <3> QED BY SMTT(30), <1>1, <1>2, <2>1, Fields DEF Ordered, l, m
  <2>5. d.trunc <= m.nu => d.trunc <= l
    BY SMT, <1>1, <1>2, Fields
  <2>6. m.inst # "applied"
    <3> SUFFICES ASSUME m.inst = "applied" PROVE FALSE
      OBVIOUS
    <3>1. d.last = m.nu
      BY Zenon, <1>2 DEF Transfer
    <3> QED BY SMTT(30), <3>1, <1>1, <1>2
  <2>7. Transfer(glog, r, d)
    <3> HIDE DEF m, d, l
    <3> QED BY Zenon, <1>2, <2>1, <2>5, <2>6 DEF Transfer
  <2>8. MemberOK(glog, lt, r, d)
    BY Zenon, <2>2, <2>4, <2>7, <1>4 DEF MemberOK
  <2> QED BY Zenon, <1>3, <2>1, <2>3, <2>8
<1>5. CASE ~d.recv
  <2> DEFINE h == Handled(s, m, l)
             r == [h EXCEPT !.nu = l, !.commit = l]
  <2>1. m.inst = "none" /\ Ordered(glog, m, d) /\ Complete(glog, m, d)
    BY Zenon, <1>1, <1>5, TakesPart
  <2>2. ~(l <= d.snap) /\ d.cp <= l /\ d.dc <= l
    <3>1. /\ d.snap <= d.cp /\ d.cp <= d.dc /\ d.dc <= m.commit /\ m.commit <= m.nu
          /\ d.dc \in Nat /\ m.commit \in Nat
      BY Zenon, <1>1, <2>1, Fields DEF Ordered, Complete
    <3> HIDE DEF m, d
    <3> QED BY SMT, <3>1, <1>2 DEF m
  <2>3. mem' = [mem EXCEPT ![s] = r]
    BY Zenon, <2>2 DEF Commit, NeedSkip
  <2>4. l \in 1..Len(glog) /\ glog[l] \in Entries
    <3>1. l <= Len(glog) /\ l >= 1
      BY SMTT(30), <1>1, <1>2 DEF Ordered
    <3> QED BY SMTT(30), <3>1, <1>1, <1>2
  <2>5. glog[l].kind \in {"data", "config", "trunc"} /\ glog[l].lim \in Nat
    BY Zenon, <2>4 DEF Entries
  <2>6. /\ h \in MemType /\ h.inst = "none" /\ h.limit <= d.cp
        /\ DataOf(glog, 1..l) \subseteq h.app
    <3>1. CASE glog[l].kind = "trunc"
      <4> DEFINE lim == Max({m.limit, Expected(s, glog[l].lim)})
      <4>1. lim \in Nat /\ lim <= d.cp
        <5>1. m.limit \in Nat /\ d.cp \in Nat /\ m.limit <= d.cp
          BY Zenon, <1>1, <2>1, Fields DEF Complete
        <5>2. Expected(s, glog[l].lim) \in Nat /\ Expected(s, glog[l].lim) <= d.cp
          BY SMT, <2>5, <5>1, MinTwo DEF Expected
        <5> QED BY SMT, <5>1, <5>2, MaxTwo
      <4>2. h = [m EXCEPT !.limit = lim]
        BY SMT, <3>1 DEF Handled, UpdateBoundary
      <4> HIDE DEF lim, h
      <4>3. h \in MemType /\ h.inst = m.inst /\ h.limit = lim /\ h.app = m.app
        BY Zenon, <4>1, <4>2, <1>1 DEF MemType
      <4>4. DataOf(glog, 1..l) \subseteq m.app
        BY Zenon, <3>1, <1>1, <1>2, <2>1, DataNext DEF Complete
      <4> QED BY Zenon, <4>1, <4>3, <4>4, <2>1
    <3>2. CASE glog[l].kind = "data"
      <4>2. h = [m EXCEPT !.app = m.app \cup {l}]
        BY SMT, <3>2 DEF Handled
      <4> HIDE DEF h
      <4>3. h \in MemType /\ h.inst = m.inst /\ h.limit = m.limit /\ h.app = m.app \cup {l}
        BY Zenon, <4>2, <1>1, <1>2 DEF MemType
      <4>4. DataOf(glog, 1..l) \subseteq m.app \cup {l}
        BY Zenon, <3>2, <1>1, <1>2, <2>1, DataNext DEF Complete
      <4> QED BY Zenon, <4>3, <4>4, <2>1 DEF Complete
    <3>3. CASE glog[l].kind = "config"
      <4>2. h = m
        BY SMT, <3>3 DEF Handled
      <4>4. DataOf(glog, 1..l) \subseteq m.app
        BY Zenon, <3>3, <1>1, <1>2, <2>1, DataNext DEF Complete
      <4> QED BY Zenon, <4>2, <4>4, <1>1, <2>1 DEF Complete
    <3> QED BY Zenon, <2>5, <3>1, <3>2, <3>3
  <2> HIDE DEF h
  <2>7. /\ r \in MemType /\ r.nu = l /\ r.commit = l /\ r.limit = h.limit
        /\ r.app = h.app /\ r.inst = h.inst
    BY Zenon, <1>2, <2>6 DEF MemType
  <2> HIDE DEF r
  <2>8. l <= l
    BY SMT, <1>2
  <2>9. Ordered(glog, r, d)
    BY Zenon, <1>1, <2>1, <2>2, <2>7, <2>8 DEF Ordered
  <2>10. Complete(glog, r, d)
    BY Zenon, <2>1, <2>6, <2>7 DEF Complete
  <2>11. MemberOK(glog, lt, r, d)
    BY Zenon, <1>1, <1>5, <2>6, <2>7, <2>9, <2>10, TakesPart
  <2> QED BY Zenon, <1>3, <2>3, <2>7, <2>11
<1> QED BY Zenon, <1>4, <1>5

LEMMA MemberFacts ==
    ASSUME RInv, NEW s \in Servers
    PROVE  /\ mem[s] \in MemType /\ disk[s] \in DiskType /\ glog \in Seq(Entries)
           /\ leader \in Servers /\ disk[leader].trunc \in Nat /\ Len(glog) \in Nat
           /\ MemberOK(glog, disk[leader].trunc, mem[s], disk[s])
           /\ Ordered(glog, mem[s], disk[s]) /\ Transfer(glog, mem[s], disk[s])
           /\ s = leader => ~disk[s].recv /\ disk[s].last = Len(glog)
           /\ disk[s].trunc <= disk[s].trunc
           /\ mem = [mem EXCEPT ![s] = mem[s]] /\ disk = [disk EXCEPT ![s] = disk[s]]
<1>1. /\ mem[s] \in MemType /\ disk[s] \in DiskType /\ glog \in Seq(Entries)
      /\ leader \in Servers /\ disk[leader] \in DiskType
      /\ MemberOK(glog, disk[leader].trunc, mem[s], disk[s])
      /\ s = leader => ~disk[s].recv /\ disk[s].last = Len(glog)
  BY Zenon DEF RInv, TypeOK
<1>2. disk[leader].trunc \in Nat /\ disk[s].trunc \in Nat
  BY Zenon, <1>1 DEF DiskType
<1>3. Len(glog) \in Nat /\ disk[s].trunc <= disk[s].trunc
  BY SMT, <1>1, <1>2
<1>4. mem = [mem EXCEPT ![s] = mem[s]] /\ disk = [disk EXCEPT ![s] = disk[s]]
  BY Zenon DEF RInv, TypeOK
<1> QED BY Zenon, <1>1, <1>2, <1>3, <1>4 DEF MemberOK

LEMMA CpFlushStep ==
    ASSUME RInv, NEW s \in Servers, CpFlush(s)
    PROVE  RInv'
<1> DEFINE d == CpFlushed(mem[s], disk[s])
<1>1. /\ mem' = [mem EXCEPT ![s] = mem[s]] /\ disk' = [disk EXCEPT ![s] = d]
      /\ leader' = leader /\ glog' = glog
  BY Zenon, MemberFacts DEF CpFlush, RInv, TypeOK
<1>2. /\ d \in DiskType /\ MemberOK(glog, disk[leader].trunc, mem[s], d)
      /\ d.last = disk[s].last /\ d.trunc = disk[s].trunc /\ d.recv = disk[s].recv
  <2>1. /\ mem[s] \in MemType /\ disk[s] \in DiskType /\ glog \in Seq(Entries)
        /\ MemberOK(glog, disk[leader].trunc, mem[s], disk[s])
    BY Zenon, MemberFacts
  <2> QED BY Zenon, <2>1, FlushedOK
<1> HIDE DEF d
<1> QED BY Zenon, <1>1, <1>2, MemberFacts, ServerStep

\* An entry that the leader appends, to a log d of its own.
LEMMA AppendStep ==
    ASSUME RInv, NEW e \in Entries, NEW d \in DiskType,
           MemberOK(glog, disk[leader].trunc, mem[leader], d),
           ~d.recv, d.last = Len(glog), disk[leader].trunc <= d.trunc,
           glog' = Append(glog, e), leader' = leader, mem' = mem,
           disk' = [disk EXCEPT ![leader] = [d EXCEPT !.last = Len(glog) + 1]]
    PROVE  RInv'
<1> DEFINE f == [d EXCEPT !.last = Len(glog) + 1]
           lt == disk[leader].trunc
           long == Append(glog, e)
<1>1. leader \in Servers
  BY Zenon DEF RInv, TypeOK
<1>2. /\ mem[leader] \in MemType /\ glog \in Seq(Entries) /\ lt \in Nat
      /\ Len(glog) \in Nat /\ mem' = [mem EXCEPT ![leader] = mem[leader]]
  BY Zenon, <1>1, MemberFacts
<1>3. /\ long \in Seq(Entries) /\ Len(long) = Len(glog) + 1 /\ Len(glog) + 1 \in Nat
      /\ Len(glog) <= Len(glog) + 1 /\ Len(glog) + 1 <= Len(long) /\ lt <= lt
  BY SMT, <1>2
<1>4. MemberOK(long, lt, mem[leader], d)
  BY SMT, <1>2, <1>3, MemberGrows
<1>5. f \in DiskType /\ MemberOK(long, lt, mem[leader], f)
  <2> HIDE DEF long, lt
  <2> QED BY Zenon, <1>2, <1>3, <1>4, LogLonger
<1>6. f.last = Len(glog') /\ f.recv = d.recv /\ f.trunc = d.trunc
  BY Zenon, <1>3 DEF DiskType
<1> HIDE DEF f
<1> QED BY Zenon, <1>1, <1>2, <1>5, <1>6, ServerStep DEF f

LEMMA ProposeStep ==
    ASSUME RInv, Propose
    PROVE  RInv'
<1>1. PICK k \in {"data", "config"} : Appended([kind |-> k, lim |-> 0])
  BY Zenon DEF Propose
<1>2. [kind |-> k, lim |-> 0] \in Entries
  BY SMT DEF Entries
<1>3. disk' = [disk EXCEPT ![leader] = [disk[leader] EXCEPT !.last = Len(glog) + 1]]
  BY Zenon, <1>1 DEF Appended, RInv, TypeOK
<1>4. leader \in Servers
  BY Zenon DEF RInv, TypeOK
<1> QED BY Zenon, <1>1, <1>2, <1>3, <1>4, MemberFacts, AppendStep DEF Appended, Propose

LEMMA ReplicateStep ==
    ASSUME RInv, NEW s \in Servers, Replicate(s)
    PROVE  RInv'
<1> DEFINE d == [disk[s] EXCEPT !.last = disk[s].last + 1]
<1>1. /\ mem' = [mem EXCEPT ![s] = mem[s]] /\ disk' = [disk EXCEPT ![s] = d]
      /\ leader' = leader /\ glog' = glog /\ s # leader /\ ~disk[s].recv
      /\ disk[s].last < Len(glog)
  BY Zenon, MemberFacts DEF Replicate, RInv, TypeOK
<1>2. disk[s].last \in Nat
  BY Zenon, MemberFacts, Fields
<1>3. /\ disk[s].last + 1 \in Nat /\ disk[s].last <= disk[s].last + 1
      /\ disk[s].last + 1 <= Len(glog)
  BY SMT, <1>1, <1>2, MemberFacts
<1>4. d \in DiskType /\ MemberOK(glog, disk[leader].trunc, mem[s], d)
  BY Zenon, <1>1, <1>3, MemberFacts, LogLonger
<1> HIDE DEF d
<1> QED BY Zenon, <1>1, <1>4, MemberFacts, ServerStep

\* The log of a member that takes part is truncated below its checkpoint only: nothing of
\* it goes beyond the end.
LEMMA CompactOK ==
    ASSUME RInv, NEW s \in Servers, ~disk[s].recv
    PROVE  LET d == Compact(s, [disk[s] EXCEPT !.rsnap = mem[s].nu], mem[s].nu) IN
           /\ d \in DiskType /\ MemberOK(glog, disk[leader].trunc, mem[s], d)
           /\ d.last = disk[s].last /\ d.recv = disk[s].recv /\ disk[s].trunc <= d.trunc
<1> DEFINE m == mem[s]
           b == [disk[s] EXCEPT !.rsnap = m.nu]
           eff == Min({m.nu, m.limit})
           t == Max({b.trunc, eff})
           n == Max({b.last, eff})
           d == [b EXCEPT !.trunc = t, !.last = n]
<1>1. /\ m \in MemType /\ disk[s] \in DiskType /\ m.inst = "none"
      /\ Ordered(glog, m, disk[s]) /\ Complete(glog, m, disk[s])
  BY Zenon, MemberFacts, TakesPart
<1>2. /\ b \in DiskType /\ b.last = disk[s].last /\ b.trunc = disk[s].trunc
      /\ b.cp = disk[s].cp /\ b.dc = disk[s].dc /\ b.snap = disk[s].snap
      /\ b.recv = disk[s].recv /\ b.app = disk[s].app /\ b.rsnap = m.nu
  BY Zenon, <1>1, Fields DEF DiskType
<1>3. /\ m.nu \in Nat /\ m.limit \in Nat /\ b.trunc \in Nat /\ b.last \in Nat /\ b.cp \in Nat
      /\ b.dc \in Nat /\ m.commit \in Nat /\ b.trunc <= b.cp /\ m.limit <= b.cp
      /\ b.cp <= b.dc /\ b.dc <= m.commit /\ m.commit <= m.nu /\ m.nu <= b.last
      /\ b.last <= Len(glog) /\ Len(glog) \in Nat
  BY Zenon, <1>1, <1>2, Fields, MemberFacts DEF Ordered, Complete
<1> HIDE DEF m, b
<1>4. eff \in Nat /\ eff <= b.cp /\ eff <= b.last
  BY SMTT(30), <1>3, MinTwo
<1> HIDE DEF eff
<1>a. t \in Nat /\ t <= b.cp /\ b.trunc <= t
  BY Zenon, <1>3, <1>4, MaxBound
<1>b. n = IF b.last >= eff THEN b.last ELSE eff
  BY Zenon, <1>3, <1>4, MaxTwo
<1> HIDE DEF t, n
<1>c. b.cp <= b.last /\ m.nu <= Len(glog)
  BY SMTT(30), <1>3
<1>d. t <= b.last
  BY SMT, <1>3, <1>a, <1>c
<1>e. b.last >= eff
  BY SMTT(30), <1>3, <1>4
<1>5. /\ t \in Nat /\ t <= b.cp /\ b.trunc <= t /\ t <= b.last /\ n = b.last
      /\ m.nu <= Len(glog)
  BY Zenon, <1>a, <1>b, <1>c, <1>d, <1>e
<1>6. /\ d \in DiskType /\ d.last = b.last /\ d.trunc = t
      /\ d.cp = b.cp /\ d.dc = b.dc /\ d.snap = b.snap
      /\ d.recv = b.recv /\ d.app = b.app /\ d.rsnap = b.rsnap
  BY Zenon, <1>2, <1>3, <1>5 DEF DiskType
<1>7. Compact(s, [disk[s] EXCEPT !.rsnap = mem[s].nu], mem[s].nu) = d
  BY Zenon DEF Compact, d, b, t, n, eff, m
<1> HIDE DEF d
<1>8. Ordered(glog, m, d) /\ Complete(glog, m, d)
  BY Zenon, <1>1, <1>2, <1>3, <1>5, <1>6 DEF Ordered, Complete
<1>9. MemberOK(glog, disk[leader].trunc, m, d)
  BY Zenon, <1>1, <1>2, <1>6, <1>8, MemberFacts, TakesPart
<1> QED BY Zenon, <1>2, <1>5, <1>6, <1>7, <1>9 DEF m

LEMMA BoundaryType ==
    ASSUME RInv, NEW s \in Servers
    PROVE  Boundary(s) \in Nat
<1> DEFINE T == {mem[s].commit} \cup {disk[p].last : p \in Servers}
           floor == IF mem[s].commit > Reserve THEN mem[s].commit - Reserve ELSE 0
<1>1. mem[s].commit \in Nat /\ \A p \in Servers : disk[p].last \in Nat
  BY Zenon, MemberFacts, Fields
<1>2. T \in SUBSET Nat /\ T # {}
  BY Zenon, <1>1
<1>3. Min(T) \in Nat
  BY Zenon, <1>2, MinInSet
<1>4. floor \in Nat
  BY SMT, <1>1, ResyncAssumption
<1> HIDE DEF T, floor
<1>5. Max({floor, Min(T)}) \in Nat
  BY SMT, <1>3, <1>4, MaxTwo
<1> QED BY Zenon, <1>5 DEF Boundary, T, floor

LEMMA CreateSnapshotStep ==
    ASSUME RInv, NEW s \in Servers, CreateSnapshot(s)
    PROVE  RInv'
<1> DEFINE d == Compact(s, [disk[s] EXCEPT !.rsnap = mem[s].nu], mem[s].nu)
           e == [kind |-> "trunc", lim |-> Boundary(s)]
<1>1. ~disk[s].recv
  BY Zenon DEF CreateSnapshot
<1>2. /\ d \in DiskType /\ MemberOK(glog, disk[leader].trunc, mem[s], d)
      /\ d.last = disk[s].last /\ d.recv = disk[s].recv /\ disk[s].trunc <= d.trunc
  BY Zenon, <1>1, CompactOK
<1>3. e \in Entries
  BY SMT, BoundaryType DEF Entries
<1>4. /\ leader' = leader /\ mem' = mem
      /\ \/ /\ s = leader /\ glog' = Append(glog, e)
            /\ disk' = [disk EXCEPT ![s] = [d EXCEPT !.last = d.last + 1]]
         \/ disk' = [disk EXCEPT ![s] = d] /\ glog' = glog
  BY Zenon DEF CreateSnapshot
<1> HIDE DEF d, e
<1>5. CASE /\ s = leader /\ glog' = Append(glog, e)
           /\ disk' = [disk EXCEPT ![s] = [d EXCEPT !.last = d.last + 1]]
  <2>1. d.last = Len(glog) /\ ~d.recv
    BY Zenon, <1>2, <1>5, MemberFacts
  <2> QED BY Zenon, <2>1, <1>2, <1>3, <1>4, <1>5, AppendStep
<1>6. CASE disk' = [disk EXCEPT ![s] = d] /\ glog' = glog
  <2>1. mem' = [mem EXCEPT ![s] = mem[s]]
    BY Zenon, <1>4, MemberFacts
  <2> QED BY Zenon, <2>1, <1>2, <1>4, <1>6, MemberFacts, ServerStep
<1> QED BY Zenon, <1>4, <1>5, <1>6

LEMMA TriggerSnapshotStep ==
    ASSUME RInv, NEW s \in Servers, NEW l \in Lsns, TriggerSnapshot(s, l)
    PROVE  RInv'
<1> DEFINE m == mem[s]
           c == CpFlushed(mem[s], disk[s])
           lim == Max({m.limit, Min({l, c.cp})})
           t == Max({c.trunc, Min({l, lim})})
           r == [m EXCEPT !.limit = lim]
           d == [c EXCEPT !.rsnap = m.nu, !.trunc = t]
<1>0. /\ ~disk[s].recv /\ leader' = leader /\ glog' = glog
      /\ mem' = [mem EXCEPT ![s] = r] /\ disk' = [disk EXCEPT ![s] = d]
  BY Zenon DEF TriggerSnapshot, RInv, TypeOK
<1>1. /\ m \in MemType /\ disk[s] \in DiskType /\ glog \in Seq(Entries)
      /\ MemberOK(glog, disk[leader].trunc, m, disk[s])
  BY Zenon, MemberFacts
<1>2. /\ c \in DiskType /\ MemberOK(glog, disk[leader].trunc, m, c)
      /\ c.last = disk[s].last /\ c.trunc = disk[s].trunc /\ c.recv = disk[s].recv
      /\ c.cp = m.commit
  BY ZenonT(40), <1>1, FlushedOK
<1> HIDE DEF c, m
<1>3. m.inst = "none" /\ Ordered(glog, m, c) /\ Complete(glog, m, c)
  BY Zenon, <1>0, <1>1, <1>2, TakesPart
<1>4. /\ m.limit \in Nat /\ c.cp \in Nat /\ c.trunc \in Nat /\ m.nu \in Nat /\ c.last \in Nat
      /\ c.dc \in Nat /\ m.commit \in Nat /\ Len(glog) \in Nat
      /\ m.limit <= c.cp /\ c.trunc <= c.cp /\ c.cp <= c.dc /\ c.dc <= m.commit
      /\ m.commit <= m.nu /\ m.nu <= c.last /\ c.last <= Len(glog)
  BY Zenon, <1>1, <1>2, <1>3, Fields, MemberFacts DEF Ordered, Complete
<1>5. l \in Nat
  BY SMT, ResyncAssumption DEF Lsns
<1>6. lim \in Nat /\ lim <= c.cp
  <2>1. Min({l, c.cp}) \in Nat /\ Min({l, c.cp}) <= c.cp
    BY SMTT(30), <1>4, <1>5, MinTwo
  <2> QED BY Zenon, <1>4, <2>1, MaxBound
<1> HIDE DEF lim
<1>7. /\ t \in Nat /\ t <= c.cp /\ c.trunc <= t /\ t <= c.last /\ m.nu <= Len(glog)
  <2>1. Min({l, lim}) \in Nat /\ Min({l, lim}) <= c.cp
    BY SMTT(30), <1>4, <1>5, <1>6, MinTwo
  <2>2. t \in Nat /\ t <= c.cp /\ c.trunc <= t
    BY Zenon, <1>4, <2>1, MaxBound
  <2> HIDE DEF t
  <2> QED BY SMTT(30), <1>4, <2>2
<1> HIDE DEF t
<1>8. /\ r \in MemType /\ r.limit = lim /\ r.nu = m.nu /\ r.commit = m.commit
      /\ r.app = m.app /\ r.inst = m.inst
  BY Zenon, <1>1, <1>6 DEF MemType
<1>9. /\ d \in DiskType /\ d.last = c.last /\ d.trunc = t /\ d.cp = c.cp /\ d.dc = c.dc
      /\ d.snap = c.snap /\ d.recv = c.recv /\ d.app = c.app /\ d.rsnap = m.nu
  BY Zenon, <1>2, <1>4, <1>7 DEF DiskType
<1> HIDE DEF r, d
<1>10. Ordered(glog, r, d) /\ Complete(glog, r, d)
  BY Zenon, <1>3, <1>4, <1>6, <1>7, <1>8, <1>9 DEF Ordered, Complete
<1>11. MemberOK(glog, disk[leader].trunc, r, d)
  BY Zenon, <1>0, <1>1, <1>2, <1>3, <1>8, <1>9, <1>10, TakesPart
<1> QED BY Zenon, <1>0, <1>2, <1>7, <1>8, <1>9, <1>11, MemberFacts, ServerStep

\* The first object of a snapshot: what the leader offers ends above the member's log.
LEMMA SaveResyncDataStep ==
    ASSUME RInv, NEW s \in Servers, SaveResyncData(s)
    PROVE  RInv'
<1> DEFINE lt == disk[leader].trunc
           n == disk[leader].rsnap
           r == [mem[s] EXCEPT !.inst = "hs", !.snp = n]
           d == [disk[s] EXCEPT !.recv = TRUE, !.snap = n]
<1>1. /\ mem[s] \in MemType /\ disk[s] \in DiskType /\ Len(glog) \in Nat
      /\ mem[leader] \in MemType /\ disk[leader] \in DiskType
      /\ Ordered(glog, mem[s], disk[s]) /\ Ordered(glog, mem[leader], disk[leader])
      /\ Transfer(glog, mem[s], disk[s]) /\ MemberOK(glog, lt, mem[s], disk[s])
  BY Zenon, MemberFacts
<1>2. /\ s # leader /\ leader' = leader /\ glog' = glog
      /\ mem' = [mem EXCEPT ![s] = r] /\ disk' = [disk EXCEPT ![s] = d]
  BY Zenon DEF SaveResyncData, RInv, TypeOK
<1>3. /\ n \in Nat /\ lt \in Nat /\ n <= Len(glog)
      /\ disk[s].last \in Nat /\ disk[s].trunc \in Nat /\ mem[s].nu \in Nat
      /\ disk[s].trunc <= mem[s].nu
  BY Zenon, <1>1, Fields DEF Ordered, Transfer, SaveResyncData
<1>4. /\ disk[s].recv \/ lt > disk[s].last
      /\ n >= lt /\ n >= mem[s].nu
      /\ disk[s].recv => disk[s].last <= lt \/ disk[s].last <= disk[s].trunc
  BY Zenon, <1>1 DEF SaveResyncData, MemberOK, Receiving
<1>5. /\ r \in MemType /\ r.nu = mem[s].nu /\ r.commit = mem[s].commit /\ r.inst = "hs"
      /\ r.snp = n /\ r.limit = mem[s].limit /\ r.app = mem[s].app
  BY Zenon, <1>1, <1>3 DEF MemType, Stages
<1>6. /\ d \in DiskType /\ d.last = disk[s].last /\ d.trunc = disk[s].trunc
      /\ d.cp = disk[s].cp /\ d.dc = disk[s].dc /\ d.snap = n /\ d.recv = TRUE
      /\ d.app = disk[s].app /\ d.rsnap = disk[s].rsnap
  BY Zenon, <1>1, <1>3 DEF DiskType
<1> HIDE DEF r, d, n, lt
<1>7. disk[s].last <= n /\ (disk[s].last <= lt \/ disk[s].last <= disk[s].trunc)
  BY SMTT(30), <1>3, <1>4
<1>8. Receiving(glog, lt, d)
  BY Zenon, <1>3, <1>6, <1>7 DEF Receiving
<1>9. Ordered(glog, r, d)
  BY Zenon, <1>1, <1>5, <1>6 DEF Ordered
<1>10. Transfer(glog, r, d)
  BY Zenon, <1>3, <1>5, <1>6 DEF Transfer
<1>11. MemberOK(glog, lt, r, d)
  BY Zenon, <1>6, <1>8, <1>9, <1>10 DEF MemberOK
<1> QED BY Zenon, <1>2, <1>5, <1>6, <1>11, ServerStep DEF lt

\* A member that has been sent a part of a snapshot is not the leader.
LEMMA ReceiverFacts ==
    ASSUME RInv, NEW s \in Servers, mem[s].inst # "none"
    PROVE  /\ s # leader /\ disk[s].recv /\ mem[s].snp = disk[s].snap
           /\ Receiving(glog, disk[leader].trunc, disk[s])
<1>1. disk[s].recv /\ mem[s].snp = disk[s].snap
  BY Zenon, MemberFacts DEF Transfer
<1> QED BY Zenon, <1>1, MemberFacts DEF MemberOK

LEMMA SaveFirstObjStep ==
    ASSUME RInv, NEW s \in Servers, SaveFirstObj(s)
    PROVE  RInv'
<1> DEFINE r == [mem[s] EXCEPT !.inst = "app", !.app = {}]
<1>1. /\ mem[s].inst = "hs" /\ mem[s] \in MemType /\ leader' = leader /\ glog' = glog
      /\ mem' = [mem EXCEPT ![s] = r] /\ disk' = [disk EXCEPT ![s] = disk[s]]
  BY Zenon, MemberFacts DEF SaveFirstObj, RInv, TypeOK
<1>2. /\ r \in MemType /\ r.nu = mem[s].nu /\ r.commit = mem[s].commit /\ r.inst = "app"
      /\ r.snp = mem[s].snp /\ r.limit = mem[s].limit
  BY Zenon, <1>1 DEF MemType, Stages
<1> HIDE DEF r
<1>3. Ordered(glog, r, disk[s])
  BY Zenon, <1>2, MemberFacts DEF Ordered
<1>4. Transfer(glog, r, disk[s])
  BY Zenon, <1>1, <1>2, MemberFacts DEF Transfer
<1>5. s # leader /\ MemberOK(glog, disk[leader].trunc, r, disk[s])
  BY Zenon, <1>1, <1>3, <1>4, ReceiverFacts DEF MemberOK
<1> QED BY Zenon, <1>1, <1>2, <1>5, MemberFacts, ServerStep

\* The last object: the application gets what the leader's has up to the snapshot, which
\* is everything, since the leader has committed that far.
LEMMA SaveLastObjStep ==
    ASSUME RInv, NEW s \in Servers, SaveLastObj(s)
    PROVE  RInv'
<1> DEFINE n == mem[s].snp
           lt == disk[leader].trunc
           r == [LiftLimit(mem[s]) EXCEPT !.inst = "last", !.app = mem[leader].app \cap 1..n]
           d == CpFlushed(r, disk[s])
<1>1. /\ mem[s].inst = "app" /\ n <= mem[leader].commit
      /\ mem[s] \in MemType /\ disk[s] \in DiskType /\ leader' = leader /\ glog' = glog
      /\ mem' = [mem EXCEPT ![s] = r] /\ disk' = [disk EXCEPT ![s] = d]
      /\ leader \in Servers /\ glog \in Seq(Entries)
  BY Zenon, MemberFacts DEF SaveLastObj, ReadSnpObj, RInv, TypeOK
<1>2. /\ mem[leader] \in MemType /\ disk[leader] \in DiskType
      /\ Ordered(glog, mem[leader], disk[leader]) /\ Complete(glog, mem[leader], disk[leader])
  BY Zenon, <1>1, MemberFacts DEF MemberOK
<1>3. DataOf(glog, 1..n) \subseteq mem[leader].app \cap 1..n
  <2>1. n \in Nat /\ mem[leader].nu \in Nat /\ mem[leader].commit \in Nat
    BY Zenon, <1>1, <1>2, Fields
  <2>2. n <= mem[leader].nu
    BY SMT, <1>1, <1>2, <2>1 DEF Ordered
  <2>3. DataOf(glog, 1..n) \subseteq DataOf(glog, 1..mem[leader].nu)
    BY Zenon, <2>1, <2>2, DataMono
  <2> QED BY Zenon, <2>3, <1>2 DEF Complete, DataOf
<1>4. /\ r \in MemType /\ r.nu = mem[s].nu /\ r.commit = mem[s].commit /\ r.inst = "last"
      /\ r.snp = n /\ r.limit = n /\ r.app = mem[leader].app \cap 1..n
  BY Zenon, <1>1, <1>2 DEF MemType, Stages, LiftLimit
<1> HIDE DEF r
<1>5. Ordered(glog, r, disk[s])
  BY Zenon, <1>4, MemberFacts DEF Ordered
<1>6. Transfer(glog, r, disk[s])
  BY Zenon, <1>1, <1>3, <1>4, ReceiverFacts DEF Transfer
<1>7. s # leader /\ MemberOK(glog, lt, r, disk[s])
  BY Zenon, <1>1, <1>5, <1>6, ReceiverFacts DEF MemberOK
<1>8. d \in DiskType /\ MemberOK(glog, lt, r, d)
  BY Zenon, <1>1, <1>4, <1>7, FlushedOK
<1> HIDE DEF d
<1> QED BY Zenon, <1>1, <1>4, <1>7, <1>8, MemberFacts, ServerStep

\* The whole log is compacted: it ends below the snapshot, and so at it now.
LEMMA CompactForSnapshotStep ==
    ASSUME RInv, NEW s \in Servers, CompactForSnapshot(s)
    PROVE  RInv'
<1> DEFINE n == mem[s].snp
           r == [mem[s] EXCEPT !.inst = "compacted"]
           d == [disk[s] EXCEPT !.trunc = n, !.last = n]
<1>1. /\ mem[s].inst = "last" /\ mem[s] \in MemType /\ disk[s] \in DiskType
      /\ leader' = leader /\ glog' = glog /\ mem' = [mem EXCEPT ![s] = r]
      /\ disk' = [disk EXCEPT ![s] = Compact(s, disk[s], n)]
      /\ MemberOK(glog, disk[leader].trunc, mem[s], disk[s])
      /\ Ordered(glog, mem[s], disk[s]) /\ Transfer(glog, mem[s], disk[s])
  BY Zenon, MemberFacts DEF CompactForSnapshot, RInv, TypeOK
<1>2. /\ n \in Nat /\ disk[s].trunc \in Nat /\ disk[s].last \in Nat /\ mem[s].limit = n
      /\ mem[s].nu \in Nat /\ mem[s].nu <= disk[s].last
      /\ disk[s].trunc <= disk[s].last /\ disk[s].last <= n /\ n = disk[s].snap
      /\ n <= Len(glog)
  BY Zenon, <1>1, Fields, ReceiverFacts DEF Ordered, Transfer, Receiving
<1>3. Compact(s, disk[s], n) = d
  <2>1. Min({n, n}) = n
    BY SMT, <1>2, MinTwo
  <2>2. Max({disk[s].trunc, n}) = n /\ Max({disk[s].last, n}) = n
    BY SMT, <1>2, MaxTwo
  <2> QED BY Zenon, <1>2, <2>1, <2>2 DEF Compact
<1>4. /\ d \in DiskType /\ d.last = n /\ d.trunc = n
      /\ d.cp = disk[s].cp /\ d.dc = disk[s].dc /\ d.snap = disk[s].snap
      /\ d.recv = disk[s].recv /\ d.app = disk[s].app /\ d.rsnap = disk[s].rsnap
  BY Zenon, <1>1, <1>2 DEF DiskType
<1>5. /\ r \in MemType /\ r.nu = mem[s].nu /\ r.commit = mem[s].commit
      /\ r.inst = "compacted" /\ r.snp = n /\ r.limit = mem[s].limit /\ r.app = mem[s].app
  BY Zenon, <1>1 DEF MemType, Stages
<1> HIDE DEF r, d
<1>6. mem[s].nu <= n /\ n <= n
  BY SMT, <1>2
<1>7. Ordered(glog, r, d)
  BY Zenon, <1>1, <1>2, <1>4, <1>5, <1>6 DEF Ordered
<1>8. Transfer(glog, r, d)
  BY Zenon, <1>1, <1>2, <1>4, <1>5, ReceiverFacts DEF Transfer
<1>9. Receiving(glog, disk[leader].trunc, d)
  BY Zenon, <1>2, <1>4, <1>6 DEF Receiving
<1>10. s # leader /\ d.recv
  BY Zenon, <1>1, <1>4, ReceiverFacts
<1>11. MemberOK(glog, disk[leader].trunc, r, d)
  BY Zenon, <1>7, <1>8, <1>9, <1>10 DEF MemberOK
<1> QED BY Zenon, <1>1, <1>3, <1>4, <1>5, <1>10, <1>11, ServerStep

LEMMA ApplySnapshotStep ==
    ASSUME RInv, NEW s \in Servers, ApplySnapshot(s)
    PROVE  RInv'
<1> DEFINE n == mem[s].snp
           r == [mem[s] EXCEPT !.inst = "applied", !.commit = n, !.nu = n]
           b == [disk[s] EXCEPT !.rsnap = n]
           d == CpFlushed(r, b)
<1>1. /\ mem[s].inst = "compacted" /\ mem[s] \in MemType /\ disk[s] \in DiskType
      /\ leader' = leader /\ glog' = glog /\ glog \in Seq(Entries)
      /\ mem' = [mem EXCEPT ![s] = r] /\ disk' = [disk EXCEPT ![s] = d]
      /\ MemberOK(glog, disk[leader].trunc, mem[s], disk[s])
      /\ Ordered(glog, mem[s], disk[s]) /\ Transfer(glog, mem[s], disk[s])
  BY Zenon, MemberFacts DEF ApplySnapshot, RInv, TypeOK
<1>2. /\ n \in Nat /\ disk[s].cp \in Nat /\ disk[s].dc \in Nat /\ mem[s].commit \in Nat
      /\ mem[s].nu \in Nat /\ disk[s].last = n /\ disk[s].trunc = n /\ mem[s].limit = n
      /\ disk[s].cp <= disk[s].dc /\ disk[s].dc <= mem[s].commit
      /\ mem[s].commit <= mem[s].nu /\ mem[s].nu <= n /\ n = disk[s].snap
      /\ n <= Len(glog) /\ DataOf(glog, 1..n) \subseteq mem[s].app
  BY Zenon, <1>1, Fields, ReceiverFacts DEF Ordered, Transfer, Receiving
<1>3. disk[s].dc <= n /\ n <= n
  BY SMT, <1>2
<1>4. Max({disk[s].dc, n}) = n
  BY SMTT(30), <1>2, <1>3, MaxTwo
<1>5. /\ r \in MemType /\ r.nu = n /\ r.commit = n /\ r.inst = "applied" /\ r.snp = n
      /\ r.limit = n /\ r.app = mem[s].app
  BY Zenon, <1>1, <1>2 DEF MemType, Stages
<1> HIDE DEF r
<1>6. /\ d \in DiskType /\ d.last = n /\ d.trunc = n /\ d.cp = n /\ d.dc = n
      /\ d.snap = n /\ d.recv = disk[s].recv /\ d.app = mem[s].app /\ d.rsnap = n
  <2>1. /\ b \in DiskType /\ b.last = n /\ b.trunc = n /\ b.dc = disk[s].dc
        /\ b.snap = n /\ b.recv = disk[s].recv /\ b.rsnap = n
    BY Zenon, <1>1, <1>2 DEF DiskType
  <2> HIDE DEF b
  <2> QED BY Zenon, <1>1, <1>2, <1>4, <1>5, <2>1, Fields DEF DiskType, CpFlushed
<1> HIDE DEF d
<1>7. Ordered(glog, r, d)
  BY Zenon, <1>2, <1>3, <1>5, <1>6 DEF Ordered
<1>8. s # leader /\ d.recv
  BY Zenon, <1>1, <1>6, ReceiverFacts
<1>9. Transfer(glog, r, d)
  BY Zenon, <1>2, <1>5, <1>6, <1>8 DEF Transfer
<1>10. Receiving(glog, disk[leader].trunc, d)
  BY Zenon, <1>2, <1>3, <1>6 DEF Receiving
<1>11. MemberOK(glog, disk[leader].trunc, r, d)
  BY Zenon, <1>7, <1>8, <1>9, <1>10 DEF MemberOK
<1> QED BY Zenon, <1>1, <1>5, <1>6, <1>8, <1>11, ServerStep

LEMMA ResyncDoneStep ==
    ASSUME RInv, NEW s \in Servers, ResyncDone(s)
    PROVE  RInv'
<1> DEFINE r == [mem[s] EXCEPT !.inst = "none", !.snp = 0]
           d == [disk[s] EXCEPT !.recv = FALSE]
<1>0. 0 \in Nat
  BY SMT
<1>1. /\ mem[s].inst = "applied" /\ mem[s] \in MemType /\ disk[s] \in DiskType
      /\ leader' = leader /\ glog' = glog /\ glog \in Seq(Entries)
      /\ mem' = [mem EXCEPT ![s] = r] /\ disk' = [disk EXCEPT ![s] = d]
      /\ Ordered(glog, mem[s], disk[s]) /\ Transfer(glog, mem[s], disk[s])
  BY Zenon, MemberFacts DEF ResyncDone, RInv, TypeOK
<1>2. /\ r \in MemType /\ r.nu = mem[s].nu /\ r.commit = mem[s].commit /\ r.inst = "none"
      /\ r.limit = mem[s].limit /\ r.app = mem[s].app
  BY Zenon, <1>0, <1>1 DEF MemType, Stages
<1>3. /\ d \in DiskType /\ d.last = disk[s].last /\ d.trunc = disk[s].trunc
      /\ d.cp = disk[s].cp /\ d.dc = disk[s].dc /\ d.snap = disk[s].snap
      /\ d.recv = FALSE /\ d.app = disk[s].app /\ d.rsnap = disk[s].rsnap
  BY Zenon, <1>1 DEF DiskType
<1>4. /\ mem[s].snp = disk[s].snap /\ s # leader /\ mem[s].snp <= mem[s].snp
  BY SMT, <1>1, Fields, ReceiverFacts
<1> HIDE DEF r, d
<1>5. Ordered(glog, r, d)
  BY Zenon, <1>1, <1>2, <1>3 DEF Ordered
<1>6. Complete(glog, r, d)
  BY Zenon, <1>1, <1>2, <1>3, <1>4 DEF Complete, Transfer
<1>7. MemberOK(glog, disk[leader].trunc, r, d)
  BY Zenon, <1>1, <1>2, <1>3, <1>5, <1>6, TakesPart
<1> QED BY Zenon, <1>1, <1>2, <1>3, <1>4, <1>7, ServerStep

\* A restart: what the superblk knows to be committed above the checkpoint is replayed, and
\* neither truncated nor skipped for a member that takes part.
LEMMA ReplayedOK ==
    ASSUME RInv, NEW s \in Servers, NEW dc \in DurableCommits(s), NEW app \in DurableApps(s)
    PROVE  LET b == [FreshMem EXCEPT !.commit = dc, !.app = app,
                                     !.nu = Max({dc, disk[s].trunc})]
               d == [disk[s] EXCEPT !.dc = dc, !.app = app]
           IN  /\ Replayed(s, b, dc) \in MemType /\ d \in DiskType
               /\ MemberOK(glog, disk[leader].trunc, Replayed(s, b, dc), d)
               /\ d.recv = disk[s].recv /\ d.last = disk[s].last /\ d.trunc = disk[s].trunc
<1> DEFINE m == mem[s]
           o == disk[s]
           nu == Max({dc, o.trunc})
           b == [FreshMem EXCEPT !.commit = dc, !.app = app, !.nu = nu]
           d == [o EXCEPT !.dc = dc, !.app = app]
           redo == {l \in (o.cp + 1)..dc : ~NeedSkip(s, l) /\ l > o.trunc /\ l <= o.last}
           lims == {Expected(s, glog[l].lim) : l \in {x \in redo : glog[x].kind = "trunc"}}
           lim == Max({b.limit} \cup lims)
           r == [b EXCEPT !.app = app \cup Data(redo), !.limit = lim]
<1>1. /\ m \in MemType /\ o \in DiskType /\ glog \in Seq(Entries) /\ Len(glog) \in Nat
      /\ MemberOK(glog, disk[leader].trunc, m, o) /\ Ordered(glog, m, o)
      /\ Transfer(glog, m, o)
  BY Zenon, MemberFacts
<1>2. /\ o.cp \in Nat /\ o.dc \in Nat /\ o.trunc \in Nat /\ o.last \in Nat /\ m.commit \in Nat
      /\ m.nu \in Nat /\ o.cp <= o.dc /\ m.commit <= m.nu /\ m.nu <= o.last
      /\ o.trunc <= o.last /\ o.last <= Len(glog) /\ o.rsnap <= Len(glog)
      /\ app \in SUBSET Nat /\ o.snap \in Nat
  BY Zenon, <1>1, Fields DEF Ordered, DurableApps
<1>3. dc \in o.dc..m.commit
  BY Zenon DEF DurableCommits
<1>4. /\ dc \in Nat /\ o.cp <= dc /\ dc <= m.commit /\ dc <= m.nu /\ dc <= o.last /\ dc <= dc
      /\ \A l \in redo : l \in Nat /\ l \in 1..Len(glog)
  <2>1. /\ dc \in Nat /\ o.cp <= dc /\ dc <= m.commit /\ dc <= m.nu /\ dc <= o.last /\ dc <= dc
    <3> HIDE DEF m, o
    <3> QED BY SMTT(30), <1>2, <1>3
  <2>2. ASSUME NEW l \in redo PROVE l \in Nat /\ l \in 1..Len(glog)
    <3>1. l \in (o.cp + 1)..dc /\ l <= o.last
      BY Zenon
    <3> HIDE DEF m, o
    <3> QED BY SMT, <3>1, <2>1, <1>1, <1>2
  <2> QED BY Zenon, <2>1, <2>2
<1>5. nu \in Nat /\ nu <= o.last /\ dc <= nu /\ o.trunc <= nu /\ (o.trunc <= dc => nu = dc)
  <2> HIDE DEF m, o
  <2>1. nu = IF dc >= o.trunc THEN dc ELSE o.trunc
    BY Zenon, <1>2, <1>4, MaxTwo
  <2> HIDE DEF nu
  <2> QED BY SMT, <2>1, <1>2, <1>4
<1>6. /\ b \in MemType /\ b.nu = nu /\ b.commit = dc /\ b.limit = 0 /\ b.app = app
      /\ b.inst = "none" /\ b.snp = 0
  <2>1. 0 \in Nat /\ FreshMem \in MemType
    BY SMT DEF FreshMem, MemType, Stages
  <2> HIDE DEF nu
  <2> QED BY Zenon, <2>1, <1>2, <1>4, <1>5 DEF FreshMem, MemType
<1>7. lim \in Nat /\ lim <= o.cp
  <2>1. \A x \in redo : glog[x].lim \in Nat
    <3>1. \A e \in Entries : e.lim \in Nat
      BY Zenon DEF Entries
    <3>2. \A x \in 1..Len(glog) : glog[x] \in Entries
      BY SMT, <1>1
    <3> QED BY Zenon, <3>1, <3>2, <1>4
  <2>2. \A a \in Nat : Expected(s, a) \in 0..o.cp
    <3>1. ASSUME NEW a \in Nat PROVE Min({a, o.cp}) \in 0..o.cp
      <4> HIDE DEF o
      <4> QED BY SMTT(30), <1>2, MinTwo
    <3> QED BY Zenon, <3>1 DEF Expected
  <2>3. 0 \in 0..o.cp
    <3> HIDE DEF o
    <3> QED BY SMT, <1>2
  <2> DEFINE T == {b.limit} \cup lims
  <2>4. T \in SUBSET (0..o.cp) /\ T # {}
    <3> HIDE DEF redo, o, b
    <3> QED BY Zenon, <2>1, <2>2, <2>3, <1>6
  <2> HIDE DEF T
  <2>5. Max(T) \in 0..o.cp
    BY Zenon, <1>2, <2>4, MaxInSet
  <2>6. lim \in 0..o.cp
    BY Zenon, <2>5 DEF T
  <2> HIDE DEF lim, o
  <2> QED BY SMT, <2>6, <1>2
<1>8. Data(redo) \in SUBSET Nat
  <2> HIDE DEF redo
  <2> QED BY Zenon, <1>4 DEF Data, DataOf
<1>9. /\ r \in MemType /\ r.nu = nu /\ r.commit = dc /\ r.limit = lim
      /\ r.app = app \cup Data(redo) /\ r.inst = "none" /\ r.snp = 0
  <2> HIDE DEF b, lim, redo
  <2> QED BY Zenon, <1>2, <1>6, <1>7, <1>8 DEF MemType
<1>10. /\ d \in DiskType /\ d.last = o.last /\ d.trunc = o.trunc /\ d.cp = o.cp /\ d.dc = dc
       /\ d.snap = o.snap /\ d.recv = o.recv /\ d.app = app /\ d.rsnap = o.rsnap
  <2> HIDE DEF o
  <2> QED BY Zenon, <1>1, <1>2, <1>4 DEF DiskType
<1>11. Replayed(s, b, dc) = r
  <2>1. b.app = app
    BY Zenon, <1>6
  <2> HIDE DEF b
  <2> QED BY Zenon, <2>1 DEF Replayed
<1>12. ASSUME ~o.recv PROVE Complete(glog, r, d)
  <2>1. Complete(glog, m, o)
    BY Zenon, <1>1, <1>12, TakesPart
  <2>2. DataOf(glog, 1..o.cp) \subseteq app
    <3>1. o.cp <= m.nu
      <4> HIDE DEF m, o
      <4> QED BY SMT, <1>2, <1>4
    <3>2. DataOf(glog, 1..o.cp) \subseteq DataOf(glog, 1..m.nu)
      BY Zenon, <1>2, <3>1, DataMono
    <3> QED BY Zenon, <2>1, <3>2 DEF Complete, DurableApps
  <2>3. nu = dc
    <3>1. o.trunc <= o.cp
      BY Zenon, <2>1 DEF Complete
    <3>2. o.trunc <= dc
      <4> HIDE DEF m, o
      <4> QED BY SMT, <3>1, <1>2, <1>4
    <3> QED BY Zenon, <3>2, <1>5
  <2>4. ASSUME NEW l \in 1..dc PROVE l \in 1..o.cp \/ l \in redo
    <3>1. o.trunc <= o.cp /\ o.snap <= o.cp
      BY Zenon, <2>1 DEF Complete
    <3>2. l \in 1..o.cp \/ (l \in (o.cp + 1)..dc /\ ~(l <= o.snap) /\ l > o.trunc /\ l <= o.last)
      <4> HIDE DEF m, o
      <4> QED BY SMTT(30), <3>1, <1>2, <1>4
    <3> QED BY Zenon, <3>2 DEF NeedSkip
  <2>5. DataOf(glog, 1..dc) \subseteq app \cup Data(redo)
    <3> HIDE DEF redo
    <3> QED BY Zenon, <2>2, <2>4 DEF Data, DataOf
  <2> HIDE DEF r, d, redo, lim, nu
  <2> QED BY Zenon, <2>1, <2>2, <2>3, <2>5, <1>7, <1>9, <1>10 DEF Complete
<1> HIDE DEF r, d, redo, lim, nu
<1>13. Ordered(glog, r, d)
  BY Zenon, <1>2, <1>4, <1>5, <1>9, <1>10 DEF Ordered
<1>14. Transfer(glog, r, d)
  BY Zenon, <1>5, <1>9, <1>10 DEF Transfer
<1>15. o.recv => Receiving(glog, disk[leader].trunc, d)
  BY Zenon, <1>1, <1>10 DEF Receiving, MemberOK
<1>16. MemberOK(glog, disk[leader].trunc, r, d)
  BY Zenon, <1>10, <1>12, <1>13, <1>14, <1>15 DEF MemberOK
<1> QED BY Zenon, <1>9, <1>10, <1>11, <1>16 DEF d, nu

LEMMA UnsentOK ==
    ASSUME NEW log \in Seq(Entries), NEW lt, NEW m \in MemType, NEW d \in DiskType,
           MemberOK(log, lt, m, d)
    PROVE  Unsent(m) \in MemType /\ MemberOK(log, lt, Unsent(m), d)
<1> DEFINE r == [m EXCEPT !.inst = "none"]
<1>1. CASE m.inst \in {"hs", "app"}
  <2>1. /\ r \in MemType /\ r.nu = m.nu /\ r.commit = m.commit /\ r.inst = "none"
        /\ r.limit = m.limit /\ r.app = m.app
    BY Zenon DEF MemType, Stages
  <2> HIDE DEF r
  <2>2. Ordered(log, m, d) /\ Transfer(log, m, d) /\ d.recv /\ Receiving(log, lt, d)
    BY Zenon, <1>1 DEF MemberOK, Transfer
  <2>3. Ordered(log, r, d)
    BY Zenon, <2>1, <2>2 DEF Ordered
  <2>4. Transfer(log, r, d)
    BY Zenon, <1>1, <2>1, <2>2 DEF Transfer
  <2>5. Unsent(m) = r
    BY Zenon, <1>1 DEF Unsent, r
  <2> QED BY Zenon, <2>1, <2>2, <2>3, <2>4, <2>5 DEF MemberOK
<1>2. CASE m.inst \notin {"hs", "app"}
  BY Zenon, <1>2 DEF Unsent
<1> QED BY Zenon, <1>1, <1>2

LEMMA RestartStep ==
    ASSUME RInv, NEW s \in Servers, Restart(s)
    PROVE  RInv'
<1>1. PICK dc \in DurableCommits(s), app \in DurableApps(s) :
        /\ mem' = [p \in Servers |->
                    IF p = s
                    THEN Replayed(s, [FreshMem EXCEPT !.commit = dc, !.app = app,
                                                      !.nu = Max({dc, disk[s].trunc})], dc)
                    ELSE IF s = leader THEN Unsent(mem[p]) ELSE mem[p]]
        /\ disk' = [disk EXCEPT ![s].dc = dc, ![s].app = app]
  BY Zenon DEF Restart
<1> DEFINE r == Replayed(s, [FreshMem EXCEPT !.commit = dc, !.app = app,
                                            !.nu = Max({dc, disk[s].trunc})], dc)
           d == [disk[s] EXCEPT !.dc = dc, !.app = app]
           lt == disk[leader].trunc
<1>2. /\ r \in MemType /\ d \in DiskType /\ MemberOK(glog, lt, r, d)
      /\ d.recv = disk[s].recv /\ d.last = disk[s].last /\ d.trunc = disk[s].trunc
  BY Zenon, ReplayedOK
<1>3. disk' = [disk EXCEPT ![s] = d] /\ leader' = leader /\ glog' = glog
  BY Zenon, <1>1 DEF Restart, RInv, TypeOK
<1>4. mem' = [p \in Servers |-> IF p = s THEN r
                                ELSE IF s = leader THEN Unsent(mem[p]) ELSE mem[p]]
  BY Zenon, <1>1
<1> HIDE DEF r, d
<1>5. ASSUME NEW p \in Servers
      PROVE  /\ mem'[p] \in MemType /\ disk'[p] \in DiskType
             /\ MemberOK(glog, lt, mem'[p], disk'[p])
             /\ disk'[p].recv = disk[p].recv /\ disk'[p].last = disk[p].last
             /\ disk'[p].trunc = disk[p].trunc
  <2>1. CASE p = s
    BY Zenon, <2>1, <1>2, <1>3, <1>4 DEF RInv, TypeOK
  <2>2. CASE p # s
    <3>1. /\ mem[p] \in MemType /\ disk[p] \in DiskType /\ glog \in Seq(Entries)
          /\ MemberOK(glog, lt, mem[p], disk[p])
      BY Zenon, MemberFacts
    <3>2. Unsent(mem[p]) \in MemType /\ MemberOK(glog, lt, Unsent(mem[p]), disk[p])
      BY Zenon, <3>1, UnsentOK
    <3>3. disk'[p] = disk[p]
      BY Zenon, <2>2, <1>3 DEF RInv, TypeOK
    <3>4. mem'[p] = mem[p] \/ mem'[p] = Unsent(mem[p])
      BY Zenon, <2>2, <1>4
    <3> QED BY Zenon, <3>1, <3>2, <3>3, <3>4
  <2> QED BY Zenon, <2>1, <2>2
<1>6. TypeOK'
  <2>1. mem' \in [Servers -> MemType] /\ disk' \in [Servers -> DiskType]
    BY Zenon, <1>2, <1>3, <1>4, <1>5 DEF RInv, TypeOK
  <2> QED BY Zenon, <2>1, <1>3 DEF RInv, TypeOK
<1>7. leader \in Servers
  BY Zenon DEF RInv, TypeOK
<1>8. disk'[leader'].trunc = lt /\ ~disk'[leader'].recv /\ disk'[leader'].last = Len(glog')
  BY Zenon, <1>3, <1>5, <1>7 DEF RInv
<1> QED BY Zenon, <1>3, <1>5, <1>6, <1>8 DEF RInv

\* With two members nobody is elected while the other one receives a snapshot.
LEMMA ElectStep ==
    ASSUME RInv, NEW s \in Servers, Elect(s)
    PROVE  RInv'
<1>1. /\ s # leader /\ ~disk[s].recv /\ disk[s].last = Len(glog)
      /\ leader' = s /\ glog' = glog /\ mem' = mem /\ disk' = disk
  BY Zenon DEF Elect
<1>2. leader \in Servers /\ ~disk[leader].recv
  BY Zenon DEF RInv, TypeOK
<1>3. \A p \in Servers : ~disk[p].recv
  BY Zenon, <1>1, <1>2, ResyncAssumption
<1>4. \A p \in Servers : MemberOK(glog, disk[s].trunc, mem[p], disk[p])
  BY Zenon, <1>3 DEF RInv, MemberOK
<1> QED BY Zenon, <1>1, <1>4 DEF RInv, TypeOK

----------------------------------------------------------------------------
LEMMA InitGood == Init => RInv
<1> SUFFICES ASSUME Init PROVE RInv
  OBVIOUS
<1> DEFINE d0 == [last |-> 0, trunc |-> 0, cp |-> 0, dc |-> 0, snap |-> 0,
                  recv |-> FALSE, app |-> {}, rsnap |-> 0]
<1>1. FreshMem \in MemType /\ d0 \in DiskType /\ 0 <= 0
  BY SMT DEF FreshMem, MemType, DiskType, Stages
<1>2. glog = << >> /\ glog \in Seq(Entries) /\ Len(glog) = 0 /\ DataOf(glog, 1..0) = {}
  BY SMT DEF Init, DataOf
<1>3. /\ leader \in Servers /\ \A s \in Servers : mem[s] = FreshMem /\ disk[s] = d0
      /\ mem \in [Servers -> MemType] /\ disk \in [Servers -> DiskType]
  BY Zenon, <1>1 DEF Init
<1>4. /\ d0.last = 0 /\ d0.trunc = 0 /\ d0.cp = 0 /\ d0.dc = 0 /\ d0.snap = 0
      /\ d0.recv = FALSE /\ d0.app = {} /\ d0.rsnap = 0
      /\ FreshMem.nu = 0 /\ FreshMem.commit = 0 /\ FreshMem.limit = 0 /\ FreshMem.app = {}
      /\ FreshMem.inst = "none"
  BY Zenon DEF FreshMem
<1> HIDE DEF d0
<1>5. Ordered(glog, FreshMem, d0) /\ Complete(glog, FreshMem, d0)
  BY Zenon, <1>1, <1>2, <1>4 DEF Ordered, Complete
<1>6. MemberOK(glog, d0.trunc, FreshMem, d0)
  BY Zenon, <1>1, <1>2, <1>4, <1>5, TakesPart
<1> QED BY Zenon, <1>2, <1>3, <1>4, <1>6 DEF RInv, TypeOK

LEMMA NextGood == RInv /\ [Next]_vars => RInv'
<1> SUFFICES ASSUME RInv, [Next]_vars PROVE RInv'
  OBVIOUS
<1>1. CASE Propose
  BY Zenon, <1>1, ProposeStep
<1>2. ASSUME NEW s \in Servers,
             \/ Replicate(s) \/ Commit(s) \/ CpFlush(s) \/ CreateSnapshot(s)
             \/ \E l \in Lsns : TriggerSnapshot(s, l)
      PROVE  RInv'
  BY Zenon, <1>2, ReplicateStep, CommitStep, CpFlushStep, CreateSnapshotStep,
     TriggerSnapshotStep
<1>3. ASSUME NEW s \in Servers,
             \/ SaveResyncData(s) \/ SaveFirstObj(s) \/ SaveLastObj(s)
             \/ CompactForSnapshot(s) \/ ApplySnapshot(s) \/ ResyncDone(s)
             \/ Restart(s) \/ Elect(s)
      PROVE  RInv'
  BY Zenon, <1>3, SaveResyncDataStep, SaveFirstObjStep, SaveLastObjStep,
     CompactForSnapshotStep, ApplySnapshotStep, ResyncDoneStep, RestartStep, ElectStep
<1>4. CASE UNCHANGED vars
  <2>1. leader' = leader /\ glog' = glog /\ mem' = mem /\ disk' = disk
    BY Zenon, <1>4 DEF vars
  <2> QED BY Zenon, <2>1 DEF RInv, TypeOK
<1> QED BY Zenon, <1>1, <1>2, <1>3, <1>4 DEF Next

\* In every reachable state of a group of two the lsns of each member are in order, its
\* checkpoint is complete, and a snapshot transfer is at a stage its superblk agrees with.
THEOREM ResyncInvariance == Spec => []RInv
BY InitGood, NextGood, PTL DEF Spec

\* Whatever compact, trigger_snapshot_creation, the replay of on_log_found and the snapshot
\* calls do, in any order and with crashes between them: a member that takes part in the
\* group has every data entry up to the index nuraft takes for applied.
THEOREM NothingSkipped == Spec => []AppComplete
<1>1. RInv => AppComplete
  BY Zenon DEF RInv, MemberOK, Complete, AppComplete, Data
<1> QED BY <1>1, ResyncInvariance, PTL

===========================================================================
