------------------------- MODULE ReplGroupProofs -------------------------
\* Proofs that the invariants of ReplGroup hold for every set of servers and requests,
\* any number of requests and faults and every way they interleave.
EXTENDS ReplGroup, TLAPS

\* What a step may do to the threads: a server stays up or down, and no monitor decides.
MemKeeps ==
    /\ mem' \in [Servers -> MemType]
    /\ \A x \in Servers :
          /\ mem'[x].up = mem[x].up
          /\ mem'[x].mon.op = "complete" => mem[x].mon.op = "complete"

\* What a step may do to the log: nothing, or append an entry, which removes the out
\* member only if a monitor has decided so.
LogKeeps ==
    \/ log' = log
    \/ \E op \in EntryOps, m \in Servers :
          /\ log' = Append(log, Entry(op, m))
          /\ op = "rem" /\ m = Out => \E s \in Servers : mem[s].mon.op = "complete"

\* One server's memory is replaced by another of the right type.
LEMMA ServerKeeps ==
    ASSUME TypeOK, NEW s \in Servers, NEW r \in MemType,
           mem' = [mem EXCEPT ![s] = r],
           r.up = mem[s].up, r.mon.op = "complete" => mem[s].mon.op = "complete"
    PROVE  MemKeeps
BY Zenon DEF TypeOK, MemKeeps

\* A thread that returns, or goes on, keeps the types and decides nothing.
LEMMA ReturnKeeps ==
    ASSUME TypeOK, NEW s \in Servers, NEW t \in Threads, NEW reset \in BOOLEAN,
           Return(s, t, reset)
    PROVE  MemKeeps
<1>0. /\ Idle \in Thread(CliOps) /\ Idle \in Thread({"idle", "complete"})
      /\ Idle.op # "complete" /\ 0 \in Nat
  BY SMT DEF Idle, Thread, CliOps, Pcs
<1>1. CASE t = "cli"
  <2> DEFINE r == [mem[s] EXCEPT !.cli = Idle, !.quorum = IF reset THEN 0 ELSE @]
  <2>1. mem' = [mem EXCEPT ![s] = r]
    BY Zenon, <1>1 DEF TypeOK, Return
  <2>2. r \in MemType /\ r.up = mem[s].up /\ r.mon = mem[s].mon
    BY Zenon, <1>0 DEF TypeOK, MemType
  <2> QED BY Zenon, <2>1, <2>2, ServerKeeps
<1>2. CASE t = "mon"
  <2> DEFINE r == [mem[s] EXCEPT !.mon = Idle, !.quorum = IF reset THEN 0 ELSE @]
  <2>1. mem' = [mem EXCEPT ![s] = r]
    BY Zenon, <1>2 DEF TypeOK, Return
  <2>2. r \in MemType /\ r.up = mem[s].up /\ r.mon = Idle
    BY Zenon, <1>0 DEF TypeOK, MemType
  <2> QED BY Zenon, <1>0, <2>1, <2>2, ServerKeeps
<1> QED BY Zenon, <1>1, <1>2 DEF Threads

LEMMA GotoKeeps ==
    ASSUME TypeOK, NEW s \in Servers, NEW t \in Threads, NEW pc \in Pcs \cup {"done"},
           Goto(s, t, pc)
    PROVE  MemKeeps
<1>0. CASE pc = "done"
  BY Zenon, <1>0, ReturnKeeps DEF Goto
<1>1. CASE pc # "done" /\ t = "cli"
  <2> DEFINE c == [mem[s].cli EXCEPT !.pc = pc]
             r == [mem[s] EXCEPT !.cli = c]
  <2>1. mem' = [mem EXCEPT ![s] = r]
    BY Zenon, <1>1 DEF TypeOK, Goto
  <2>0. mem[s] \in MemType /\ mem[s].cli \in Thread(CliOps)
    BY Zenon DEF TypeOK, MemType
  <2>c. pc \in Pcs
    BY Zenon, <1>1
  <2>t. c \in Thread(CliOps) /\ c.op = mem[s].cli.op
    BY Zenon, <2>0, <2>c DEF Thread
  <2> HIDE DEF c
  <2>2. r \in MemType /\ r.up = mem[s].up /\ r.mon = mem[s].mon
    BY Zenon, <2>0, <2>t DEF MemType
  <2> QED BY Zenon, <2>1, <2>2, ServerKeeps
<1>2. CASE pc # "done" /\ t = "mon"
  <2> DEFINE c == [mem[s].mon EXCEPT !.pc = pc]
             r == [mem[s] EXCEPT !.mon = c]
  <2>1. mem' = [mem EXCEPT ![s] = r]
    BY Zenon, <1>2 DEF TypeOK, Goto
  <2>0. mem[s] \in MemType /\ mem[s].mon \in Thread({"idle", "complete"})
    BY Zenon DEF TypeOK, MemType
  <2>c. pc \in Pcs
    BY Zenon, <1>2
  <2>t. c \in Thread({"idle", "complete"}) /\ c.op = mem[s].mon.op
    BY Zenon, <2>0, <2>c DEF Thread
  <2> HIDE DEF c
  <2>2. r \in MemType /\ r.up = mem[s].up /\ r.mon.op = mem[s].mon.op
    BY Zenon, <2>0, <2>t DEF MemType
  <2> QED BY Zenon, <2>1, <2>2, ServerKeeps
<1> QED BY Zenon, <1>0, <1>1, <1>2 DEF Threads

\* The configurations, and the entry made for a request.
LEMMA ConfigType ==
    ASSUME TypeOK
    PROVE  /\ Config \in Configs
           /\ \A n \in 0..Len(log) : ConfigAt(n) \in Configs
           /\ \A op \in EntryOps, m \in Servers :
                 Entry(op, m) \in [op : EntryOps, m : Servers, cfg : Configs]
<1>1. \A n \in 0..Len(log) : ConfigAt(n) \in Configs
  <2>1. InitialConfig \in Configs
    BY Zenon, GroupAssumption DEF InitialConfig, Configs
  <2> DEFINE E == [op : EntryOps, m : Servers, cfg : Configs]
  <2>2. log \in Seq(E)
    BY Zenon DEF TypeOK
  <2>3. ASSUME NEW n \in 0..Len(log)
        PROVE  n = 0 \/ log[n] \in E
    <3> HIDE DEF E
    <3> QED BY SMT, <2>2
  <2>4. \A e \in E : e.cfg \in Configs
    BY Zenon
  <2> HIDE DEF E
  <2> QED BY Zenon, <2>1, <2>3, <2>4 DEF ConfigAt
<1>2. Config \in Configs
  BY SMT, <1>1 DEF TypeOK, Config
<1>3. ASSUME NEW op \in EntryOps, NEW m \in Servers
      PROVE  Changed(Config, op, m) \in Configs
  BY Zenon, <1>2 DEF Changed, Configs
<1> QED BY <1>1, <1>2, <1>3, SMT DEF Entry

\* An appended entry lengthens the log, and keeps what is known of the new member: only
\* its own removal takes it out of the configuration, and the out member is removed only
\* after a monitor decided.
LEMMA AppendKeeps ==
    ASSUME TypeOK, InBeforeOut, InKept, Decided,
           NEW op \in EntryOps, NEW m \in Servers,
           log' = Append(log, Entry(op, m)),
           op = "rem" /\ m = Out => \E s \in Servers : mem[s].mon.op = "complete"
    PROVE  /\ log' \in Seq([op : EntryOps, m : Servers, cfg : Configs])
           /\ Len(log) <= Len(log')
           /\ InBeforeOut' /\ InKept' /\ (InWas => InWas')
<1> DEFINE E == [op : EntryOps, m : Servers, cfg : Configs]
           e == Entry(op, m)
<1>0. PICK n \in Nat : n = Len(log)
  BY SMT DEF TypeOK
<1>1. e \in E /\ log \in Seq(E)
  BY Zenon, ConfigType DEF TypeOK
<1>2. e.op = op /\ e.m = m /\ e.cfg = Changed(Config, op, m)
  BY Zenon DEF Entry
<1>3. /\ log' \in Seq(E) /\ Len(log') = n + 1 /\ n \in Nat
      /\ \A i \in 1..n : log'[i] = log[i]
      /\ log'[n + 1] = e
  <2> HIDE DEF E, e
  <2> QED BY SMT, <1>0, <1>1 DEF e
<1> HIDE DEF E, e
<1>4. \A i \in 0..n : ConfigAt(i)' = ConfigAt(i)
  BY SMT, <1>3 DEF ConfigAt, InitialConfig
<1>5. Config' = Changed(Config, op, m)
  BY SMT, <1>0, <1>2, <1>3 DEF Config, ConfigAt
<1>6. \A i \in 1..n, x \in Servers : Removes(i, x)' <=> Removes(i, x)
  BY SMT, <1>3 DEF Removes
<1>7. \A x \in Servers : Removes(n + 1, x)' <=> op = "rem" /\ m = x
  BY Zenon, <1>2, <1>3 DEF Removes
<1>8. In \in Config.servers => In \in Config'.servers \/ (op = "rem" /\ m = In)
  BY Zenon, <1>5, ConfigType DEF Changed, Configs
<1>9. op = "rem" /\ m = Out /\ In \in Config.servers => In \in Config'.servers
  BY Zenon, <1>5, GroupAssumption, ConfigType DEF Changed, Configs
<1>10. InWas => InWas'
  BY SMT, <1>0, <1>3, <1>4 DEF InWas
<1>11. InKept'
  <2> SUFFICES ASSUME InWas'
               PROVE  \/ In \in Config'.servers
                      \/ \E j \in 1..(n + 1) : Removes(j, In)'
    BY Zenon, <1>3 DEF InKept
  <2>1. InWas \/ In \in Config'.servers
    <3>1. PICK i \in 0..(n + 1) : In \in ConfigAt(i)'.servers
      BY Zenon, <1>3 DEF InWas
    <3>2. i \in 0..n \/ i = Len(log')
      BY SMT, <1>3
    <3> QED BY Zenon, <1>0, <1>4, <3>1, <3>2 DEF InWas, Config
  <2>2. In \in Config.servers \/ (\E j \in 1..n : Removes(j, In)) \/ In \in Config'.servers
    BY Zenon, <1>0, <2>1 DEF InKept
  <2>3. (\E j \in 1..n : Removes(j, In)) => \E j \in 1..(n + 1) : Removes(j, In)'
    BY SMT, <1>3, <1>6, GroupAssumption
  <2>4. op = "rem" /\ m = In => \E j \in 1..(n + 1) : Removes(j, In)'
    <3>1. n + 1 \in 1..(n + 1)
      BY SMT, <1>3
    <3> QED BY Zenon, <1>7, <3>1
  <2> QED BY Zenon, <2>2, <2>3, <2>4, <1>8
<1>12. InBeforeOut'
  <2> SUFFICES ASSUME NEW i \in 1..(n + 1), Removes(i, Out)'
               PROVE  \/ In \in ConfigAt(i)'.servers
                      \/ \E j \in 1..i : Removes(j, In)'
    BY Zenon, <1>3 DEF InBeforeOut
  <2>1. CASE i \in 1..n
    <3>1. Removes(i, Out) /\ ConfigAt(i)' = ConfigAt(i)
      BY SMT, <1>3, <1>4, <1>6, <2>1, GroupAssumption
    <3>2. In \in ConfigAt(i).servers \/ \E j \in 1..i : Removes(j, In)
      BY Zenon, <1>0, <3>1, <2>1 DEF InBeforeOut
    <3>3. \A j \in 1..i : j \in 1..n
      BY SMT, <1>3, <2>1
    <3> QED BY Zenon, <1>6, <3>1, <3>2, <3>3, GroupAssumption
  <2>2. CASE i = n + 1
    <3>1. op = "rem" /\ m = Out
      BY Zenon, <1>7, <2>2, GroupAssumption
    <3>2. In \in Config.servers \/ \E j \in 1..n : Removes(j, In)
      BY Zenon, <1>0, <3>1 DEF Decided, InKept
    <3>3. Config' = ConfigAt(i)'
      BY Zenon, <1>3, <2>2 DEF Config
    <3>4. \A j \in 1..n : j \in 1..i
      BY SMT, <1>3, <2>2
    <3> QED BY Zenon, <1>6, <1>9, <3>1, <3>2, <3>3, <3>4, GroupAssumption
  <2> QED BY SMT, <1>3, <2>1, <2>2
<1> QED BY SMT, <1>0, <1>3, <1>10, <1>11, <1>12 DEF E

\* A step of a thread, which leaves the disks alone.
LEMMA ThreadStep ==
    ASSUME GInv, MemKeeps, LogKeeps, disk' = disk
    PROVE  GInv'
<1>1. /\ log' \in Seq([op : EntryOps, m : Servers, cfg : Configs])
      /\ Len(log) <= Len(log') /\ Len(log) \in Nat /\ Len(log') \in Nat
      /\ InBeforeOut' /\ InKept' /\ (InWas => InWas')
  <2>1. CASE log' = log
    <3>1. log \in Seq([op : EntryOps, m : Servers, cfg : Configs])
      BY Zenon DEF GInv, TypeOK
    <3>2. Len(log) \in Nat /\ Len(log) <= Len(log)
      BY SMT, <3>1
    <3>3. InBeforeOut' /\ InKept' /\ (InWas => InWas')
      BY Zenon, <2>1 DEF GInv, InBeforeOut, InKept, InWas, Config, ConfigAt, InitialConfig,
         Removes
    <3> QED BY Zenon, <2>1, <3>1, <3>2, <3>3
  <2>2. CASE log' # log
    <3>1. /\ log' \in Seq([op : EntryOps, m : Servers, cfg : Configs])
          /\ Len(log) <= Len(log')
          /\ InBeforeOut' /\ InKept' /\ (InWas => InWas')
      BY Zenon, <2>2, AppendKeeps DEF LogKeeps, GInv
    <3>2. Len(log) \in Nat /\ Len(log') \in Nat
      BY SMT, <3>1 DEF GInv, TypeOK
    <3> QED BY Zenon, <3>1, <3>2
  <2> QED BY Zenon, <2>1, <2>2
<1>2. TypeOK'
  <2>1. \A s \in Servers : disk[s].applied \in Nat /\ disk[s].applied <= Len(log)
    BY Zenon DEF GInv, TypeOK, DiskType
  <2>2. \A s \in Servers : disk[s].applied <= Len(log')
    BY SMT, <1>1, <2>1
  <2> QED BY Zenon, <1>1, <2>2 DEF GInv, TypeOK, MemKeeps
<1>3. NoOrphans' /\ Decided'
  BY Zenon, <1>1 DEF GInv, MemKeeps, NoOrphans, Decided
<1> QED BY Zenon, <1>1, <1>2, <1>3 DEF GInv

\* What is left of a group on disk may be any part of it.
LEMMA DiskWith ==
    ASSUME NEW d \in DiskType, NEW sb \in BOOLEAN, NEW cfg \in BOOLEAN, NEW dev \in BOOLEAN
    PROVE  /\ [d EXCEPT !.sb = sb, !.cfg = cfg, !.logdev = dev] \in DiskType
           /\ [d EXCEPT !.sb = sb, !.cfg = cfg, !.logdev = dev].applied = d.applied
BY Zenon DEF DiskType

\* A step of one server that changes what it has in memory and on disk and leaves the
\* log alone.
LEMMA ServerStep ==
    ASSUME GInv, log' = log, NEW s \in Servers, NEW r \in MemType, NEW d \in DiskType,
           mem' = [mem EXCEPT ![s] = r], disk' = [disk EXCEPT ![s] = d],
           d.applied <= Len(log),
           r.up => (d.cfg \/ d.logdev => d.sb),
           r.mon.op = "complete" => mem[s].mon.op = "complete" \/ InWas
    PROVE  GInv'
<1>1. InBeforeOut' /\ InKept' /\ InWas' = InWas
  BY Zenon DEF GInv, InBeforeOut, InKept, InWas, Config, ConfigAt, InitialConfig, Removes
<1>2. /\ mem \in [Servers -> MemType] /\ disk \in [Servers -> DiskType]
      /\ mem'[s] = r /\ disk'[s] = d
      /\ \A x \in Servers : x # s => mem'[x] = mem[x] /\ disk'[x] = disk[x]
  BY Zenon DEF GInv, TypeOK
<1>3. TypeOK'
  BY Zenon, <1>2 DEF GInv, TypeOK
<1>4. NoOrphans' /\ Decided'
  BY Zenon, <1>1, <1>2 DEF GInv, NoOrphans, Decided
<1> QED BY Zenon, <1>1, <1>3, <1>4 DEF GInv

\* Handing an entry to nuraft, and waiting for it to take effect.
LEMMA SubmitKeeps ==
    ASSUME TypeOK, NEW s \in Servers, NEW t \in Threads,
           NEW op \in EntryOps, NEW m \in Servers, NEW next \in Pcs \cup {"done"},
           Submit(s, t, Entry(op, m), next),
           op = "rem" /\ m = Out => mem[s].mon.op = "complete"
    PROVE  MemKeeps /\ LogKeeps
<1>1. MemKeeps
  BY Zenon, GotoKeeps, ReturnKeeps DEF Submit
<1>2. log' = log \/ log' = Append(log, Entry(op, m))
  BY Zenon DEF Submit
<1> QED BY Zenon, <1>1, <1>2 DEF LogKeeps

LEMMA WaitKeeps ==
    ASSUME TypeOK, NEW s \in Servers, NEW t \in Threads, NEW cond,
           NEW next \in Pcs \cup {"done"}, WaitAndCheck(s, t, cond, next)
    PROVE  MemKeeps /\ LogKeeps
BY Zenon, GotoKeeps, ReturnKeeps DEF WaitAndCheck, LogKeeps

\* A request that begins, or is refused.
LEMMA BeginKeeps ==
    ASSUME TypeOK, NEW s \in Servers, NEW r \in Requests, r.op \in CliOps, NEW pc \in Pcs,
           Begin(s, r, pc)
    PROVE  MemKeeps
<1> DEFINE c == [op |-> r.op, pc |-> pc, target |-> r.target]
           x == [mem[s] EXCEPT !.cli = c, !.quorum = IF r.q >= 1 THEN r.q ELSE @]
<1>1. r.q \in Nat /\ r.target \in BOOLEAN
  BY Zenon, GroupAssumption
<1>2. c \in Thread(CliOps)
  BY Zenon, <1>1 DEF Thread
<1>3. mem' = [mem EXCEPT ![s] = x]
  BY Zenon DEF TypeOK, Begin
<1> HIDE DEF c
<1>4. x \in MemType /\ x.up = mem[s].up /\ x.mon = mem[s].mon
  BY Zenon, <1>1, <1>2 DEF TypeOK, MemType
<1> QED BY Zenon, <1>3, <1>4, ServerKeeps

LEMMA RefuseKeeps ==
    ASSUME TypeOK, NEW s \in Servers, NEW quorum \in Nat, Refuse(s, quorum)
    PROVE  MemKeeps
<1> DEFINE x == [mem[s] EXCEPT !.quorum = quorum]
<1>1. mem' = [mem EXCEPT ![s] = x]
  BY Zenon DEF TypeOK, Refuse
<1>2. x \in MemType /\ x.up = mem[s].up /\ x.mon = mem[s].mon
  BY Zenon DEF TypeOK, MemType
<1> QED BY Zenon, <1>1, <1>2, ServerKeeps

LEMMA SameKeeps ==
    ASSUME TypeOK, mem' = mem
    PROVE  MemKeeps
BY Zenon DEF TypeOK, MemKeeps

\* The requests of the operator.
LEMMA RequestStep ==
    ASSUME GInv, NEW s \in Servers, NEW r \in Requests,
           \/ StartReplaceMember(s, r) \/ FlipOrRemove(s, r)
           \/ CleanTask(s, r) \/ RemoveReplDev(s, r)
    PROVE  GInv'
<1> USE DEF GInv
<1>0. r.q \in Nat /\ mem[s].quorum \in Nat /\ 0 \in Nat
  <2>1. 0 \in Nat
    BY SMT
  <2> QED BY Zenon, <2>1, GroupAssumption DEF TypeOK, MemType
<1>1. log' = log /\ disk' = disk
  BY Zenon DEF StartReplaceMember, FlipOrRemove, CleanTask, RemoveReplDev
<1>2. MemKeeps
  <2>1. CASE StartReplaceMember(s, r)
    <3>1. r.op \in CliOps /\ "flip" \in Pcs
      BY Zenon, <2>1 DEF StartReplaceMember, CliOps, Pcs
    <3>2. \/ mem' = mem
          \/ Refuse(s, IF r.q >= 1 THEN r.q ELSE mem[s].quorum)
          \/ Refuse(s, 0)
          \/ Begin(s, r, "flip")
      BY Zenon, <2>1 DEF StartReplaceMember
    <3>3. (IF r.q >= 1 THEN r.q ELSE mem[s].quorum) \in Nat
      BY Zenon, <1>0
    <3> QED BY Zenon, <1>0, <3>1, <3>2, <3>3, SameKeeps, RefuseKeeps, BeginKeeps
  <2>2. CASE FlipOrRemove(s, r)
    <3>1. r.op \in CliOps /\ r.op \in Pcs
      BY Zenon, <2>2 DEF FlipOrRemove, CliOps, Pcs
    <3> QED BY Zenon, <2>2, <3>1, BeginKeeps DEF FlipOrRemove
  <2>3. CASE CleanTask(s, r)
    <3>1. r.op \in CliOps /\ "propose" \in Pcs
      BY Zenon, <2>3 DEF CleanTask, CliOps, Pcs
    <3> QED BY Zenon, <2>3, <3>1, BeginKeeps, SameKeeps DEF CleanTask
  <2>4. CASE RemoveReplDev(s, r)
    <3> DEFINE c == [Idle EXCEPT !.pc = "destroy"]
               x == [mem[s] EXCEPT !.stage = "destroying", !.cli = c]
    <3>1. c \in Thread(CliOps)
      BY Zenon DEF Idle, Thread, CliOps, Pcs
    <3>2. mem' = [mem EXCEPT ![s] = x]
      BY Zenon, <2>4 DEF TypeOK, RemoveReplDev
    <3> HIDE DEF c
    <3>3. x \in MemType /\ x.up = mem[s].up /\ x.mon = mem[s].mon
      BY Zenon, <3>1 DEF TypeOK, MemType
    <3> QED BY Zenon, <3>2, <3>3, ServerKeeps
  <2> QED BY Zenon, <2>1, <2>2, <2>3, <2>4
<1> QED BY Zenon, <1>1, <1>2, ThreadStep DEF LogKeeps

\* The steps of a replacement on the leader, and of flip_learner_flag.
LEMMA ReplaceStep ==
    ASSUME GInv, NEW s \in Servers,
           \/ FlipMember(s) \/ FlipVerify(s) \/ ProposeStart(s) \/ AddMember(s) \/ FlipOk(s)
    PROVE  GInv'
<1> USE DEF GInv
<1>0. "cli" \in Threads
  BY Zenon DEF Threads
<1>1. disk' = disk
  BY Zenon DEF FlipMember, FlipVerify, ProposeStart, AddMember, FlipOk
<1>2. MemKeeps /\ LogKeeps
  <2>1. CASE FlipMember(s)
    <3> DEFINE op == IF mem[s].cli.target THEN "learner" ELSE "voter"
    <3>1. /\ op \in EntryOps /\ op # "rem" /\ "flipped" \in Pcs \cup {"done"}
          /\ Out \in Servers
      BY Zenon, GroupAssumption DEF EntryOps, ConfigOps, Pcs
    <3>2. \/ (Return(s, "cli", TRUE) \/ Goto(s, "cli", "flipped")) /\ log' = log
          \/ Submit(s, "cli", Entry(op, Out), "flipped")
      BY Zenon, <2>1 DEF FlipMember, SubmitConfig
    <3> HIDE DEF op
    <3> QED BY Zenon, <1>0, <3>1, <3>2, GotoKeeps, ReturnKeeps, SubmitKeeps DEF LogKeeps
  <2>2. CASE FlipVerify(s)
    <3> DEFINE next == IF mem[s].cli.op = "replace" THEN "start" ELSE "flip ok"
    <3>1. next \in Pcs \cup {"done"}
      BY Zenon DEF Pcs
    <3>2. WaitAndCheck(s, "cli", Flipped(s), next)
      BY Zenon, <2>2 DEF FlipVerify
    <3> HIDE DEF next
    <3> QED BY Zenon, <1>0, <3>1, <3>2, WaitKeeps
  <2>3. CASE ProposeStart(s)
    <3>1. "start" \in EntryOps /\ "add" \in Pcs \cup {"done"} /\ In \in Servers
      BY Zenon, GroupAssumption DEF EntryOps, Pcs
    <3> QED BY Zenon, <1>0, <2>3, <3>1, SubmitKeeps DEF ProposeStart
  <2>4. CASE AddMember(s)
    <3>1. "add" \in EntryOps /\ In \in Servers
      BY Zenon, GroupAssumption DEF EntryOps, ConfigOps
    <3>2. \/ (Return(s, "cli", TRUE) \/ Goto(s, "cli", "done")) /\ log' = log
          \/ Submit(s, "cli", Entry("add", In), "done")
      BY Zenon, <2>4 DEF AddMember, SubmitConfig
    <3> QED BY Zenon, <1>0, <3>1, <3>2, GotoKeeps, ReturnKeeps, SubmitKeeps DEF LogKeeps
  <2>5. CASE FlipOk(s)
    BY Zenon, <1>0, <2>5, ReturnKeeps DEF FlipOk, LogKeeps
  <2> QED BY Zenon, <2>1, <2>2, <2>3, <2>4, <2>5
<1> QED BY Zenon, <1>1, <1>2, ThreadStep

\* complete_replace_member and remove_member: only the monitor's thread removes the out
\* member.
LEMMA RemoveStep ==
    ASSUME GInv, NEW s \in Servers, NEW t \in Threads,
           RemoveMember(s, t) \/ RemoveVerify(s, t) \/ ProposeRemoved(s, t)
    PROVE  GInv'
<1> USE DEF GInv
<1>1. disk' = disk
  BY Zenon DEF RemoveMember, RemoveVerify, ProposeRemoved
<1>2. /\ mem[s][t].op \in EntryOps /\ mem[s][t].op # "rem"
      /\ mem[s][t].op = "complete" => mem[s].mon.op = "complete"
  <2>1. CASE t = "cli"
    <3>1. mem[s].cli.op \in CliOps
      BY Zenon DEF TypeOK, MemType, Thread
    <3>2. mem[s][t] = mem[s].cli
      BY Zenon, <2>1 DEF TypeOK, MemType
    <3> QED BY Zenon, <3>1, <3>2 DEF CliOps, EntryOps, ConfigOps
  <2>2. CASE t = "mon"
    <3>1. mem[s].mon.op \in {"idle", "complete"}
      BY Zenon DEF TypeOK, MemType, Thread
    <3>2. mem[s][t] = mem[s].mon
      BY Zenon, <2>2 DEF TypeOK, MemType
    <3> QED BY Zenon, <3>1, <3>2 DEF EntryOps, ConfigOps
  <2> QED BY Zenon, <2>1, <2>2 DEF Threads
<1>3. /\ Victim(s, t) \in Servers
      /\ Victim(s, t) = Out => mem[s].mon.op = "complete"
  BY Zenon, <1>2, GroupAssumption DEF Victim
<1>4. MemKeeps /\ LogKeeps
  <2>1. CASE RemoveMember(s, t)
    <3>1. "rem" \in EntryOps /\ "removed" \in Pcs \cup {"done"}
      BY Zenon DEF EntryOps, ConfigOps, Pcs
    <3>2. \/ (Return(s, t, TRUE) \/ Goto(s, t, "removed")) /\ log' = log
          \/ Submit(s, t, Entry("rem", Victim(s, t)), "removed")
      BY Zenon, <2>1 DEF RemoveMember, NotFound, SubmitConfig
    <3> QED BY Zenon, <1>3, <3>1, <3>2, GotoKeeps, ReturnKeeps, SubmitKeeps DEF LogKeeps
  <2>2. CASE RemoveVerify(s, t)
    <3>1. "propose" \in Pcs \cup {"done"}
      BY Zenon DEF Pcs
    <3> QED BY Zenon, <2>2, <3>1, WaitKeeps DEF RemoveVerify
  <2>3. CASE ProposeRemoved(s, t)
    BY Zenon, <1>2, <1>3, <2>3, SubmitKeeps DEF ProposeRemoved
  <2> QED BY Zenon, <2>1, <2>2, <2>3
<1> QED BY Zenon, <1>1, <1>4, ThreadStep

\* The monitor decides only if the new member is in the configuration it has committed.
LEMMA MonitorStep ==
    ASSUME GInv, NEW s \in Servers, Monitor(s)
    PROVE  GInv'
<1> USE DEF GInv
<1> DEFINE c == [Idle EXCEPT !.op = "complete", !.pc = "remove"]
           x == [mem[s] EXCEPT !.mon = c]
<1>1. log' = log /\ disk' = disk /\ disk' = [disk EXCEPT ![s] = disk[s]] /\ disk[s] \in DiskType
  BY Zenon DEF TypeOK, Monitor
<1>2. c \in Thread({"idle", "complete"})
  BY Zenon DEF Idle, Thread, Pcs
<1>3. mem' = [mem EXCEPT ![s] = x]
  BY Zenon DEF TypeOK, Monitor
<1>4. InWas
  <2>1. In \in ConfigAt(disk[s].applied).servers
    BY Zenon DEF Monitor, InCaughtUp, ConfigOf
  <2>2. disk[s].applied \in Nat /\ disk[s].applied <= Len(log)
    BY Zenon DEF TypeOK, DiskType
  <2>3. disk[s].applied \in 0..Len(log)
    BY SMT, <2>2 DEF TypeOK
  <2> QED BY Zenon, <2>1, <2>3 DEF InWas
<1> HIDE DEF c
<1>5. x \in MemType /\ x.up = mem[s].up
  BY Zenon, <1>2 DEF TypeOK, MemType
<1>6. disk[s].applied <= Len(log) /\ (x.up => (disk[s].cfg \/ disk[s].logdev => disk[s].sb))
  BY Zenon, <1>5 DEF TypeOK, NoOrphans
<1> HIDE DEF x
<1> QED BY Zenon, <1>1, <1>3, <1>4, <1>5, <1>6, ServerStep

\* destroy_group
LEMMA DestroyStep ==
    ASSUME GInv, NEW s \in Servers, DestroyGroup(s)
    PROVE  GInv'
<1> USE DEF GInv
<1>0. Idle \in Thread(CliOps)
  BY Zenon DEF Idle, Thread, CliOps, Pcs
<1>1. disk' = disk /\ LogKeeps
  <2>1. "destroy" \in EntryOps
    BY Zenon DEF EntryOps
  <2> QED BY Zenon, <2>1 DEF DestroyGroup, LogKeeps
<1>2. MemKeeps
  <2>1. CASE mem' = [mem EXCEPT ![s].cli = Idle]
    <3> DEFINE x == [mem[s] EXCEPT !.cli = Idle]
    <3>1. mem' = [mem EXCEPT ![s] = x]
      BY Zenon, <2>1 DEF TypeOK
    <3>2. x \in MemType /\ x.up = mem[s].up /\ x.mon = mem[s].mon
      BY Zenon, <1>0 DEF TypeOK, MemType
    <3> QED BY Zenon, <3>1, <3>2, ServerKeeps
  <2>2. CASE mem' = [mem EXCEPT ![s].cli = Idle, ![s].stage = "active"]
    <3> DEFINE x == [mem[s] EXCEPT !.cli = Idle, !.stage = "active"]
    <3>1. mem' = [mem EXCEPT ![s] = x]
      BY Zenon, <2>2 DEF TypeOK
    <3>2. x \in MemType /\ x.up = mem[s].up /\ x.mon = mem[s].mon
      BY Zenon, <1>0 DEF TypeOK, MemType
    <3> QED BY Zenon, <3>1, <3>2, ServerKeeps
  <2> QED BY Zenon, <2>1, <2>2 DEF DestroyGroup
<1> QED BY Zenon, <1>1, <1>2, ThreadStep

\* handle_commit and commit_config, a member told that it was removed, and elections.
LEMMA CommitStep ==
    ASSUME GInv, NEW s \in Servers, Apply(s) \/ RemovedFromCluster(s) \/ Elect(s)
    PROVE  GInv'
<1> USE DEF GInv
<1>0. /\ mem[s] \in MemType /\ disk[s] \in DiskType
      /\ disk[s].applied \in Nat /\ disk[s].applied <= Len(log)
      /\ mem = [mem EXCEPT ![s] = mem[s]]
      /\ mem[s].up => (disk[s].cfg \/ disk[s].logdev => disk[s].sb)
  BY Zenon DEF TypeOK, DiskType, NoOrphans
<1> DEFINE x == [mem[s] EXCEPT !.stage = "destroyed"]
<1>x. x \in MemType /\ x.up = mem[s].up /\ x.mon = mem[s].mon
  BY Zenon, <1>0 DEF MemType
<1>1. CASE Apply(s)
  <2>0. disk[s].applied + 1 \in Nat /\ disk[s].applied + 1 <= Len(log)
    <3>1. disk[s].applied < Len(log)
      BY Zenon, <1>1 DEF Apply
    <3> QED BY SMT, <1>0, <3>1 DEF TypeOK
  <2>1. CASE Left(s)
    <3> DEFINE d == [disk[s] EXCEPT !.pending = TRUE, !.applied = @ + 1]
    <3>1. log' = log /\ mem' = [mem EXCEPT ![s] = x] /\ disk' = [disk EXCEPT ![s] = d]
      BY Zenon, <1>1, <2>1 DEF TypeOK, Apply, Left
    <3>2. /\ d \in DiskType /\ d.applied = disk[s].applied + 1
          /\ d.cfg = disk[s].cfg /\ d.logdev = disk[s].logdev /\ d.sb = disk[s].sb
      BY Zenon, <1>0, <2>0 DEF DiskType
    <3> HIDE DEF d, x
    <3> QED BY Zenon, <1>0, <1>x, <2>0, <3>1, <3>2, ServerStep
  <2>2. CASE ~Left(s)
    <3> DEFINE e == log[disk[s].applied + 1]
               d == [disk[s] EXCEPT !.applied = @ + 1,
                        !.task = IF e.op = "start" THEN TRUE
                                 ELSE IF e.op \in {"complete", "clean"} THEN FALSE ELSE @]
    <3>1. log' = log /\ mem' = mem /\ disk' = [disk EXCEPT ![s] = d]
      BY Zenon, <1>1, <2>2 DEF TypeOK, Apply
    <3>2. /\ d \in DiskType /\ d.applied = disk[s].applied + 1
          /\ d.cfg = disk[s].cfg /\ d.logdev = disk[s].logdev /\ d.sb = disk[s].sb
      BY Zenon, <1>0, <2>0 DEF DiskType
    <3> HIDE DEF d
    <3> QED BY Zenon, <1>0, <2>0, <3>1, <3>2, ServerStep
  <2> QED BY Zenon, <2>1, <2>2
<1>2. CASE RemovedFromCluster(s)
  <2> DEFINE d == [disk[s] EXCEPT !.pending = TRUE]
  <2>1. log' = log /\ mem' = [mem EXCEPT ![s] = x] /\ disk' = [disk EXCEPT ![s] = d]
    BY Zenon, <1>2 DEF TypeOK, RemovedFromCluster
  <2>2. /\ d \in DiskType /\ d.applied = disk[s].applied
        /\ d.cfg = disk[s].cfg /\ d.logdev = disk[s].logdev /\ d.sb = disk[s].sb
    BY Zenon, <1>0 DEF DiskType
  <2> HIDE DEF d, x
  <2> QED BY Zenon, <1>0, <1>x, <2>1, <2>2, ServerStep
<1>3. CASE Elect(s)
  BY Zenon, <1>3, SameKeeps, ThreadStep DEF Elect, LogKeeps
<1> QED BY Zenon, <1>1, <1>2, <1>3

\* A server that goes down: what its disk holds no longer matters.
LEMMA DownStep ==
    ASSUME GInv, NEW s \in Servers, NEW d \in DiskType, d.applied <= Len(log), log' = log,
           mem' = [mem EXCEPT ![s] = Down], disk' = [disk EXCEPT ![s] = d]
    PROVE  GInv'
<1>1. /\ Down \in MemType /\ ~Down.up /\ Down.mon.op # "complete"
  <2>1. 0 \in Nat
    BY SMT
  <2> QED BY Zenon, <2>1 DEF Down, MemType, Idle, Thread, CliOps, Pcs
<1> QED BY Zenon, <1>1, ServerStep

\* create_state_mgr, permanent_destroy and the start of a server: all writes or, with a
\* crash, some of them.
LEMMA WritesStep ==
    ASSUME GInv, NEW s \in Servers,
           CreateStateMgr(s) \/ PermanentDestroy(s) \/ Start(s)
    PROVE  GInv'
<1> USE DEF GInv
<1>0. /\ mem[s] \in MemType /\ disk[s] \in DiskType /\ disk[s].applied <= Len(log)
      /\ 0 \in Nat /\ 0 <= Len(log)
  <2>1. 0 \in Nat /\ 0 <= Len(log)
    BY SMT DEF TypeOK
  <2> QED BY Zenon, <2>1 DEF TypeOK
<1>1. CASE CreateStateMgr(s)
  <2> DEFINE x == [mem[s] EXCEPT !.stage = "active", !.listener = TRUE]
  <2>1. x \in MemType /\ x.mon = mem[s].mon
    BY Zenon, <1>0 DEF MemType
  <2>2. \A n \in 0..3 : Created(disk[s], n) \in DiskType /\ Created(disk[s], n).applied <= Len(log)
    <3>1. \A n \in 0..3 : (n >= 2) \in BOOLEAN /\ (n >= 3) \in BOOLEAN
      BY SMT
    <3> QED BY Zenon, <1>0, <3>1 DEF Created, DiskType
  <2>3. Created(disk[s], 3).sb /\ 3 \in 0..3 /\ \A n \in 0..2 : n \in 0..3
    <3>1. 3 >= 2 /\ 3 # 0 /\ 3 \in 0..3 /\ \A n \in 0..2 : n \in 0..3
      BY SMT
    <3> QED BY Zenon, <3>1 DEF Created
  <2>4. \/ mem' = [mem EXCEPT ![s] = x] /\ disk' = [disk EXCEPT ![s] = Created(disk[s], 3)]
        \/ \E n \in 0..2 : /\ mem' = [mem EXCEPT ![s] = Down]
                            /\ disk' = [disk EXCEPT ![s] = Created(disk[s], n)]
    BY Zenon, <1>1 DEF CreateStateMgr, Writes
  <2>5. log' = log
    BY Zenon, <1>1 DEF CreateStateMgr
  <2> HIDE DEF x
  <2>a. CASE mem' = [mem EXCEPT ![s] = x] /\ disk' = [disk EXCEPT ![s] = Created(disk[s], 3)]
    <3>1. Created(disk[s], 3) \in DiskType /\ Created(disk[s], 3).applied <= Len(log)
      BY Zenon, <2>2, <2>3
    <3> QED BY Zenon, <2>a, <2>1, <2>3, <2>5, <3>1, ServerStep
  <2>b. CASE \E n \in 0..2 : /\ mem' = [mem EXCEPT ![s] = Down]
                              /\ disk' = [disk EXCEPT ![s] = Created(disk[s], n)]
    <3>1. PICK n \in 0..2 : /\ mem' = [mem EXCEPT ![s] = Down]
                            /\ disk' = [disk EXCEPT ![s] = Created(disk[s], n)]
      BY Zenon, <2>b
    <3>2. Created(disk[s], n) \in DiskType /\ Created(disk[s], n).applied <= Len(log)
      BY Zenon, <2>2, <2>3
    <3> QED BY Zenon, <3>1, <3>2, <2>5, DownStep
  <2> QED BY Zenon, <2>a, <2>b, <2>4
<1>2. CASE PermanentDestroy(s)
  <2> DEFINE x == [Down EXCEPT !.up = TRUE]
  <2>1. x \in MemType /\ x.mon.op # "complete"
    BY Zenon, <1>0 DEF Down, MemType, Idle, Thread, CliOps, Pcs
  <2>2. \A n \in 0..3 : Destroyed(disk[s], n) \in DiskType /\ Destroyed(disk[s], n).applied <= Len(log)
    <3>1. \A n \in 0..3 : (n < 1) \in BOOLEAN /\ (n < 2) \in BOOLEAN /\ (n < 3) \in BOOLEAN
      BY SMT
    <3> QED BY Zenon, <1>0, <3>1 DEF Destroyed, DiskType
  <2>3. ~Destroyed(disk[s], 3).cfg /\ ~Destroyed(disk[s], 3).logdev
    <3>1. ~(3 < 1) /\ ~(3 < 2)
      BY SMT
    <3> QED BY Zenon, <1>0, <3>1 DEF Destroyed, DiskType
  <2>4. 3 \in 0..3 /\ \A n \in 0..2 : n \in 0..3
    BY SMT
  <2>5. \/ mem' = [mem EXCEPT ![s] = x] /\ disk' = [disk EXCEPT ![s] = Destroyed(disk[s], 3)]
        \/ \E n \in 0..2 : /\ mem' = [mem EXCEPT ![s] = Down]
                            /\ disk' = [disk EXCEPT ![s] = Destroyed(disk[s], n)]
    BY Zenon, <1>2 DEF PermanentDestroy, Writes
  <2>6. log' = log
    BY Zenon, <1>2 DEF PermanentDestroy
  <2> HIDE DEF x
  <2>a. CASE mem' = [mem EXCEPT ![s] = x] /\ disk' = [disk EXCEPT ![s] = Destroyed(disk[s], 3)]
    <3>1. Destroyed(disk[s], 3) \in DiskType /\ Destroyed(disk[s], 3).applied <= Len(log)
      BY Zenon, <2>2, <2>4
    <3> QED BY Zenon, <2>a, <2>1, <2>3, <2>6, <3>1, ServerStep
  <2>b. CASE \E n \in 0..2 : /\ mem' = [mem EXCEPT ![s] = Down]
                              /\ disk' = [disk EXCEPT ![s] = Destroyed(disk[s], n)]
    <3>1. PICK n \in 0..2 : /\ mem' = [mem EXCEPT ![s] = Down]
                            /\ disk' = [disk EXCEPT ![s] = Destroyed(disk[s], n)]
      BY Zenon, <2>b
    <3>2. Destroyed(disk[s], n) \in DiskType /\ Destroyed(disk[s], n).applied <= Len(log)
      BY Zenon, <2>2, <2>4
    <3> QED BY Zenon, <3>1, <3>2, <2>6, DownStep
  <2> QED BY Zenon, <2>a, <2>b, <2>5
<1>3. CASE Start(s)
  <2> DEFINE d == disk[s]
             x == [Down EXCEPT !.up = TRUE, !.listener = Loadable(d) /\ d.cfg,
                               !.stage = IF Loadable(d) THEN "active" ELSE "none"]
  <2>1. x \in MemType /\ x.mon.op # "complete"
    BY ZenonT(40), <1>0 DEF Down, MemType, Idle, Thread, CliOps, Pcs, Loadable, DiskType
  <2>2. \A n \in 0..3 : Loaded(d, n) \in DiskType /\ Loaded(d, n).applied <= Len(log)
    <3>1. Loadable(d) \in BOOLEAN /\ Opened(d) \in BOOLEAN
      BY Zenon DEF Loadable, Opened
    <3>2. d.sb \in BOOLEAN /\ d.cfg \in BOOLEAN /\ d.logdev \in BOOLEAN
      BY Zenon, <1>0 DEF DiskType
    <3> TAKE n \in 0..3
    <3> DEFINE sb == IF n >= 1 THEN Loadable(d) ELSE d.sb
               cfg == IF n >= 2 THEN d.cfg /\ Loadable(d) ELSE d.cfg
               dev == IF n >= 3 THEN d.logdev /\ Opened(d) ELSE d.logdev
    <3>3. sb \in BOOLEAN /\ cfg \in BOOLEAN /\ dev \in BOOLEAN
      BY Zenon, <3>1, <3>2
    <3>4. Loaded(d, n) = [d EXCEPT !.sb = sb, !.cfg = cfg, !.logdev = dev]
      BY Zenon DEF Loaded
    <3>5. d \in DiskType /\ d.applied <= Len(log)
      BY Zenon, <1>0
    <3> HIDE DEF sb, cfg, dev, d
    <3>6. /\ [d EXCEPT !.sb = sb, !.cfg = cfg, !.logdev = dev] \in DiskType
          /\ [d EXCEPT !.sb = sb, !.cfg = cfg, !.logdev = dev].applied = d.applied
      BY Zenon, <3>3, <3>5, DiskWith
    <3> QED BY Zenon, <3>4, <3>5, <3>6
  <2>3. Loaded(d, 3).cfg \/ Loaded(d, 3).logdev => Loaded(d, 3).sb
    <3>1. 3 >= 1 /\ 3 >= 2 /\ 3 >= 3
      BY SMT
    <3> QED BY Zenon, <1>0, <3>1 DEF Loaded, Opened, DiskType
  <2>4. 3 \in 0..3 /\ \A n \in 0..2 : n \in 0..3
    BY SMT
  <2>5. \/ mem' = [mem EXCEPT ![s] = x] /\ disk' = [disk EXCEPT ![s] = Loaded(d, 3)]
        \/ \E n \in 0..2 : /\ mem' = [mem EXCEPT ![s] = Down]
                            /\ disk' = [disk EXCEPT ![s] = Loaded(d, n)]
    BY Zenon, <1>3 DEF Start, Writes
  <2>6. log' = log
    BY Zenon, <1>3 DEF Start
  <2> HIDE DEF x
  <2>a. CASE mem' = [mem EXCEPT ![s] = x] /\ disk' = [disk EXCEPT ![s] = Loaded(d, 3)]
    <3>1. Loaded(d, 3) \in DiskType /\ Loaded(d, 3).applied <= Len(log)
      BY Zenon, <2>2, <2>4
    <3> QED BY Zenon, <2>a, <2>1, <2>3, <2>6, <3>1, ServerStep
  <2>b. CASE \E n \in 0..2 : /\ mem' = [mem EXCEPT ![s] = Down]
                              /\ disk' = [disk EXCEPT ![s] = Loaded(d, n)]
    <3>1. PICK n \in 0..2 : /\ mem' = [mem EXCEPT ![s] = Down]
                            /\ disk' = [disk EXCEPT ![s] = Loaded(d, n)]
      BY Zenon, <2>b
    <3>2. Loaded(d, n) \in DiskType /\ Loaded(d, n).applied <= Len(log)
      BY Zenon, <2>2, <2>4
    <3> QED BY Zenon, <3>1, <3>2, <2>6, DownStep
  <2> QED BY Zenon, <2>a, <2>b, <2>5
<1> QED BY Zenon, <1>1, <1>2, <1>3

\* A crash; entries committed since the commit lsn was saved are committed again.
LEMMA CrashStep ==
    ASSUME GInv, NEW s \in Servers, Crash(s)
    PROVE  GInv'
<1>1. PICK n \in {disk[s].applied, IF disk[s].applied > 0 THEN disk[s].applied - 1 ELSE 0} :
         disk' = [disk EXCEPT ![s].applied = n]
  BY Zenon DEF Crash
<1>2. disk[s] \in DiskType /\ disk[s].applied \in Nat /\ disk[s].applied <= Len(log)
  BY Zenon DEF GInv, TypeOK, DiskType
<1>3. n \in Nat /\ n <= Len(log)
  BY SMT, <1>2 DEF GInv, TypeOK
<1> DEFINE d == [disk[s] EXCEPT !.applied = n]
<1>4. d \in DiskType /\ d.applied = n
  BY Zenon, <1>2, <1>3 DEF DiskType
<1>5. disk' = [disk EXCEPT ![s] = d] /\ mem' = [mem EXCEPT ![s] = Down] /\ log' = log
  BY Zenon, <1>1 DEF Crash, GInv, TypeOK
<1> HIDE DEF d
<1> QED BY Zenon, <1>3, <1>4, <1>5, DownStep

LEMMA InitGood == Init => GInv
<1> SUFFICES ASSUME Init PROVE GInv
  OBVIOUS
<1> USE DEF Init
<1>1. TypeOK
  <2>1. 0 \in Nat /\ Len(<< >>) = 0 /\ 0 <= 0
    BY SMT
  <2>2. log \in Seq([op : EntryOps, m : Servers, cfg : Configs])
    BY SMT
  <2>3. /\ Idle \in Thread(CliOps) /\ Idle \in Thread({"idle", "complete"})
    BY Zenon DEF Idle, Thread, CliOps, Pcs
  <2>4. mem \in [Servers -> MemType]
    BY Zenon, <2>1, <2>3 DEF MemType
  <2>5. disk \in [Servers -> DiskType]
    BY Zenon, <2>1 DEF DiskType
  <2>6. \A s \in Servers : disk[s].applied <= Len(log)
    BY Zenon, <2>1
  <2> QED BY Zenon, <2>2, <2>4, <2>5, <2>6 DEF TypeOK
<1>2. NoOrphans
  BY Zenon DEF NoOrphans
<1>3. Len(log) = 0 /\ 1..0 = {} /\ 0..0 = {0}
  BY SMT
<1>4. ~InWas
  BY Zenon, <1>3, GroupAssumption DEF InWas, ConfigAt, InitialConfig
<1>5. InBeforeOut /\ InKept /\ Decided
  BY Zenon, <1>3, <1>4 DEF InBeforeOut, InKept, Decided, Idle
<1> QED BY Zenon, <1>1, <1>2, <1>5 DEF GInv

LEMMA NextGood == GInv /\ [Next]_vars => GInv'
<1> SUFFICES ASSUME GInv, [Next]_vars PROVE GInv'
  OBVIOUS
<1>1. CASE Next
  <2>1. PICK s \in Servers :
          \/ \E r \in Requests : \/ StartReplaceMember(s, r) \/ FlipOrRemove(s, r)
                                \/ CleanTask(s, r) \/ RemoveReplDev(s, r)
          \/ FlipMember(s) \/ FlipVerify(s) \/ ProposeStart(s)
          \/ AddMember(s) \/ FlipOk(s) \/ DestroyGroup(s) \/ Monitor(s)
          \/ \E t \in Threads : \/ RemoveMember(s, t) \/ RemoveVerify(s, t)
                                \/ ProposeRemoved(s, t)
          \/ Apply(s) \/ RemovedFromCluster(s) \/ Elect(s)
          \/ CreateStateMgr(s) \/ PermanentDestroy(s)
          \/ Crash(s) \/ Start(s)
    BY Zenon, <1>1 DEF Next
  <2> QED BY Zenon, <2>1, RequestStep, ReplaceStep, DestroyStep, MonitorStep, RemoveStep,
          CommitStep, WritesStep, CrashStep
<1>2. CASE UNCHANGED vars
  BY Zenon, <1>2, SameKeeps, ThreadStep DEF vars, GInv, LogKeeps
<1> QED BY Zenon, <1>1, <1>2

\* The inductive invariant holds in every state of every behaviour.
THEOREM GroupInvariance == Spec => []GInv
BY InitGood, NextGood, PTL DEF Spec

\* A server that is up never keeps a raft config superblk or a log device without the repl
\* dev superblk it is found and reclaimed by, whichever of the writes of create_state_mgr,
\* permanent_destroy and the start of a server a crash cut off.
THEOREM NothingOrphaned == Spec => []NoOrphans
<1>1. GInv => NoOrphans
  BY DEF GInv
<1> QED BY <1>1, GroupInvariance, PTL

\* start_replace_member and the monitor: the out member is removed only from a group its
\* replacement has joined, unless the operator removed that one.
THEOREM ReplacedAfterJoin == Spec => []InBeforeOut
<1>1. GInv => InBeforeOut
  BY DEF GInv
<1> QED BY <1>1, GroupInvariance, PTL
===========================================================================
