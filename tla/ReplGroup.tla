---------------------------- MODULE ReplGroup ----------------------------
\* Membership and lifecycle of a replication group: replacing a member (a request on the
\* leader, then the monitor of the reaper thread), flipping the learner flag, removing a
\* member, cleaning a task, destroying the group, and what each member keeps on disk for
\* it (repl dev superblk, raft config superblk, log device) through crashes and restarts.
\* nuraft is external: a log of committed entries that every member of the configuration
\* applies in order; the replicated data is the business of RaftReplDev and ReplResync.
EXTENDS Naturals, FiniteSets, Sequences

CONSTANTS
    Servers,        \* all servers
    Out, In,        \* the member to be replaced and its replacement
    Requests,       \* requests of the operator, [op, q, target]
    Laggy,          \* consensus.laggy_threshold
    MaxRequests,    \* bound on the requests of the operator
    MaxFaults       \* bound on crashes and on requests to nuraft that fail or time out

ASSUME GroupAssumption ==
    /\ Out \in Servers /\ In \in Servers /\ Out # In
    /\ Requests \subseteq [op : {"replace", "flip", "remove", "clean", "destroy"},
                            q : Nat, target : BOOLEAN]
    /\ Laggy \in Nat /\ MaxRequests \in Nat /\ MaxFaults \in Nat

VARIABLES
    log,            \* the committed entries of the group: op, m (the member it is about)
                    \* and cfg (the configuration from it on)
    leader,         \* the leader; Nobody when there is none
    mem,            \* per server: up, stage, quorum (custom commit quorum),
                    \* listener (attached) and cli, mon (the threads of a request and of
                    \* the monitor)
    disk,           \* per server: sb, cfg and logdev (exist), pending (destroy_pending),
                    \* task (replace_member_task) and applied (entries committed)
    faults, reqs

vars == <<log, leader, mem, disk, faults, reqs>>

Nobody == "nobody"
Idle == [op |-> "idle", pc |-> "idle", target |-> FALSE]

----------------------------------------------------------------------------
\* The configuration after the first n entries.

Changed(c, op, m) ==
    CASE op = "add"     -> [c EXCEPT !.servers = @ \cup {m}]
      [] op = "rem"     -> [servers |-> c.servers \ {m}, learners |-> c.learners \ {m}]
      [] op = "learner" -> [c EXCEPT !.learners = @ \cup {m}]
      [] op = "voter"   -> [c EXCEPT !.learners = @ \ {m}]
      [] OTHER          -> c
InitialConfig == [servers |-> Servers \ {In}, learners |-> {}]
ConfigAt(n) == IF n = 0 THEN InitialConfig ELSE log[n].cfg
Config == ConfigAt(Len(log))
Entry(op, m) == [op |-> op, m |-> m, cfg |-> Changed(Config, op, m)]
\* get_config on a member: what it has committed
ConfigOf(s) == ConfigAt(disk[s].applied)
Removes(i, m) == log[i].op = "rem" /\ log[i].m = m
ConfigOps == {"add", "rem", "learner", "voter"}
ConfigChanging(s) == \E i \in disk[s].applied + 1..Len(log) : log[i].op \in ConfigOps

Fault == faults < MaxFaults /\ faults' = faults + 1
Running(s) == mem[s].up /\ mem[s].stage \in {"active", "destroying"}

\* get_quorum_for_commit, or the custom one
Voters(c) == c.servers \ c.learners
QuorumOf(s) ==
    IF mem[s].quorum > 0 THEN mem[s].quorum ELSE Cardinality(Voters(Config)) \div 2 + 1
CanCommit(s) ==
    /\ leader = s
    /\ Cardinality({v \in Voters(Config) : Running(v)}) >= QuorumOf(s)

Electable == {p \in Voters(Config) : Running(p) /\ mem[p].listener}
YieldLeadership(s) ==
    leader' \in IF Electable \ {s} = {} THEN {Nobody} ELSE Electable \ {s}

Init ==
    /\ log = << >> /\ leader \in Servers \ {Out, In} /\ faults = 0 /\ reqs = 0
    /\ mem = [s \in Servers |->
                [up |-> TRUE, stage |-> IF s = In THEN "none" ELSE "active", quorum |-> 0,
                 listener |-> s # In, cli |-> Idle, mon |-> Idle]]
    /\ disk = [s \in Servers |->
                [sb |-> s # In, cfg |-> s # In, logdev |-> s # In, pending |-> FALSE,
                 task |-> FALSE, applied |-> 0]]

----------------------------------------------------------------------------
\* Threads.

\* A request returns; with reset, after reset_quorum_size(0).
Return(s, t, reset) ==
    mem' = [mem EXCEPT ![s][t] = Idle, ![s].quorum = IF reset THEN 0 ELSE @]
Goto(s, t, pc) ==
    IF pc = "done" THEN Return(s, t, TRUE) ELSE mem' = [mem EXCEPT ![s][t].pc = pc]

\* An entry is handed to nuraft and committed, or the request fails: it is refused, or
\* (Fault) times out while the entry may still be committed.
Submit(s, t, e, next) ==
    \/ /\ CanCommit(s)
       /\ log' = Append(log, e) /\ Goto(s, t, next)
       /\ UNCHANGED faults
    \/ /\ ~CanCommit(s)
       /\ Return(s, t, TRUE)
       /\ UNCHANGED <<log, faults>>
    \/ /\ CanCommit(s) /\ Fault
       /\ log' \in {log, Append(log, e)}
       /\ Return(s, t, TRUE)
\* retry_when_config_changing
SubmitConfig(s, t, e, next) == ~ConfigChanging(s) /\ Submit(s, t, e, next)

\* wait_and_check: passes once the condition holds, or times out.
WaitAndCheck(s, t, cond, next) ==
    /\ IF cond THEN Goto(s, t, next) ELSE Return(s, t, TRUE)
    /\ IF cond \/ disk[s].applied = Len(log) THEN UNCHANGED faults ELSE Fault
    /\ UNCHANGED log

\* A replacement that failed half-way is asked for again, on the leader, once the new
\* member is there, unless the operator had it removed.
Retry(s, r) ==
    /\ r.op = "replace" /\ leader = s /\ disk[s].task
    /\ In \notin Config.servers /\ mem[In].up /\ (Running(In) \/ mem[In].stage = "none")
    /\ mem[s].mon = Idle /\ disk[s].applied = Len(log)
    /\ ~ \E i \in 1..Len(log) : Removes(i, In)
Asked(s, r) ==
    /\ IF Retry(s, r) THEN UNCHANGED reqs ELSE reqs < MaxRequests /\ reqs' = reqs + 1
    /\ Running(s) /\ mem[s].cli = Idle
\* The thread of request r on s, at pc, with its quorum set
Begin(s, r, pc) ==
    mem' = [mem EXCEPT ![s].cli = [op |-> r.op, pc |-> pc, target |-> r.target],
                       ![s].quorum = IF r.q >= 1 THEN r.q ELSE @]
Refuse(s, quorum) == mem' = [mem EXCEPT ![s].quorum = quorum]

----------------------------------------------------------------------------
\* start_replace_member

\* get_active_peers, the out and in members left out
ActiveNum(s) ==
    Cardinality({p \in ConfigOf(s).servers \ {Out, In} :
                    p = s \/ disk[p].applied + Laggy >= disk[s].applied})

StartReplaceMember(s, r) ==
    LET c == ConfigOf(s)
        quorum == IF r.q >= 1 THEN r.q ELSE mem[s].quorum IN
    /\ r.op = "replace" /\ Asked(s, r)
    /\ IF mem[s].stage # "active" THEN UNCHANGED <<mem, leader>>
       ELSE IF s = Out
       THEN UNCHANGED mem /\ IF leader = s THEN YieldLeadership(s) ELSE UNCHANGED leader
       ELSE /\ UNCHANGED leader
            /\ IF leader # s \/ (Out \notin c.servers /\ In \in c.servers)
               THEN Refuse(s, quorum)
               ELSE IF \/ Out \notin c.servers
                       \/ r.q = 0 /\ ActiveNum(s) < Cardinality(Voters(c)) \div 2 + 1
               THEN Refuse(s, 0)
               ELSE Begin(s, r, "flip")
    /\ UNCHANGED <<log, disk, faults>>

\* do_flip_learner: steps 2 of a replacement, with target TRUE, and flip_learner_flag
FlipMember(s) ==
    LET c == ConfigOf(s)
        target == mem[s].cli.target IN
    /\ mem[s].cli.pc = "flip"
    /\ IF leader # s \/ Out \notin c.servers
       THEN Return(s, "cli", TRUE) /\ UNCHANGED <<log, faults>>
       ELSE IF (Out \in c.learners) = target
            THEN Goto(s, "cli", "flipped") /\ UNCHANGED <<log, faults>>
            ELSE SubmitConfig(s, "cli", Entry(IF target THEN "learner" ELSE "voter", Out),
                              "flipped")
    /\ UNCHANGED <<leader, disk, reqs>>

\* the check of do_flip_learner, whatever the target
Flipped(s) == Out \in ConfigOf(s).learners

FlipVerify(s) ==
    /\ mem[s].cli.pc = "flipped"
    /\ WaitAndCheck(s, "cli", Flipped(s),
                    IF mem[s].cli.op = "replace" THEN "start" ELSE "flip ok")
    /\ UNCHANGED <<leader, disk, reqs>>

ProposeStart(s) ==
    /\ mem[s].cli.pc = "start"
    /\ Submit(s, "cli", Entry("start", In), "add")
    /\ UNCHANGED <<leader, disk, reqs>>

\* do_add_member: the joiner makes its repl dev first (create_state_mgr).
AddMember(s) ==
    /\ mem[s].cli.pc = "add"
    /\ IF leader # s THEN Return(s, "cli", TRUE) /\ UNCHANGED <<log, faults>>
       ELSE IF In \in ConfigOf(s).servers
            THEN Goto(s, "cli", "done") /\ UNCHANGED <<log, faults>>
            ELSE \/ Running(In) /\ SubmitConfig(s, "cli", Entry("add", In), "done")
                 \/ ~Running(In) /\ ~(mem[In].up /\ mem[In].stage = "none")
                    /\ Return(s, "cli", TRUE) /\ UNCHANGED <<log, faults>>
                 \/ ~Running(In) /\ Fault /\ Return(s, "cli", TRUE) /\ UNCHANGED log
    /\ UNCHANGED <<leader, disk, reqs>>

\* flip_learner_flag returns OK and leaves the quorum.
FlipOk(s) ==
    /\ mem[s].cli.pc = "flip ok"
    /\ Return(s, "cli", FALSE)
    /\ UNCHANGED <<log, leader, disk, faults, reqs>>

----------------------------------------------------------------------------
\* complete_replace_member, started by the monitor, and remove_member.

\* (a plausible slip: the in member is not looked for)
OutBehind(s) == TRUE
InCaughtUp(s) ==
    /\ In \in ConfigOf(s).servers
    /\ Out \in ConfigOf(s).servers => disk[In].applied + Laggy >= disk[Out].applied

\* Bound: the monitor completes a task it started completing already only after another
\* start.
CompletedSinceStart ==
    \E i \in 1..Len(log) :
        log[i].op = "complete" /\ \A j \in i + 1..Len(log) : log[j].op # "start"

Monitor(s) ==
    /\ Running(s) /\ mem[s].stage = "active" /\ leader = s /\ mem[s].mon = Idle
    /\ disk[s].task /\ InCaughtUp(s)
    /\ ~CompletedSinceStart
    /\ mem' = [mem EXCEPT ![s].mon = [Idle EXCEPT !.op = "complete", !.pc = "remove"]]
    /\ UNCHANGED <<log, leader, disk, faults, reqs>>

Victim(s, t) == IF mem[s][t].op = "complete" THEN Out ELSE In

\* (a plausible slip: a member that is gone is an error)
Gone(s, t) == Return(s, t, TRUE)
NotFound(s, t) == Goto(s, t, "removed")

\* do_remove_member
RemoveMember(s, t) ==
    LET m == Victim(s, t) IN
    /\ mem[s][t].pc = "remove"
    /\ IF leader # s THEN Return(s, t, TRUE) /\ UNCHANGED <<log, faults, leader>>
       ELSE IF m = s
       THEN Return(s, t, TRUE) /\ YieldLeadership(s) /\ UNCHANGED <<log, faults>>
       ELSE /\ UNCHANGED leader
            /\ IF m \notin ConfigOf(s).servers
               THEN NotFound(s, t) /\ UNCHANGED <<log, faults>>
               ELSE SubmitConfig(s, t, Entry("rem", m), "removed")
    /\ UNCHANGED <<disk, reqs>>

RemoveVerify(s, t) ==
    /\ mem[s][t].pc = "removed"
    /\ WaitAndCheck(s, t, Victim(s, t) \notin ConfigOf(s).servers, "propose")
    /\ UNCHANGED <<leader, disk, reqs>>

ProposeRemoved(s, t) ==
    /\ mem[s][t].pc = "propose"
    /\ Submit(s, t, Entry(mem[s][t].op, Victim(s, t)), "done")
    /\ UNCHANGED <<leader, disk, reqs>>

----------------------------------------------------------------------------
\* The other requests.

\* flip_learner_flag and remove_member set the quorum and go on.
FlipOrRemove(s, r) ==
    /\ r.op \in {"flip", "remove"} /\ Asked(s, r)
    /\ Begin(s, r, r.op)
    /\ UNCHANGED <<log, leader, disk, faults>>

\* clean_replace_member_task wants the leader and a task.
CleanTask(s, r) ==
    /\ r.op = "clean" /\ Asked(s, r)
    /\ IF leader = s /\ disk[s].task THEN Begin(s, r, "propose") ELSE UNCHANGED mem
    /\ UNCHANGED <<log, leader, disk, faults>>

\* remove_repl_dev, destroy_group: the intent is marked first.
RemoveReplDev(s, r) ==
    /\ r.op = "destroy" /\ Asked(s, r)
    /\ mem' = [mem EXCEPT ![s].stage = "destroying", ![s].cli = [Idle EXCEPT !.pc = "destroy"]]
    /\ UNCHANGED <<log, leader, disk, faults>>

\* A failed proposal makes the group active again.
DestroyGroup(s) ==
    /\ mem[s].cli.pc = "destroy" /\ mem[s].stage # "none"
    /\ IF CanCommit(s)
       THEN /\ log' = Append(log, Entry("destroy", s))
            /\ mem' = [mem EXCEPT ![s].cli = Idle]
       ELSE /\ mem' = [mem EXCEPT ![s].cli = Idle, ![s].stage = "active"]
            /\ UNCHANGED log
    /\ UNCHANGED <<leader, disk, faults, reqs>>

----------------------------------------------------------------------------
\* Commits on a member.

\* leave
Left(s) ==
    /\ mem' = [mem EXCEPT ![s].stage = "destroyed"]
    /\ disk' = [disk EXCEPT ![s].pending = TRUE, ![s].applied = @ + 1]

\* handle_commit and commit_config.  Entries are sent to the members of the
\* configuration, and to one that is removed up to its removal.
Apply(s) ==
    LET e == log[disk[s].applied + 1] IN
    /\ Running(s) /\ mem[s].listener /\ disk[s].applied < Len(log)
    /\ s \in Config.servers \/ s \in ConfigOf(s).servers
    /\ IF e.op = "destroy" \/ (e.op = "rem" /\ e.m = s)
       THEN Left(s)
       ELSE /\ disk' = [disk EXCEPT ![s].applied = @ + 1,
                            ![s].task = IF e.op = "start" THEN TRUE
                                        ELSE IF e.op \in {"complete", "clean"} THEN FALSE
                                        ELSE @]
            /\ UNCHANGED mem
    /\ UNCHANGED <<log, leader, faults, reqs>>

\* A member that was removed while it was away asks for votes and is told.
RemovedFromCluster(s) ==
    /\ Running(s) /\ leader # Nobody
    /\ s \notin ConfigOf(leader).servers
    /\ \E i \in 1..disk[leader].applied : Removes(i, s)
    /\ mem' = [mem EXCEPT ![s].stage = "destroyed"]
    /\ disk' = [disk EXCEPT ![s].pending = TRUE]
    /\ UNCHANGED <<log, leader, faults, reqs>>

Elect(s) ==
    /\ leader = Nobody /\ s \in Electable
    /\ Cardinality({v \in Voters(Config) : Running(v)}) >= QuorumOf(s)
    /\ leader' = s
    /\ UNCHANGED <<log, mem, disk, faults, reqs>>

----------------------------------------------------------------------------
\* Making and destroying what a member keeps, each a sequence of writes; a crash leaves
\* any number of them done.

Down == [up |-> FALSE, stage |-> "none", quorum |-> 0, listener |-> FALSE,
         cli |-> Idle, mon |-> Idle]
Lost(s) == leader' = IF leader = s THEN Nobody ELSE leader
\* All of the 3 writes of Step(d, n) are done and the server is then as in after, or
\* some and it crashes.
Writes(s, Step(_, _), after) ==
    \/ /\ disk' = [disk EXCEPT ![s] = Step(@, 3)]
       /\ mem' = [mem EXCEPT ![s] = after]
       /\ IF after.stage = "none" THEN Lost(s) ELSE UNCHANGED leader
       /\ UNCHANGED faults
    \/ /\ Fault
       /\ \E n \in 0..2 : disk' = [disk EXCEPT ![s] = Step(@, n)]
       /\ mem' = [mem EXCEPT ![s] = Down]
       /\ Lost(s)

\* create_state_mgr, called while a leader adds the member
Created(d, n) ==
    IF n = 0 THEN d
    ELSE [logdev |-> TRUE, sb |-> n >= 2, cfg |-> n >= 3,
          pending |-> FALSE, task |-> FALSE, applied |-> 0]
CreateStateMgr(s) ==
    /\ s = In /\ mem[s].up /\ mem[s].stage = "none"
    /\ leader # Nobody /\ mem[leader].cli.pc = "add"
    /\ Writes(s, Created, [mem[s] EXCEPT !.stage = "active", !.listener = TRUE])
    /\ UNCHANGED <<log, reqs>>

\* gc_repl_devs and permanent_destroy: the superblk goes last.
Destroyed(d, n) == [d EXCEPT !.cfg = n < 1, !.logdev = n < 2, !.sb = n < 3]
PermanentDestroy(s) ==
    /\ mem[s].up /\ mem[s].stage = "destroyed"
    /\ Writes(s, Destroyed, [Down EXCEPT !.up = TRUE])
    /\ UNCHANGED <<log, reqs>>

----------------------------------------------------------------------------
\* Crash and restart.

\* Entries committed since the commit lsn was last saved are committed again.
Crash(s) ==
    /\ Fault /\ mem[s].up
    /\ mem' = [mem EXCEPT ![s] = Down]
    /\ \E n \in {disk[s].applied, IF disk[s].applied > 0 THEN disk[s].applied - 1 ELSE 0} :
        disk' = [disk EXCEPT ![s].applied = n]
    /\ Lost(s)
    /\ UNCHANGED <<log, reqs>>

Loadable(d) == d.sb /\ ~d.pending
\* (a plausible slip: log devices nobody opened stay)
KeepUnopened(d) == TRUE
Opened(d) == Loadable(d)
\* load_repl_dev (of a group that is being destroyed only the superblk goes here), then
\* raft_group_config_found, then delete_unopened_logdevs
Loaded(d, n) == [d EXCEPT !.sb = IF n >= 1 THEN Loadable(d) ELSE @,
                          !.cfg = IF n >= 2 THEN @ /\ Loadable(d) ELSE @,
                          !.logdev = IF n >= 3 THEN @ /\ Opened(d) ELSE @]
Start(s) ==
    LET d == disk[s] IN
    /\ ~mem[s].up
    /\ Writes(s, Loaded, [Down EXCEPT !.up = TRUE, !.listener = Loadable(d) /\ d.cfg,
                                      !.stage = IF Loadable(d) THEN "active" ELSE "none"])
    /\ UNCHANGED <<log, reqs>>

----------------------------------------------------------------------------
Threads == {"cli", "mon"}

Next ==
    \E s \in Servers :
        \/ \E r \in Requests : \/ StartReplaceMember(s, r) \/ FlipOrRemove(s, r)
                              \/ CleanTask(s, r) \/ RemoveReplDev(s, r)
        \/ FlipMember(s) \/ FlipVerify(s) \/ ProposeStart(s)
        \/ AddMember(s) \/ FlipOk(s) \/ DestroyGroup(s) \/ Monitor(s)
        \/ \E t \in Threads : \/ RemoveMember(s, t) \/ RemoveVerify(s, t)
                              \/ ProposeRemoved(s, t)
        \/ Apply(s) \/ RemovedFromCluster(s) \/ Elect(s)
        \/ CreateStateMgr(s) \/ PermanentDestroy(s)
        \/ Crash(s) \/ Start(s)

\* Threads run, the reaper's timers recur, nuraft replicates and elects, and a server
\* that crashed is started again.
Progress(s) ==
    \/ FlipMember(s) \/ FlipVerify(s) \/ ProposeStart(s) \/ AddMember(s)
    \/ FlipOk(s) \/ DestroyGroup(s)
    \/ \E t \in Threads : RemoveMember(s, t) \/ RemoveVerify(s, t) \/ ProposeRemoved(s, t)
    \/ Elect(s) \/ Start(s)
Fairness ==
    \A s \in Servers :
        /\ WF_vars(Progress(s)) /\ WF_vars(Apply(s)) /\ WF_vars(Monitor(s))
        /\ WF_vars(RemovedFromCluster(s)) /\ WF_vars(PermanentDestroy(s))
        /\ WF_vars(CreateStateMgr(s))
        /\ WF_vars(\E r \in Requests : Retry(s, r) /\ StartReplaceMember(s, r))

Spec == Init /\ [][Next]_vars /\ Fairness

----------------------------------------------------------------------------
\* Properties.

\* Whatever crashed in the middle of what: a server that is up keeps nothing of a group
\* without the superblk that lets it be found and reclaimed.
NoOrphans ==
    \A s \in Servers :
        mem[s].up => (disk[s].cfg \/ disk[s].logdev => disk[s].sb)

\* The out member is never removed from a group its replacement is not in, unless the
\* operator removed that one.
InBeforeOut ==
    \A i \in 1..Len(log) :
        Removes(i, Out) =>
            \/ In \in ConfigAt(i).servers
            \/ \E j \in 1..i : Removes(j, In)

\* A replacement that started ends: on every member the task is cleared, whoever crashed
\* and whatever was done twice; unless the operator removed the new member or destroyed the
\* group, or the new member was lost half made.
TaskEnds ==
    (\E i \in 1..Len(log) : log[i].op = "start") ~>
        \/ \A s \in Config.servers : ~disk[s].task
        \/ \E i \in 1..Len(log) : log[i].op = "destroy" \/ Removes(i, In)
        \/ mem[In].stage = "active" /\ ~mem[In].listener

----------------------------------------------------------------------------
\* The inductive invariant behind NoOrphans and InBeforeOut.

Configs == [servers : SUBSET Servers, learners : SUBSET Servers]
EntryOps == ConfigOps \cup {"start", "complete", "remove", "clean", "replace", "flip",
                            "idle", "destroy"}
Pcs == {"idle", "flip", "flipped", "flip ok", "start", "add", "remove", "removed",
        "propose", "destroy"}
Thread(ops) == [op : ops, pc : Pcs, target : BOOLEAN]
CliOps == {"idle", "replace", "flip", "remove", "clean"}
MemType == [up : BOOLEAN, stage : {"none", "active", "destroying", "destroyed"},
            quorum : Nat, listener : BOOLEAN,
            cli : Thread(CliOps), mon : Thread({"idle", "complete"})]
DiskType == [sb : BOOLEAN, cfg : BOOLEAN, logdev : BOOLEAN, pending : BOOLEAN,
             task : BOOLEAN, applied : Nat]

\* Types, and a member has applied only what is committed.
TypeOK ==
    /\ log \in Seq([op : EntryOps, m : Servers, cfg : Configs])
    /\ mem \in [Servers -> MemType]
    /\ disk \in [Servers -> DiskType]
    /\ \A s \in Servers : disk[s].applied <= Len(log)

\* The new member was in some configuration.
InWas == \E n \in 0..Len(log) : In \in ConfigAt(n).servers
\* It still is, or the operator had it removed.
InKept ==
    InWas => \/ In \in Config.servers
             \/ \E j \in 1..Len(log) : Removes(j, In)
\* A thread that is to remove the out member has seen the new one in a configuration,
\* on its server, at some time.
Decided == \A s \in Servers : mem[s].mon.op = "complete" => InWas

GInv == TypeOK /\ NoOrphans /\ InBeforeOut /\ InKept /\ Decided
============================================================================
