----------------------------- MODULE CPManager -----------------------------
(***************************************************************************)
(* The checkpoint manager: lib/checkpoint/cp_mgr.cpp, with the CP, the     *)
(* CPGuard and the consumer interface of include/homestore/checkpoint.     *)
(*                                                                         *)
(* Threads do IO inside a CP critical section (a CPGuard), trigger CP      *)
(* flushes and shut the manager down.  The single sync-io fiber of the     *)
(* cp_io reactor runs the completion of a flush and the back-to-back       *)
(* trigger.  m_enter_cnt counts live guards; the model keeps the guards    *)
(* (cpOf, depth), so "the count is zero" is "nobody holds a guard on it".  *)
(*                                                                         *)
(* cp_io_exit is two steps, as in the code: the decrement-and-test of      *)
(* m_enter_cnt, then the read of m_cp_status.  The ghost `overtaken'       *)
(* records that a trigger moved the CP to cp_flush_prepare between them.   *)
(***************************************************************************)
EXTENDS Integers, FiniteSets

CONSTANTS Threads,    \* threads of the application and of the services
          Fiber,      \* the sync-io fiber of the cp_io reactor
          Consumers,  \* registered cp_consumer_t
          Sealer,     \* cp_consumer_t::SEALER, the replication service
          MaxCp,      \* bound: highest cp id of a behaviour
          MaxDepth,   \* bound: guards one thread nests around its IO
          NoCp,       \* the null CP pointer
          NoThread    \* nobody

ASSUME ConstantsAssumption ==
    /\ MaxCp \in Nat /\ MaxDepth \in Nat \ {0}
    /\ Fiber \notin Threads /\ NoThread \notin Threads \cup {Fiber}
    /\ Sealer \in Consumers
    /\ NoCp \notin Int

CpIds == 0..MaxCp
Actors == Threads \cup {Fiber}

CpStatus == {"cp_unknown", "cp_io_ready", "cp_trigger", "cp_flush_prepare",
             "cp_flushing", "cp_flush_done", "freed"}

ThreadPc == {"run", "enter", "exit_test", "sd_trigger", "sd_wait", "sd_delete",
             "sd_done"}
TriggerPc == {"tg_guard", "tg_prepare", "tg_xchg", "tg_sync", "tg_exit"}
FiberPc == {"fb_idle", "fb_persist", "fb_cleanup", "fb_unflag", "fb_promise",
            "fb_b2b"}

VARIABLES
    status,       \* CP::m_cp_status
    flushed,      \* consumers whose cp_flush of the CP has completed
    prom,         \* threads that share the CP's m_comp_promise
    curCp,        \* CPManager::m_cur_cp
    mtx,          \* holder of m_trigger_cp_mtx
    inFlush,      \* m_in_flush_phase
    pending,      \* m_pending_trigger_cp
    pendProm,     \* threads that share m_pending_trigger_cp_comp
    shutdown,     \* m_cp_shutdown_initiated
    shutter,      \* the thread inside CPManager::shutdown
    sdLeft,       \* flushes the shutdown still has to wait for
    lastFlushed,  \* m_sb->m_last_flushed_cp, as persisted
    dur,          \* per consumer, the last CP whose data is on disk
    pc, cpOf, depth,  \* per actor: control, top of t_cp_stack, guards held
    b2b,          \* the fiber's local trigger_back_2_back_cp
    fut,          \* per thread: the future do_trigger_cp_flush returned to it
    need,         \* ghost: m_cur_cp when that call was made
    dirty,        \* ghost: CPs in which some IO ran
    overtaken     \* ghost: see above

cpVars == <<status, flushed, prom>>
sdVars == <<shutdown, shutter, sdLeft>>
diskVars == <<lastFlushed, dur>>
trigVars == <<inFlush, pending, pendProm>>
actorVars == <<pc, cpOf, depth>>
futVars == <<fut, need>>
vars == <<status, flushed, prom, curCp, mtx, inFlush, pending, pendProm,
          shutdown, shutter, sdLeft, lastFlushed, dur, pc, cpOf, depth, b2b,
          fut, need, dirty, overtaken>>

----------------------------------------------------------------------------
(* Guards on a CP: m_enter_cnt is zero exactly when nobody is a holder. *)
Holders(c) == {a \in Actors : depth[a] > 0 /\ cpOf[a] = c}

(* Where an actor goes on after a trigger or an exit. *)
ReturnPc(a) == CASE a = Fiber -> "fb_idle"
                 [] a = shutter -> "sd_wait"
                 [] OTHER -> "run"

(* create_first_cp, as CPManager::start leaves the manager. *)
FirstCp(last) == [c \in CpIds |-> CASE c = last + 1 -> "cp_io_ready"
                                     [] c <= last    -> "freed"
                                     [] OTHER        -> "cp_unknown"]

Init ==
    /\ lastFlushed = -1
    /\ dur = [k \in Consumers |-> -1]
    /\ curCp = 0 /\ status = FirstCp(-1)
    /\ flushed = [c \in CpIds |-> {}]
    /\ prom = [c \in CpIds |-> {}]
    /\ mtx = NoThread
    /\ inFlush = FALSE /\ pending = FALSE /\ pendProm = {}
    /\ shutdown = FALSE /\ shutter = NoThread /\ sdLeft = 0
    /\ pc = [a \in Actors |-> IF a = Fiber THEN "fb_idle" ELSE "run"]
    /\ cpOf = [a \in Actors |-> NoCp]
    /\ depth = [a \in Actors |-> 0]
    /\ b2b = FALSE
    /\ fut = [t \in Threads |-> "none"]
    /\ need = [t \in Threads |-> 0]
    /\ dirty = {}
    /\ overtaken = FALSE

----------------------------------------------------------------------------
(* The CP critical section.  Once the services are stopped (a shutdown has  *)
(* begun) no new IO enters it.                                              *)

(* CPGuard with an empty t_cp_stack: rcu_read_lock and rcu_dereference. *)
IoEnter(t) ==
    /\ pc[t] = "run" /\ depth[t] = 0 /\ shutter = NoThread
    /\ pc' = [pc EXCEPT ![t] = "enter"]
    /\ cpOf' = [cpOf EXCEPT ![t] = curCp]
    /\ UNCHANGED <<cpVars, curCp, mtx, trigVars, sdVars, diskVars, depth, b2b,
                   futVars, dirty, overtaken>>

(* cp_ref and rcu_read_unlock. *)
IoRef(t) ==
    /\ pc[t] = "enter"
    /\ pc' = [pc EXCEPT ![t] = "run"]
    /\ depth' = [depth EXCEPT ![t] = 1]
    /\ dirty' = dirty \cup {cpOf[t]}
    /\ UNCHANGED <<cpVars, curCp, mtx, trigVars, sdVars, diskVars, cpOf, b2b,
                   futVars, overtaken>>

(* A nested CPGuard takes the CP on top of t_cp_stack. *)
IoNest(t) ==
    /\ pc[t] = "run" /\ depth[t] \in 1..(MaxDepth - 1)
    /\ depth' = [depth EXCEPT ![t] = @ + 1]
    /\ UNCHANGED <<cpVars, curCp, mtx, trigVars, sdVars, diskVars, pc, cpOf,
                   b2b, futVars, dirty, overtaken>>

(* A copy of t's guard is handed to a thread u that holds none. *)
GuardCopy(t, u) ==
    /\ pc[t] = "run" /\ depth[t] > 0
    /\ pc[u] = "run" /\ depth[u] = 0
    /\ depth' = [depth EXCEPT ![u] = 1]
    /\ cpOf' = [cpOf EXCEPT ![u] = cpOf[t]]
    /\ UNCHANGED <<cpVars, curCp, mtx, trigVars, sdVars, diskVars, pc, b2b,
                   futVars, dirty, overtaken>>

(* decrement_testz: only the last guard goes on to read the status. *)
DropGuard(a) ==
    /\ depth' = [depth EXCEPT ![a] = @ - 1]
    /\ pc' = [pc EXCEPT ![a] = IF Holders(cpOf[a]) = {a} /\ depth[a] = 1
                               THEN "exit_test" ELSE ReturnPc(a)]

IoExit(t) ==
    /\ pc[t] = "run" /\ depth[t] > 0
    /\ DropGuard(t)
    /\ UNCHANGED <<cpVars, curCp, mtx, trigVars, sdVars, diskVars, cpOf, b2b,
                   futVars, dirty, overtaken>>

(* The status test of cp_io_exit; the thread that sees cp_flush_prepare     *)
(* runs cp_start_flush, which asks every consumer but the sealer to flush.  *)
ExitTest(a) ==
    /\ pc[a] = "exit_test"
    /\ pc' = [pc EXCEPT ![a] = ReturnPc(a)]
    /\ status' = IF status[cpOf[a]] = "cp_flush_prepare"
                 THEN [status EXCEPT ![cpOf[a]] = "cp_flushing"] ELSE status
    /\ UNCHANGED <<flushed, prom, curCp, mtx, trigVars, sdVars, diskVars, cpOf,
                   depth, b2b, futVars, dirty, overtaken>>

----------------------------------------------------------------------------
(* do_trigger_cp_flush *)

(* Mutants: the shutdown flag or flush_on_shutdown is not looked at. *)
MayQueueInShutdown(force, onShutdown) == force
MayQueueUnlessShutdown(force, onShutdown) == force /\ ~shutdown

MayQueue(force, onShutdown) == force /\ (~shutdown \/ onShutdown)

SetFut(a, v) == fut' = IF a = Fiber THEN fut ELSE [fut EXCEPT ![a] = v]
SetNeed(a) == need' = IF a = Fiber THEN need ELSE [need EXCEPT ![a] = curCp]

(* Under the mutex and already in a flush phase: share the pending promise, *)
(* or refuse.                                                               *)
TriggerQueued(a, force, onShutdown) ==
    /\ mtx = NoThread /\ inFlush
    /\ IF MayQueue(force, onShutdown)
       THEN /\ curCp < MaxCp
            /\ pending' = TRUE
            /\ pendProm' = (IF pending THEN pendProm ELSE {}) \cup {a}
            /\ SetFut(a, "waiting")
       ELSE /\ SetFut(a, "false")
            /\ UNCHANGED <<pending, pendProm>>
    /\ SetNeed(a)
    /\ pc' = [pc EXCEPT ![a] = ReturnPc(a)]
    /\ UNCHANGED <<cpVars, curCp, mtx, inFlush, sdVars, diskVars, cpOf, depth,
                   b2b, dirty, overtaken>>

(* Mutant: m_in_flush_phase is not tested. *)
MayStartAnyway == curCp # NoCp /\ curCp < MaxCp

MayStart == ~inFlush /\ curCp # NoCp /\ curCp < MaxCp

(* Not in a flush phase: start one, keeping the mutex. *)
TriggerStart(a) ==
    /\ mtx = NoThread /\ MayStart
    /\ mtx' = a
    /\ inFlush' = TRUE
    /\ pc' = [pc EXCEPT ![a] = "tg_guard"]
    /\ SetFut(a, "waiting")
    /\ SetNeed(a)
    /\ UNCHANGED <<cpVars, curCp, pending, pendProm, sdVars, diskVars, cpOf,
                   depth, b2b, dirty, overtaken>>

TriggerCall(a, force, onShutdown) ==
    TriggerQueued(a, force, onShutdown) \/ TriggerStart(a)

(* trigger_cp_flush by an IO thread or by the timer.  A thread that still   *)
(* waits for a future makes no second call; once a shutdown has begun the   *)
(* stopped services start no flush of their own, but a late call may arrive *)
(* while one runs.                                                          *)
TriggerFlush(t, force) ==
    /\ pc[t] = "run" /\ fut[t] # "waiting"
    /\ shutdown => inFlush
    /\ TriggerCall(t, force, FALSE)

(* The CP of a new guard: the one on top of t_cp_stack, or the current one. *)
GuardCp(a) == IF depth[a] = 0 THEN curCp ELSE cpOf[a]

(* cp_guard(), cp_trigger, the new CP and on_switchover_cp of the sealer    *)
(* and then of the other consumers.                                         *)
TriggerGuard(a) ==
    /\ pc[a] = "tg_guard"
    /\ cpOf' = [cpOf EXCEPT ![a] = GuardCp(a)]
    /\ status' = [status EXCEPT ![GuardCp(a)] = "cp_trigger"]
    /\ depth' = [depth EXCEPT ![a] = @ + 1]
    /\ pc' = [pc EXCEPT ![a] = "tg_prepare"]
    /\ UNCHANGED <<flushed, prom, curCp, mtx, trigVars, sdVars, diskVars, b2b,
                   futVars, dirty, overtaken>>

(* Mutant: the flag is cleared but the pending promise is not taken over. *)
NewPromise == {}

PendingPromise == IF pending THEN pendProm ELSE {}

(* The completion promise is the pending one if there is one; then the CP   *)
(* becomes cp_flush_prepare.                                                *)
TriggerPrepare(a) ==
    /\ pc[a] = "tg_prepare"
    /\ prom' = [prom EXCEPT ![cpOf[a]] = PendingPromise
                                         \cup (IF a = Fiber THEN {} ELSE {a})]
    /\ pending' = FALSE
    /\ pendProm' = IF pending THEN {} ELSE pendProm
    /\ status' = [status EXCEPT ![cpOf[a]] = "cp_flush_prepare"]
    /\ overtaken' = (overtaken \/ \E u \in Actors : /\ pc[u] = "exit_test"
                                                    /\ cpOf[u] = cpOf[a])
    /\ pc' = [pc EXCEPT ![a] = "tg_xchg"]
    /\ UNCHANGED <<flushed, curCp, mtx, inFlush, sdVars, diskVars, cpOf, depth,
                   b2b, futVars, dirty>>

(* The new CP becomes cp_io_ready and current. *)
TriggerXchg(a) ==
    /\ pc[a] = "tg_xchg"
    /\ status' = [status EXCEPT ![cpOf[a] + 1] = "cp_io_ready"]
    /\ curCp' = cpOf[a] + 1
    /\ pc' = [pc EXCEPT ![a] = "tg_sync"]
    /\ UNCHANGED <<flushed, prom, mtx, trigVars, sdVars, diskVars, cpOf, depth,
                   b2b, futVars, dirty, overtaken>>

(* Mutant: no grace period. *)
NoGrace(c) == TRUE

GraceOver(c) == \A u \in Actors : ~(pc[u] = "enter" /\ cpOf[u] = c)

(* synchronize_rcu returns once every reader section that may have read the *)
(* old pointer is over; the mutex is released.                              *)
TriggerSync(a) ==
    /\ pc[a] = "tg_sync"
    /\ GraceOver(cpOf[a])
    /\ mtx' = NoThread
    /\ pc' = [pc EXCEPT ![a] = "tg_exit"]
    /\ UNCHANGED <<cpVars, curCp, trigVars, sdVars, diskVars, cpOf, depth, b2b,
                   futVars, dirty, overtaken>>

(* The trigger's own guard goes out of scope: cp_io_exit. *)
TriggerExit(a) ==
    /\ pc[a] = "tg_exit"
    /\ DropGuard(a)
    /\ UNCHANGED <<cpVars, curCp, mtx, trigVars, sdVars, diskVars, cpOf, b2b,
                   futVars, dirty, overtaken>>

TriggerStep(a) ==
    TriggerGuard(a) \/ TriggerPrepare(a) \/ TriggerXchg(a) \/ TriggerSync(a)
    \/ TriggerExit(a)

----------------------------------------------------------------------------
(* The flush of a CP *)

(* One consumer's cp_flush future completes: its data of the CP is on disk. *)
ConsumerFlush(c, k) ==
    /\ status[c] = "cp_flushing" /\ k \in Consumers \ (flushed[c] \cup {Sealer})
    /\ flushed' = [flushed EXCEPT ![c] = @ \cup {k}]
    /\ dur' = [dur EXCEPT ![k] = c]
    /\ UNCHANGED <<status, prom, curCp, mtx, trigVars, sdVars, lastFlushed,
                   actorVars, b2b, futVars, dirty, overtaken>>

(* Mutant: the sealer does not wait. *)
OthersIgnored(c) == TRUE

OthersFlushed(c) == Consumers \ {Sealer} \subseteq flushed[c]

(* collectAll: the sealer flushes after all others; on_cp_flush_done marks  *)
(* the CP and queues the completion on the cp_io fiber.                     *)
SealerFlush(c) ==
    /\ status[c] = "cp_flushing" /\ OthersFlushed(c)
    /\ flushed' = [flushed EXCEPT ![c] = @ \cup {Sealer}]
    /\ dur' = [dur EXCEPT ![Sealer] = c]
    /\ status' = [status EXCEPT ![c] = "cp_flush_done"]
    /\ UNCHANGED <<prom, curCp, mtx, trigVars, sdVars, lastFlushed, actorVars,
                   b2b, futVars, dirty, overtaken>>

(* The fiber takes up the completion of c ... *)
FiberStart(c) ==
    /\ pc[Fiber] = "fb_idle" /\ status[c] = "cp_flush_done"
    /\ pc' = [pc EXCEPT ![Fiber] = "fb_persist"]
    /\ cpOf' = [cpOf EXCEPT ![Fiber] = c]
    /\ UNCHANGED <<cpVars, curCp, mtx, trigVars, sdVars, diskVars, depth, b2b,
                   futVars, dirty, overtaken>>

(* ... writes the superblock ... *)
FiberPersist ==
    /\ pc[Fiber] = "fb_persist"
    /\ lastFlushed' = lastFlushed + 1
    /\ pc' = [pc EXCEPT ![Fiber] = "fb_cleanup"]
    /\ UNCHANGED <<cpVars, curCp, mtx, trigVars, sdVars, dur, cpOf, depth, b2b,
                   futVars, dirty, overtaken>>

(* ... cleanup_cp, keeps the promise, deletes the CP ... *)
FiberCleanup ==
    /\ pc[Fiber] = "fb_cleanup"
    /\ status' = [status EXCEPT ![cpOf[Fiber]] = "freed"]
    /\ pc' = [pc EXCEPT ![Fiber] = "fb_unflag"]
    /\ UNCHANGED <<flushed, prom, curCp, mtx, trigVars, sdVars, diskVars, cpOf,
                   depth, b2b, futVars, dirty, overtaken>>

(* Mutant: the pending request is not looked at. *)
NoBackToBack == FALSE

BackToBack == pending

(* ... leaves the flush phase under the mutex ... *)
FiberUnflag ==
    /\ pc[Fiber] = "fb_unflag" /\ mtx = NoThread
    /\ inFlush' = FALSE
    /\ b2b' = BackToBack
    /\ pc' = [pc EXCEPT ![Fiber] = "fb_promise"]
    /\ UNCHANGED <<cpVars, curCp, mtx, pending, pendProm, sdVars, diskVars,
                   cpOf, depth, futVars, dirty, overtaken>>

(* Mutant: the promise of the queued requests is completed as well. *)
ServedWithPending(c) == prom[c] \cup pendProm

Served(c) == prom[c]

(* ... completes the promise ... *)
FiberPromise ==
    /\ pc[Fiber] = "fb_promise"
    /\ fut' = [t \in Threads |-> IF t \in Served(cpOf[Fiber]) THEN "true"
                                 ELSE fut[t]]
    /\ prom' = [prom EXCEPT ![cpOf[Fiber]] = {}]
    /\ pc' = [pc EXCEPT ![Fiber] = "fb_b2b"]
    /\ UNCHANGED <<status, flushed, curCp, mtx, trigVars, sdVars, diskVars,
                   cpOf, depth, b2b, need, dirty, overtaken>>

(* ... and triggers the back-to-back CP if one was queued. *)
FiberB2B ==
    pc[Fiber] = "fb_b2b" /\ b2b /\ TriggerCall(Fiber, FALSE, FALSE)

FiberDone ==
    /\ pc[Fiber] = "fb_b2b" /\ ~b2b
    /\ pc' = [pc EXCEPT ![Fiber] = "fb_idle"]
    /\ UNCHANGED <<cpVars, curCp, mtx, trigVars, sdVars, diskVars, cpOf, depth,
                   b2b, futVars, dirty, overtaken>>

FiberStep == FiberPersist \/ FiberCleanup \/ FiberUnflag \/ FiberPromise
             \/ FiberB2B \/ FiberDone

----------------------------------------------------------------------------
(* CPManager::shutdown, called by HomeStore::shutdown once the services     *)
(* have no request left.                                                    *)
ShutdownStart(t, extra) ==
    /\ shutter = NoThread /\ mtx = NoThread
    /\ curCp + extra + (IF pending THEN 1 ELSE 0) < MaxCp
    /\ \A u \in Threads : pc[u] = "run" /\ depth[u] = 0
    /\ fut[t] # "waiting"
    /\ shutdown' = TRUE /\ shutter' = t
    /\ sdLeft' = 1 + extra
    /\ pc' = [pc EXCEPT ![t] = "sd_trigger"]
    /\ UNCHANGED <<cpVars, curCp, mtx, trigVars, diskVars, cpOf, depth, b2b,
                   futVars, dirty, overtaken>>

ShutdownTrigger(t) ==
    pc[t] = "sd_trigger" /\ TriggerCall(t, TRUE, TRUE)

ShutdownWait(t) ==
    /\ pc[t] = "sd_wait" /\ fut[t] = "true"
    /\ sdLeft' = sdLeft - 1
    /\ pc' = [pc EXCEPT ![t] = IF sdLeft > 1 THEN "sd_trigger" ELSE "sd_delete"]
    /\ UNCHANGED <<cpVars, curCp, mtx, trigVars, shutdown, shutter, diskVars,
                   cpOf, depth, b2b, futVars, dirty, overtaken>>

ShutdownDelete(t) ==
    /\ pc[t] = "sd_delete"
    /\ status' = [status EXCEPT ![curCp] = "freed"]
    /\ curCp' = NoCp
    /\ pc' = [pc EXCEPT ![t] = "sd_done"]
    /\ UNCHANGED <<flushed, prom, mtx, trigVars, sdVars, diskVars, cpOf, depth,
                   b2b, futVars, dirty, overtaken>>

ShutdownStep(t) == ShutdownTrigger(t) \/ ShutdownWait(t) \/ ShutdownDelete(t)

(* The id create_first_cp gives the first CP of a run. *)
FirstId(last) == last + 1

(* A crash at any point, or a start after a shutdown: only the superblock   *)
(* and what the consumers flushed remain.                                   *)
Restart ==
    /\ UNCHANGED <<diskVars, overtaken>>
    /\ curCp' = FirstId(lastFlushed) /\ status' = FirstCp(lastFlushed)
    /\ flushed' = [c \in CpIds |-> {}]
    /\ prom' = [c \in CpIds |-> {}]
    /\ mtx' = NoThread
    /\ inFlush' = FALSE /\ pending' = FALSE /\ pendProm' = {}
    /\ shutdown' = FALSE /\ shutter' = NoThread /\ sdLeft' = 0
    /\ pc' = [a \in Actors |-> IF a = Fiber THEN "fb_idle" ELSE "run"]
    /\ cpOf' = [a \in Actors |-> NoCp]
    /\ depth' = [a \in Actors |-> 0]
    /\ b2b' = FALSE
    /\ fut' = [t \in Threads |-> "none"]
    /\ need' = [t \in Threads |-> 0]
    /\ dirty' = {}

----------------------------------------------------------------------------
ThreadStep(t) == IoRef(t) \/ IoExit(t) \/ ExitTest(t) \/ TriggerStep(t)
                 \/ ShutdownStep(t)

CpIoStep == ExitTest(Fiber) \/ TriggerStep(Fiber) \/ FiberStep
            \/ \E c \in CpIds : FiberStart(c)

FlushStep == \E c \in CpIds : SealerFlush(c) \/ \E k \in Consumers :
                                                   ConsumerFlush(c, k)

Next ==
    \/ \E t \in Threads : \/ ThreadStep(t) \/ IoEnter(t) \/ IoNest(t)
                          \/ \E u \in Threads : GuardCopy(t, u)
                          \/ \E force \in BOOLEAN : TriggerFlush(t, force)
                          \/ \E extra \in {0, 1} : ShutdownStart(t, extra)
    \/ CpIoStep
    \/ FlushStep
    \/ Restart

Spec == Init /\ [][Next]_vars

(* What the callers and the scheduler owe: every step an actor or a flush   *)
(* can take is eventually taken, and the IO on any one CP leaves its        *)
(* critical section.  The behaviours are those on which no trigger          *)
(* overtakes a cp_io_exit.                                                  *)
IoOn(c) == {t \in Threads : pc[t] = "run" /\ depth[t] > 0 /\ cpOf[t] = c}

FairSpec ==
    /\ Init /\ [][Next /\ ~overtaken']_vars
    /\ \A t \in Threads : WF_vars(ThreadStep(t))
    /\ WF_vars(CpIoStep)
    /\ WF_vars(FlushStep)
    /\ \A c \in CpIds : []<>(IoOn(c) = {})

----------------------------------------------------------------------------
(* Properties *)

(* Every variable keeps its type. *)
TypeOK ==
    /\ status \in [CpIds -> CpStatus]
    /\ flushed \in [CpIds -> SUBSET Consumers]
    /\ prom \in [CpIds -> SUBSET Threads]
    /\ curCp \in CpIds \cup {NoCp}
    /\ mtx \in Actors \cup {NoThread}
    /\ inFlush \in BOOLEAN /\ pending \in BOOLEAN
    /\ pendProm \in SUBSET Threads
    /\ shutdown \in BOOLEAN /\ shutter \in Threads \cup {NoThread}
    /\ sdLeft \in 0..2
    /\ lastFlushed \in -1..MaxCp
    /\ dur \in [Consumers -> -1..MaxCp]
    /\ pc \in [Actors -> ThreadPc \cup TriggerPc \cup FiberPc]
    /\ cpOf \in [Actors -> CpIds \cup {NoCp}]
    /\ depth \in [Actors -> 0..(MaxDepth + 1)]
    /\ b2b \in BOOLEAN
    /\ fut \in [Threads -> {"none", "waiting", "true", "false"}]
    /\ need \in [Threads -> CpIds]
    /\ dirty \in SUBSET CpIds
    /\ overtaken \in BOOLEAN

Draining == {"cp_flushing", "cp_flush_done", "freed"}

(* cp.hpp, requirement 1: a CP is not flushed (nor freed) while a guard on  *)
(* it is held or about to be counted.  It holds as long as no trigger       *)
(* overtakes a cp_io_exit between its decrement and its status read.        *)
FlushAlone ==
    ~overtaken => \A a \in Actors :
        depth[a] > 0 \/ pc[a] \in {"enter", "exit_test"}
            => status[cpOf[a]] \notin Draining

(* The same requirement without the proviso, as cp.hpp states it. *)
NoFlushDuringIo ==
    \A t \in Threads : pc[t] = "run" /\ depth[t] > 0
        => status[cpOf[t]] \notin Draining

(* cp.hpp, requirement 2: at most one CP is between its trigger and the end *)
(* of its completion, and m_in_flush_phase tells.                           *)
InFlushPhase == {"cp_trigger", "cp_flush_prepare", "cp_flushing",
                 "cp_flush_done"}

OneFlushAtATime ==
    ~overtaken =>
        /\ \A c, d \in CpIds : status[c] \in InFlushPhase
                               /\ status[d] \in InFlushPhase => c = d
        /\ (\E c \in CpIds : status[c] \in InFlushPhase) => inFlush

(* The CP that a trigger switches over is the current one, even when the    *)
(* triggering thread already held a guard, on the CP on top of its stack.   *)
TriggerTakesCurrent ==
    ~overtaken => \A a \in Actors :
        pc[a] \in {"tg_prepare", "tg_xchg"} => cpOf[a] = curCp

(* A future that completed with true vouches for the CP that was current    *)
(* when do_trigger_cp_flush was called: the superblock has it as flushed.   *)
FutureMeansFlushed ==
    ~overtaken => \A t \in Threads : fut[t] = "true" => lastFlushed >= need[t]

(* No promise is dropped: whoever waits shares the pending promise, which a *)
(* running flush or the fiber will pick up, or the promise of a CP in its   *)
(* flush phase, or is still inside the trigger.                             *)
NoPromiseLost ==
    ~overtaken => \A t \in Threads : fut[t] = "waiting" =>
        \/ pending /\ t \in pendProm /\ (inFlush \/ b2b)
        \/ inFlush /\ \E c \in CpIds : t \in prom[c]
        \/ pc[Fiber] = "fb_promise" /\ t \in prom[cpOf[Fiber]]
        \/ pc[t] \in {"tg_guard", "tg_prepare"}

(* cp.hpp, cp_consumer_t: the sealer is the last one to flush a CP, and the *)
(* superblock follows it, also across crashes: on disk the sealer is never  *)
(* ahead of another consumer nor more than one CP ahead of the superblock.  *)
SealerFlushesLast ==
    ~overtaken => \A k \in Consumers :
        /\ dur[Sealer] <= dur[k]
        /\ lastFlushed <= dur[Sealer] /\ dur[k] <= lastFlushed + 1

(* HomeStore::shutdown: once the manager is down, all CPs that had IO are   *)
(* flushed, the flushes it waited for succeeded, and nobody is left to use  *)
(* the deleted current CP, the back-to-back trigger of the fiber included.  *)
ShutdownIsClean ==
    ~overtaken /\ shutter # NoThread =>
        /\ pc[shutter] = "sd_wait" => fut[shutter] # "false"
        /\ pc[shutter] = "sd_done" =>
              /\ \A c \in dirty : c <= lastFlushed
              /\ pc[Fiber] \in {"fb_idle", "fb_b2b"}
              /\ pc[Fiber] = "fb_b2b" => ~b2b

(* A thread that was given a future is given its value. *)
FutureCompletes ==
    \A t \in Threads : (fut[t] = "waiting") ~> (fut[t] # "waiting")

(* A shutdown comes to its end. *)
ShutdownEnds == (shutter # NoThread) ~> (curCp = NoCp \/ shutter = NoThread)

----------------------------------------------------------------------------
(* The inductive invariant behind the safety properties: how far the        *)
(* holder of the mutex has come decides the status of the current CP, and   *)
(* only the CP before it can still be in flight.                            *)

Held == {"tg_guard", "tg_prepare", "tg_xchg", "tg_sync"}
Before == {"tg_guard", "tg_prepare", "tg_xchg"}   \* before the exchange
Guarded == {"tg_prepare", "tg_xchg", "tg_sync", "tg_exit"}
Closing == {"sd_trigger", "sd_wait", "sd_delete", "sd_done"}

Stage == IF mtx = NoThread THEN "none" ELSE pc[mtx]

InvControl ==
    /\ \A a \in Actors : pc[a] \in Held <=> mtx = a
    /\ pc[Fiber] \in FiberPc \cup TriggerPc \cup {"exit_test"}
    /\ \A t \in Threads : pc[t] \in ThreadPc \cup TriggerPc
    /\ \A a \in Actors : pc[a] \in Guarded => depth[a] > 0
    /\ \A a \in Actors : pc[a] \in {"enter", "exit_test"} => depth[a] = 0
    /\ \A a \in Actors : pc[a] \in {"run", "tg_guard"} => depth[a] <= MaxDepth
    /\ depth[Fiber] > 0 => pc[Fiber] \in Guarded
    /\ depth[Fiber] <= 1

(* During a shutdown the other threads are outside the manager, and the     *)
(* thread that shuts down holds a guard only inside its trigger.            *)
InvShutdown ==
    /\ shutdown <=> shutter # NoThread
    /\ \A t \in Threads : pc[t] \in Closing => t = shutter
    /\ shutter # NoThread =>
          /\ pc[shutter] \in Closing \cup TriggerPc \cup {"exit_test"}
          /\ depth[shutter] <= 1
          /\ depth[shutter] > 0 => pc[shutter] \in Guarded
          /\ \A t \in Threads \ {shutter} : pc[t] = "run" /\ depth[t] = 0
          /\ pc[shutter] \notin {"sd_delete", "sd_done"} => sdLeft >= 1
    /\ curCp = NoCp => shutter # NoThread /\ pc[shutter] = "sd_done"

(* Once the shutdown's future is true nothing is left to run, because its   *)
(* promise took the last pending request along.                             *)
Quiet == /\ ~inFlush /\ ~pending
         /\ pc[Fiber] \in {"fb_idle", "fb_b2b"}
         /\ pc[Fiber] = "fb_b2b" => ~b2b

InvQuiet ==
    shutter # NoThread =>
        /\ pc[shutter] \in {"sd_delete", "sd_done"}
           \/ (pc[shutter] = "sd_wait" /\ fut[shutter] = "true") => Quiet
        /\ pc[shutter] \in TriggerPc \cup {"exit_test"} => fut[shutter] = "waiting"
        /\ pc[shutter] = "exit_test" => cpOf[shutter] # curCp
        /\ pc[shutter] = "sd_trigger" => fut[shutter] # "waiting"
        /\ shutter \in pendProm => pc[shutter] = "sd_wait"
        /\ \A c \in CpIds : shutter \in prom[c] =>
              /\ ~pending
              /\ pc[shutter] # "sd_wait" => cpOf[shutter] = c
              /\ pc[shutter] \in {"tg_xchg", "tg_sync", "tg_exit", "exit_test", "sd_wait"}
              /\ pc[Fiber] = "fb_promise" /\ cpOf[Fiber] = c => ~inFlush /\ ~b2b

CurStatus == CASE Stage = "tg_prepare" -> "cp_trigger"
               [] Stage = "tg_xchg"    -> "cp_flush_prepare"
               [] OTHER                -> "cp_io_ready"

InFlight == curCp > 0 /\ status[curCp - 1] # "freed"

InvCps ==
    /\ lastFlushed < MaxCp
    /\ curCp = NoCp => \A d \in CpIds : status[d] \in {"freed", "cp_unknown"}
    /\ curCp # NoCp =>
        /\ \A d \in CpIds : d > curCp => status[d] = "cp_unknown"
        /\ status[curCp] = CurStatus
        /\ curCp > 0 => status[curCp - 1] \in {"cp_flush_prepare", "cp_flushing",
                                               "cp_flush_done", "freed"}
        /\ \A d \in CpIds : d < curCp - 1 => status[d] = "freed"
        /\ Stage \in Before => ~InFlight /\ curCp < MaxCp
        /\ Stage = "tg_sync" => InFlight /\ status[curCp - 1] = "cp_flush_prepare"
        /\ inFlush <=> Stage # "none" \/ InFlight \/ pc[Fiber] = "fb_unflag"
        /\ pc[Fiber] \in {"fb_persist", "fb_cleanup"} =>
              InFlight /\ cpOf[Fiber] = curCp - 1 /\ status[curCp - 1] = "cp_flush_done"
        /\ pc[Fiber] = "fb_unflag" =>
              cpOf[Fiber] = curCp - 1 /\ ~InFlight /\ Stage = "none"
        /\ lastFlushed = IF InFlight /\ pc[Fiber] # "fb_cleanup" THEN curCp - 2
                                                                ELSE curCp - 1
        /\ pc[Fiber] \in {"fb_promise", "fb_b2b"} =>
              cpOf[Fiber] \in CpIds /\ cpOf[Fiber] <= lastFlushed

(* Who may still refer to a CP: the current one, or its predecessor until   *)
(* the last guard on it is dropped.                                         *)
TriggerRefs ==
    \A a \in Actors : /\ pc[a] \in {"tg_prepare", "tg_xchg"} => cpOf[a] = curCp
                      /\ pc[a] \in {"tg_sync", "tg_exit"} => cpOf[a] = curCp - 1

GuardRefs ==
    \A a \in Actors :
        depth[a] > 0 \/ pc[a] \in {"enter", "exit_test"} =>
            /\ curCp # NoCp
            /\ \/ cpOf[a] = curCp
               \/ /\ curCp > 0 /\ cpOf[a] = curCp - 1
                  /\ status[curCp - 1] = "cp_flush_prepare"
                  /\ pc[a] = "enter" => Stage = "tg_sync"

LastExit ==
    \A a, u \in Actors :
        /\ pc[a] = "exit_test" /\ status[cpOf[a]] = "cp_flush_prepare"
        /\ u # a /\ cpOf[u] = cpOf[a]
        => depth[u] = 0 /\ pc[u] \notin {"enter", "exit_test"}

InvRefs == TriggerRefs /\ GuardRefs /\ LastExit

(* The promises and whom they serve. *)
Kept == \A t \in Threads : fut[t] = "true" => need[t] <= lastFlushed

InProm == \A t \in Threads, c \in CpIds : t \in prom[c] =>
              /\ fut[t] = "waiting" /\ need[t] <= c
              /\ t \notin pendProm
              /\ \A d \in CpIds : t \in prom[d] => d = c

InPendProm == \A t \in pendProm :
                  pending /\ fut[t] = "waiting" /\ need[t] <= curCp

InTrigger == \A t \in Threads : pc[t] \in {"tg_guard", "tg_prepare"} =>
                 /\ fut[t] = "waiting" /\ need[t] <= curCp
                 /\ t \notin pendProm /\ \A c \in CpIds : t \notin prom[c]

InvPromises == Kept /\ InProm /\ InPendProm /\ InTrigger

(* What is on disk. *)
InvDisk ==
    /\ curCp # NoCp => \A c \in CpIds :
          /\ status[c] \in {"cp_io_ready", "cp_trigger", "cp_flush_prepare", "cp_unknown"}
                => flushed[c] = {}
          /\ status[c] = "cp_flushing" => /\ Sealer \notin flushed[c]
                                          /\ \A k \in flushed[c] : dur[k] = c
          /\ status[c] = "cp_flush_done" => \A k \in Consumers : dur[k] = c
    /\ SealerFlushesLast

Good == /\ TypeOK /\ InvControl /\ InvShutdown /\ InvQuiet
        /\ InvCps /\ InvRefs /\ InvPromises /\ InvDisk

IInv == ~overtaken => Good

(* Where a promise may be: with the CP being switched over, with the one in *)
(* flight until the fiber completes it, or with those that wait for the     *)
(* next flush, which a running flush or the fiber will start.               *)
InCp(c) == \/ c = curCp /\ Stage = "tg_xchg"
           \/ c = curCp - 1 /\ (InFlight \/ pc[Fiber] = "fb_unflag")

PromisedCps == \A c \in CpIds : prom[c] # {} =>
                   \/ curCp # NoCp /\ InCp(c)
                   \/ pc[Fiber] = "fb_promise" /\ c = cpOf[Fiber]

PendingTaken == pending => inFlush \/ b2b

Promised == \A t \in Threads : fut[t] = "waiting" =>
                \/ t \in pendProm
                \/ \E c \in CpIds : t \in prom[c]
                \/ pc[t] \in {"tg_guard", "tg_prepare"}

InvLost == PromisedCps /\ PendingTaken /\ Promised

(* What a shutdown waits for covers every CP that had IO. *)
InvClean ==
    /\ curCp # NoCp => \A d \in dirty : d <= curCp
    /\ shutter # NoThread =>
          /\ pc[shutter] = "sd_wait" => fut[shutter] # "false"
          /\ \A c \in CpIds : shutter \in prom[c] => \A d \in dirty : d <= c
          /\ pc[shutter] \in {"sd_delete", "sd_done"}
             \/ (pc[shutter] = "sd_wait" /\ fut[shutter] = "true")
             => \A d \in dirty : d <= lastFlushed

SInv == ~overtaken => Good /\ InvLost /\ InvClean
=============================================================================
