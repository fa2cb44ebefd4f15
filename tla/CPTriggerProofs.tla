-------------------------- MODULE CPTriggerProofs ---------------------------
(***************************************************************************)
(* Proofs for CPManager, part 3: do_trigger_cp_flush with the switchover   *)
(* to the next CP, and the end of a flush with the back to back trigger,   *)
(* keep Good.                                                              *)
(***************************************************************************)
EXTENDS CPFlushProofs

(* The callers of do_trigger_cp_flush, when it queues and when it starts. *)
CanTrigger(a, force, onShutdown) ==
   \/ a \in Threads /\ pc[a] = "run" /\ fut[a] # "waiting" /\ ~onShutdown /\ (shutdown => inFlush)
   \/ a = Fiber /\ pc[a] = "fb_b2b" /\ ~force /\ ~onShutdown /\ b2b
   \/ a \in Threads /\ pc[a] = "sd_trigger" /\ force /\ onShutdown
CanStart(a) ==
   \/ a \in Threads /\ pc[a] = "run" /\ fut[a] # "waiting" /\ ~shutdown
   \/ a = Fiber /\ pc[a] = "fb_b2b" /\ b2b
   \/ a \in Threads /\ pc[a] = "sd_trigger"

(* An actor between its start of the flush phase and the release of the mutex. *)
LEMMA InTheTrigger ==
  ASSUME Good, NEW a \in Actors, pc[a] \in Held
  PROVE  mtx = a /\ Stage = pc[a] /\ curCp \in CpIds /\ inFlush
<1>1. mtx = a /\ Stage = pc[a] /\ pc[a] # "none"
  BY Zenon, Types DEF Good, InvControl, Stage, Held
<1>2. curCp \in CpIds
  BY Zenon, Types DEF Good, Held, InvShutdown, InvQuiet, Quiet
<1> QED BY SMTT(90), <1>1, <1>2, Types DEF Good, InvCps

(* The move of the promise, and the status cp_flush_prepare. *)
LEMMA TriggerPrepareKeeps ==
  ASSUME Good, ~overtaken, ~overtaken', NEW a \in Actors, TriggerPrepare(a)
  PROVE  Good'
<1>a. mtx = a /\ Stage = "tg_prepare" /\ curCp \in CpIds /\ inFlush
  BY Zenon, InTheTrigger DEF TriggerPrepare, Held
<1>b. cpOf[a] = curCp /\ status[curCp] = "cp_trigger" /\ ~InFlight /\ curCp < MaxCp
      /\ lastFlushed = curCp - 1 /\ pc[Fiber] \notin {"fb_persist", "fb_cleanup", "fb_unflag"}
  BY SMTT(90), <1>a, Types DEF Good, TriggerPrepare, InvRefs, TriggerRefs, InvCps,
     CurStatus, Before
<1>c. ~pending => pendProm = {}
  BY Zenon DEF Good, InvPromises, InPendProm
<1>e. /\ pc[a] = "tg_prepare"
      /\ \A u \in Actors : ~(pc[u] = "exit_test" /\ cpOf[u] = curCp)
      /\ pc'[a] = "tg_xchg"
      /\ pending' = FALSE /\ pendProm' = {} /\ overtaken' = FALSE
      /\ status'[curCp] = "cp_flush_prepare" /\ \A c \in CpIds : c # curCp => status'[c] = status[c]
      /\ \A t \in Threads : t \in prom'[curCp] <=> t \in pendProm \/ t = a
      /\ \A c \in CpIds : c # curCp => prom'[c] = prom[c]
      /\ \A u \in Actors : u # a => pc'[u] = pc[u]
      /\ UNCHANGED <<flushed, curCp, mtx, inFlush, shutdown, shutter, sdLeft,
                       lastFlushed, dur, cpOf, depth, b2b, fut, need, dirty>>
  BY ZenonT(90), <1>a, <1>b, <1>c, Types DEF Good, TypeOK, TriggerPrepare, PendingPromise,
     cpVars, sdVars, diskVars, trigVars, actorVars, futVars
<1>s. Stage' = "tg_xchg"
  BY Zenon, Types, <1>a, <1>e DEF Stage
<1>d. a \in Threads => /\ fut[a] = "waiting" /\ need[a] <= curCp /\ a \notin pendProm
                       /\ \A c \in CpIds : a \notin prom[c]
  BY Zenon, <1>e DEF Good, InvPromises, InTrigger
<1>1. TypeOK'
  <2>1. pc' \in [Actors -> ThreadPc \cup TriggerPc \cup FiberPc]
    BY Zenon, Types DEF Good, TypeOK, TriggerPrepare, ThreadPc, TriggerPc, FiberPc
  <2>2. status' \in [CpIds -> CpStatus]
    BY Zenon, Types DEF Good, TypeOK, TriggerPrepare, CpStatus
  <2>3. prom' \in [CpIds -> SUBSET Threads]
    BY ZenonT(90), <1>a, <1>b, Types DEF Good, TypeOK, TriggerPrepare, PendingPromise
  <2>4. pending' \in BOOLEAN
    BY Zenon, Types DEF Good, TypeOK, TriggerPrepare
  <2>5. pendProm' \in SUBSET Threads
    BY Zenon, Types DEF Good, TypeOK, TriggerPrepare
  <2>6. overtaken' \in BOOLEAN
    BY Zenon, <1>e
  <2> QED BY Zenon, <1>e, <2>1, <2>2, <2>3, <2>4, <2>5, <2>6 DEF Good, TypeOK
<1>2. InvControl'
  BY ZenonT(40), Types, <1>e DEF Good, InvControl, Held, Guarded, ThreadPc, TriggerPc, FiberPc
<1>3. InvShutdown'
  BY Zenon, Types, <1>e DEF Good, InvShutdown, Closing, Guarded, TriggerPc
<1>4. InvQuiet'
  <2>1. SUFFICES ASSUME shutter # NoThread PROVE InvQuiet'
    BY Zenon, <1>e DEF InvQuiet
  <2>2. ~Quiet /\ (pc[Fiber] = "fb_promise" => cpOf[Fiber] # curCp)
    BY SMTT(90), <1>a, <1>b, Types DEF Good, InvCps, Quiet
  <2>3. pc[shutter] = "tg_prepare" <=> a = shutter
    BY Zenon, <1>a, <1>e, <2>1, Types DEF Good, InvControl, Held
  <2> QED BY Zenon, <1>a, <1>b, <1>d, <1>e, <2>1, <2>2, <2>3, Types DEF Good,
             InvQuiet, TriggerPc
<1>5. InvCps'
  BY SMTT(90), <1>a, <1>b, Types, <1>e, <1>s DEF Good, InvCps, InFlight, CurStatus, Before
<1>6. TriggerRefs'
  BY Zenon, Types, <1>e DEF Good, InvRefs, TriggerRefs
<1>7. GuardRefs'
  BY Zenon, <1>a, <1>b, Types, <1>e, <1>s DEF Good, InvRefs, GuardRefs, InFlight
<1>8. LastExit'
  BY ZenonT(90), <1>a, <1>b, Types, <1>e DEF Good, InvRefs, LastExit, GuardRefs, InFlight
<1>9. InPendProm'
  BY Zenon, Types, <1>e DEF Good, InvPromises, InPendProm
<1>10. Kept'
  BY Zenon, Types, <1>e DEF Good, InvPromises, Kept
<1>11. InProm'
  BY SMTT(90), <1>a, <1>d, Types, <1>e DEF Good, InvPromises, InProm, InPendProm
<1>12. InTrigger'
  BY Zenon, <1>a, Types, <1>e DEF Good, InvPromises, InTrigger, InvControl, Held
<1>13. InvDisk'
  BY SMTT(90), <1>a, <1>b, <1>e DEF Good, InvDisk, SealerFlushesLast
<1> QED BY Zenon, <1>1, <1>2, <1>3, <1>4, <1>5, <1>6, <1>7, <1>8, <1>9, <1>10, <1>11,
   <1>12, <1>13 DEF Good, InvRefs, InvPromises

(* The trigger takes its guard and marks the CP cp_trigger. *)
LEMMA TriggerGuardKeeps ==
  ASSUME Good, ~overtaken, NEW a \in Actors, TriggerGuard(a)
  PROVE  Good'
<1>a. mtx = a /\ Stage = "tg_guard"
  BY Zenon, Types DEF Good, TriggerGuard, InvControl, Held, Stage
<1>b. curCp \in CpIds /\ ~InFlight /\ status[curCp] = "cp_io_ready"
  BY Zenon, <1>a, Types DEF Good, TriggerGuard, InvCps, InvShutdown,
     InvQuiet, Quiet, CurStatus, Before
<1>c. GuardCp(a) = curCp /\ mtx = a
  BY SMTT(90), <1>a, <1>b, Types DEF Good, GuardCp, InvRefs, GuardRefs, InFlight
<1>e. /\ pc[a] = "tg_guard" /\ mtx = a
      /\ pc'[a] = "tg_prepare" /\ cpOf'[a] = curCp /\ depth'[a] = depth[a] + 1
      /\ status'[curCp] = "cp_trigger" /\ \A c \in CpIds : c # curCp => status'[c] = status[c]
      /\ \A u \in Actors : u # a => pc'[u] = pc[u] /\ cpOf'[u] = cpOf[u] /\ depth'[u] = depth[u]
      /\ UNCHANGED <<flushed, prom, curCp, mtx, inFlush, pending, pendProm,
                       shutdown, shutter, sdLeft, lastFlushed, dur, b2b, fut, need,
                       dirty, overtaken>>
  BY Zenon, <1>b, <1>c, Types DEF Good, TypeOK, TriggerGuard, cpVars, sdVars, diskVars,
     trigVars, actorVars, futVars
<1>s. Stage' = "tg_prepare"
  BY Zenon, Types, <1>e DEF Stage
<1>1. TypeOK'
  <2>1. pc' \in [Actors -> ThreadPc \cup TriggerPc \cup FiberPc]
    BY Zenon, Types DEF Good, TypeOK, TriggerGuard, ThreadPc, TriggerPc, FiberPc
  <2>2. cpOf' \in [Actors -> CpIds \cup {NoCp}]
    BY Zenon, <1>b, <1>c, Types DEF Good, TypeOK, TriggerGuard
  <2>3. depth' \in [Actors -> 0..(MaxDepth + 1)]
    BY SMTT(90), Types DEF Good, TypeOK, InvControl, TriggerGuard
  <2>4. status' \in [CpIds -> CpStatus]
    BY Zenon, Types DEF Good, TypeOK, TriggerGuard, CpStatus
  <2> QED BY Zenon, <1>e, <2>1, <2>2, <2>3, <2>4 DEF Good, TypeOK
<1>2. InvControl'
  <2>1. /\ \A u \in Actors : pc'[u] \in Held <=> mtx' = u
        /\ pc'[Fiber] \in FiberPc \cup TriggerPc \cup {"exit_test"}
        /\ \A u \in Threads : pc'[u] \in ThreadPc \cup TriggerPc
    BY Zenon, Types, <1>e DEF Good, InvControl, Held, ThreadPc, TriggerPc, FiberPc
  <2>2. \A u \in Actors : /\ pc'[u] \in Guarded => depth'[u] > 0
                          /\ pc'[u] \in {"enter", "exit_test"} => depth'[u] = 0
    BY SMTT(90), Types, <1>e DEF Good, InvControl, Guarded
  <2>3. \A u \in Actors : pc'[u] \in {"run", "tg_guard"} => depth'[u] <= MaxDepth
    BY Zenon, Types, <1>e DEF Good, InvControl
  <2>4. (depth'[Fiber] > 0 => pc'[Fiber] \in Guarded) /\ depth'[Fiber] <= 1
    BY SMTT(90), Types, <1>e DEF Good, InvControl, Guarded
  <2> QED BY Zenon, <2>1, <2>2, <2>3, <2>4 DEF InvControl
<1>3. InvShutdown'
  BY SMTT(90), Types, <1>e DEF Good, InvShutdown, Closing, Guarded, TriggerPc
<1>4. InvQuiet'
  BY ZenonT(90), <1>b, Types, <1>e DEF Good, InvQuiet, Quiet, InvShutdown, Closing, TriggerPc,
     InvControl
<1>5. InvCps'
  BY SMTT(90), <1>a, <1>b, Types, <1>e, <1>s DEF Good, InvCps, InFlight, CurStatus, Before,
     InvControl
<1>6. TriggerRefs'
  BY Zenon, Types, <1>e DEF Good, InvRefs, TriggerRefs
<1>7. GuardRefs'
  <2>1. \A u \in Actors : depth[u] > 0 \/ pc[u] \in {"enter", "exit_test"} => cpOf[u] = curCp
    BY Zenon, <1>b, Types DEF Good, InvRefs, GuardRefs, InFlight
  <2> QED BY SMTT(90), <1>b, <1>e, <2>1, Types DEF GuardRefs
<1>8. LastExit'
  BY ZenonT(90), <1>b, Types, <1>e DEF Good, InvRefs, LastExit, GuardRefs, InFlight
<1>9. InTrigger'
  BY Zenon, Types, <1>e DEF Good, InvPromises, InTrigger
<1>10. InvDisk'
  BY ZenonT(90), <1>b, <1>e DEF Good, InvDisk, SealerFlushesLast
<1>11. Kept' /\ InProm' /\ InPendProm'
  BY Zenon, <1>e DEF Good, InvPromises, Kept, InProm, InPendProm
<1> QED BY Zenon, <1>1, <1>2, <1>3, <1>4, <1>5, <1>6, <1>7, <1>8, <1>9, <1>10, <1>11 DEF
   Good, InvRefs, InvPromises

(* A trigger that starts a flush phase, and keeps the mutex. *)
LEMMA TriggerStartKeeps ==
  ASSUME Good, ~overtaken, NEW a \in Actors, CanStart(a), TriggerStart(a)
  PROVE  Good'
<1>b. a \in Threads => /\ fut[a] # "waiting" /\ a \notin pendProm
                       /\ \A c \in CpIds : a \notin prom[c]
  <2>1. a \in Threads => fut[a] # "waiting"
    BY Zenon, Types DEF Good, CanStart, InvQuiet, InvShutdown, Closing
  <2> QED BY Zenon, <2>1, Types DEF Good, InvPromises, InProm, InPendProm
<1>e. /\ mtx = NoThread /\ ~inFlush /\ curCp \in CpIds /\ curCp < MaxCp
      /\ pc[a] \in {"run", "fb_b2b", "sd_trigger"}
      /\ pc[a] = "run" => a \in Threads /\ shutter = NoThread
      /\ pc[a] = "sd_trigger" => a \in Threads
      /\ pc[a] = "fb_b2b" => a = Fiber /\ b2b
      /\ pc'[a] = "tg_guard" /\ mtx' = a /\ inFlush'
      /\ a \in Threads => fut'[a] = "waiting" /\ need'[a] = curCp
      /\ \A u \in Threads : u # a => fut'[u] = fut[u] /\ need'[u] = need[u]
      /\ \A u \in Actors : u # a => pc'[u] = pc[u]
      /\ UNCHANGED <<status, flushed, prom, curCp, pending, pendProm, shutdown,
                       shutter, sdLeft, lastFlushed, dur, cpOf, depth, b2b, dirty,
                       overtaken>>
  BY Zenon, Types DEF Good, TypeOK, TriggerStart, CanStart, MayStart, SetFut, SetNeed,
     InvShutdown, cpVars, sdVars, diskVars, trigVars, actorVars, futVars
<1>s. Stage = "none" /\ Stage' = "tg_guard"
  BY Zenon, Types, <1>e DEF Stage
<1>1. TypeOK'
  <2>1. pc' \in [Actors -> ThreadPc \cup TriggerPc \cup FiberPc]
    BY Zenon, Types DEF Good, TypeOK, TriggerStart, ThreadPc, TriggerPc, FiberPc
  <2>2. mtx' \in Actors \cup {NoThread}
    BY Zenon, Types DEF Good, TypeOK, TriggerStart
  <2>3. inFlush' \in BOOLEAN
    BY Zenon, Types DEF Good, TypeOK, TriggerStart
  <2>4. fut' \in [Threads -> {"none", "waiting", "true", "false"}]
    BY Zenon, Types DEF Good, TypeOK, TriggerStart, SetFut
  <2>5. need' \in [Threads -> CpIds]
    BY Zenon, Types, <1>e DEF Good, TypeOK, TriggerStart, SetNeed
  <2> QED BY Zenon, <1>e, <2>1, <2>2, <2>3, <2>4, <2>5 DEF Good, TypeOK
<1>2. InvControl'
  <2>1. depth[a] <= MaxDepth
    BY SMTT(90), <1>e, Types DEF Good, InvControl, InvShutdown, Closing, Guarded
  <2> QED BY Zenon, <1>e, <2>1, Types DEF Good, InvControl, Held, Guarded, ThreadPc,
             TriggerPc, FiberPc
<1>3. InvShutdown'
  BY ZenonT(90), <1>e, Types DEF Good, InvShutdown, Closing, Guarded, TriggerPc, InvControl
<1>4. InvQuiet'
  BY Zenon, <1>b, <1>e, Types DEF Good, InvQuiet, Quiet, InvShutdown, Closing, TriggerPc
<1>5. InvCps'
  BY Zenon, Types, <1>e, <1>s DEF Good, InvCps, InFlight, CurStatus
<1>6. TriggerRefs'
  BY Zenon, Types, <1>e DEF Good, InvRefs, TriggerRefs
<1>7. GuardRefs'
  BY Zenon, Types, <1>e, <1>s DEF Good, InvRefs, GuardRefs
<1>8. LastExit'
  BY SMTT(90), Types, <1>e DEF Good, InvRefs, LastExit
<1>9. Kept'
  BY Zenon, Types, <1>e DEF Good, InvPromises, Kept
<1>10. InProm'
  BY Zenon, <1>b, Types, <1>e DEF Good, InvPromises, InProm
<1>11. InPendProm'
  BY Zenon, <1>b, Types, <1>e DEF Good, InvPromises, InPendProm
<1>12. InTrigger'
  BY SMTT(90), <1>b, Types, <1>e DEF Good, InvPromises, InTrigger
<1>13. InvDisk'
  BY ZenonT(40), <1>e DEF Good, InvDisk, SealerFlushesLast
<1> QED BY Zenon, <1>1, <1>2, <1>3, <1>4, <1>5, <1>6, <1>7, <1>8, <1>9, <1>10, <1>11,
   <1>12, <1>13 DEF Good, InvRefs, InvPromises

(* A trigger that finds the flush phase taken: queue, or refuse. *)
LEMMA TriggerQueuedKeeps ==
  ASSUME Good, ~overtaken, NEW a \in Actors, NEW force \in BOOLEAN, NEW onShutdown \in BOOLEAN,
         CanTrigger(a, force, onShutdown), TriggerQueued(a, force, onShutdown)
  PROVE  Good'
<1>a. curCp # NoCp
  BY Zenon, Types DEF Good, TriggerQueued, InvShutdown, InvQuiet, Quiet

<1>b. a \in Threads => /\ fut[a] # "waiting" /\ a \notin pendProm
                       /\ \A c \in CpIds : a \notin prom[c]
  <2>1. a \in Threads => fut[a] # "waiting"
    BY Zenon, Types DEF Good, CanTrigger, InvQuiet, InvShutdown, Closing
  <2> QED BY Zenon, <2>1, Types DEF Good, InvPromises, InProm, InPendProm
<1>c. ~pending => pendProm = {}
  BY Zenon DEF Good, InvPromises, InPendProm
<1>d. \/ /\ a \in Threads /\ fut'[a] = "waiting" /\ pending' = TRUE
         /\ pendProm' = pendProm \cup {a} /\ (pc[a] = "run" => ~shutdown)
      \/ /\ a = Fiber \/ (pc[a] = "run" /\ fut'[a] = "false")
         /\ pending' = pending /\ pendProm' = pendProm
  BY Zenon, <1>c, Types DEF Good, TypeOK, CanTrigger, TriggerQueued, MayQueue, SetFut
<1>e. /\ mtx = NoThread
      /\ pc[a] \in {"run", "fb_b2b", "sd_trigger"}
      /\ pc[a] = "run" => a \in Threads
      /\ pc[a] = "fb_b2b" => a = Fiber
      /\ pc'[a] \in {"fb_idle", "sd_wait", "run"}
      /\ pc'[a] = "fb_idle" => a = Fiber
      /\ pc'[a] = "sd_wait" => a = shutter
      /\ pc'[a] = "run" => a \in Threads \ {shutter}
      /\ a \in Threads => need'[a] = curCp
      /\ \A u \in Threads : u # a => fut'[u] = fut[u] /\ need'[u] = need[u]
      /\ \A u \in Actors : u # a => pc'[u] = pc[u]
      /\ UNCHANGED <<status, flushed, prom, curCp, mtx, inFlush, shutdown, shutter,
                       sdLeft, lastFlushed, dur, cpOf, depth, b2b, dirty, overtaken>>
  BY Zenon, Types DEF Good, TypeOK, TriggerQueued, CanTrigger, SetFut, SetNeed, ReturnPc,
     InvControl, cpVars, sdVars, diskVars, trigVars, actorVars, futVars
<1>s. Stage' = Stage
  BY Zenon, Types, <1>e DEF Stage, Good, InvControl, Held
<1>1. TypeOK'
  <2>1. pc' \in [Actors -> ThreadPc \cup TriggerPc \cup FiberPc]
    BY Zenon, Types DEF Good, TypeOK, TriggerQueued, ReturnPc, ThreadPc, TriggerPc, FiberPc
  <2>2. pending' \in BOOLEAN
    BY Zenon, <1>d DEF Good, TypeOK
  <2>3. pendProm' \in SUBSET Threads
    BY Zenon, <1>d DEF Good, TypeOK
  <2>4. fut' \in [Threads -> {"none", "waiting", "true", "false"}]
    BY Zenon, Types DEF Good, TypeOK, TriggerQueued, SetFut
  <2>5. need' \in [Threads -> CpIds]
    BY Zenon, <1>a, Types DEF Good, TypeOK, TriggerQueued, SetNeed
  <2> QED BY Zenon, <1>e, <2>1, <2>2, <2>3, <2>4, <2>5 DEF Good, TypeOK
<1>2. InvControl'
  BY ZenonT(90), <1>e, Types DEF Good, InvControl, InvShutdown, Closing, Held, Guarded,
     ThreadPc, TriggerPc, FiberPc
<1>3. InvShutdown'
  BY SMTT(90), Types, <1>e DEF Good, InvShutdown, Closing, Guarded, TriggerPc, InvControl
<1>4. InvQuiet'
  BY ZenonT(90), <1>b, <1>d, <1>e, Types DEF Good, InvQuiet, Quiet, InvShutdown, Closing,
     TriggerPc
<1>5. InvCps'
  BY ZenonT(90), Types, <1>e, <1>s DEF Good, InvCps, InFlight, CurStatus
<1>6. TriggerRefs'
  BY Zenon, Types, <1>e DEF Good, InvRefs, TriggerRefs
<1>7. GuardRefs'
  BY Zenon, Types, <1>e, <1>s DEF Good, InvRefs, GuardRefs
<1>8. LastExit'
  BY SMTT(90), Types, <1>e DEF Good, InvRefs, LastExit
<1>9. Kept'
  BY Zenon, <1>d, Types, <1>e DEF Good, InvPromises, Kept
<1>10. InProm'
  BY SMTT(90), <1>b, <1>d, Types, <1>e DEF Good, InvPromises, InProm
<1>11. InPendProm'
  BY SMTT(90), <1>a, <1>b, <1>d, Types, <1>e DEF Good, InvPromises, InPendProm
<1>12. InTrigger'
  BY SMTT(90), <1>d, Types, <1>e DEF Good, InvPromises, InTrigger
<1>13. InvDisk'
  BY Zenon, <1>e DEF Good, InvDisk, SealerFlushesLast
<1> QED BY Zenon, <1>1, <1>2, <1>3, <1>4, <1>5, <1>6, <1>7, <1>8, <1>9, <1>10, <1>11,
   <1>12, <1>13 DEF Good, InvRefs, InvPromises

(* rcu_xchg_pointer: the new CP becomes current. *)
LEMMA TriggerXchgKeeps ==
  ASSUME Good, ~overtaken, NEW a \in Actors, TriggerXchg(a)
  PROVE  Good'
<1>a. mtx = a /\ Stage = "tg_xchg" /\ curCp \in CpIds /\ inFlush
  BY Zenon, InTheTrigger DEF TriggerXchg, Held
<1>b. cpOf[a] = curCp /\ status[curCp] = "cp_flush_prepare" /\ ~InFlight /\ curCp < MaxCp
      /\ lastFlushed = curCp - 1 /\ pc[Fiber] \notin {"fb_persist", "fb_cleanup", "fb_unflag"}
  BY SMTT(90), <1>a, Types DEF Good, TriggerXchg, InvRefs, TriggerRefs, InvCps,
     CurStatus, Before
<1>c. /\ \A u \in Actors : depth[u] > 0 \/ pc[u] \in {"enter", "exit_test"} => cpOf[u] = curCp
      /\ \A u \in Actors : pc[u] # "tg_exit"
      /\ \A u \in Actors : pc[u] \in {"tg_prepare", "tg_xchg", "tg_sync"} => u = a
  <2>1. \A u \in Actors : depth[u] > 0 \/ pc[u] \in {"enter", "exit_test"} => cpOf[u] = curCp
    BY Zenon, <1>a, <1>b, Types DEF Good, InvRefs, GuardRefs, InFlight
  <2> QED BY SMTT(90), <1>a, <2>1, Types DEF Good, InvControl, Guarded, Held, InvRefs,
             TriggerRefs
<1>e. /\ pc[a] = "tg_xchg"
      /\ pc'[a] = "tg_sync" /\ curCp' = curCp + 1 /\ curCp + 1 \in CpIds
      /\ status'[curCp + 1] = "cp_io_ready"
      /\ \A c \in CpIds : c # curCp + 1 => status'[c] = status[c]
      /\ \A u \in Actors : u # a => pc'[u] = pc[u]
      /\ UNCHANGED <<flushed, prom, mtx, inFlush, pending, pendProm, shutdown,
                       shutter, sdLeft, lastFlushed, dur, cpOf, depth, b2b, fut,
                       need, dirty, overtaken>>
  BY SMTT(90), <1>a, <1>b, Types DEF Good, TypeOK, TriggerXchg, cpVars, sdVars, diskVars,
     trigVars, actorVars, futVars
<1>s. Stage' = "tg_sync"
  BY Zenon, Types, <1>a, <1>e DEF Stage
<1>1. TypeOK'
  <2>1. pc' \in [Actors -> ThreadPc \cup TriggerPc \cup FiberPc]
    BY Zenon, Types DEF Good, TypeOK, TriggerXchg, ThreadPc, TriggerPc, FiberPc
  <2>2. curCp' \in CpIds \cup {NoCp}
    BY Zenon, <1>e
  <2>3. status' \in [CpIds -> CpStatus]
    BY Zenon, <1>b, Types DEF Good, TypeOK, TriggerXchg, CpStatus
  <2> QED BY Zenon, <1>e, <2>1, <2>2, <2>3 DEF Good, TypeOK
<1>2. InvControl'
  BY ZenonT(40), Types, <1>e DEF Good, InvControl, Held, Guarded, ThreadPc, TriggerPc,
     FiberPc
<1>3. InvShutdown'
  BY SMTT(90), <1>a, Types, <1>e DEF Good, InvShutdown, Closing, Guarded, TriggerPc,
     InvControl
<1>4. InvQuiet'
  BY ZenonT(90), <1>a, <1>b, <1>c, Types, <1>e DEF Good, InvQuiet, Quiet, InvShutdown,
     Closing,
     TriggerPc, InvControl, Held
<1>5. InvCps'
  <2>1. InFlight' /\ status'[curCp'] = CurStatus'
    BY SMTT(90), <1>a, <1>b, <1>e, <1>s, Types DEF InFlight, CurStatus
  <2>2. \A c \in CpIds : c < curCp' - 1 => status'[c] = "freed"
    <3>1. curCp > 0 => status[curCp - 1] = "freed"
      BY Zenon, <1>b DEF InFlight
    <3>2. \A c \in CpIds : c < curCp - 1 => status[c] = "freed"
      BY SMTT(90), <1>a, Types DEF Good, InvCps
    <3>3. \A c \in CpIds : c < curCp => c = curCp - 1 \/ c < curCp - 1
      BY SMTT(90), <1>a, Types
    <3> QED BY SMTT(90), <1>a, <1>e, <3>1, <3>2, <3>3, Types
  <2>3. \A c \in CpIds : c > curCp' => status'[c] = "cp_unknown"
    BY SMTT(90), <1>a, <1>e, Types DEF Good, InvCps
  <2>4. pc'[Fiber] \in {"fb_promise", "fb_b2b"} => pc'[Fiber] = pc[Fiber]
    BY Zenon, <1>e, Types
  <2>5. pc'[Fiber] \notin {"fb_persist", "fb_cleanup", "fb_unflag"}
    BY Zenon, <1>b, <1>e, Types
  <2> QED BY SMTT(90), <1>a, <1>b, <1>e, <1>s, <2>1, <2>2, <2>3, <2>4, <2>5,
             Types DEF Good, InvCps, Before
<1>6. TriggerRefs'
  BY SMTT(90), <1>a, <1>b, <1>c, Types, <1>e DEF Good, InvRefs, TriggerRefs
<1>7. GuardRefs'
  BY SMTT(90), <1>a, <1>b, <1>c, Types, <1>e, <1>s DEF Good, InvRefs, GuardRefs
<1>8. LastExit'
  BY SMTT(90), <1>a, <1>c, Types, <1>e DEF Good, InvRefs, LastExit
<1>9. InPendProm'
  BY SMTT(90), <1>a, Types, <1>e DEF Good, InvPromises, InPendProm
<1>10. InTrigger'
  BY SMTT(90), <1>a, Types, <1>e DEF Good, InvPromises, InTrigger
<1>11. InvDisk'
  <2>1. status[curCp + 1] = "cp_unknown"
    BY SMTT(90), <1>a, <1>e, Types DEF Good, InvCps
  <2> QED BY SMTT(90), <1>a, <1>e, <2>1, Types DEF Good, InvDisk, SealerFlushesLast
<1>12. Kept' /\ InProm'
  BY Zenon, <1>e DEF Good, InvPromises, Kept, InProm
<1> QED BY Zenon, <1>1, <1>2, <1>3, <1>4, <1>5, <1>6, <1>7, <1>8, <1>9, <1>10,
           <1>11, <1>12
   DEF Good, InvRefs, InvPromises

(* The grace period is over and the mutex is released. *)
LEMMA TriggerSyncKeeps ==
  ASSUME Good, ~overtaken, NEW a \in Actors, TriggerSync(a)
  PROVE  Good'
<1>e. /\ pc[a] = "tg_sync" /\ mtx = a
      /\ \A u \in Actors : ~(pc[u] = "enter" /\ cpOf[u] = cpOf[a])
      /\ pc'[a] = "tg_exit" /\ mtx' = NoThread
      /\ \A u \in Actors : u # a => pc'[u] = pc[u]
      /\ UNCHANGED <<status, flushed, prom, curCp, inFlush, pending, pendProm,
                       shutdown, shutter, sdLeft, lastFlushed, dur, cpOf, depth, b2b,
                       fut, need, dirty, overtaken>>
  BY Zenon, Types DEF Good, TypeOK, TriggerSync, GraceOver, InvControl, Held, cpVars,
     sdVars, diskVars, trigVars, actorVars, futVars
<1>s. Stage = "tg_sync" /\ Stage' = "none"
  BY Zenon, Types, <1>e DEF Stage
<1>1. TypeOK'
  <2>1. pc' \in [Actors -> ThreadPc \cup TriggerPc \cup FiberPc]
    BY Zenon, Types DEF Good, TypeOK, TriggerSync, ThreadPc, TriggerPc, FiberPc
  <2>2. mtx' \in Actors \cup {NoThread}
    BY Zenon, Types DEF Good, TypeOK, TriggerSync
  <2> QED BY Zenon, <1>e, <2>1, <2>2 DEF Good, TypeOK
<1>2. InvControl'
  BY Zenon, Types, <1>e DEF Good, InvControl, Held, Guarded, ThreadPc, TriggerPc, FiberPc
<1>3. InvShutdown'
  BY Zenon, Types, <1>e DEF Good, InvShutdown, Closing, Guarded, TriggerPc
<1>4. InvQuiet'
  BY ZenonT(90), Types, <1>e DEF Good, InvQuiet, Quiet, InvShutdown, Closing, TriggerPc
<1>5. InvCps'
  BY Zenon, Types, <1>e, <1>s DEF Good, InvCps, InFlight, CurStatus, Before, InvControl
<1>6. TriggerRefs'
  BY Zenon, Types, <1>e DEF Good, InvRefs, TriggerRefs
<1>7. GuardRefs'
  BY Zenon, Types, <1>e, <1>s DEF Good, InvRefs, GuardRefs, TriggerRefs
<1>8. LastExit'
  BY ZenonT(90), Types, <1>e DEF Good, InvRefs, LastExit
<1>9. InTrigger'
  BY Zenon, Types, <1>e DEF Good, InvPromises, InTrigger
<1>10. Kept' /\ InProm' /\ InPendProm' /\ InvDisk'
  BY ZenonT(90), <1>e DEF Good, InvPromises, Kept, InProm, InPendProm, InvDisk,
     SealerFlushesLast
<1> QED BY Zenon, <1>1, <1>2, <1>3, <1>4, <1>5, <1>6, <1>7, <1>8, <1>9, <1>10 DEF Good,
   InvRefs, InvPromises

(* The completion on the cp_io fiber: the promise is completed. *)
LEMMA FiberPromiseKeeps ==
  ASSUME Good, ~overtaken, FiberPromise
  PROVE  Good'
<1>a. curCp \in CpIds /\ cpOf[Fiber] \in CpIds /\ cpOf[Fiber] <= lastFlushed
  BY Zenon, Types DEF Good, FiberPromise, InvShutdown, InvQuiet, Quiet, InvCps
<1>e. /\ pc[Fiber] = "fb_promise"
      /\ pc'[Fiber] = "fb_b2b"
      /\ \A t \in Threads : fut'[t] = IF t \in prom[cpOf[Fiber]] THEN "true" ELSE fut[t]
      /\ prom'[cpOf[Fiber]] = {} /\ \A c \in CpIds : c # cpOf[Fiber] => prom'[c] = prom[c]
      /\ \A u \in Actors : u # Fiber => pc'[u] = pc[u]
      /\ UNCHANGED <<status, flushed, curCp, mtx, inFlush, pending, pendProm,
                       shutdown, shutter, sdLeft, lastFlushed, dur, cpOf, depth, b2b,
                       need, dirty, overtaken>>
  BY Zenon, <1>a, Types DEF Good, TypeOK, FiberPromise, Served, cpVars, sdVars, diskVars,
     trigVars, actorVars, futVars
<1>s. Stage' = Stage
  BY Zenon, Types, <1>e DEF Stage, Good, InvControl, Held
<1>b. /\ \A t \in Threads, c \in CpIds : t \in prom'[c] => t \in prom[c]
      /\ \A t \in Threads : t \in prom[cpOf[Fiber]] => \A c \in CpIds : t \notin prom'[c]
  BY Zenon, <1>a, <1>e DEF Good, InvPromises, InProm
<1>1. TypeOK'
  <2>1. pc' \in [Actors -> ThreadPc \cup TriggerPc \cup FiberPc]
    BY Zenon, Types DEF Good, TypeOK, FiberPromise, ThreadPc, TriggerPc, FiberPc
  <2>2. fut' \in [Threads -> {"none", "waiting", "true", "false"}]
    BY Zenon, Types DEF Good, TypeOK, FiberPromise
  <2>3. prom' \in [CpIds -> SUBSET Threads]
    BY Zenon, Types DEF Good, TypeOK, FiberPromise
  <2> QED BY Zenon, <1>e, <2>1, <2>2, <2>3 DEF Good, TypeOK
<1>2. InvControl'
  BY Zenon, Types, <1>e DEF Good, InvControl, Held, Guarded, ThreadPc, TriggerPc, FiberPc
<1>3. InvShutdown'
  BY Zenon, Types, <1>e DEF Good, InvShutdown, Closing, Guarded, TriggerPc
<1>4. InvQuiet'
  <2>1. SUFFICES ASSUME shutter # NoThread PROVE InvQuiet'
    BY Zenon, <1>e DEF InvQuiet
  <2>2. CASE shutter \in prom[cpOf[Fiber]]
    <3>1. ~pending /\ ~inFlush /\ ~b2b
      BY ZenonT(90), <1>a, <1>e, <2>1, <2>2 DEF Good, InvQuiet
    <3>2. pc[shutter] = "sd_wait"
      <4>1. SUFFICES ASSUME pc[shutter] # "sd_wait" PROVE FALSE
        OBVIOUS
      <4>2. /\ cpOf[shutter] = cpOf[Fiber] /\ shutter \in Actors
            /\ pc[shutter] \in {"tg_xchg", "tg_sync", "tg_exit", "exit_test"}
        BY Zenon, <1>a, <2>1, <2>2, <4>1, Types DEF Good, InvQuiet
      <4>3. \/ cpOf[shutter] = curCp
            \/ curCp > 0 /\ cpOf[shutter] = curCp - 1 /\ status[curCp - 1] = "cp_flush_prepare"
        BY Zenon, <4>2 DEF Good, InvControl, InvRefs, GuardRefs, Guarded
      <4> QED BY SMTT(90), <1>a, <1>e, <4>2, <4>3, Types DEF Good, InvCps, InFlight
    <3>3. /\ shutter \notin pendProm /\ (\A c \in CpIds : shutter \notin prom'[c])
          /\ pc'[shutter] = "sd_wait"
      BY Zenon, <1>a, <1>b, <1>e, <2>1, <2>2, <3>2, Types DEF Good, InvPromises, InProm
    <3> QED BY Zenon, <1>e, <3>1, <3>3 DEF InvQuiet, Quiet, TriggerPc
  <2>3. CASE shutter \notin prom[cpOf[Fiber]]
    <3>1. fut'[shutter] = fut[shutter] /\ pc'[shutter] = pc[shutter] /\ ~Quiet
      BY Zenon, <1>e, <2>1, <2>3, Types DEF Quiet
    <3>2. \A c \in CpIds : shutter \in prom'[c] => shutter \in prom[c]
      BY Zenon, <1>b, <2>1, Types
    <3> QED BY Zenon, <1>e, <2>1, <3>1, <3>2 DEF Good, InvQuiet
  <2> QED BY Zenon, <2>2, <2>3
<1>5. InvCps'
  BY Zenon, Types, <1>e, <1>s DEF Good, InvCps, InFlight, CurStatus
<1>6. TriggerRefs'
  BY Zenon, Types, <1>e DEF Good, InvRefs, TriggerRefs
<1>7. GuardRefs'
  BY Zenon, Types, <1>e, <1>s DEF Good, InvRefs, GuardRefs
<1>8. LastExit'
  BY SMTT(90), Types, <1>e DEF Good, InvRefs, LastExit
<1>9. Kept'
  <2>1. \A t \in Threads : t \in prom[cpOf[Fiber]] => need[t] <= cpOf[Fiber]
    BY Zenon, <1>a DEF Good, InvPromises, InProm
  <2>2. cpOf[Fiber] \in Int /\ lastFlushed \in Int /\ \A t \in Threads : need[t] \in Int
    BY SMT, <1>a, Types DEF Good, TypeOK
  <2>3. \A t \in Threads : t \in prom[cpOf[Fiber]] => need[t] <= lastFlushed
    BY SMT, <1>a, <2>1, <2>2
  <2> QED BY Zenon, <1>e, <2>3 DEF Good, InvPromises, Kept
<1>10. InProm'
  <2>1. \A t \in Threads, c \in CpIds : t \in prom'[c] => fut'[t] = fut[t] /\ t \in prom[c]
    BY Zenon, <1>b, <1>e
  <2> QED BY Zenon, <1>b, <1>e, <2>1 DEF Good, InvPromises, InProm
<1>11. InPendProm'
  BY Zenon, <1>a, Types, <1>e DEF Good, InvPromises, InPendProm, InProm
<1>12. InTrigger'
  BY Zenon, <1>a, <1>b, Types, <1>e DEF Good, InvPromises, InTrigger
<1>13. InvDisk'
  BY Zenon, <1>e DEF Good, InvDisk, SealerFlushesLast
<1> QED BY Zenon, <1>1, <1>2, <1>3, <1>4, <1>5, <1>6, <1>7, <1>8, <1>9, <1>10, <1>11,
   <1>12, <1>13 DEF Good, InvRefs, InvPromises

(* The completion on the cp_io fiber: no back-to-back CP. *)
LEMMA FiberDoneKeeps ==
  ASSUME Good, ~overtaken, FiberDone
  PROVE  Good'
<1>e. /\ pc[Fiber] = "fb_b2b" /\ ~b2b
      /\ pc'[Fiber] = "fb_idle"
      /\ \A u \in Actors : u # Fiber => pc'[u] = pc[u]
      /\ UNCHANGED <<status, flushed, prom, curCp, mtx, inFlush, pending, pendProm,
                       shutdown, shutter, sdLeft, lastFlushed, dur, cpOf, depth, b2b,
                       fut, need, dirty, overtaken>>
  BY Zenon, Types DEF Good, TypeOK, FiberDone, cpVars, sdVars, diskVars, trigVars,
     actorVars, futVars
<1>s. Stage' = Stage
  BY Zenon, Types, <1>e DEF Stage, Good, InvControl, Held
<1>1. TypeOK'
  <2>1. pc' \in [Actors -> ThreadPc \cup TriggerPc \cup FiberPc]
    BY Zenon, Types DEF Good, TypeOK, FiberDone, ThreadPc, TriggerPc, FiberPc
  <2> QED BY Zenon, <1>e, <2>1 DEF Good, TypeOK
<1>2. InvControl'
  BY Zenon, Types, <1>e DEF Good, InvControl, Held, Guarded, ThreadPc, TriggerPc, FiberPc
<1>3. InvShutdown'
  BY Zenon, Types, <1>e DEF Good, InvShutdown, Closing, Guarded, TriggerPc
<1>4. InvQuiet'
  BY Zenon, Types, <1>e DEF Good, InvQuiet, Quiet, InvShutdown, Closing, TriggerPc
<1>5. InvCps'
  BY Zenon, Types, <1>e, <1>s DEF Good, InvCps, InFlight, CurStatus
<1>6. TriggerRefs'
  BY Zenon, Types, <1>e DEF Good, InvRefs, TriggerRefs
<1>7. GuardRefs'
  BY Zenon, Types, <1>e, <1>s DEF Good, InvRefs, GuardRefs
<1>8. LastExit'
  BY ZenonT(90), Types, <1>e DEF Good, InvRefs, LastExit
<1>9. InTrigger'
  BY Zenon, Types, <1>e DEF Good, InvPromises, InTrigger
<1>10. Kept' /\ InProm' /\ InPendProm' /\ InvDisk'
  BY ZenonT(90), <1>e DEF Good, InvPromises, Kept, InProm, InPendProm, InvDisk,
     SealerFlushesLast
<1> QED BY Zenon, <1>1, <1>2, <1>3, <1>4, <1>5, <1>6, <1>7, <1>8, <1>9, <1>10 DEF Good,
   InvRefs, InvPromises

(* Every call of do_trigger_cp_flush keeps it. *)
LEMMA TriggerCallKeeps ==
  ASSUME Good, ~overtaken, NEW a \in Actors, NEW force \in BOOLEAN,
         NEW onShutdown \in BOOLEAN, CanTrigger(a, force, onShutdown),
         TriggerCall(a, force, onShutdown)
  PROVE  Good'
<1>1. CASE TriggerQueued(a, force, onShutdown)
  BY Zenon, <1>1, TriggerQueuedKeeps
<1>2. CASE TriggerStart(a)
  <2>1. CanStart(a)
    BY Zenon, <1>2 DEF TriggerStart, MayStart, CanTrigger, CanStart
  <2> QED BY Zenon, <1>2, <2>1, TriggerStartKeeps
<1> QED BY Zenon, <1>1, <1>2 DEF TriggerCall

(* Every step of do_trigger_cp_flush after the flush phase began keeps it. *)
LEMMA TriggerStepKeeps ==
  ASSUME Good, ~overtaken, ~overtaken', NEW a \in Actors, TriggerStep(a)
  PROVE  Good'
BY Zenon, TriggerGuardKeeps, TriggerPrepareKeeps, TriggerXchgKeeps, TriggerSyncKeeps,
   TriggerExitKeeps DEF TriggerStep
=============================================================================
