--------------------------- MODULE CPFlushProofs ----------------------------
(***************************************************************************)
(* Proofs for CPManager, part 2: the flush of a CP by its consumers and    *)
(* the first steps of its completion on the cp_io fiber keep Good.         *)
(***************************************************************************)
EXTENDS CPGuardProofs

(* The CP being flushed is the one before the current one. *)
LEMMA Flushing ==
  ASSUME Good, NEW c \in CpIds, status[c] \in {"cp_flushing", "cp_flush_done"}
  PROVE  /\ curCp \in CpIds /\ c = curCp - 1 /\ InFlight /\ inFlush
         /\ status[c] = "cp_flushing" => lastFlushed = c - 1
         /\ \A d \in CpIds : status[d] \in {"cp_flushing", "cp_flush_done"} => d = c
<1>1. curCp \in CpIds
  BY Zenon, Types DEF Good, InvCps
<1>2. \A d \in CpIds : status[d] \in {"cp_flushing", "cp_flush_done"} => d = curCp - 1
  BY SMTT(90), <1>1, Types DEF Good, InvCps, CurStatus
<1> QED BY SMTT(90), <1>1, <1>2, Types DEF Good, InvCps, InFlight

(* The completion on the cp_io fiber: m_in_flush_phase is cleared under the mutex. *)
LEMMA FiberUnflagKeeps ==
  ASSUME Good, ~overtaken, FiberUnflag
  PROVE  Good'
<1>e. /\ pc[Fiber] = "fb_unflag" /\ mtx = NoThread
      /\ pc'[Fiber] = "fb_promise" /\ inFlush' = FALSE /\ b2b' = pending
      /\ \A u \in Actors : u # Fiber => pc'[u] = pc[u]
      /\ UNCHANGED <<status, flushed, prom, curCp, mtx, pending, pendProm,
                       shutdown, shutter, sdLeft, lastFlushed, dur, cpOf, depth, fut,
                       need, dirty, overtaken>>
  BY Zenon, Types DEF Good, TypeOK, FiberUnflag, BackToBack, cpVars, sdVars, diskVars,
     trigVars, actorVars, futVars
<1>s. Stage' = Stage
  BY Zenon, Types, <1>e DEF Stage, Good, InvControl, Held
<1>a. curCp \in CpIds /\ ~InFlight /\ cpOf[Fiber] = curCp - 1 /\ lastFlushed = curCp - 1
  BY Zenon, <1>e, Types DEF Good, InvShutdown, InvQuiet, Quiet, InvCps
<1>1. TypeOK'
  <2>1. pc' \in [Actors -> ThreadPc \cup TriggerPc \cup FiberPc]
    BY Zenon, Types DEF Good, TypeOK, FiberUnflag, ThreadPc, TriggerPc, FiberPc
  <2>2. inFlush' \in BOOLEAN
    BY Zenon, Types DEF Good, TypeOK, FiberUnflag
  <2>3. b2b' \in BOOLEAN
    BY Zenon, <1>e DEF Good, TypeOK
  <2> QED BY Zenon, <1>e, <2>1, <2>2, <2>3 DEF Good, TypeOK
<1>2. InvControl'
  BY Zenon, Types, <1>e DEF Good, InvControl, Held, Guarded, ThreadPc, TriggerPc, FiberPc
<1>3. InvShutdown'
  BY Zenon, Types, <1>e DEF Good, InvShutdown, Closing, Guarded, TriggerPc
<1>4. InvQuiet'
  BY Zenon, Types, <1>e DEF Good, InvQuiet, Quiet, InvShutdown, Closing, TriggerPc
<1>5. InvCps'
  BY SMTT(90), <1>a, Types, <1>e, <1>s DEF Good, InvCps, InFlight, CurStatus, Before, Stage
<1>6. TriggerRefs'
  BY Zenon, Types, <1>e DEF Good, InvRefs, TriggerRefs
<1>7. GuardRefs'
  BY Zenon, Types, <1>e, <1>s DEF Good, InvRefs, GuardRefs
<1>8. LastExit'
  BY ZenonT(40), Types, <1>e DEF Good, InvRefs, LastExit
<1>9. InTrigger'
  BY Zenon, Types, <1>e DEF Good, InvPromises, InTrigger
<1>10. Kept' /\ InProm' /\ InPendProm' /\ InvDisk'
  BY ZenonT(90), <1>e DEF Good, InvPromises, Kept, InProm, InPendProm, InvDisk,
     SealerFlushesLast
<1> QED BY Zenon, <1>1, <1>2, <1>3, <1>4, <1>5, <1>6, <1>7, <1>8, <1>9, <1>10 DEF Good,
   InvRefs, InvPromises

(* The completion on the cp_io fiber: cleanup_cp and the deletion of the CP. *)
LEMMA FiberCleanupKeeps ==
  ASSUME Good, ~overtaken, FiberCleanup
  PROVE  Good'
<1>e. /\ pc[Fiber] = "fb_cleanup"
      /\ pc'[Fiber] = "fb_unflag" /\ status' = [status EXCEPT ![cpOf[Fiber]] = "freed"]
      /\ \A u \in Actors : u # Fiber => pc'[u] = pc[u]
      /\ UNCHANGED <<flushed, prom, curCp, mtx, inFlush, pending, pendProm,
                       shutdown, shutter, sdLeft, lastFlushed, dur, cpOf, depth, b2b,
                       fut, need, dirty, overtaken>>
  BY Zenon, Types DEF Good, TypeOK, FiberCleanup, cpVars, sdVars, diskVars, trigVars,
     actorVars, futVars
<1>s. Stage' = Stage
  BY Zenon, Types, <1>e DEF Stage, Good, InvControl, Held
<1>a. curCp \in CpIds /\ InFlight /\ cpOf[Fiber] = curCp - 1 /\ curCp > 0
      /\ status[curCp - 1] = "cp_flush_done" /\ lastFlushed = curCp - 1
  BY Zenon, <1>e, Types DEF Good, InvShutdown, InvQuiet, Quiet, InvCps, InFlight
<1>b. status'[curCp - 1] = "freed" /\ \A d \in CpIds : d # curCp - 1 => status'[d] = status[d]
  BY SMTT(90), <1>a, <1>e, Types DEF Good, TypeOK
<1>1. TypeOK'
  <2>1. pc' \in [Actors -> ThreadPc \cup TriggerPc \cup FiberPc]
    BY Zenon, Types DEF Good, TypeOK, FiberCleanup, ThreadPc, TriggerPc, FiberPc
  <2>2. status' \in [CpIds -> CpStatus]
    BY Zenon, Types DEF Good, TypeOK, FiberCleanup, CpStatus
  <2> QED BY Zenon, <1>e, <2>1, <2>2 DEF Good, TypeOK
<1>2. InvControl'
  BY Zenon, Types, <1>e DEF Good, InvControl, Held, Guarded, ThreadPc, TriggerPc, FiberPc
<1>3. InvShutdown'
  BY Zenon, Types, <1>e DEF Good, InvShutdown, Closing, Guarded, TriggerPc
<1>4. InvQuiet'
  BY Zenon, Types, <1>e DEF Good, InvQuiet, Quiet, InvShutdown, Closing, TriggerPc
<1>5. InvCps'
  <2>1. Stage = "none"
    BY Zenon, <1>a, AtStage, Types DEF Good, InvCps, Before, Held
  <2>2. ~InFlight' /\ CurStatus' = CurStatus
    BY Zenon, <1>a, <1>b, <1>e, <1>s DEF InFlight, CurStatus
  <2> QED BY ZenonT(90), <1>a, <1>b, <1>e, <1>s, <2>1, <2>2, Types DEF Good, InvCps,
             Before, CurStatus
<1>6. TriggerRefs'
  BY Zenon, Types, <1>e DEF Good, InvRefs, TriggerRefs
<1>7. GuardRefs'
  BY Zenon, <1>a, <1>b, Types, <1>e, <1>s DEF Good, InvRefs, GuardRefs
<1>8. LastExit'
  BY SMTT(90), <1>a, <1>b, Types, <1>e DEF Good, InvRefs, LastExit, GuardRefs
<1>9. InTrigger'
  BY Zenon, Types, <1>e DEF Good, InvPromises, InTrigger
<1>10. InvDisk'
  BY ZenonT(90), <1>a, <1>b, <1>e DEF Good, InvDisk, SealerFlushesLast
<1>11. Kept' /\ InProm' /\ InPendProm'
  BY Zenon, <1>e DEF Good, InvPromises, Kept, InProm, InPendProm
<1> QED BY Zenon, <1>1, <1>2, <1>3, <1>4, <1>5, <1>6, <1>7, <1>8, <1>9, <1>10, <1>11 DEF
   Good, InvRefs, InvPromises

(* The completion on the cp_io fiber: the superblock write. *)
LEMMA FiberPersistKeeps ==
  ASSUME Good, ~overtaken, FiberPersist
  PROVE  Good'
<1>e. /\ pc[Fiber] = "fb_persist"
      /\ pc'[Fiber] = "fb_cleanup" /\ lastFlushed' = lastFlushed + 1
      /\ \A u \in Actors : u # Fiber => pc'[u] = pc[u]
      /\ UNCHANGED <<status, flushed, prom, curCp, mtx, inFlush, pending, pendProm,
                       shutdown, shutter, sdLeft, dur, cpOf, depth, b2b, fut, need,
                       dirty, overtaken>>
  BY Zenon, Types DEF Good, TypeOK, FiberPersist, cpVars, sdVars, diskVars, trigVars,
     actorVars, futVars
<1>s. Stage' = Stage
  BY Zenon, Types, <1>e DEF Stage, Good, InvControl, Held
<1>a. curCp \in CpIds /\ InFlight /\ cpOf[Fiber] = curCp - 1 /\ curCp > 0
      /\ status[curCp - 1] = "cp_flush_done" /\ lastFlushed = curCp - 2
  BY Zenon, <1>e, Types DEF Good, InvShutdown, InvQuiet, Quiet, InvCps, InFlight
<1>1. TypeOK'
  <2>1. pc' \in [Actors -> ThreadPc \cup TriggerPc \cup FiberPc]
    BY Zenon, Types DEF Good, TypeOK, FiberPersist, ThreadPc, TriggerPc, FiberPc
  <2>2. lastFlushed' \in -1..MaxCp
    BY SMTT(90), <1>a, <1>e, Types
  <2> QED BY Zenon, <1>e, <2>1, <2>2 DEF Good, TypeOK
<1>2. InvControl'
  BY Zenon, Types, <1>e DEF Good, InvControl, Held, Guarded, ThreadPc, TriggerPc, FiberPc
<1>3. InvShutdown'
  BY Zenon, Types, <1>e DEF Good, InvShutdown, Closing, Guarded, TriggerPc
<1>4. InvQuiet'
  BY Zenon, Types, <1>e DEF Good, InvQuiet, Quiet, InvShutdown, Closing, TriggerPc
<1>5. InvCps'
  BY SMTT(90), <1>a, Types, <1>e, <1>s DEF Good, InvCps, InFlight, CurStatus, Before
<1>6. TriggerRefs'
  BY Zenon, Types, <1>e DEF Good, InvRefs, TriggerRefs
<1>7. GuardRefs'
  BY Zenon, Types, <1>e, <1>s DEF Good, InvRefs, GuardRefs
<1>8. LastExit'
  BY ZenonT(40), Types, <1>e DEF Good, InvRefs, LastExit
<1>9. InTrigger'
  BY Zenon, Types, <1>e DEF Good, InvPromises, InTrigger
<1>10. Kept'
  BY SMTT(90), <1>a, Types, <1>e DEF Good, InvPromises, Kept
<1>11. InvDisk'
  <2>1. \A k \in Consumers : dur[k] = curCp - 1
    BY SMTT(90), <1>a, Types DEF Good, InvDisk
  <2>2. SealerFlushesLast'
    BY SMTT(90), <1>a, <1>e, <2>1, Types, ConstantsAssumption DEF SealerFlushesLast
  <2> QED BY Zenon, <1>e, <2>2 DEF Good, InvDisk
<1>12. InProm' /\ InPendProm'
  BY Zenon, <1>e DEF Good, InvPromises, InProm, InPendProm
<1> QED BY Zenon, <1>1, <1>2, <1>3, <1>4, <1>5, <1>6, <1>7, <1>8, <1>9, <1>10,
           <1>11, <1>12
   DEF Good, InvRefs, InvPromises

(* The completion on the cp_io fiber: it is taken up. *)
LEMMA FiberStartKeeps ==
  ASSUME Good, ~overtaken, NEW c \in CpIds, FiberStart(c)
  PROVE  Good'
<1>e. /\ pc[Fiber] = "fb_idle" /\ status[c] = "cp_flush_done"
      /\ pc'[Fiber] = "fb_persist" /\ cpOf'[Fiber] = c
      /\ \A u \in Actors : u # Fiber => pc'[u] = pc[u] /\ cpOf'[u] = cpOf[u]
      /\ UNCHANGED <<status, flushed, prom, curCp, mtx, inFlush, pending, pendProm,
                       shutdown, shutter, sdLeft, lastFlushed, dur, depth, b2b, fut,
                       need, dirty, overtaken>>
  BY Zenon, Types DEF Good, TypeOK, FiberStart, cpVars, sdVars, diskVars, trigVars,
     actorVars, futVars
<1>s. Stage' = Stage
  BY Zenon, Types, <1>e DEF Stage, Good, InvControl, Held
<1>a. curCp \in CpIds /\ c = curCp - 1 /\ InFlight /\ inFlush
  BY Zenon, <1>e, Flushing
<1>1. TypeOK'
  <2>1. pc' \in [Actors -> ThreadPc \cup TriggerPc \cup FiberPc]
    BY Zenon, Types DEF Good, TypeOK, FiberStart, ThreadPc, TriggerPc, FiberPc
  <2>2. cpOf' \in [Actors -> CpIds \cup {NoCp}]
    BY Zenon, Types DEF Good, TypeOK, FiberStart
  <2> QED BY Zenon, <1>e, <2>1, <2>2 DEF Good, TypeOK
<1>2. InvControl'
  BY Zenon, Types, <1>e DEF Good, InvControl, Held, Guarded, ThreadPc, TriggerPc, FiberPc
<1>3. InvShutdown'
  BY Zenon, Types, <1>e DEF Good, InvShutdown, Closing, Guarded, TriggerPc
<1>4. InvQuiet'
  BY Zenon, <1>a, Types, <1>e DEF Good, InvQuiet, Quiet, InvShutdown, Closing, TriggerPc
<1>5. InvCps'
  BY Zenon, <1>a, Types, <1>e, <1>s DEF Good, InvCps, InFlight, CurStatus, Before
<1>6. TriggerRefs'
  BY Zenon, Types, <1>e DEF Good, InvRefs, TriggerRefs
<1>7. GuardRefs'
  BY Zenon, Types, <1>e, <1>s DEF Good, InvRefs, GuardRefs, InvControl, Guarded
<1>8. LastExit'
  BY SMTT(90), Types, <1>e DEF Good, InvRefs, LastExit, InvControl, Guarded
<1>9. InTrigger'
  BY Zenon, Types, <1>e DEF Good, InvPromises, InTrigger
<1>10. Kept' /\ InProm' /\ InPendProm' /\ InvDisk'
  BY ZenonT(90), <1>e DEF Good, InvPromises, Kept, InProm, InPendProm, InvDisk,
     SealerFlushesLast
<1> QED BY Zenon, <1>1, <1>2, <1>3, <1>4, <1>5, <1>6, <1>7, <1>8, <1>9, <1>10 DEF Good,
   InvRefs, InvPromises

(* The flush of one consumer completes. *)
LEMMA ConsumerFlushKeeps ==
  ASSUME Good, ~overtaken, NEW c \in CpIds, NEW k \in Consumers, ConsumerFlush(c, k)
  PROVE  Good'
<1>e. /\ status[c] = "cp_flushing" /\ k # Sealer
      /\ dur'[k] = c /\ \A j \in Consumers : j # k => dur'[j] = dur[j]
      /\ flushed'[c] = flushed[c] \cup {k} /\ \A d \in CpIds : d # c => flushed'[d] = flushed[d]
      /\ UNCHANGED <<status, prom, curCp, mtx, inFlush, pending, pendProm,
                       shutdown, shutter, sdLeft, lastFlushed, pc, cpOf, depth, b2b,
                       fut, need, dirty, overtaken>>
  BY Zenon, Types DEF Good, TypeOK, ConsumerFlush, cpVars, sdVars, diskVars, trigVars,
     actorVars, futVars
<1>s. Stage' = Stage
  BY Zenon, Types, <1>e DEF Stage, Good, InvControl, Held
<1>1. TypeOK'
  <2>1. flushed' \in [CpIds -> SUBSET Consumers]
    BY Zenon, Types DEF Good, TypeOK, ConsumerFlush
  <2>2. dur' \in [Consumers -> -1..MaxCp]
    BY SMTT(90), ConstantsAssumption DEF Good, TypeOK, ConsumerFlush, CpIds
  <2> QED BY Zenon, <1>e, <2>1, <2>2 DEF Good, TypeOK
<1>2. InvDisk'
  <2>1. curCp \in CpIds /\ lastFlushed = c - 1
    BY Zenon, <1>e, Flushing
  <2>2. /\ Sealer \notin flushed[c] /\ (\A j \in flushed[c] : dur[j] = c)
        /\ flushed[c] \subseteq Consumers
    BY SMTT(90), <1>e, <2>1, Types DEF Good, InvDisk, TypeOK
  <2>3. SealerFlushesLast'
    <3>1. \A j \in Consumers : /\ dur[j] \in Int /\ dur[Sealer] <= dur[j]
                               /\ lastFlushed <= dur[Sealer] /\ dur[j] <= c
      BY SMTT(90), <2>1, Types DEF Good, InvDisk, SealerFlushesLast, TypeOK
    <3> QED BY SMTT(90), <1>e, <2>1, <3>1, Types, ConstantsAssumption DEF SealerFlushesLast
  <2>4. \A d \in CpIds : status[d] = "cp_flush_done" => d = c
    BY Zenon, <1>e, Flushing
  <2> QED BY SMTT(90), <1>e, <2>1, <2>2, <2>3, <2>4, Flushing DEF Good, InvDisk
<1>3. InvControl' /\ InvShutdown' /\ InvQuiet' /\ InvCps' /\ TriggerRefs' /\ GuardRefs'
      /\ LastExit' /\ Kept' /\ InProm' /\ InPendProm' /\ InTrigger'
  BY SMTT(90), <1>e DEF Good, InvControl, Held, Guarded, ThreadPc, TriggerPc, FiberPc,
     InvShutdown, Closing, InvQuiet, Quiet, InvCps, InFlight, CurStatus, InvRefs,
     TriggerRefs, GuardRefs, LastExit, InvPromises, Kept, InProm, InPendProm,
     InTrigger, Stage
<1> QED BY Zenon, <1>1, <1>2, <1>3 DEF Good, InvRefs, InvPromises

(* The sealer flushes last, and on_cp_flush_done. *)
LEMMA SealerFlushKeeps ==
  ASSUME Good, ~overtaken, NEW c \in CpIds, SealerFlush(c)
  PROVE  Good'
<1>e. /\ status[c] = "cp_flushing" /\ Consumers \ {Sealer} \subseteq flushed[c]
      /\ dur'[Sealer] = c /\ \A j \in Consumers : j # Sealer => dur'[j] = dur[j]
      /\ \A d \in CpIds : d # c => flushed'[d] = flushed[d] /\ status'[d] = status[d]
      /\ status'[c] = "cp_flush_done"
      /\ UNCHANGED <<prom, curCp, mtx, inFlush, pending, pendProm, shutdown,
                       shutter, sdLeft, lastFlushed, pc, cpOf, depth, b2b, fut, need,
                       dirty, overtaken>>
  BY Zenon, Types, ConstantsAssumption DEF Good, TypeOK, SealerFlush, OthersFlushed,
     cpVars, sdVars, diskVars, trigVars, actorVars, futVars
<1>s. Stage' = Stage
  BY Zenon, Types, <1>e DEF Stage, Good, InvControl, Held
<1>a. /\ curCp \in CpIds /\ c = curCp - 1 /\ curCp > 0 /\ InFlight /\ lastFlushed = c - 1
      /\ \A d \in CpIds : status[d] \in {"cp_flushing", "cp_flush_done"} => d = c
  <2>1. /\ curCp \in CpIds /\ c = curCp - 1 /\ InFlight /\ lastFlushed = c - 1
        /\ \A d \in CpIds : status[d] \in {"cp_flushing", "cp_flush_done"} => d = c
    BY Zenon, <1>e, Flushing
  <2> QED BY SMTT(90), <2>1, Types
<1>1. TypeOK'
  <2>1. flushed' \in [CpIds -> SUBSET Consumers]
    BY Zenon, ConstantsAssumption DEF Good, TypeOK, SealerFlush
  <2>2. dur' \in [Consumers -> -1..MaxCp]
    BY SMTT(90), ConstantsAssumption DEF Good, TypeOK, SealerFlush, CpIds
  <2>3. status' \in [CpIds -> CpStatus]
    BY Zenon, Types DEF Good, TypeOK, SealerFlush, CpStatus
  <2> QED BY Zenon, <1>e, <2>1, <2>2, <2>3 DEF Good, TypeOK
<1>2. InvCps'
  BY ZenonT(90), <1>a, Types, <1>e, <1>s DEF Good, InvCps, InFlight, CurStatus
<1>3. GuardRefs'
  BY Zenon, <1>a, Types, <1>e, <1>s DEF Good, InvRefs, GuardRefs
<1>4. LastExit'
  BY ZenonT(90), <1>a, Types, <1>e DEF Good, InvRefs, LastExit, GuardRefs
<1>5. InvDisk'
  <2>1. \A j \in Consumers : dur'[j] = c
    BY SMTT(90), <1>a, <1>e, Types DEF Good, InvDisk
  <2>2. SealerFlushesLast'
    BY SMTT(90), <1>a, <1>e, <2>1, Types, ConstantsAssumption DEF SealerFlushesLast
  <2>3. ASSUME NEW d \in CpIds
        PROVE  /\ status'[d] \in {"cp_io_ready", "cp_trigger", "cp_flush_prepare", "cp_unknown"}
                     => flushed'[d] = {}
               /\ status'[d] = "cp_flushing" => /\ Sealer \notin flushed'[d]
                                               /\ \A k \in flushed'[d] : dur'[k] = d
               /\ status'[d] = "cp_flush_done" => \A k \in Consumers : dur'[k] = d
    <3>1. CASE d = c
      BY Zenon, <3>1, <1>e, <2>1
    <3>2. CASE d # c
      <4>1. curCp # NoCp
        BY SMTT(90), <1>a, ConstantsAssumption DEF CpIds
      <4>2. /\ status'[d] = status[d] /\ flushed'[d] = flushed[d]
            /\ status[d] \notin {"cp_flushing", "cp_flush_done"}
        BY Zenon, <3>2, <1>a, <1>e
      <4> QED BY Zenon, <4>1, <4>2 DEF Good, InvDisk
    <3> QED BY Zenon, <3>1, <3>2
  <2> QED BY Zenon, <2>2, <2>3 DEF InvDisk
<1>6. InvControl' /\ InvShutdown' /\ InvQuiet' /\ TriggerRefs' /\ Kept' /\ InProm'
      /\ InPendProm' /\ InTrigger'
  BY SMTT(90), <1>e DEF Good, InvControl, Held, Guarded, ThreadPc, TriggerPc, FiberPc,
     InvShutdown, Closing, InvQuiet, Quiet, InvRefs, TriggerRefs, InvPromises, Kept,
     InProm, InPendProm, InTrigger
<1> QED BY Zenon, <1>1, <1>2, <1>3, <1>4, <1>5, <1>6 DEF Good, InvRefs, InvPromises
=============================================================================
