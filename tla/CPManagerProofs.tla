-------------------------- MODULE CPManagerProofs ---------------------------
(***************************************************************************)
(* Proofs for CPManager, part 4: the shutdown and a restart keep Good, and *)
(* from the invariance of IInv follow type correctness and the safety      *)
(* properties, for every number of threads, consumers, CPs and nested      *)
(* guards.                                                                 *)
(***************************************************************************)
EXTENDS CPTriggerProofs

(* m_cp_shutdown_initiated is set. *)
LEMMA ShutdownStartKeeps ==
  ASSUME Good, ~overtaken, NEW t \in Threads, NEW extra \in {0, 1}, ShutdownStart(t, extra)
  PROVE  Good'
<1>e. /\ shutter = NoThread /\ mtx = NoThread /\ fut[t] # "waiting"
      /\ \A u \in Threads : pc[u] = "run" /\ depth[u] = 0
      /\ shutdown' = TRUE /\ shutter' = t /\ sdLeft' = 1 + extra /\ pc'[t] = "sd_trigger"
      /\ \A u \in Actors : u # t => pc'[u] = pc[u]
      /\ UNCHANGED <<status, flushed, prom, curCp, mtx, inFlush, pending, pendProm,
                       lastFlushed, dur, cpOf, depth, b2b, fut, need, dirty,
                       overtaken>>
  BY Zenon, Types DEF Good, TypeOK, ShutdownStart, cpVars, sdVars, diskVars, trigVars,
     actorVars, futVars
<1>s. Stage' = Stage
  BY Zenon, Types, <1>e DEF Stage, Good, InvControl, Held
<1>1. TypeOK'
  <2>1. pc' \in [Actors -> ThreadPc \cup TriggerPc \cup FiberPc]
    BY Zenon, Types DEF Good, TypeOK, ShutdownStart, ThreadPc, TriggerPc, FiberPc
  <2>2. shutdown' \in BOOLEAN
    BY Zenon, Types DEF Good, TypeOK, ShutdownStart
  <2>3. shutter' \in Threads \cup {NoThread}
    BY Zenon, Types DEF Good, TypeOK, ShutdownStart
  <2>4. sdLeft' \in 0..2
    BY SMTT(90), Types DEF Good, TypeOK, ShutdownStart
  <2> QED BY Zenon, <1>e, <2>1, <2>2, <2>3, <2>4 DEF Good, TypeOK
<1>2. InvControl'
  BY Zenon, Types, <1>e DEF Good, InvControl, Held, Guarded, ThreadPc, TriggerPc, FiberPc
<1>3. InvShutdown'
  BY SMTT(90), Types, <1>e DEF Good, InvShutdown, Closing, Guarded, TriggerPc
<1>4. InvQuiet'
  BY Zenon, Types, <1>e DEF Good, InvQuiet, Quiet, InvShutdown, Closing, TriggerPc,
     InvPromises, InProm, InPendProm
<1>5. InvCps'
  BY ZenonT(40), Types, <1>e, <1>s DEF Good, InvCps, InFlight, CurStatus
<1>6. TriggerRefs'
  BY Zenon, Types, <1>e DEF Good, InvRefs, TriggerRefs
<1>7. GuardRefs'
  BY Zenon, Types, <1>e, <1>s DEF Good, InvRefs, GuardRefs
<1>8. LastExit'
  BY SMTT(90), Types, <1>e DEF Good, InvRefs, LastExit
<1>9. InTrigger'
  BY Zenon, Types, <1>e DEF Good, InvPromises, InTrigger
<1>10. Kept' /\ InProm' /\ InPendProm' /\ InvDisk'
  BY SMTT(90), <1>e DEF Good, InvPromises, Kept, InProm, InPendProm, InvDisk,
     SealerFlushesLast
<1> QED BY Zenon, <1>1, <1>2, <1>3, <1>4, <1>5, <1>6, <1>7, <1>8, <1>9, <1>10 DEF Good,
   InvRefs, InvPromises

(* The wait of the shutdown for a flush returns. *)
LEMMA ShutdownWaitKeeps ==
  ASSUME Good, ~overtaken, NEW t \in Threads, ShutdownWait(t)
  PROVE  Good'
<1>e. /\ pc[t] = "sd_wait" /\ fut[t] = "true" /\ t = shutter /\ sdLeft \in 1..2
      /\ sdLeft' = sdLeft - 1
      /\ pc'[t] = (IF sdLeft > 1 THEN "sd_trigger" ELSE "sd_delete")
      /\ \A u \in Actors : u # t => pc'[u] = pc[u]
      /\ UNCHANGED <<status, flushed, prom, curCp, mtx, inFlush, pending, pendProm,
                       shutdown, shutter, lastFlushed, dur, cpOf, depth, b2b, fut,
                       need, dirty, overtaken>>
  BY SMTT(90), Types DEF Good, TypeOK, ShutdownWait, InvShutdown, Closing, cpVars, sdVars,
     diskVars, trigVars, actorVars, futVars
<1>s. Stage' = Stage
  BY Zenon, Types, <1>e DEF Stage, Good, InvControl, Held
<1>1. TypeOK'
  <2>1. pc' \in [Actors -> ThreadPc \cup TriggerPc \cup FiberPc]
    BY Zenon, Types DEF Good, TypeOK, ShutdownWait, ThreadPc, TriggerPc, FiberPc
  <2>2. sdLeft' \in 0..2
    BY SMTT(90), <1>e
  <2> QED BY Zenon, <1>e, <2>1, <2>2 DEF Good, TypeOK
<1>2. InvControl'
  BY Zenon, Types, <1>e DEF Good, InvControl, Held, Guarded, ThreadPc, TriggerPc,
     FiberPc
<1>3. InvShutdown'
  BY SMTT(90), Types, <1>e DEF Good, InvShutdown, Closing, Guarded, TriggerPc
<1>4. InvQuiet'
  BY ZenonT(40), Types, <1>e DEF Good, InvQuiet, Quiet, InvShutdown, Closing, TriggerPc,
     InvPromises, InProm, InPendProm
<1>5. InvCps'
  BY ZenonT(40), Types, <1>e, <1>s DEF Good, InvCps, InFlight, CurStatus
<1>6. TriggerRefs'
  BY Zenon, Types, <1>e DEF Good, InvRefs, TriggerRefs
<1>7. GuardRefs'
  BY Zenon, Types, <1>e, <1>s DEF Good, InvRefs, GuardRefs
<1>8. LastExit'
  BY ZenonT(90), Types, <1>e DEF Good, InvRefs, LastExit
<1>9. InTrigger'
  BY Zenon, Types, <1>e DEF Good, InvPromises, InTrigger
<1>10. Kept' /\ InProm' /\ InPendProm' /\ InvDisk'
  BY ZenonT(90), <1>e DEF Good, InvPromises, Kept, InProm, InPendProm, InvDisk,
     SealerFlushesLast
<1> QED BY Zenon, <1>1, <1>2, <1>3, <1>4, <1>5, <1>6, <1>7, <1>8, <1>9, <1>10 DEF Good,
   InvRefs, InvPromises

(* The shutdown deletes the current CP. *)
LEMMA ShutdownDeleteKeeps ==
  ASSUME Good, ~overtaken, NEW t \in Threads, ShutdownDelete(t)
  PROVE  Good'
<1>e. /\ pc[t] = "sd_delete" /\ t = shutter /\ Quiet /\ curCp \in CpIds
      /\ pc'[t] = "sd_done" /\ curCp' = NoCp
      /\ status'[curCp] = "freed" /\ \A c \in CpIds : c # curCp => status'[c] = status[c]
      /\ \A u \in Actors : u # t => pc'[u] = pc[u]
      /\ UNCHANGED <<flushed, prom, mtx, inFlush, pending, pendProm, shutdown,
                       shutter, sdLeft, lastFlushed, dur, cpOf, depth, b2b, fut,
                       need, dirty, overtaken>>
  BY SMTT(90), Types DEF Good, TypeOK, ShutdownDelete, InvShutdown, InvQuiet, Closing, cpVars,
     sdVars, diskVars, trigVars, actorVars, futVars
<1>s. Stage' = Stage
  BY Zenon, Types, <1>e DEF Stage, Good, InvControl, Held
<1>a. pendProm = {} /\ ~InFlight
  BY SMTT(90), <1>e, Types DEF Good, Quiet, InvPromises, InPendProm, InvCps
<1>1. TypeOK'
  <2>1. pc' \in [Actors -> ThreadPc \cup TriggerPc \cup FiberPc]
    BY Zenon, Types DEF Good, TypeOK, ShutdownDelete, ThreadPc, TriggerPc, FiberPc
  <2>2. curCp' \in CpIds \cup {NoCp}
    BY Zenon, Types DEF Good, TypeOK, ShutdownDelete
  <2>3. status' \in [CpIds -> CpStatus]
    BY Zenon, Types DEF Good, TypeOK, ShutdownDelete, CpStatus
  <2> QED BY Zenon, <1>e, <2>1, <2>2, <2>3 DEF Good, TypeOK
<1>2. InvControl'
  BY ZenonT(40), Types, <1>e DEF Good, InvControl, Held, Guarded, ThreadPc, TriggerPc, FiberPc
<1>3. InvShutdown'
  BY ZenonT(40), Types, <1>e DEF Good, InvShutdown, Closing, Guarded, TriggerPc,
     InvQuiet, Quiet
<1>4. InvQuiet'
  BY ZenonT(90), Types, <1>e DEF Good, InvQuiet, Quiet, InvShutdown, Closing, TriggerPc,
     InvPromises, InProm, InPendProm
<1>5. InvCps'
  BY SMTT(90), <1>a, Types, <1>e, <1>s DEF Good, InvCps, InFlight, CurStatus, Quiet
<1>6. TriggerRefs'
  BY SMTT(90), Types, <1>e DEF Good, InvRefs, TriggerRefs, Quiet, InvShutdown
<1>7. GuardRefs'
  <2>1. \A u \in Actors : depth[u] = 0 /\ pc[u] \notin {"enter", "exit_test"}
    <3>1. \A u \in Threads : depth[u] = 0 /\ pc[u] \notin {"enter", "exit_test"}
      BY SMTT(90), <1>e, Types DEF Good, InvShutdown, Guarded
    <3>2. depth[Fiber] = 0 /\ pc[Fiber] \notin {"enter", "exit_test"}
      BY SMTT(90), <1>e, Types DEF Good, Quiet, InvControl, Guarded
    <3> QED BY Zenon, <3>1, <3>2, Types
  <2> QED BY SMTT(90), <1>e, <2>1, Types DEF GuardRefs
<1>8. LastExit'
  BY ZenonT(90), Types, <1>e DEF Good, InvRefs, LastExit, Quiet, InvShutdown
<1>9. InvDisk'
  BY Zenon, <1>e DEF Good, InvDisk, SealerFlushesLast
<1>10. InPendProm'
  BY Zenon, <1>a, Types, <1>e DEF Good, InvPromises, InPendProm
<1>11. InTrigger'
  BY ZenonT(90), Types, <1>e DEF Good, InvPromises, InTrigger, InvShutdown
<1>12. Kept' /\ InProm'
  BY Zenon, <1>e DEF Good, InvPromises, Kept, InProm
<1> QED BY Zenon, <1>1, <1>2, <1>3, <1>4, <1>5, <1>6, <1>7, <1>8, <1>9, <1>10,
           <1>11, <1>12
   DEF Good, InvRefs, InvPromises

(* A crash or a restart: create_first_cp from the superblock. *)
LEMMA RestartKeeps ==
  ASSUME Good, ~overtaken, Restart
  PROVE  Good'
<1>e. /\ curCp' = lastFlushed + 1 /\ lastFlushed + 1 \in CpIds
      /\ \A c \in CpIds : /\ c = lastFlushed + 1 => status'[c] = "cp_io_ready"
                          /\ c <= lastFlushed => status'[c] = "freed"
                          /\ c > lastFlushed + 1 => status'[c] = "cp_unknown"
      /\ \A c \in CpIds : flushed'[c] = {} /\ prom'[c] = {}
      /\ mtx' = NoThread /\ inFlush' = FALSE /\ pending' = FALSE /\ pendProm' = {}
      /\ shutdown' = FALSE /\ shutter' = NoThread /\ sdLeft' = 0 /\ b2b' = FALSE /\ dirty' = {}
      /\ pc'[Fiber] = "fb_idle" /\ \A t \in Threads : pc'[t] = "run"
      /\ \A u \in Actors : depth'[u] = 0 /\ cpOf'[u] = NoCp
      /\ \A t \in Threads : fut'[t] = "none" /\ need'[t] = 0
      /\ UNCHANGED <<lastFlushed, dur, overtaken>>
  BY SMTT(90), Types DEF Good, TypeOK, Restart, FirstId, FirstCp, InvCps, cpVars, sdVars,
     diskVars, trigVars, actorVars, futVars
<1>s. Stage' = "none"
  BY Zenon, <1>e DEF Stage
<1>1. TypeOK'
  <2>1. status' \in [CpIds -> CpStatus]
    <3>1. FirstCp(lastFlushed) \in [CpIds -> CpStatus]
      BY Zenon DEF FirstCp, CpStatus
    <3> QED BY Zenon, <3>1 DEF Restart
  <2>2. flushed' \in [CpIds -> SUBSET Consumers]
    BY Zenon DEF Restart
  <2>3. prom' \in [CpIds -> SUBSET Threads]
    BY Zenon DEF Restart
  <2>4. curCp' \in CpIds \cup {NoCp}
    BY Zenon, <1>e
  <2>5. mtx' \in Actors \cup {NoThread}
    BY Zenon, <1>e
  <2>6. inFlush' \in BOOLEAN
    BY Zenon, <1>e
  <2>7. pending' \in BOOLEAN
    BY Zenon, <1>e
  <2>8. pendProm' \in SUBSET Threads
    BY Zenon, <1>e
  <2>9. shutdown' \in BOOLEAN
    BY Zenon, <1>e
  <2>10. shutter' \in Threads \cup {NoThread}
    BY Zenon, <1>e
  <2>11. sdLeft' \in 0..2
    BY SMTT(90), <1>e
  <2>12. pc' \in [Actors -> ThreadPc \cup TriggerPc \cup FiberPc]
    BY Zenon, Types DEF Restart, ThreadPc, FiberPc
  <2>13. cpOf' \in [Actors -> CpIds \cup {NoCp}]
    BY Zenon DEF Restart
  <2>14. depth' \in [Actors -> 0..(MaxDepth + 1)]
    BY SMTT(90), Types DEF Restart
  <2>15. b2b' \in BOOLEAN
    BY Zenon, <1>e
  <2>16. fut' \in [Threads -> {"none", "waiting", "true", "false"}]
    BY Zenon DEF Restart
  <2>17. need' \in [Threads -> CpIds]
    BY SMTT(90), Types DEF Restart
  <2>18. dirty' \in SUBSET CpIds
    BY Zenon, <1>e
  <2> QED BY Zenon, <1>e, <2>1, <2>2, <2>3, <2>4, <2>5, <2>6, <2>7, <2>8, <2>9, <2>10,
     <2>11, <2>12, <2>13, <2>14, <2>15, <2>16, <2>17, <2>18 DEF Good, TypeOK
<1>2. InvControl'
  BY SMTT(90), Types, <1>e DEF Good, InvControl, Held, Guarded, ThreadPc, TriggerPc, FiberPc
<1>3. InvShutdown'
  BY SMTT(90), Types, <1>e DEF Good, InvShutdown, Closing, Guarded, TriggerPc
<1>4. InvQuiet'
  BY Zenon, Types, <1>e DEF Good, InvQuiet, Quiet, InvShutdown, Closing, TriggerPc
<1>5. InvCps'
  <2>1. curCp' > 0 => status'[curCp' - 1] = "freed"
    BY SMTT(90), <1>e, Types
  <2>2. ~InFlight' /\ CurStatus' = "cp_io_ready"
    BY Zenon, <1>s, <2>1 DEF InFlight, CurStatus
  <2>3. lastFlushed < MaxCp
    BY Zenon DEF Good, InvCps
  <2>4. \A d \in CpIds : /\ d > curCp' => status'[d] = "cp_unknown"
                         /\ d < curCp' - 1 => status'[d] = "freed"
    BY SMTT(90), <1>e, Types
  <2>5. status'[curCp'] = "cp_io_ready" /\ curCp' \in Int /\ lastFlushed' = curCp' - 1
    BY SMTT(90), <1>e, Types
  <2> QED BY Zenon, <1>e, <1>s, <2>1, <2>2, <2>3, <2>4, <2>5, Types DEF InvCps, Before
<1>6. TriggerRefs'
  BY ZenonT(90), Types, <1>e DEF Good, InvRefs, TriggerRefs
<1>7. GuardRefs'
  BY SMTT(90), Types, <1>e, <1>s DEF Good, InvRefs, GuardRefs
<1>8. LastExit'
  BY ZenonT(90), Types, <1>e DEF Good, InvRefs, LastExit
<1>9. Kept' /\ InProm' /\ InPendProm' /\ InTrigger'
  BY Zenon, Types, <1>e DEF Good, InvPromises, Kept, InProm, InPendProm, InTrigger
<1>10. InvDisk'
  BY SMTT(90), Types, <1>e DEF Good, InvDisk, SealerFlushesLast
<1> QED BY Zenon, <1>1, <1>2, <1>3, <1>4, <1>5, <1>6, <1>7, <1>8, <1>9, <1>10 DEF Good,
   InvRefs, InvPromises

(* The ghost is never taken back. *)
LEMMA OvertakenStays ==
  ASSUME Next, overtaken PROVE overtaken'
BY ZenonT(90) DEF Next, ThreadStep, CpIoStep, FlushStep, TriggerStep, ShutdownStep,
   FiberStep,
       ShutdownTrigger, TriggerFlush, TriggerCall, FiberB2B, IoEnter, IoRef, IoNest,
       GuardCopy, IoExit, ExitTest, TriggerQueued, TriggerStart, TriggerGuard,
       TriggerPrepare, TriggerXchg, TriggerSync, TriggerExit, ConsumerFlush,
       SealerFlush, FiberStart, FiberPersist, FiberCleanup, FiberUnflag,
       FiberPromise, FiberDone, ShutdownStart, ShutdownWait, ShutdownDelete, Restart

(* The manager starts in a state that satisfies the inductive invariant. *)
LEMMA InitGood == ASSUME Init PROVE Good
<1> USE ConstantsAssumption DEF CpIds, Actors
<1>1. TypeOK
  <2>1. status \in [CpIds -> CpStatus]
    BY Zenon DEF Init, FirstCp, CpStatus
  <2>2. pc \in [Actors -> ThreadPc \cup TriggerPc \cup FiberPc]
    BY Zenon DEF Init, ThreadPc, FiberPc
  <2>3. need \in [Threads -> CpIds] /\ depth \in [Actors -> 0..(MaxDepth + 1)]
    BY SMTT(90) DEF Init
  <2>4. dur \in [Consumers -> -1..MaxCp] /\ lastFlushed \in -1..MaxCp
    BY SMTT(90) DEF Init
  <2>5. /\ flushed \in [CpIds -> SUBSET Consumers] /\ prom \in [CpIds -> SUBSET Threads]
        /\ fut \in [Threads -> {"none", "waiting", "true", "false"}]
        /\ cpOf \in [Actors -> CpIds \cup {NoCp}]
    BY Zenon DEF Init
  <2>6. /\ curCp \in CpIds /\ mtx = NoThread /\ shutter = NoThread /\ sdLeft = 0
        /\ ~inFlush /\ ~pending /\ ~shutdown /\ ~b2b /\ ~overtaken
        /\ pendProm = {} /\ dirty = {}
    BY SMTT(90) DEF Init
  <2>7. {inFlush, pending, shutdown, b2b, overtaken} \subseteq BOOLEAN
    BY Zenon DEF Init
  <2> QED BY SMTT(90), <2>1, <2>2, <2>3, <2>4, <2>5, <2>6, <2>7 DEF TypeOK
<1>2. InvControl /\ InvShutdown /\ InvQuiet
  BY SMTT(90) DEF Init, InvControl, InvShutdown, InvQuiet, Held, Guarded, Closing,
         ThreadPc, FiberPc, TriggerPc
<1>3. InvCps
  BY SMTT(90) DEF Init, FirstCp, InvCps, CurStatus, Stage, InFlight, Before
<1>4. InvRefs
  BY SMTT(90) DEF Init, InvRefs, TriggerRefs, GuardRefs, LastExit
<1>5. InvPromises
  BY Zenon DEF Init, InvPromises, Kept, InProm, InPendProm, InTrigger
<1>6. InvDisk
  BY SMTT(90) DEF Init, InvDisk, SealerFlushesLast, FirstCp
<1> QED BY Zenon, <1>1, <1>2, <1>3, <1>4, <1>5, <1>6 DEF Good

(* Every step of the manager keeps the inductive invariant. *)
LEMMA NextKeeps == ASSUME IInv, Next PROVE IInv'
<1>1. SUFFICES ASSUME ~overtaken' PROVE Good'
  BY Zenon DEF IInv
<1>2. Good /\ ~overtaken
  BY Zenon, <1>1, OvertakenStays DEF IInv
<1>3. ASSUME NEW t \in Threads, ThreadStep(t) PROVE Good'
  <2>1. t \in Actors
    BY Zenon DEF Actors
  <2>2. CASE ShutdownTrigger(t)
    BY Zenon, <1>2, <2>1, <2>2, TriggerCallKeeps DEF ShutdownTrigger, CanTrigger
  <2> QED BY Zenon, <1>1, <1>2, <1>3, <2>1, <2>2, IoRefKeeps, IoExitKeeps, ExitTestKeeps,
     TriggerStepKeeps,
             ShutdownWaitKeeps, ShutdownDeleteKeeps DEF ThreadStep, ShutdownStep
<1>4. ASSUME NEW t \in Threads, NEW force \in BOOLEAN, TriggerFlush(t, force) PROVE Good'
  BY Zenon, <1>2, <1>4, TriggerCallKeeps DEF TriggerFlush, CanTrigger, Actors
<1>5. CASE CpIoStep
  <2>1. Fiber \in Actors
    BY Zenon DEF Actors
  <2>2. CASE FiberB2B
    BY Zenon, <1>2, <2>1, <2>2, TriggerCallKeeps DEF FiberB2B, CanTrigger
  <2>3. CASE FiberStep
    BY Zenon, <1>2, <2>2, <2>3, FiberPersistKeeps, FiberCleanupKeeps, FiberUnflagKeeps,
       FiberPromiseKeeps, FiberDoneKeeps DEF FiberStep
  <2> QED BY Zenon, <1>1, <1>2, <1>5, <2>1, <2>3, ExitTestKeeps, TriggerStepKeeps,
     FiberStartKeeps
          DEF CpIoStep
<1>6. CASE FlushStep
  BY Zenon, <1>2, <1>6, ConsumerFlushKeeps, SealerFlushKeeps DEF FlushStep
<1>7. CASE Restart
  BY Zenon, <1>2, <1>7, RestartKeeps
<1> QED BY Zenon, <1>2, <1>3, <1>4, <1>5, <1>6, <1>7, IoEnterKeeps, IoNestKeeps, GuardCopyKeeps,
           ShutdownStartKeeps DEF Next

(* The inductive invariant holds throughout. *)
THEOREM Invariance == Spec => []IInv
<1>1. Init => IInv
  BY Zenon, InitGood DEF IInv
<1>2. IInv /\ [Next]_vars => IInv'
  <2> SUFFICES ASSUME IInv, [Next]_vars PROVE IInv'
    OBVIOUS
  <2>1. CASE Next
    BY ZenonT(40), <2>1, NextKeeps
  <2>2. CASE UNCHANGED vars
    BY SMTT(90), <2>2 DEF vars, IInv, Good, TypeOK, InvControl, InvShutdown, InvQuiet, Quiet,
       InvCps,
                CurStatus, InFlight, Stage, InvRefs, TriggerRefs, GuardRefs, LastExit,
                InvPromises, Kept, InProm, InPendProm, InTrigger, InvDisk, SealerFlushesLast
  <2> QED BY Zenon, <2>1, <2>2
<1> QED BY <1>1, <1>2, PTL DEF Spec

(* Type correctness, on behaviours without an overtaken cp_io_exit. *)
THEOREM TypeCorrect == Spec => [](~overtaken => TypeOK)
<1>1. IInv => (~overtaken => TypeOK)
  BY Zenon DEF IInv, Good
<1> QED BY <1>1, Invariance, PTL

(* cp.hpp, requirement 1: no CP is flushed or freed under a guard. *)
THEOREM FlushIsAlone == Spec => []FlushAlone
<1>1. IInv => FlushAlone
  <2> SUFFICES ASSUME Good, NEW a \in Actors, depth[a] > 0 \/ pc[a] \in {"enter", "exit_test"}
               PROVE  status[cpOf[a]] \notin Draining
    BY Zenon DEF IInv, FlushAlone
  <2>1. curCp # NoCp => status[curCp] \notin Draining
    BY Zenon DEF Good, InvCps, CurStatus, Draining
  <2> QED BY Zenon, <2>1 DEF Good, InvRefs, GuardRefs, Draining
<1> QED BY <1>1, Invariance, PTL

(* cp.hpp, requirement 2: two CPs are never in their flush phase together,  *)
(* and m_in_flush_phase is set while one is.                                *)
THEOREM FlushesOneByOne == Spec => []OneFlushAtATime
<1>1. IInv => OneFlushAtATime
  <2>1. SUFFICES ASSUME Good PROVE OneFlushAtATime
    BY Zenon DEF IInv, OneFlushAtATime
  <2>2. ASSUME NEW c \in CpIds, status[c] \in InFlushPhase
        PROVE  /\ inFlush /\ curCp # NoCp
               /\ c = IF InFlight THEN curCp - 1 ELSE curCp
    <3>1. curCp # NoCp /\ curCp \in CpIds /\ (c = curCp \/ c = curCp - 1)
      BY SMTT(90), <2>1, <2>2, ConstantsAssumption DEF Good, InvCps, InFlushPhase,
         TypeOK, CpIds
    <3>2. CASE c = curCp
      <4>1. Stage \in {"tg_prepare", "tg_xchg"}
        BY ZenonT(40), <2>1, <2>2, <3>1, <3>2 DEF Good, InvCps, CurStatus, InFlushPhase
      <4> QED BY ZenonT(40), <2>1, <3>1, <3>2, <4>1 DEF Good, InvCps, Before
    <3>3. CASE c = curCp - 1
      BY SMTT(90), <2>1, <2>2, <3>1, <3>3, ConstantsAssumption DEF Good, InvCps,
         InFlight, InFlushPhase, CpIds
    <3> QED BY Zenon, <3>1, <3>2, <3>3
  <2> QED BY Zenon, <2>2 DEF OneFlushAtATime
<1> QED BY <1>1, Invariance, PTL

(* do_trigger_cp_flush switches over the current CP. *)
THEOREM TriggerIsCurrent == Spec => []TriggerTakesCurrent
<1>1. IInv => TriggerTakesCurrent
  BY Zenon DEF IInv, Good, InvRefs, TriggerRefs, TriggerTakesCurrent
<1> QED BY <1>1, Invariance, PTL

(* A future that completed vouches for what it was asked for. *)
THEOREM FuturesAreTrue == Spec => []FutureMeansFlushed
<1>1. IInv => FutureMeansFlushed
  BY Zenon DEF IInv, Good, InvPromises, Kept, FutureMeansFlushed, TypeOK
<1> QED BY <1>1, Invariance, PTL

(* cp_start_flush: the sealer flushes after every other consumer and before *)
(* the superblock, and a crash does not change that.                        *)
THEOREM SealerIsLast == Spec => []SealerFlushesLast
<1>1. IInv => SealerFlushesLast
  BY Zenon DEF IInv, Good, InvDisk, SealerFlushesLast
<1> QED BY <1>1, Invariance, PTL
=============================================================================
