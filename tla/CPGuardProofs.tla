--------------------------- MODULE CPGuardProofs ----------------------------
(***************************************************************************)
(* Proofs for CPManager, part 1: the CP critical section. Good, the        *)
(* inductive invariant, is kept by every step of a guard.                  *)
(*                                                                         *)
(* Every action has a lemma of one shape: <1>e says what the action finds  *)
(* and what it changes, <1>s what becomes of the stage the holder of the   *)
(* mutex has reached, and then there is one step per conjunct of Good.     *)
(***************************************************************************)
EXTENDS CPManager, TLAPS

(* The types the steps below rely on, without the sets of functions. *)
LEMMA Types ==
  ASSUME Good
  PROVE  /\ Actors = Threads \cup {Fiber} /\ Fiber \notin Threads
         /\ mtx \in Actors \cup {NoThread} /\ NoThread \notin Actors
         /\ shutter \in Threads \cup {NoThread}
         /\ curCp \in CpIds \cup {NoCp} /\ CpIds = 0..MaxCp /\ MaxCp \in Nat /\ NoCp \notin Int
         /\ lastFlushed \in -1..MaxCp /\ MaxDepth \in Nat /\ MaxDepth >= 1
         /\ \A a \in Actors : /\ depth[a] \in 0..(MaxDepth + 1)
                              /\ cpOf[a] \in CpIds \cup {NoCp}
         /\ \A t \in Threads : need[t] \in CpIds
         /\ pendProm \subseteq Threads /\ \A c \in CpIds : prom[c] \subseteq Threads
  BY SMTT(90), ConstantsAssumption DEF Good, TypeOK, CpIds, Actors

(* The holder of the mutex is the actor in the stage. *)
LEMMA AtStage ==
  ASSUME Good, Stage # "none"
  PROVE  mtx \in Actors /\ pc[mtx] = Stage /\ Stage \in Held
  BY Zenon, Types DEF Stage, Good, InvControl

(* Nobody is about to test the status of the current CP while it is cp_flush_prepare: *)
(* its trigger still holds a guard on it.                                             *)
LEMMA NoExitOfCurrent ==
  ASSUME Good, NEW a \in Actors, pc[a] = "exit_test", status[cpOf[a]] = "cp_flush_prepare"
  PROVE  cpOf[a] # curCp
<1> SUFFICES ASSUME cpOf[a] = curCp PROVE FALSE
  OBVIOUS
<1>1. Stage = "tg_xchg"
  BY Zenon DEF Good, InvRefs, GuardRefs, InvCps, CurStatus
<1>2. mtx \in Actors /\ pc[mtx] = "tg_xchg" /\ depth[mtx] > 0 /\ cpOf[mtx] = curCp
  BY Zenon, <1>1, AtStage DEF Good, InvControl, Guarded, InvRefs, TriggerRefs
<1> QED BY SMTT(90), <1>2 DEF Good, InvRefs, LastExit

(* Whoever drops the last guard on a CP that is cp_flush_prepare is alone with it: the *)
(* grace period let every reader of the old pointer count its guard before.            *)
LEMMA ExitAlone ==
  ASSUME Good, NEW a \in Actors, pc[a] \in {"run", "tg_exit"}, depth[a] = 1,
         Holders(cpOf[a]) = {a}, status[cpOf[a]] = "cp_flush_prepare",
         NEW u \in Actors, u # a, cpOf[u] = cpOf[a]
  PROVE  depth[u] = 0 /\ pc[u] \notin {"enter", "exit_test"}
<1>1. depth[u] = 0
  BY SMTT(90), Types DEF Holders
<1>2. ASSUME pc[u] = "enter" PROVE FALSE
  <2>1. /\ Stage \in {"tg_xchg", "tg_sync"}
        /\ cpOf[u] = curCp <=> Stage = "tg_xchg"
        /\ Stage = "tg_sync" => cpOf[u] = curCp - 1
    BY Zenon, <1>2, Types DEF Good, InvRefs, GuardRefs, InvCps, CurStatus
  <2>2. mtx \in Actors /\ pc[mtx] = Stage
    BY Zenon, <2>1, AtStage
  <2>3. depth[mtx] > 0 /\ cpOf[mtx] = cpOf[a]
    BY Zenon, <2>1, <2>2 DEF Good, InvControl, Guarded, InvRefs, TriggerRefs
  <2>4. mtx # a
    BY Zenon, <2>1, <2>2
  <2> QED BY Zenon, <2>2, <2>3, <2>4 DEF Holders
<1>3. pc[u] # "exit_test"
  BY SMTT(90), Types DEF Good, InvRefs, LastExit
<1> QED BY Zenon, <1>1, <1>2, <1>3

(* rcu_read_lock and rcu_dereference of m_cur_cp. *)
LEMMA IoEnterKeeps ==
  ASSUME Good, ~overtaken, NEW t \in Threads, IoEnter(t)
  PROVE  Good'
<1>e. /\ pc[t] = "run" /\ depth[t] = 0 /\ shutter = NoThread
      /\ pc'[t] = "enter" /\ cpOf'[t] = curCp
      /\ \A u \in Actors : u # t => pc'[u] = pc[u] /\ cpOf'[u] = cpOf[u]
      /\ UNCHANGED <<status, flushed, prom, curCp, mtx, inFlush, pending, pendProm,
                       shutdown, shutter, sdLeft, lastFlushed, dur, depth, b2b, fut,
                       need, dirty, overtaken>>
  BY Zenon, Types DEF Good, TypeOK, IoEnter, cpVars, sdVars, diskVars, trigVars, actorVars,
     futVars
<1>s. Stage' = Stage
  BY Zenon, Types, <1>e DEF Stage, Good, InvControl, Held
<1>1. TypeOK'
  <2>1. pc' \in [Actors -> ThreadPc \cup TriggerPc \cup FiberPc]
    BY Zenon, Types DEF Good, TypeOK, IoEnter, ThreadPc, TriggerPc, FiberPc
  <2>2. cpOf' \in [Actors -> CpIds \cup {NoCp}]
    BY Zenon, Types DEF Good, TypeOK, IoEnter
  <2> QED BY Zenon, <1>e, <2>1, <2>2 DEF Good, TypeOK
<1>2. InvControl'
  BY Zenon, Types, <1>e DEF Good, InvControl, Held, Guarded, ThreadPc, TriggerPc, FiberPc
<1>3. InvShutdown'
  BY Zenon, Types, <1>e DEF Good, InvShutdown, Closing, Guarded, TriggerPc
<1>4. InvQuiet'
  BY Zenon, Types, <1>e DEF Good, InvQuiet, Quiet, InvShutdown, Closing, TriggerPc
<1>5. InvCps'
  BY ZenonT(90), Types, <1>e, <1>s DEF Good, InvCps, InFlight, CurStatus
<1>6. TriggerRefs'
  BY Zenon, Types, <1>e DEF Good, InvRefs, TriggerRefs
<1>7. GuardRefs'
  BY ZenonT(40), Types, <1>e, <1>s DEF Good, InvRefs, GuardRefs, InvShutdown
<1>8. LastExit'
  BY SMTT(90), Types, <1>e, NoExitOfCurrent DEF Good, InvRefs, LastExit
<1>9. InTrigger'
  BY Zenon, Types, <1>e DEF Good, InvPromises, InTrigger
<1>10. Kept' /\ InProm' /\ InPendProm' /\ InvDisk'
  BY ZenonT(90), <1>e DEF Good, InvPromises, Kept, InProm, InPendProm, InvDisk,
     SealerFlushesLast
<1> QED BY Zenon, <1>1, <1>2, <1>3, <1>4, <1>5, <1>6, <1>7, <1>8, <1>9, <1>10 DEF Good,
   InvRefs, InvPromises

(* cp_ref inside the read section. *)
LEMMA IoRefKeeps ==
  ASSUME Good, ~overtaken, NEW t \in Threads, IoRef(t)
  PROVE  Good'
<1>e. /\ pc[t] = "enter"
      /\ pc'[t] = "run" /\ depth'[t] = 1
      /\ \A u \in Actors : u # t => pc'[u] = pc[u] /\ depth'[u] = depth[u]
      /\ UNCHANGED <<status, flushed, prom, curCp, mtx, inFlush, pending, pendProm,
                       shutdown, shutter, sdLeft, lastFlushed, dur, cpOf, b2b, fut,
                       need, overtaken>>
  BY Zenon, Types DEF Good, TypeOK, IoRef, cpVars, sdVars, diskVars, trigVars, actorVars,
     futVars
<1>s. Stage' = Stage
  BY Zenon, Types, <1>e DEF Stage, Good, InvControl, Held
<1>1. TypeOK'
  <2>1. pc' \in [Actors -> ThreadPc \cup TriggerPc \cup FiberPc]
    BY Zenon, Types DEF Good, TypeOK, IoRef, ThreadPc, TriggerPc, FiberPc
  <2>2. depth' \in [Actors -> 0..(MaxDepth + 1)]
    BY SMTT(90), Types DEF Good, TypeOK, IoRef
  <2>3. dirty' \in SUBSET CpIds
    BY SMTT(90), Types DEF Good, TypeOK, IoRef, InvRefs, GuardRefs
  <2> QED BY Zenon, <1>e, <2>1, <2>2, <2>3 DEF Good, TypeOK
<1>2. InvControl'
  BY Zenon, Types, <1>e DEF Good, InvControl, Held, Guarded, ThreadPc, TriggerPc, FiberPc
<1>3. InvShutdown'
  BY Zenon, Types, <1>e DEF Good, InvShutdown, Closing, Guarded, TriggerPc
<1>4. InvQuiet'
  BY Zenon, Types, <1>e DEF Good, InvQuiet, Quiet, InvShutdown, Closing, TriggerPc
<1>5. InvCps'
  BY Zenon, Types, <1>e, <1>s DEF Good, InvCps, InFlight, CurStatus
<1>6. TriggerRefs'
  BY Zenon, Types, <1>e DEF Good, InvRefs, TriggerRefs
<1>7. GuardRefs'
  BY Zenon, Types, <1>e, <1>s DEF Good, InvRefs, GuardRefs
<1>8. LastExit'
  BY ZenonT(90), Types, <1>e DEF Good, InvRefs, LastExit
<1>9. InTrigger'
  BY Zenon, Types, <1>e DEF Good, InvPromises, InTrigger
<1>10. Kept' /\ InProm' /\ InPendProm' /\ InvDisk'
  BY ZenonT(90), <1>e DEF Good, InvPromises, Kept, InProm, InPendProm, InvDisk,
     SealerFlushesLast
<1> QED BY Zenon, <1>1, <1>2, <1>3, <1>4, <1>5, <1>6, <1>7, <1>8, <1>9, <1>10 DEF Good,
   InvRefs, InvPromises

(* A nested CPGuard. *)
LEMMA IoNestKeeps ==
  ASSUME Good, ~overtaken, NEW t \in Threads, IoNest(t)
  PROVE  Good'
<1>e. /\ pc[t] = "run" /\ depth[t] \in 1..(MaxDepth - 1)
      /\ depth'[t] = depth[t] + 1
      /\ \A u \in Actors : u # t => depth'[u] = depth[u]
      /\ UNCHANGED <<status, flushed, prom, curCp, mtx, inFlush, pending, pendProm,
                       shutdown, shutter, sdLeft, lastFlushed, dur, pc, cpOf, b2b,
                       fut, need, dirty, overtaken>>
  BY Zenon, Types DEF Good, TypeOK, IoNest, cpVars, sdVars, diskVars, trigVars,
     actorVars,
     futVars
<1>s. Stage' = Stage
  BY Zenon, Types, <1>e DEF Stage, Good, InvControl, Held
<1>1. TypeOK'
  <2>1. depth' \in [Actors -> 0..(MaxDepth + 1)]
    BY SMTT(90), Types DEF Good, TypeOK, IoNest
  <2> QED BY Zenon, <1>e, <2>1 DEF Good, TypeOK
<1>2. InvControl'
  BY SMTT(90), Types, <1>e DEF Good, InvControl, Held, Guarded, ThreadPc, TriggerPc, FiberPc
<1>3. InvShutdown'
  BY SMTT(90), Types, <1>e DEF Good, InvShutdown, Closing, Guarded, TriggerPc
<1>4. GuardRefs'
  BY SMTT(90), Types, <1>e, <1>s DEF Good, InvRefs, GuardRefs
<1>5. LastExit'
  BY SMTT(90), Types, <1>e DEF Good, InvRefs, LastExit
<1>6. InvQuiet' /\ InvCps' /\ TriggerRefs' /\ Kept' /\ InProm' /\ InPendProm'
      /\ InTrigger' /\ InvDisk'
  BY SMTT(90), <1>e DEF Good, InvQuiet, Quiet, InvShutdown, Closing, TriggerPc, InvCps,
     InFlight, CurStatus, InvRefs, TriggerRefs, InvPromises, Kept, InProm, InPendProm,
     InTrigger, InvDisk, SealerFlushesLast, Stage
<1> QED BY Zenon, <1>1, <1>2, <1>3, <1>4, <1>5, <1>6 DEF Good, InvRefs, InvPromises

(* A guard is copied to another thread. *)
LEMMA GuardCopyKeeps ==
  ASSUME Good, ~overtaken, NEW t \in Threads, NEW r \in Threads, GuardCopy(t, r)
  PROVE  Good'
<1>e. /\ pc[t] = "run" /\ depth[t] > 0 /\ pc[r] = "run" /\ depth[r] = 0
      /\ depth'[r] = 1 /\ cpOf'[r] = cpOf[t]
      /\ \A u \in Actors : u # r => cpOf'[u] = cpOf[u] /\ depth'[u] = depth[u]
      /\ UNCHANGED <<status, flushed, prom, curCp, mtx, inFlush, pending, pendProm,
                       shutdown, shutter, sdLeft, lastFlushed, dur, pc, b2b, fut,
                       need, dirty, overtaken>>
  BY Zenon, Types DEF Good, TypeOK, GuardCopy, cpVars, sdVars, diskVars, trigVars,
     actorVars, futVars
<1>s. Stage' = Stage
  BY Zenon, Types, <1>e DEF Stage, Good, InvControl, Held
<1>1. TypeOK'
  <2>1. depth' \in [Actors -> 0..(MaxDepth + 1)]
    BY SMTT(90), Types DEF Good, TypeOK, GuardCopy
  <2>2. cpOf' \in [Actors -> CpIds \cup {NoCp}]
    BY Zenon, Types DEF Good, TypeOK, GuardCopy
  <2> QED BY Zenon, <1>e, <2>1, <2>2 DEF Good, TypeOK
<1>2. InvControl'
  BY Zenon, Types, <1>e DEF Good, InvControl, Held, Guarded, ThreadPc, TriggerPc,
     FiberPc
<1>3. InvShutdown'
  BY SMTT(90), Types, <1>e DEF Good, InvShutdown, Closing, Guarded, TriggerPc
<1>4. InvQuiet'
  BY Zenon, Types, <1>e DEF Good, InvQuiet, Quiet, InvShutdown, Closing, TriggerPc
<1>5. InvCps'
  BY Zenon, Types, <1>e, <1>s DEF Good, InvCps, InFlight, CurStatus
<1>6. TriggerRefs'
  BY Zenon, Types, <1>e DEF Good, InvRefs, TriggerRefs
<1>7. GuardRefs'
  BY Zenon, Types, <1>e, <1>s DEF Good, InvRefs, GuardRefs
<1>8. LastExit'
  BY SMTT(90), Types, <1>e DEF Good, InvRefs, LastExit
<1>9. Kept' /\ InProm' /\ InPendProm' /\ InTrigger' /\ InvDisk'
  BY SMTT(90), <1>e DEF Good, InvPromises, Kept, InProm, InPendProm, InTrigger, InvDisk,
     SealerFlushesLast
<1> QED BY Zenon, <1>1, <1>2, <1>3, <1>4, <1>5, <1>6, <1>7, <1>8, <1>9 DEF Good, InvRefs,
   InvPromises

(* cp_io_exit of an IO. *)
LEMMA IoExitKeeps ==
  ASSUME Good, ~overtaken, NEW t \in Threads, IoExit(t)
  PROVE  Good'
<1>e. /\ pc[t] = "run" /\ depth[t] > 0
      /\ depth'[t] = depth[t] - 1
      /\ pc'[t] \in {"run", "exit_test"}
      /\ pc'[t] = "exit_test" => depth[t] = 1 /\ Holders(cpOf[t]) = {t}
      /\ shutter = NoThread
      /\ \A u \in Actors : u # t => pc'[u] = pc[u] /\ depth'[u] = depth[u]
      /\ UNCHANGED <<status, flushed, prom, curCp, mtx, inFlush, pending, pendProm,
                       shutdown, shutter, sdLeft, lastFlushed, dur, cpOf, b2b, fut,
                       need, dirty, overtaken>>
  BY SMTT(90), Types DEF Good, TypeOK, IoExit, InvShutdown, Closing, TriggerPc, DropGuard,
     ReturnPc, cpVars, sdVars, diskVars, trigVars, actorVars, futVars
<1>s. Stage' = Stage
  BY Zenon, Types, <1>e DEF Stage, Good, InvControl, Held
<1>1. TypeOK'
  <2>1. pc' \in [Actors -> ThreadPc \cup TriggerPc \cup FiberPc]
    BY Zenon, Types, <1>e DEF Good, TypeOK, IoExit, DropGuard, ThreadPc, TriggerPc,
       FiberPc
  <2>2. depth' \in [Actors -> 0..(MaxDepth + 1)]
    BY SMTT(90), Types, <1>e DEF Good, TypeOK, IoExit, DropGuard
  <2> QED BY Zenon, <1>e, <2>1, <2>2 DEF Good, TypeOK
<1>2. InvControl'
  <2>1. /\ \A u \in Actors : pc'[u] \in Held <=> mtx' = u
        /\ pc'[Fiber] \in FiberPc \cup TriggerPc \cup {"exit_test"}
        /\ \A u \in Threads : pc'[u] \in ThreadPc \cup TriggerPc
    BY Zenon, Types, <1>e DEF Good, InvControl, Held, ThreadPc, TriggerPc, FiberPc
  <2>2. \A u \in Actors : /\ pc'[u] \in Guarded => depth'[u] > 0
                          /\ pc'[u] \in {"enter", "exit_test"} => depth'[u] = 0
    BY SMTT(90), Types, <1>e DEF Good, InvControl, Guarded
  <2>3. \A u \in Actors : pc'[u] \in {"run", "tg_guard"} => depth'[u] <= MaxDepth
    BY SMTT(90), Types, <1>e DEF Good, InvControl
  <2>4. (depth'[Fiber] > 0 => pc'[Fiber] \in Guarded) /\ depth'[Fiber] <= 1
    BY Zenon, Types, <1>e DEF Good, InvControl, Guarded
  <2> QED BY Zenon, <2>1, <2>2, <2>3, <2>4 DEF InvControl
<1>3. InvShutdown'
  BY Zenon, Types, <1>e DEF Good, InvShutdown, Closing, Guarded, TriggerPc
<1>4. InvQuiet'
  BY Zenon, Types, <1>e DEF Good, InvQuiet, Quiet, InvShutdown, Closing, TriggerPc
<1>5. InvCps'
  BY ZenonT(90), Types, <1>e, <1>s DEF Good, InvCps, InFlight, CurStatus
<1>6. TriggerRefs'
  BY Zenon, Types, <1>e DEF Good, InvRefs, TriggerRefs
<1>7. GuardRefs'
  BY Zenon, Types, <1>e, <1>s DEF Good, InvRefs, GuardRefs
<1>8. LastExit'
  BY SMTT(90), Types, <1>e, ExitAlone DEF Good, InvRefs, LastExit
<1>9. InTrigger'
  BY Zenon, Types, <1>e DEF Good, InvPromises, InTrigger
<1>10. Kept' /\ InProm' /\ InPendProm' /\ InvDisk'
  BY ZenonT(90), <1>e DEF Good, InvPromises, Kept, InProm, InPendProm, InvDisk,
     SealerFlushesLast
<1> QED BY Zenon, <1>1, <1>2, <1>3, <1>4, <1>5, <1>6, <1>7, <1>8, <1>9, <1>10 DEF Good,
   InvRefs, InvPromises

(* The guard of do_trigger_cp_flush goes out of scope. *)
LEMMA TriggerExitKeeps ==
  ASSUME Good, ~overtaken, NEW a \in Actors, TriggerExit(a)
  PROVE  Good'
<1>e. /\ pc[a] = "tg_exit" /\ depth[a] > 0
      /\ depth'[a] = depth[a] - 1
      /\ pc'[a] \in {"fb_idle", "sd_wait", "run", "exit_test"}
      /\ pc'[a] = "fb_idle" => a = Fiber
      /\ pc'[a] = "sd_wait" => a = shutter
      /\ pc'[a] = "run" => a \in Threads \ {shutter}
      /\ pc'[a] = "exit_test" => depth[a] = 1 /\ Holders(cpOf[a]) = {a}
      /\ \A u \in Actors : u # a => pc'[u] = pc[u] /\ depth'[u] = depth[u]
      /\ UNCHANGED <<status, flushed, prom, curCp, mtx, inFlush, pending, pendProm,
                       shutdown, shutter, sdLeft, lastFlushed, dur, cpOf, b2b, fut,
                       need, dirty, overtaken>>
  BY Zenon, Types DEF Good, TypeOK, TriggerExit, InvControl, Guarded, DropGuard,
     ReturnPc,
     cpVars, sdVars, diskVars, trigVars, actorVars, futVars
<1>s. Stage' = Stage
  BY Zenon, Types, <1>e DEF Stage, Good, InvControl, Held
<1>1. TypeOK'
  <2>1. pc' \in [Actors -> ThreadPc \cup TriggerPc \cup FiberPc]
    BY Zenon, Types, <1>e DEF Good, TypeOK, TriggerExit, DropGuard, ReturnPc, ThreadPc,
       TriggerPc, FiberPc
  <2>2. depth' \in [Actors -> 0..(MaxDepth + 1)]
    BY SMTT(90), Types, <1>e DEF Good, TypeOK, TriggerExit, DropGuard
  <2> QED BY Zenon, <1>e, <2>1, <2>2 DEF Good, TypeOK
<1>2. InvControl'
  <2>1. /\ \A u \in Actors : pc'[u] \in Held <=> mtx' = u
        /\ pc'[Fiber] \in FiberPc \cup TriggerPc \cup {"exit_test"}
        /\ \A u \in Threads : pc'[u] \in ThreadPc \cup TriggerPc
    BY SMTT(90), Types, <1>e DEF Good, InvControl, Held, ThreadPc, TriggerPc, FiberPc
  <2>2. \A u \in Actors : /\ pc'[u] \in Guarded => depth'[u] > 0
                          /\ pc'[u] \in {"enter", "exit_test"} => depth'[u] = 0
    BY SMTT(90), Types, <1>e DEF Good, InvControl, Guarded
  <2>3. \A u \in Actors : pc'[u] \in {"run", "tg_guard"} => depth'[u] <= MaxDepth
    BY SMTT(90), Types, <1>e DEF Good, InvControl
  <2>4. (depth'[Fiber] > 0 => pc'[Fiber] \in Guarded) /\ depth'[Fiber] <= 1
    BY SMTT(90), Types, <1>e DEF Good, InvControl, Guarded
  <2> QED BY Zenon, <2>1, <2>2, <2>3, <2>4 DEF InvControl
<1>3. InvShutdown'
  BY SMTT(90), Types, <1>e DEF Good, InvShutdown, Closing, Guarded, TriggerPc
<1>4. InvQuiet'
  BY SMTT(90), Types, <1>e DEF Good, InvQuiet, Quiet, InvShutdown, Closing, TriggerPc,
     InvRefs, TriggerRefs
<1>5. InvCps'
  BY ZenonT(90), Types, <1>e, <1>s DEF Good, InvCps, InFlight, CurStatus
<1>6. TriggerRefs'
  BY Zenon, Types, <1>e DEF Good, InvRefs, TriggerRefs
<1>7. GuardRefs'
  BY Zenon, Types, <1>e, <1>s DEF Good, InvRefs, GuardRefs
<1>8. LastExit'
  BY SMTT(90), Types, <1>e, ExitAlone DEF Good, InvRefs, LastExit
<1>9. InTrigger'
  BY Zenon, Types, <1>e DEF Good, InvPromises, InTrigger
<1>10. Kept' /\ InProm' /\ InPendProm' /\ InvDisk'
  BY SMTT(90), <1>e DEF Good, InvPromises, Kept, InProm, InPendProm, InvDisk,
     SealerFlushesLast
<1> QED BY Zenon, <1>1, <1>2, <1>3, <1>4, <1>5, <1>6, <1>7, <1>8, <1>9, <1>10 DEF Good,
   InvRefs, InvPromises

(* The status test of cp_io_exit, and cp_start_flush. *)
LEMMA ExitTestKeeps ==
  ASSUME Good, ~overtaken, NEW a \in Actors, ExitTest(a)
  PROVE  Good'
<1>e. /\ pc[a] = "exit_test"
      /\ pc'[a] \in {"fb_idle", "sd_wait", "run"}
      /\ pc'[a] = "fb_idle" => a = Fiber
      /\ pc'[a] = "sd_wait" => a = shutter
      /\ pc'[a] = "run" => a \in Threads \ {shutter}
      /\ status[cpOf[a]] # "cp_flush_prepare" => status' = status
      /\ status[cpOf[a]] = "cp_flush_prepare"
            => status' = [status EXCEPT ![cpOf[a]] = "cp_flushing"]
      /\ \A u \in Actors : u # a => pc'[u] = pc[u]
      /\ UNCHANGED <<flushed, prom, curCp, mtx, inFlush, pending, pendProm,
                       shutdown, shutter, sdLeft, lastFlushed, dur, cpOf, depth, b2b,
                       fut, need, dirty, overtaken>>
  BY Zenon, Types DEF Good, TypeOK, ExitTest, ReturnPc, cpVars, sdVars, diskVars,
     trigVars,
     actorVars, futVars
<1>s. Stage' = Stage
  BY Zenon, Types, <1>e DEF Stage, Good, InvControl, Held
<1>a. ASSUME status[cpOf[a]] = "cp_flush_prepare"
      PROVE  /\ curCp \in CpIds /\ curCp > 0 /\ cpOf[a] = curCp - 1 /\ Stage # "tg_sync"
             /\ status'[curCp - 1] = "cp_flushing"
             /\ \A d \in CpIds : d # curCp - 1 => status'[d] = status[d]
  <2>1. curCp \in CpIds /\ curCp > 0 /\ cpOf[a] = curCp - 1
    BY Zenon, <1>a, <1>e, NoExitOfCurrent, Types DEF Good, InvRefs, GuardRefs
  <2>2. ASSUME Stage = "tg_sync" PROVE FALSE
    <3>1. mtx \in Actors /\ pc[mtx] = "tg_sync" /\ depth[mtx] > 0 /\ cpOf[mtx] = cpOf[a]
      BY Zenon, <2>1, <2>2, AtStage DEF Good, InvControl, Guarded, InvRefs, TriggerRefs
    <3> QED BY SMTT(90), <1>a, <1>e, <3>1 DEF Good, InvRefs, LastExit
  <2> QED BY SMTT(90), <1>a, <1>e, <2>1, <2>2, Types DEF Good, TypeOK
<1>1. TypeOK'
  <2>1. pc' \in [Actors -> ThreadPc \cup TriggerPc \cup FiberPc]
    BY Zenon, Types DEF Good, TypeOK, ExitTest, ReturnPc, ThreadPc, TriggerPc, FiberPc
  <2>2. status' \in [CpIds -> CpStatus]
    BY Zenon, Types DEF Good, TypeOK, ExitTest, CpStatus
  <2> QED BY ZenonT(40), <1>e, <2>1, <2>2 DEF Good, TypeOK
<1>2. InvControl'
  BY SMTT(90), Types, <1>e DEF Good, InvControl, Held, Guarded, ThreadPc, TriggerPc, FiberPc
<1>3. InvShutdown'
  BY Zenon, Types, <1>e DEF Good, InvShutdown, Closing, Guarded, TriggerPc
<1>4. InvQuiet'
  BY SMTT(90), Types, <1>e DEF Good, InvQuiet, Quiet, InvShutdown, Closing, TriggerPc
<1>5. InvCps'
  <2>1. CASE status[cpOf[a]] # "cp_flush_prepare"
    BY ZenonT(90), <1>e, <1>s, <2>1, Types DEF Good, InvCps, InFlight, CurStatus
  <2>2. CASE status[cpOf[a]] = "cp_flush_prepare"
    <3>1. pc[Fiber] \notin {"fb_persist", "fb_cleanup"}
      BY Zenon, <1>a, <2>2, Types DEF Good, InvCps
    <3> QED BY SMTT(90), <1>a, <1>e, <1>s, <2>2, <3>1, Types DEF Good, InvCps,
               InFlight, CurStatus
  <2> QED BY Zenon, <2>1, <2>2
<1>6. TriggerRefs'
  BY Zenon, Types, <1>e DEF Good, InvRefs, TriggerRefs
<1>7. GuardRefs'
  <2>1. ASSUME status[cpOf[a]] = "cp_flush_prepare", NEW u \in Actors, u # a, cpOf[u] = cpOf[a]
        PROVE  depth[u] = 0 /\ pc[u] \notin {"enter", "exit_test"}
    BY Zenon, <1>e, <2>1 DEF Good, InvRefs, LastExit
  <2>2. depth[a] = 0
    BY Zenon, <1>e DEF Good, InvControl
  <2> QED BY SMTT(90), <1>a, <1>e, <1>s, <2>1, <2>2, Types DEF Good, InvRefs, GuardRefs
<1>8. LastExit'
  <2>1. \A c \in CpIds : status'[c] = "cp_flush_prepare" => status[c] = "cp_flush_prepare"
    BY Zenon, <1>a, <1>e
  <2>2. \A u \in Actors : pc[u] = "exit_test" => cpOf[u] \in CpIds
    BY SMTT(90), Types DEF Good, InvRefs, GuardRefs
  <2> QED BY ZenonT(90), <1>e, <2>1, <2>2 DEF Good, InvRefs, LastExit
<1>9. InTrigger'
  BY Zenon, Types, <1>e DEF Good, InvPromises, InTrigger
<1>10. InvDisk'
  BY ZenonT(90), <1>a, <1>e, Types DEF Good, InvDisk, SealerFlushesLast
<1>11. Kept' /\ InProm' /\ InPendProm'
  BY Zenon, <1>e DEF Good, InvPromises, Kept, InProm, InPendProm
<1> QED BY Zenon, <1>1, <1>2, <1>3, <1>4, <1>5, <1>6, <1>7, <1>8, <1>9, <1>10, <1>11 DEF
   Good, InvRefs, InvPromises
=============================================================================
