-------------------------- MODULE CPPromiseProofs ---------------------------
(***************************************************************************)
(* Proofs for CPManager, part 5: no promise of a checkpoint is dropped and *)
(* a shutdown leaves nothing unflushed, for every value of the constants.  *)
(* Good, which parts 1 to 4 show invariant, is strengthened by InvLost and *)
(* InvClean.                                                               *)
(***************************************************************************)
EXTENDS CPManagerProofs

(* The steps that touch no promise, no future and no pending request. *)
LEMMA Frame ==
  ASSUME Good, InvLost, InvClean,
         UNCHANGED <<prom, curCp, pending, pendProm, inFlush, b2b, fut, shutter>>,
         Stage = "tg_xchg" => Stage' = "tg_xchg",
         curCp # NoCp /\ InFlight => InFlight',
         pc[Fiber] \in {"fb_unflag", "fb_promise"} =>
            pc'[Fiber] = pc[Fiber] /\ cpOf'[Fiber] = cpOf[Fiber],
         \A t \in Threads : pc[t] \in {"tg_guard", "tg_prepare"} =>
            pc'[t] \in {"tg_guard", "tg_prepare"},
         \/ dirty' = dirty
         \/ /\ shutter = NoThread
            /\ curCp # NoCp => \A d \in dirty' : d <= curCp,
         lastFlushed' >= lastFlushed, lastFlushed' \in Int,
         shutter # NoThread =>
            /\ pc'[shutter] = pc[shutter] \/ pc'[shutter] \notin {"sd_wait", "sd_delete", "sd_done"}
               \/ (pc'[shutter] = "sd_wait" /\ fut[shutter] = "waiting")
               \/ (pc'[shutter] = "sd_delete" /\ pc[shutter] = "sd_wait" /\ fut[shutter] = "true")
  PROVE  InvLost' /\ InvClean'
<1>1. PromisedCps'
  BY ZenonT(90), Types DEF InvLost, PromisedCps, InCp
<1>2. PendingTaken'
  BY Zenon DEF InvLost, PendingTaken
<1>3. Promised'
  BY Zenon DEF InvLost, Promised
<1>4. curCp' # NoCp => \A d \in dirty' : d <= curCp'
  BY Zenon DEF InvClean
<1>5. ASSUME shutter' # NoThread
      PROVE  /\ pc'[shutter'] = "sd_wait" => fut'[shutter'] # "false"
             /\ \A c \in CpIds : shutter' \in prom'[c] => \A d \in dirty' : d <= c
             /\ pc'[shutter'] \in {"sd_delete", "sd_done"}
                \/ (pc'[shutter'] = "sd_wait" /\ fut'[shutter'] = "true")
                => \A d \in dirty' : d <= lastFlushed'
  <2>1. shutter # NoThread /\ shutter' = shutter /\ dirty' = dirty /\ fut' = fut /\ prom' = prom
    BY Zenon, <1>5
  <2>2. dirty \subseteq Int /\ lastFlushed \in Int
    BY SMT, Types DEF Good, TypeOK
  <2>3. (\A d \in dirty : d <= lastFlushed) => \A d \in dirty : d <= lastFlushed'
    BY SMT, <2>2
  <2> QED BY Zenon, <2>1, <2>3 DEF InvClean
<1> QED BY Zenon, <1>1, <1>2, <1>3, <1>4, <1>5 DEF InvLost, InvClean

(* A step of a guard, of a trigger outside its hand-over, of a consumer. *)
LEMMA GuardStepKeeps ==
  ASSUME Good, InvLost, InvClean, NEW t \in Threads,
         \/ IoEnter(t) \/ IoNest(t) \/ IoRef(t) \/ IoExit(t)
         \/ \E u \in Threads : GuardCopy(t, u)
  PROVE  InvLost' /\ InvClean'
<1>e. /\ UNCHANGED <<prom, curCp, pending, pendProm, inFlush, b2b, fut, shutter, lastFlushed, mtx,
                      status>>
      /\ pc[t] \in {"run", "enter"} /\ \A u \in Actors : u # t => pc'[u] = pc[u]
      /\ cpOf'[Fiber] = cpOf[Fiber]
      /\ dirty' = dirty \/ (pc[t] = "enter" /\ dirty' = dirty \cup {cpOf[t]})
  <2> USE Types DEF Good, TypeOK, cpVars, sdVars, diskVars, trigVars, actorVars, futVars
  <2>1. CASE IoEnter(t)
    BY Zenon, <2>1 DEF IoEnter
  <2>2. CASE IoNest(t)
    BY Zenon, <2>2 DEF IoNest
  <2>3. CASE IoRef(t)
    BY Zenon, <2>3 DEF IoRef
  <2>4. CASE IoExit(t)
    BY Zenon, <2>4 DEF IoExit, DropGuard
  <2>5. ASSUME NEW r \in Threads, GuardCopy(t, r)
        PROVE  /\ UNCHANGED <<prom, curCp, pending, pendProm, inFlush, b2b, fut, shutter, lastFlushed,
                              mtx, status, pc, dirty>>
               /\ pc[t] = "run" /\ cpOf'[Fiber] = cpOf[Fiber]
    BY Zenon, <2>5 DEF GuardCopy
  <2> QED BY Zenon, <2>1, <2>2, <2>3, <2>4, <2>5
<1>a. t # shutter
  BY SMTT(90), <1>e, Types DEF Good, InvShutdown, Closing, TriggerPc
<1>b. pc[t] = "enter" => shutter = NoThread
  BY Zenon, <1>a, Types DEF Good, InvShutdown
<1>c. pc[t] = "enter" /\ curCp # NoCp => cpOf[t] \in Int /\ cpOf[t] <= curCp
  BY SMT, Types DEF Good, InvRefs, GuardRefs
<1>d. \/ dirty' = dirty
      \/ /\ shutter = NoThread
         /\ curCp # NoCp => \A d \in dirty' : d <= curCp
  BY Zenon, <1>b, <1>c, <1>e DEF InvClean
<1>f. Stage' = Stage \/ mtx = t
  BY Zenon, <1>e, Types DEF Stage
<1>g. mtx # t
  BY Zenon, <1>e, Types DEF Good, InvControl, Held
<1>h. InFlight' = InFlight /\ lastFlushed' >= lastFlushed /\ lastFlushed' \in Int
  BY SMT, <1>e, Types DEF InFlight
<1> QED BY Zenon, Frame, <1>a, <1>d, <1>e, <1>f, <1>g, <1>h, Types

LEMMA TriggerMoveKeeps ==
  ASSUME Good, InvLost, InvClean, NEW a \in Actors,
         TriggerGuard(a) \/ TriggerSync(a) \/ TriggerExit(a) \/ ExitTest(a)
  PROVE  InvLost' /\ InvClean'
<1>e. /\ UNCHANGED <<prom, curCp, pending, pendProm, inFlush, b2b, fut, shutter, lastFlushed, dirty>>
      /\ pc[a] \in {"tg_guard", "tg_sync", "tg_exit", "exit_test"}
      /\ pc[a] = "tg_guard" => pc'[a] = "tg_prepare"
      /\ pc[a] = "tg_sync" => pc'[a] = "tg_exit"
      /\ pc[a] \in {"tg_exit", "exit_test"} => pc'[a] = "exit_test" \/ pc'[a] = ReturnPc(a)
      /\ \A u \in Actors : u # a => pc'[u] = pc[u] /\ cpOf'[u] = cpOf[u]
      /\ pc[a] # "tg_sync" => mtx' = mtx
      /\ \A c \in CpIds : status'[c] = status[c] \/ status'[c] # "freed"
  BY ZenonT(90), Types DEF Good, TypeOK, TriggerGuard, TriggerSync, TriggerExit, ExitTest, DropGuard,
     cpVars, sdVars, diskVars, trigVars, actorVars, futVars
<1>a. Stage = "tg_xchg" => Stage' = "tg_xchg"
  <2> SUFFICES ASSUME Stage = "tg_xchg" PROVE Stage' = "tg_xchg"
    OBVIOUS
  <2>1. mtx \in Actors /\ pc[mtx] = "tg_xchg" /\ mtx # a
    BY Zenon, AtStage, <1>e
  <2>2. pc[a] # "tg_sync"
    BY Zenon, <2>1 DEF Good, InvControl, Held
  <2> QED BY Zenon, <1>e, <2>1, <2>2, Types DEF Stage
<1>b. curCp # NoCp /\ InFlight => InFlight'
  BY SMTT(90), <1>e, Types DEF InFlight
<1>c. shutter # NoThread /\ a = shutter =>
         fut[shutter] = "waiting" /\ (pc'[shutter] = "sd_wait" \/ pc'[shutter] \in {"tg_prepare", "tg_exit",
                                                                                     "exit_test"})
  BY Zenon, <1>e, Types DEF ReturnPc, Good, InvQuiet, TriggerPc
<1>d. lastFlushed' >= lastFlushed /\ lastFlushed' \in Int
  BY SMT, <1>e, Types
<1> QED BY ZenonT(90), Frame, <1>a, <1>b, <1>c, <1>d, <1>e, Types

(* A consumer or the sealer flushes; the fiber starts, persists or is done. *)
LEMMA FlushMoveKeeps ==
  ASSUME Good, InvLost, InvClean,
         \/ FiberPersist \/ FiberDone
         \/ \E c \in CpIds : FiberStart(c) \/ SealerFlush(c) \/ \E k \in Consumers : ConsumerFlush(c, k)
  PROVE  InvLost' /\ InvClean'
<1>e. /\ UNCHANGED <<prom, curCp, pending, pendProm, inFlush, b2b, fut, shutter, dirty, mtx>>
      /\ pc[Fiber] \in {"fb_unflag", "fb_promise"} => pc' = pc /\ cpOf'[Fiber] = cpOf[Fiber]
      /\ \A u \in Actors : u # Fiber => pc'[u] = pc[u]
      /\ pc'[Fiber] = pc[Fiber] \/ (pc[Fiber] \in FiberPc /\ pc'[Fiber] \in FiberPc)
      /\ lastFlushed' = lastFlushed \/ lastFlushed' = lastFlushed + 1
      /\ \A c \in CpIds : status'[c] = status[c] \/ status'[c] # "freed"
  <2> USE Types DEF Good, TypeOK, cpVars, sdVars, diskVars, trigVars, actorVars, futVars, FiberPc
  <2>1. CASE FiberPersist
    BY Zenon, <2>1 DEF FiberPersist
  <2>2. CASE FiberDone
    BY Zenon, <2>2 DEF FiberDone
  <2>3. ASSUME NEW c \in CpIds, FiberStart(c)
        PROVE  /\ UNCHANGED <<prom, curCp, pending, pendProm, inFlush, b2b, fut, shutter, dirty, mtx,
                              lastFlushed, status>>
               /\ pc[Fiber] = "fb_idle" /\ pc'[Fiber] = "fb_persist"
               /\ \A u \in Actors : u # Fiber => pc'[u] = pc[u]
    BY Zenon, <2>3 DEF FiberStart
  <2>4. ASSUME NEW c \in CpIds, SealerFlush(c) \/ \E k \in Consumers : ConsumerFlush(c, k)
        PROVE  /\ UNCHANGED <<prom, curCp, pending, pendProm, inFlush, b2b, fut, shutter, dirty, mtx,
                              lastFlushed, pc, cpOf>>
               /\ \A d \in CpIds : status'[d] = status[d] \/ status'[d] # "freed"
    BY Zenon, <2>4 DEF SealerFlush, ConsumerFlush
  <2> QED BY Zenon, <2>1, <2>2, <2>3, <2>4
<1>a. Stage = "tg_xchg" => Stage' = "tg_xchg"
  BY Zenon, AtStage, <1>e, Types DEF Stage, FiberPc
<1>b. curCp # NoCp /\ InFlight => InFlight'
  BY SMTT(90), <1>e, Types DEF InFlight
<1>c. lastFlushed' >= lastFlushed /\ lastFlushed' \in Int
  BY SMT, <1>e, Types
<1> QED BY ZenonT(90), Frame, <1>a, <1>b, <1>c, <1>e, Types

(* do_trigger_cp_flush during a flush: the caller shares the pending promise or is refused; only *)
(* the shutdown is never refused.                                                                *)
LEMMA TriggerQueuedPromise ==
  ASSUME Good, InvLost, InvClean, NEW a \in Actors, NEW force \in BOOLEAN, NEW onShutdown \in BOOLEAN,
         CanTrigger(a, force, onShutdown), TriggerQueued(a, force, onShutdown)
  PROVE  InvLost' /\ InvClean'
<1>c. ~pending => pendProm = {}
  BY Zenon DEF Good, InvPromises, InPendProm
<1>d. \/ /\ a \in Threads /\ fut'[a] = "waiting" /\ pending' = TRUE
         /\ pendProm' = pendProm \cup {a}
      \/ /\ a = Fiber \/ (pc[a] = "run" /\ fut'[a] = "false")
         /\ pending' = pending /\ pendProm' = pendProm
  BY Zenon, <1>c, Types DEF Good, TypeOK, CanTrigger, TriggerQueued, MayQueue, SetFut
<1>e. /\ mtx = NoThread /\ inFlush
      /\ pc[a] \in {"run", "fb_b2b", "sd_trigger"}
      /\ pc[a] = "run" => a \in Threads
      /\ pc'[a] \in {"fb_idle", "sd_wait", "run"}
      /\ \A u \in Threads : u # a => fut'[u] = fut[u]
      /\ \A u \in Actors : u # a => pc'[u] = pc[u]
      /\ UNCHANGED <<status, prom, curCp, mtx, inFlush, shutter, lastFlushed, cpOf, b2b, dirty>>
  BY Zenon, Types DEF Good, TypeOK, CanTrigger, TriggerQueued, SetFut, ReturnPc, cpVars, sdVars,
     diskVars, trigVars, actorVars, futVars
<1>f. shutter # NoThread => pc[shutter] # "run"
  BY SMT, Types DEF Good, InvShutdown, Closing, TriggerPc
<1>s. Stage' = "none" /\ Stage = "none"
  BY Zenon, <1>e, Types DEF Stage
<1>g. curCp # NoCp
  BY ZenonT(40), <1>e, Types DEF Good, InvShutdown, InvQuiet, Quiet
<1>1. PromisedCps'
  BY ZenonT(90), <1>e, <1>s, Types DEF InvLost, PromisedCps, InCp, InFlight
<1>2. PendingTaken'
  BY Zenon, <1>e DEF PendingTaken
<1>3. Promised'
  <2> SUFFICES ASSUME NEW t \in Threads, fut'[t] = "waiting"
               PROVE  \/ t \in pendProm'
                      \/ \E c \in CpIds : t \in prom'[c]
                      \/ pc'[t] \in {"tg_guard", "tg_prepare"}
    BY Zenon DEF Promised
  <2>1. CASE t = a
    BY Zenon, <1>d, <2>1, Types
  <2>2. CASE t # a
    BY Zenon, <1>d, <1>e, <2>2, Types DEF InvLost, Promised
  <2> QED BY Zenon, <2>1, <2>2
<1>4. InvClean'
  <2>1. shutter # NoThread => \/ (pc'[shutter] = pc[shutter] /\ fut'[shutter] = fut[shutter])
                              \/ (pc'[shutter] = "sd_wait" /\ fut'[shutter] = "waiting")
                              \/ pc'[shutter] \in {"fb_idle", "run"}
    BY Zenon, <1>d, <1>e, <1>f, Types
  <2> QED BY Zenon, <1>e, <2>1 DEF InvClean
<1> QED BY Zenon, <1>1, <1>2, <1>3, <1>4 DEF InvLost

(* A flush phase begins. *)
LEMMA TriggerStartPromise ==
  ASSUME Good, InvLost, InvClean, NEW a \in Actors, CanStart(a), TriggerStart(a)
  PROVE  InvLost' /\ InvClean'
<1>e. /\ mtx = NoThread /\ ~inFlush /\ inFlush'
      /\ pc[a] \in {"run", "fb_b2b", "sd_trigger"} /\ pc'[a] = "tg_guard" /\ mtx' = a
      /\ \A u \in Threads : u # a => fut'[u] = fut[u]
      /\ \A u \in Actors : u # a => pc'[u] = pc[u]
      /\ UNCHANGED <<status, prom, curCp, pending, pendProm, shutter, lastFlushed, cpOf, b2b, dirty>>
  BY Zenon, Types DEF Good, TypeOK, TriggerStart, CanStart, MayStart, SetFut,
     cpVars, sdVars, diskVars, trigVars, actorVars, futVars
<1>s. Stage = "none"
  BY Zenon, <1>e DEF Stage
<1>1. PromisedCps'
  BY ZenonT(90), <1>e, <1>s, Types DEF InvLost, PromisedCps, InCp, InFlight
<1>2. PendingTaken' /\ Promised'
  BY Zenon, <1>e, Types DEF InvLost, PendingTaken, Promised
<1>3. InvClean'
  BY ZenonT(90), <1>e, Types DEF InvClean
<1> QED BY Zenon, <1>1, <1>2, <1>3 DEF InvLost

(* The pending promise and the trigger's own go to the CP being switched over. *)
LEMMA TriggerPreparePromise ==
  ASSUME Good, InvLost, InvClean, NEW a \in Actors, TriggerPrepare(a)
  PROVE  InvLost' /\ InvClean'
<1>a. mtx = a /\ Stage = "tg_prepare" /\ curCp \in CpIds /\ inFlush
  BY ZenonT(40), InTheTrigger DEF TriggerPrepare, Held
<1>b. cpOf[a] = curCp /\ ~InFlight /\ pc[Fiber] # "fb_unflag"
  BY SMTT(90), <1>a, Types DEF Good, TriggerPrepare, InvRefs, TriggerRefs, InvCps, Before
<1>c. ~pending => pendProm = {}
  BY Zenon DEF Good, InvPromises, InPendProm
<1>e. /\ pc[a] = "tg_prepare" /\ pc'[a] = "tg_xchg"
      /\ pending' = FALSE /\ pendProm' = {}
      /\ \A t \in Threads : t \in prom'[curCp] <=> t \in pendProm \/ t = a
      /\ \A c \in CpIds : c # curCp => prom'[c] = prom[c]
      /\ \A u \in Actors : u # a => pc'[u] = pc[u]
      /\ UNCHANGED <<curCp, mtx, inFlush, shutter, lastFlushed, cpOf, b2b, fut, dirty>>
  BY ZenonT(90), <1>a, <1>b, <1>c, Types DEF Good, TypeOK, TriggerPrepare, PendingPromise,
     cpVars, sdVars, diskVars, trigVars, actorVars, futVars
<1>s. Stage' = "tg_xchg"
  BY Zenon, Types, <1>a, <1>e DEF Stage
<1>d. \A c \in CpIds : prom[c] # {} => pc[Fiber] = "fb_promise" /\ c = cpOf[Fiber]
  BY Zenon, <1>a, <1>b DEF InvLost, PromisedCps, InCp
<1>g. curCp # NoCp
  BY SMT, <1>a, Types
<1>1. PromisedCps'
  <2> SUFFICES ASSUME NEW c \in CpIds, prom'[c] # {}
               PROVE  \/ curCp' # NoCp /\ InCp(c)'
                      \/ pc'[Fiber] = "fb_promise" /\ c = cpOf'[Fiber]
    BY Zenon DEF PromisedCps
  <2>1. CASE c = curCp
    BY Zenon, <1>e, <1>g, <1>s, <2>1 DEF InCp
  <2>2. CASE c # curCp
    BY Zenon, <1>d, <1>e, <2>2, Types
  <2> QED BY Zenon, <2>1, <2>2
<1>2. PendingTaken'
  BY Zenon, <1>e DEF PendingTaken
<1>f. prom[curCp] = {}
  BY SMTT(90), <1>a, <1>d, Types DEF Good, InvCps, Before, InFlight
<1>3. Promised'
  BY Zenon, <1>a, <1>e, <1>f, Types DEF InvLost, Promised
<1>4. InvClean'
  <2>1. \A d \in dirty : d <= curCp
    BY Zenon, <1>g DEF InvClean
  <2>2. shutter # NoThread => pc'[shutter] = pc[shutter] \/ pc'[shutter] = "tg_xchg"
    BY Zenon, <1>e, Types
  <2> QED BY ZenonT(90), <1>a, <1>e, <2>1, <2>2, Types DEF InvClean
<1> QED BY Zenon, <1>1, <1>2, <1>3, <1>4 DEF InvLost

(* The switchover: the promised CP is the one in flight now. *)
LEMMA TriggerXchgPromise ==
  ASSUME Good, InvLost, InvClean, NEW a \in Actors, TriggerXchg(a)
  PROVE  InvLost' /\ InvClean'
<1>a. mtx = a /\ Stage = "tg_xchg" /\ curCp \in CpIds /\ inFlush
  BY Zenon, InTheTrigger DEF TriggerXchg, Held
<1>b. cpOf[a] = curCp /\ status[curCp] = "cp_flush_prepare" /\ ~InFlight /\ curCp < MaxCp
      /\ pc[Fiber] # "fb_unflag"
  BY SMTT(90), <1>a, Types DEF Good, TriggerXchg, InvRefs, TriggerRefs, InvCps, CurStatus, Before
<1>e. /\ pc[a] = "tg_xchg" /\ pc'[a] = "tg_sync"
      /\ curCp' = curCp + 1 /\ curCp + 1 \in CpIds /\ status'[curCp] = status[curCp]
      /\ \A u \in Actors : u # a => pc'[u] = pc[u]
      /\ UNCHANGED <<prom, inFlush, pending, pendProm, shutter, lastFlushed, cpOf, b2b, fut, dirty>>
  BY SMTT(90), <1>a, <1>b, Types DEF Good, TypeOK, TriggerXchg, cpVars, sdVars, diskVars,
     trigVars, actorVars, futVars
<1>c. InFlight' /\ curCp' # NoCp /\ curCp = curCp' - 1
  BY SMT, <1>a, <1>b, <1>e, Types DEF InFlight
<1>1. PromisedCps'
  BY Zenon, <1>a, <1>b, <1>c, <1>e, Types DEF InvLost, PromisedCps, InCp
<1>2. PendingTaken' /\ Promised'
  BY Zenon, <1>e, Types DEF InvLost, PendingTaken, Promised
<1>3. \A d \in dirty : d <= curCp'
  BY SMTT(90), <1>a, <1>e, Types DEF InvClean, Good, TypeOK
<1>4. InvClean'
  BY ZenonT(90), <1>e, <1>3, Types DEF InvClean
<1> QED BY Zenon, <1>1, <1>2, <1>4 DEF InvLost

(* The flushed CP is freed; the fiber still has its promise. *)
LEMMA FiberCleanupPromise ==
  ASSUME Good, InvLost, InvClean, FiberCleanup
  PROVE  InvLost' /\ InvClean'
<1>e. /\ pc[Fiber] = "fb_cleanup" /\ pc'[Fiber] = "fb_unflag"
      /\ \A u \in Actors : u # Fiber => pc'[u] = pc[u]
      /\ UNCHANGED <<prom, curCp, mtx, inFlush, pending, pendProm, shutter, lastFlushed, cpOf, b2b, fut,
                     dirty>>
  BY Zenon, Types DEF Good, TypeOK, FiberCleanup, cpVars, sdVars, diskVars, trigVars, actorVars, futVars
<1>s. Stage' = Stage
  BY Zenon, Types, <1>e DEF Stage, Good, InvControl, Held
<1>1. PromisedCps'
  BY Zenon, <1>e, <1>s DEF InvLost, PromisedCps, InCp
<1>2. PendingTaken' /\ Promised'
  BY Zenon, <1>e, Types DEF InvLost, PendingTaken, Promised
<1>3. InvClean'
  BY ZenonT(90), <1>e, Types DEF InvClean
<1> QED BY Zenon, <1>1, <1>2, <1>3 DEF InvLost

(* The flush phase ends; a request that is pending now is the fiber's to trigger. *)
LEMMA FiberUnflagPromise ==
  ASSUME Good, InvLost, InvClean, FiberUnflag
  PROVE  InvLost' /\ InvClean'
<1>e. /\ pc[Fiber] = "fb_unflag" /\ mtx = NoThread /\ pc'[Fiber] = "fb_promise" /\ b2b' = pending
      /\ \A u \in Actors : u # Fiber => pc'[u] = pc[u]
      /\ UNCHANGED <<prom, curCp, mtx, pending, pendProm, shutter, lastFlushed, cpOf, fut, dirty>>
  BY Zenon, Types DEF Good, TypeOK, FiberUnflag, BackToBack, cpVars, sdVars, diskVars, trigVars,
     actorVars, futVars
<1>a. ~InFlight /\ cpOf[Fiber] = curCp - 1 /\ Stage = "none"
  BY ZenonT(40), <1>e, Types DEF Good, InvShutdown, InvQuiet, Quiet, InvCps, Stage
<1>1. PromisedCps'
  BY Zenon, <1>a, <1>e DEF InvLost, PromisedCps, InCp
<1>2. PendingTaken' /\ Promised'
  BY Zenon, <1>e, Types DEF InvLost, PendingTaken, Promised
<1>3. InvClean'
  BY ZenonT(90), <1>e, Types DEF InvClean
<1> QED BY Zenon, <1>1, <1>2, <1>3 DEF InvLost

(* The promise is completed: what its waiters asked for is recorded as flushed. *)
LEMMA FiberPromisePromise ==
  ASSUME Good, InvLost, InvClean, FiberPromise
  PROVE  InvLost' /\ InvClean'
<1>a. curCp \in CpIds /\ cpOf[Fiber] \in CpIds /\ cpOf[Fiber] <= lastFlushed
  BY ZenonT(40), Types DEF Good, FiberPromise, InvShutdown, InvQuiet, Quiet, InvCps
<1>e. /\ pc[Fiber] = "fb_promise" /\ pc'[Fiber] = "fb_b2b"
      /\ \A t \in Threads : fut'[t] = IF t \in prom[cpOf[Fiber]] THEN "true" ELSE fut[t]
      /\ prom'[cpOf[Fiber]] = {} /\ \A c \in CpIds : c # cpOf[Fiber] => prom'[c] = prom[c]
      /\ \A u \in Actors : u # Fiber => pc'[u] = pc[u]
      /\ UNCHANGED <<status, curCp, mtx, inFlush, pending, pendProm, shutter, lastFlushed, cpOf, b2b,
                     dirty>>
  BY Zenon, <1>a, Types DEF Good, TypeOK, FiberPromise, Served, cpVars, sdVars, diskVars,
     trigVars, actorVars, futVars
<1>s. Stage' = Stage /\ InFlight' = InFlight
  BY Zenon, Types, <1>e DEF Stage, Good, InvControl, Held, InFlight
<1>1. PromisedCps'
  BY Zenon, <1>e, <1>s DEF InvLost, PromisedCps, InCp
<1>2. PendingTaken'
  BY Zenon, <1>e DEF InvLost, PendingTaken
<1>3. Promised'
  <2> SUFFICES ASSUME NEW t \in Threads, fut'[t] = "waiting"
               PROVE  \/ t \in pendProm'
                      \/ \E c \in CpIds : t \in prom'[c]
                      \/ pc'[t] \in {"tg_guard", "tg_prepare"}
    BY Zenon DEF Promised
  <2>1. fut[t] = "waiting" /\ t \notin prom[cpOf[Fiber]]
    BY Zenon, <1>e
  <2> QED BY Zenon, <1>e, <2>1, Types DEF InvLost, Promised
<1>4. InvClean'
  <2>1. dirty \subseteq Int /\ lastFlushed \in Int /\ cpOf[Fiber] \in Int
    BY SMTT(90), <1>a, Types DEF Good, TypeOK
  <2>2. (\A d \in dirty : d <= cpOf[Fiber]) => \A d \in dirty : d <= lastFlushed
    BY SMT, <1>a, <2>1
  <2>3. ASSUME shutter # NoThread
        PROVE  /\ pc'[shutter] = pc[shutter]
               /\ shutter \in prom[cpOf[Fiber]] =>
                     fut'[shutter] = "true" /\ \A d \in dirty : d <= lastFlushed
               /\ shutter \notin prom[cpOf[Fiber]] => fut'[shutter] = fut[shutter]
    BY Zenon, <1>a, <1>e, <2>2, <2>3, Types DEF InvClean
  <2>4. \A c \in CpIds : prom'[c] \subseteq prom[c]
    BY Zenon, <1>a, <1>e
  <2> QED BY ZenonT(90), <1>e, <2>3, <2>4 DEF InvClean
<1> QED BY ZenonT(40), <1>1, <1>2, <1>3, <1>4 DEF InvLost

(* The shutdown begins, waits and deletes the current CP. *)
LEMMA ShutdownStartPromise ==
  ASSUME Good, InvLost, InvClean, NEW t \in Threads, NEW extra \in {0, 1}, ShutdownStart(t, extra)
  PROVE  InvLost' /\ InvClean'
<1>e. /\ shutter = NoThread /\ mtx = NoThread /\ fut[t] # "waiting" /\ pc[t] = "run"
      /\ shutter' = t /\ pc'[t] = "sd_trigger"
      /\ \A u \in Actors : u # t => pc'[u] = pc[u]
      /\ UNCHANGED <<status, prom, curCp, mtx, inFlush, pending, pendProm, lastFlushed, cpOf, b2b, fut,
                     dirty>>
  BY Zenon, Types DEF Good, TypeOK, ShutdownStart, cpVars, sdVars, diskVars, trigVars, actorVars, futVars
<1>s. Stage' = Stage /\ InFlight' = InFlight
  BY Zenon, Types, <1>e DEF Stage, InFlight
<1>1. PromisedCps'
  BY Zenon, <1>e, <1>s, Types DEF InvLost, PromisedCps, InCp
<1>2. PendingTaken' /\ Promised'
  BY Zenon, <1>e, Types DEF InvLost, PendingTaken, Promised
<1>3. \A c \in CpIds : t \notin prom[c]
  BY Zenon, <1>e DEF Good, InvPromises, InProm
<1>4. InvClean'
  BY ZenonT(90), <1>e, <1>3, Types DEF InvClean
<1> QED BY Zenon, <1>1, <1>2, <1>4 DEF InvLost

LEMMA ShutdownWaitPromise ==
  ASSUME Good, InvLost, InvClean, NEW t \in Threads, ShutdownWait(t)
  PROVE  InvLost' /\ InvClean'
<1>e. /\ pc[t] = "sd_wait" /\ fut[t] = "true" /\ pc'[t] \in {"sd_trigger", "sd_delete"}
      /\ \A u \in Actors : u # t => pc'[u] = pc[u]
      /\ UNCHANGED <<status, prom, curCp, mtx, inFlush, pending, pendProm, shutter, lastFlushed, cpOf, b2b,
                     fut, dirty>>
  BY ZenonT(40), Types DEF Good, TypeOK, ShutdownWait, cpVars, sdVars, diskVars, trigVars, actorVars, futVars
<1>a. t = shutter
  BY Zenon, <1>e DEF Good, InvShutdown, Closing
<1>s. Stage' = Stage /\ InFlight' = InFlight
  BY Zenon, Types, <1>e DEF Stage, InFlight, Good, InvControl, Held
<1>c. lastFlushed' >= lastFlushed /\ lastFlushed' \in Int
  BY SMT, <1>e, Types
<1> QED BY ZenonT(90), Frame, <1>a, <1>c, <1>e, <1>s, Types

LEMMA ShutdownDeletePromise ==
  ASSUME Good, InvLost, InvClean, NEW t \in Threads, ShutdownDelete(t)
  PROVE  InvLost' /\ InvClean'
<1>e. /\ pc[t] = "sd_delete" /\ t = shutter /\ Quiet /\ curCp' = NoCp /\ pc'[t] = "sd_done"
      /\ \A u \in Actors : u # t => pc'[u] = pc[u]
      /\ UNCHANGED <<prom, mtx, inFlush, pending, pendProm, shutter, lastFlushed, cpOf, b2b, fut, dirty>>
  BY SMTT(90), Types DEF Good, TypeOK, ShutdownDelete, InvShutdown, InvQuiet, Closing, cpVars,
     sdVars, diskVars, trigVars, actorVars, futVars
<1>a. curCp # NoCp /\ Stage = "none" /\ ~InFlight
  <2>1. curCp # NoCp
    BY SMT, <1>e DEF Good, InvShutdown
  <2> QED BY ZenonT(40), <1>e, <2>1 DEF Good, Quiet, InvCps
<1>1. \A c \in CpIds : prom[c] = {}
  BY Zenon, <1>a, <1>e DEF InvLost, PromisedCps, InCp, Quiet
<1>2. PromisedCps'
  BY Zenon, <1>1, <1>e DEF PromisedCps
<1>3. PendingTaken' /\ Promised'
  BY Zenon, <1>e, Types DEF InvLost, PendingTaken, Promised
<1>4. InvClean'
  BY ZenonT(90), <1>e, Types DEF InvClean
<1> QED BY ZenonT(40), <1>2, <1>3, <1>4 DEF InvLost

(* A crash or a restart. *)
LEMMA RestartPromise ==
  ASSUME Good, Restart
  PROVE  InvLost' /\ InvClean'
<1>e. /\ \A c \in CpIds : prom'[c] = {}
      /\ pending' = FALSE /\ shutter' = NoThread /\ dirty' = {}
      /\ \A t \in Threads : fut'[t] = "none"
  BY Zenon DEF Restart
<1> QED BY Zenon, <1>e DEF InvLost, PromisedCps, PendingTaken, Promised, InvClean

(* Every call of do_trigger_cp_flush keeps both. *)
LEMMA TriggerCallPromise ==
  ASSUME Good, InvLost, InvClean, NEW a \in Actors, NEW force \in BOOLEAN,
         NEW onShutdown \in BOOLEAN, CanTrigger(a, force, onShutdown), TriggerCall(a, force, onShutdown)
  PROVE  InvLost' /\ InvClean'
<1>1. CASE TriggerQueued(a, force, onShutdown)
  BY Zenon, <1>1, TriggerQueuedPromise
<1>2. CASE TriggerStart(a)
  <2>1. CanStart(a)
    BY Zenon, <1>2 DEF TriggerStart, MayStart, CanTrigger, CanStart
  <2> QED BY Zenon, <1>2, <2>1, TriggerStartPromise
<1> QED BY Zenon, <1>1, <1>2 DEF TriggerCall

(* Every step of the manager keeps both. *)
LEMMA NextPromise ==
  ASSUME Good, InvLost, InvClean, Next
  PROVE  InvLost' /\ InvClean'
<1>t. Fiber \in Actors /\ Threads \subseteq Actors
  BY Zenon DEF Actors
<1>0. ASSUME NEW a \in Actors, TriggerStep(a) PROVE InvLost' /\ InvClean'
  BY Zenon, <1>0, TriggerMoveKeeps, TriggerPreparePromise, TriggerXchgPromise DEF TriggerStep
<1>1. ASSUME NEW t \in Threads, ThreadStep(t) PROVE InvLost' /\ InvClean'
  <2>1. CASE ShutdownTrigger(t)
    BY Zenon, <1>t, <2>1, TriggerCallPromise DEF ShutdownTrigger, CanTrigger
  <2> QED BY Zenon, <1>0, <1>1, <1>t, <2>1, GuardStepKeeps, TriggerMoveKeeps, ShutdownWaitPromise,
             ShutdownDeletePromise DEF ThreadStep, ShutdownStep
<1>2. ASSUME NEW t \in Threads, NEW force \in BOOLEAN, TriggerFlush(t, force)
      PROVE  InvLost' /\ InvClean'
  BY Zenon, <1>2, <1>t, TriggerCallPromise DEF TriggerFlush, CanTrigger
<1>3. CASE CpIoStep
  <2>1. CASE FiberB2B
    BY Zenon, <1>t, <2>1, TriggerCallPromise DEF FiberB2B, CanTrigger
  <2> QED BY Zenon, <1>0, <1>3, <1>t, <2>1, TriggerMoveKeeps, FlushMoveKeeps, FiberCleanupPromise,
             FiberUnflagPromise, FiberPromisePromise DEF CpIoStep, FiberStep
<1>4. CASE FlushStep
  BY Zenon, <1>4, FlushMoveKeeps DEF FlushStep
<1>5. CASE Restart
  BY Zenon, <1>5, RestartPromise
<1> QED BY Zenon, <1>1, <1>2, <1>3, <1>4, <1>5, GuardStepKeeps, ShutdownStartPromise DEF Next

(* The strengthened invariant holds throughout. *)
THEOREM PromiseInvariance == Spec => []SInv
<1>1. Init => SInv
  <2> SUFFICES ASSUME Init PROVE InvLost /\ InvClean
    BY Zenon, InitGood DEF SInv
  <2> QED BY Zenon DEF Init, InvLost, PromisedCps, PendingTaken, Promised, InvClean
<1>2. SInv /\ [Next]_vars => SInv'
  <2> SUFFICES ASSUME SInv, [Next]_vars PROVE SInv'
    OBVIOUS
  <2>1. CASE Next
    <3>1. SUFFICES ASSUME ~overtaken' PROVE Good' /\ InvLost' /\ InvClean'
      BY Zenon DEF SInv
    <3>2. ~overtaken /\ Good /\ InvLost /\ InvClean
      BY Zenon, <2>1, <3>1, OvertakenStays DEF SInv
    <3>3. Good'
      BY Zenon, <2>1, <3>1, <3>2, NextKeeps DEF IInv
    <3> QED BY Zenon, <2>1, <3>2, <3>3, NextPromise
  <2>2. CASE UNCHANGED vars
    <3>1. IInv => IInv'
      BY SMTT(90), <2>2 DEF vars, IInv, Good, TypeOK, InvControl, InvShutdown, InvQuiet, Quiet, InvCps,
         CurStatus, InFlight, Stage, InvRefs, TriggerRefs, GuardRefs, LastExit, InvPromises, Kept, InProm,
         InPendProm, InTrigger, InvDisk, SealerFlushesLast
    <3>2. InvLost /\ InvClean => InvLost' /\ InvClean'
      BY Zenon, <2>2 DEF vars, InvLost, PromisedCps, InCp, InFlight, Stage, PendingTaken, Promised, InvClean
    <3>3. overtaken' = overtaken
      BY Zenon, <2>2 DEF vars
    <3> QED BY ZenonT(40), <3>1, <3>2, <3>3 DEF SInv, IInv
  <2> QED BY Zenon, <2>1, <2>2
<1> QED BY <1>1, <1>2, PTL DEF Spec

(* on_cp_flush_done and do_trigger_cp_flush never drop a promise: whoever   *)
(* waits is held by a pending request that somebody will pick up, by a CP   *)
(* in its flush phase, or is still inside its trigger.                      *)
THEOREM NoPromiseIsLost == Spec => []NoPromiseLost
<1>1. SInv => NoPromiseLost
  <2>1. SUFFICES ASSUME Good, InvLost, NEW t \in Threads, fut[t] = "waiting"
                 PROVE  \/ pending /\ t \in pendProm /\ (inFlush \/ b2b)
                        \/ inFlush /\ \E c \in CpIds : t \in prom[c]
                        \/ pc[Fiber] = "fb_promise" /\ t \in prom[cpOf[Fiber]]
                        \/ pc[t] \in {"tg_guard", "tg_prepare"}
    BY Zenon DEF SInv, NoPromiseLost
  <2>2. CASE t \in pendProm
    BY Zenon, <2>1, <2>2 DEF Good, InvPromises, InPendProm, InvLost, PendingTaken
  <2>3. ASSUME NEW c \in CpIds, t \in prom[c]
        PROVE  inFlush \/ (pc[Fiber] = "fb_promise" /\ c = cpOf[Fiber])
    BY ZenonT(40), <2>1, <2>3 DEF InvLost, PromisedCps, InCp, Good, InvCps
  <2> QED BY Zenon, <2>1, <2>2, <2>3 DEF InvLost, Promised
<1> QED BY <1>1, PromiseInvariance, PTL

(* CPManager::shutdown: the flushes it waits for are never refused, and when *)
(* it has deleted the current CP everything that had IO is recorded as       *)
(* flushed and the fiber has nothing left to trigger.                        *)
THEOREM ShutdownLeavesNothing == Spec => []ShutdownIsClean
<1>1. SInv => ShutdownIsClean
  BY Zenon DEF SInv, ShutdownIsClean, Good, InvQuiet, Quiet, InvClean
<1> QED BY <1>1, PromiseInvariance, PTL
=============================================================================
