---------------------------- MODULE FijQuietProofs ----------------------------
(***************************************************************************)
(* The runs that inject at a target_pc and on which nobody gives up: the   *)
(* bitflip thread waits for the probe, nothing but the program itself ends *)
(* the target, and the client waits for the completion.  What else may     *)
(* fail (an allocation, the exec, the mapping) may fail, on any of any     *)
(* number of runs.  QuietInv is the inductive invariant, on top of RunInv, *)
(* ExitKnown and ProbeKnown.                                               *)
(***************************************************************************)
EXTENDS FijReportProofs

Known == RunInv /\ ExitKnown /\ ProbeKnown /\ QuietInv

LEMMA KnownParts ==
  Known => /\ RunInv /\ ExitKnown /\ ProbeKnown
           /\ NotGivenUp /\ TriggeredOnly /\ FlipWithin /\ FlipHolds
           /\ Unresumed /\ Resumed /\ Answered
  BY DEF Known, QuietInv

LEMMA InitQuiet == Init => QuietInv
<1> SUFFICES ASSUME Init PROVE QuietInv
  OBVIOUS
<1>1. /\ ioctl.pc = "user" /\ ioctl.client = "fresh" /\ ioctl.sends = 0
      /\ ~ioctl.killed
      /\ mon.pc = "none" /\ ~mon.stop /\ flip.pc = "none"
      /\ ~result.process_hanged
      /\ ~ctx.bitflip_thread /\ ~ctx.uprobe_active /\ ~ctx.restore_active
      /\ work = NoWork
      /\ \A r \in Runs : proc[r].state = "none"
  BY DEF Init, NoMon, NoFlip, FreshCtx, FreshResult, NoProc
<1> QED
  BY <1>1 DEF QuietInv, NotGivenUp, TriggeredOnly, FlipWithin, FlipHolds,
     Unresumed, Resumed, Answered, Launching, Launched

\* While the run is not resumed, its client is inside the call.
LEMMA Inside ==
  ASSUME Known
  PROVE  /\ ioctl.client \in {"fresh", "polling", "got", "failed"}
         /\ ioctl.pc \in {"exec", "mark", "monStart", "fail"} \/ Launching
               => ioctl.client = "fresh" /\ ~Closing
         /\ ioctl.client \in {"polling", "got"} => Launched \/ Closing
         /\ Launched => ~Closing
<1>1. TypeOK /\ CallKnown /\ ioctl.pc \notin {"killRead", "killStop", "killWait"}
  BY KnownParts, RunParts DEF NotGivenUp
<1>2. ioctl.pc \in IoctlPcs /\ ioctl.client \in ClientStates
  BY <1>1 DEF TypeOK, Ioctl
<1> QED
  BY <1>1, <1>2 DEF CallKnown, Launching, Launched, Closing, Released,
     IoctlPcs, ClientStates

\* The process of a run whose monitor thread is past its loop is dead.
LEMMA PastLoop ==
  ASSUME Known, Launched,
         mon.pc \notin {"none", "created", "loop"} \/ Signalled
  PROVE  ~Live(This)
<1>1. /\ ~mon.stop /\ ~ioctl.killed
      /\ mon.pc = "none" \/ mon.leader = This
      /\ ExitKnown
  BY KnownParts, RunParts DEF NotGivenUp, MonitorKnown
<1> QED
  BY <1>1 DEF ExitKnown

-----------------------------------------------------------------------------
(* The bitflip thread.                                                     *)

\* What a step of it changes.
LEMMA FlipChanges ==
  ASSUME Known, FlipNext
  PROVE  /\ TypeOK /\ Aside /\ flip.pc # "none"
         /\ UNCHANGED <<params, work, probe>>
         /\ This' = This /\ Launching' = Launching /\ Launched' = Launched
         /\ Signalled' = Signalled /\ Closing' = Closing
         /\ Released' = Released
         /\ ctx'.bitflip_thread = ctx.bitflip_thread
         /\ ctx'.uprobe_active = ctx.uprobe_active
         /\ FlipPins \/ ctx'.restore_active = ctx.restore_active
         /\ ctx'.flip_triggered => ctx.flip_triggered
<1>1. TypeOK
  BY KnownParts, RunParts
<1>2. Aside /\ flip.pc # "none"
  BY <1>1, FlipAside
<1>3. /\ This' = This /\ Launching' = Launching /\ Launched' = Launched
      /\ Signalled' = Signalled /\ Closing' = Closing /\ Released' = Released
  BY <1>2 DEF Aside, This, Launching, Launched, Signalled, Closing, Released
<1>4. UNCHANGED <<params, work, probe>>
  BY DEF FlipNext, FlipStarts, FlipTriggered, FlipSlept, FlipCollects,
     FlipStops, FlipFindsLeader, FlipWaits, FlipRegister, FlipMemory,
     FlipPins, FlipReports, FlipResumes, FlipClearsTrigger, FlipTimes,
     FlipReturns
<1>5. /\ ctx'.bitflip_thread = ctx.bitflip_thread
      /\ ctx'.uprobe_active = ctx.uprobe_active
      /\ FlipPins \/ ctx'.restore_active = ctx.restore_active
      /\ ctx'.flip_triggered => ctx.flip_triggered
  <2>1. CASE FlipPins \/ FlipClearsTrigger
    BY <1>1, <2>1 DEF FlipPins, FlipClearsTrigger, TypeOK, Ctx
  <2>2. CASE ~FlipPins /\ ~FlipClearsTrigger
    <3>1. ctx' = ctx
      BY <2>2 DEF FlipNext, FlipStarts, FlipTriggered, FlipSlept,
         FlipCollects, FlipStops, FlipFindsLeader, FlipWaits, FlipRegister,
         FlipMemory, FlipReports, FlipResumes, FlipTimes, FlipReturns
    <3> QED
      BY <3>1
  <2> QED
    BY <2>1, <2>2
<1> QED
  BY <1>1, <1>2, <1>3, <1>4, <1>5

\* Where it goes.
FlipStep(pcs, next) == flip.pc \in pcs /\ flip'.pc \in next

LEMMA FlipPath ==
  ASSUME Known, FlipNext
  PROVE  \/ /\ FlipStep({"created"}, {"trig"})
            /\ proc' = proc /\ ~flip.stop /\ ~flip'.stop
         \/ /\ FlipStep({"created"}, {"none"})
            /\ proc' = proc /\ flip.stop
         \/ /\ FlipStep({"trig"}, {"out", "collect"})
            /\ proc' = proc
            /\ flip.stop \/ ctx.flip_triggered
            /\ flip.stop => flip'.pc = "out"
         \/ /\ FlipStep({"collect"}, {"stop", "untrig", "out"})
            /\ proc' = proc
            /\ flip'.pc = "stop" => /\ flip'.tgid = ctx.target_tgid
                                    /\ ctx.target_tgid # NoPid
         \/ /\ FlipStep({"stop"}, {"leader", "waitStop", "untrig", "out"})
            /\ flip'.tgid = flip.tgid
            /\ proc' = proc \/ Sigstop(flip.tgid)
         \/ /\ FlipStep({"leader"}, {"waitStop", "none"})
            /\ proc' = proc
            /\ flip'.pc = "waitStop" => flip'.tgid = flip.tgid
         \/ /\ FlipStep({"waitStop"}, {"flip", "cont"})
            /\ proc' = proc /\ flip'.tgid = flip.tgid
            /\ flip'.pc = "flip" => proc[flip.tgid].state = "stopped"
         \/ /\ FlipStep({"flip"}, {"pin", "report", "cont"})
            /\ flip'.tgid = flip.tgid
            /\ \/ proc' = proc
               \/ \E lands \in BOOLEAN : MarkFaulty(flip.tgid, lands)
         \/ /\ FlipStep({"pin"}, {"report"})
            /\ proc' = proc /\ flip'.tgid = flip.tgid
         \/ /\ FlipStep({"report"}, {"cont"})
            /\ proc' = proc /\ flip'.tgid = flip.tgid
         \/ /\ FlipStep({"cont"}, {"untrig", "out"})
            /\ proc' = SetState(flip.tgid,
                                AfterSIGCONT(proc[flip.tgid].state))
         \/ /\ FlipStep({"untrig", "out", "park"}, {"out", "park", "none"})
            /\ proc' = proc
            /\ flip.pc = "out" => flip'.pc = "park"
            /\ flip.pc = "park" => flip'.pc = "none"
<1>1. TypeOK /\ flip.pc # "sleep"
      /\ (flip.pc # "none" => params.target_pc_present)
  BY KnownParts, RunParts DEF TriggeredOnly
<1>2. flip \in Flip
  BY <1>1 DEF TypeOK
<1> USE DEF FlipStep
<1>3. CASE FlipStarts
  BY <1>1, <1>2, <1>3 DEF FlipStarts, NoFlip, Flip
<1>4. CASE FlipTriggered \/ FlipSlept
  BY <1>1, <1>2, <1>4 DEF FlipTriggered, FlipSlept, FlipGoes, Flip
<1>5. CASE FlipCollects
  BY <1>2, <1>5 DEF FlipCollects, Found, Injected, FlipGoes, Flip
<1>6. CASE FlipStops
  BY <1>2, <1>6 DEF FlipStops, Injected, FlipGoes, Flip
<1>7. CASE FlipFindsLeader
  BY <1>2, <1>7 DEF FlipFindsLeader, NoFlip, Flip
<1>8. CASE FlipWaits
  BY <1>2, <1>8 DEF FlipWaits, StoppedInTime, FlipGoes, Flip
<1>9. CASE FlipRegister \/ FlipMemory
  BY <1>2, <1>9 DEF FlipRegister, FlipMemory, FlipGoes, Flip
<1>10. CASE FlipPins \/ FlipReports
  BY <1>2, <1>10 DEF FlipPins, FlipReports, FlipGoes, Flip
<1>11. CASE FlipResumes
  BY <1>2, <1>11 DEF FlipResumes, Resumes, Injected, FlipGoes, Flip
<1>12. CASE FlipClearsTrigger \/ FlipTimes \/ FlipReturns
  BY <1>2, <1>12 DEF FlipClearsTrigger, FlipTimes, FlipReturns, FlipGoes,
     NoFlip, Flip
<1> QED
  BY <1>3, <1>4, <1>5, <1>6, <1>7, <1>8, <1>9, <1>10, <1>11, <1>12
     DEF FlipNext

\* Its signals and flips kill nobody, stop nobody that was not running, and
\* resume the process they stopped.
LEMMA FlipSignals ==
  ASSUME TypeOK, NEW p, NEW r \in Runs,
         \/ proc' = proc
         \/ Sigstop(p)
         \/ \E lands \in BOOLEAN : MarkFaulty(p, lands)
         \/ proc' = SetState(p, AfterSIGCONT(proc[p].state))
  PROVE  /\ proc[r].state # "killed" => proc'[r].state # "killed"
         /\ \/ proc'[r].state = proc[r].state
            \/ p = r /\ proc[r].state = "running"
            \/ p = r /\ proc' = SetState(p, AfterSIGCONT(proc[p].state))
<1>1. proc \in [Runs -> Proc]
  BY DEF TypeOK
<1>2. CASE proc' = proc
  BY <1>2
<1>3. CASE Sigstop(p)
  BY <1>1, <1>3 DEF Sigstop, SetState, AfterSIGSTOP, Proc
<1>4. CASE \E lands \in BOOLEAN : MarkFaulty(p, lands)
  BY <1>4, FaultyLasts
<1>5. CASE proc' = SetState(p, AfterSIGCONT(proc[p].state))
  BY <1>1, <1>5 DEF SetState, AfterSIGCONT, Proc
<1> QED
  BY <1>2, <1>3, <1>4, <1>5

LEMMA FlipKeepsNotGivenUp ==
  ASSUME Known, FlipNext
  PROVE  NotGivenUp'
<1>1. /\ TypeOK /\ NotGivenUp /\ Aside
  BY KnownParts, FlipChanges
<1>2. \A r \in Runs : proc'[r].state # "killed"
  <2> TAKE r \in Runs
  <2>1. proc[r].state # "killed"
    BY <1>1 DEF NotGivenUp
  <2>2. \/ proc' = proc
        \/ Sigstop(flip.tgid)
        \/ \E lands \in BOOLEAN : MarkFaulty(flip.tgid, lands)
        \/ proc' = SetState(flip.tgid, AfterSIGCONT(proc[flip.tgid].state))
    BY FlipPath
  <2> QED
    BY <1>1, <2>1, <2>2, FlipSignals
<1> QED
  BY <1>1, <1>2 DEF NotGivenUp, Aside

LEMMA FlipKeepsTriggered ==
  ASSUME Known, FlipNext
  PROVE  TriggeredOnly'
<1>1. TriggeredOnly /\ Aside /\ flip.pc # "none" /\ params' = params
  BY KnownParts, FlipChanges
<1>2. flip'.pc # "sleep"
  BY FlipPath DEF FlipStep
<1> QED
  BY <1>1, <1>2 DEF TriggeredOnly, Aside

LEMMA FlipKeepsWithin ==
  ASSUME Known, FlipNext
  PROVE  FlipWithin'
  BY KnownParts, FlipChanges DEF FlipWithin, Aside

LEMMA FlipKeepsHolds ==
  ASSUME Known, FlipNext
  PROVE  FlipHolds'
<1>1. TypeOK /\ FlipHolds
  BY KnownParts, RunParts
<1>2. flip'.pc = "stop" => flip'.tgid \in Runs
  BY <1>1, FlipPath DEF FlipStep, TypeOK, Ctx
<1>3. flip'.pc \in {"leader", "waitStop", "flip", "pin", "report", "cont"} =>
        /\ flip'.tgid = flip.tgid
        /\ flip.pc \in {"stop", "leader", "waitStop", "flip", "pin", "report"}
  BY FlipPath DEF FlipStep
<1>4. flip'.pc \in {"flip", "pin", "report"} =>
            proc'[flip.tgid].state = "stopped"
  <2> SUFFICES ASSUME flip'.pc \in {"flip", "pin", "report"}
               PROVE  proc'[flip.tgid].state = "stopped"
    OBVIOUS
  <2>1. flip.tgid \in Runs
    BY <1>1, <1>3 DEF FlipHolds
  <2>2. /\ flip.pc \in {"waitStop", "flip", "pin"}
        /\ \/ proc' = proc
           \/ \E lands \in BOOLEAN : MarkFaulty(flip.tgid, lands)
    BY FlipPath DEF FlipStep
  <2>3. proc[flip.tgid].state = "stopped"
    BY <1>1, FlipPath DEF FlipStep, FlipHolds
  <2> QED
    BY <1>1, <2>1, <2>2, <2>3, FaultyLasts
<1> QED
  BY <1>1, <1>2, <1>3, <1>4 DEF FlipHolds

LEMMA FlipKeepsUnresumed ==
  ASSUME Known, FlipNext
  PROVE  Unresumed'
<1>1. /\ TypeOK /\ Unresumed /\ Aside /\ flip.pc # "none"
      /\ work' = work /\ This' = This /\ Launching' = Launching
      /\ Closing' = Closing
      /\ ctx'.uprobe_active = ctx.uprobe_active
      /\ ctx'.flip_triggered => ctx.flip_triggered
      /\ FlipPins \/ ctx'.restore_active = ctx.restore_active
  BY KnownParts, FlipChanges
<1>2. CASE ioctl.client \in {"fresh", "failed"}
  <2>1. /\ proc' = proc
        /\ \/ /\ flip.pc = "created" /\ flip'.pc = "trig"
              /\ ~flip'.stop
           \/ /\ flip.pc \in {"created", "trig", "out", "park"}
              /\ flip'.pc \in {"none", "out", "park"}
              /\ flip'.pc # "none" => Closing
    BY <1>1, <1>2, FlipPath DEF FlipStep, Unresumed
  <2>2. ~ctx'.restore_active
    BY <1>1, <1>2, <2>1 DEF Unresumed, FlipPins
  <2>3. ioctl' = ioctl /\ mon' = mon
    BY <1>1 DEF Aside
  <2> QED
    BY <1>1, <1>2, <2>1, <2>2, <2>3 DEF Unresumed
<1>3. CASE ioctl.client \in {"polling", "got"}
  <2>1. ioctl.pc \notin {"mark", "monStart"} /\ ~Launching
    BY <1>3, Inside
  <2> QED
    BY <1>1, <1>3, <2>1 DEF Unresumed, Aside
<1> QED
  BY <1>2, <1>3, Inside

LEMMA FlipKeepsResumed ==
  ASSUME Known, FlipNext
  PROVE  Resumed'
<1>1. /\ TypeOK /\ Resumed /\ FlipHolds /\ FlipWithin /\ TargetKnown
      /\ MonitorKnown
      /\ Aside /\ work' = work /\ This' = This
      /\ Launched' = Launched /\ Signalled' = Signalled
      /\ FlipPins \/ ctx'.restore_active = ctx.restore_active
  BY KnownParts, RunParts, FlipChanges
<1> SUFFICES ASSUME Launched
             PROVE  Resumed'
  BY <1>1 DEF Resumed
<1>2. flip'.pc \in {"stop", "leader", "waitStop", "flip", "pin", "report",
                    "cont"} => flip'.tgid = This
  BY <1>1, FlipPath DEF FlipStep, Resumed, TargetKnown
<1>3. ctx'.restore_active => mon.pc \in {"created", "loop", "revert"}
  <2>1. CASE FlipPins
    <3>1. flip.pc = "pin"
      BY <2>1 DEF FlipPins
    <3>2. flip.tgid = This /\ proc[This].state = "stopped"
      BY <1>1, <3>1 DEF Resumed, FlipHolds
    <3>3. Live(This)
      BY <3>2 DEF Live
    <3>4. mon.pc \in {"none", "created", "loop"}
      BY <3>3, PastLoop
    <3> QED
      BY <1>1, <3>1, <3>4 DEF FlipWithin
  <2>2. CASE ~FlipPins
    BY <1>1, <2>2 DEF Resumed
  <2> QED
    BY <2>1, <2>2
<1> QED
  BY <1>1, <1>2, <1>3 DEF Resumed, Aside

LEMMA FlipQuiet ==
  ASSUME Known, FlipNext
  PROVE  QuietInv'
<1>1. Answered'
  BY KnownParts, FlipChanges DEF Answered, Aside
<1> QED
  BY <1>1, FlipKeepsNotGivenUp, FlipKeepsTriggered, FlipKeepsWithin,
     FlipKeepsHolds, FlipKeepsUnresumed, FlipKeepsResumed DEF QuietInv

-----------------------------------------------------------------------------
(* The work item, the probe and the target.                                *)

\* The probe is hit only by a run that was resumed and not yet reported.
LEMMA HitsOnlyResumed ==
  ASSUME Known, WorkNext \/ HitNext
  PROVE  /\ Launched \/ Closing
         /\ ioctl.client = "polling"
         /\ Launched => ~Signalled /\ mon.pc \notin
                {"unreg", "iput", "publish", "complete", "clear"}
<1>1. /\ TypeOK /\ TargetKnown /\ ProbeKnown /\ Unresumed /\ Resumed
      /\ Answered
  BY KnownParts, RunParts
<1>2. CASE WorkNext
  <2>1. work # NoWork
    BY <1>2 DEF WorkNext, WorkStarts, WorkUnregisters, WorkPuts, NoWork
  <2>2. ioctl.client \notin {"fresh", "failed", "got"}
    BY <1>1, <2>1 DEF Unresumed, Answered
  <2>3. Launched => ~Signalled /\ mon.pc \notin
                {"unreg", "iput", "publish", "complete", "clear"}
    BY <1>1, <2>1 DEF Resumed
  <2> QED
    BY <2>2, <2>3, Inside
<1>3. CASE HitNext
  <2>1. /\ ctx.uprobe_active
        /\ proc[ctx.target_tgid].state \in {"running", "stopping", "killed"}
    BY <1>1, <1>3 DEF HitNext, UprobeHit, ProbeKnown
  <2>2. ioctl.client \notin {"fresh", "failed"}
    <3> SUFFICES ASSUME ioctl.client \in {"fresh", "failed"} PROVE FALSE
      OBVIOUS
    <3>1. ioctl.pc = "cont"
      BY <1>1, <2>1 DEF Unresumed
    <3>2. /\ ctx.target_tgid = This
          /\ proc[This].state \in {"execed", "stopped"}
      BY <1>1, <3>1 DEF Launching, TargetKnown, Unresumed
    <3> QED
      BY <2>1, <3>2
  <2>3. ioctl.client # "got"
    BY <1>1, <2>1 DEF Answered
  <2>4. Launched => Live(This)
    BY <1>1, <2>1 DEF TargetKnown, Live
  <2> QED
    BY <2>2, <2>3, <2>4, Inside, PastLoop
<1> QED
  BY <1>2, <1>3

LEMMA WorkQuiet ==
  ASSUME Known, WorkNext \/ HitNext
  PROVE  QuietInv'
<1>1. /\ TypeOK /\ NotGivenUp /\ TriggeredOnly /\ FlipWithin /\ FlipHolds
      /\ Unresumed /\ Resumed /\ Answered
  BY KnownParts, RunParts
<1>2. /\ UNCHANGED <<params, result, proc, ioctl, mon, flip>>
      /\ ctx'.bitflip_thread = ctx.bitflip_thread
      /\ ctx'.restore_active = ctx.restore_active
      /\ ctx'.monitor_done = ctx.monitor_done
  BY <1>1 DEF WorkNext, WorkStarts, WorkUnregisters, UnregisteredCtx,
     WorkPuts, DisarmedCtx, HitNext, UprobeHit, TypeOK, Ctx
<1>3. /\ This' = This /\ Launching' = Launching /\ Launched' = Launched
      /\ Signalled' = Signalled
  BY <1>2 DEF This, Launching, Launched, Signalled
<1>4. /\ ioctl.client = "polling"
      /\ ioctl.pc \notin {"mark", "monStart"} /\ ~Launching
      /\ Launched => ~Signalled /\ mon.pc \notin
             {"unreg", "iput", "publish", "complete", "clear"}
  BY Inside, HitsOnlyResumed
<1>5. NotGivenUp' /\ TriggeredOnly' /\ FlipWithin' /\ FlipHolds'
  BY <1>1, <1>2 DEF NotGivenUp, TriggeredOnly, FlipWithin, FlipHolds
<1>6. Unresumed' /\ Resumed' /\ Answered'
  BY <1>1, <1>2, <1>3, <1>4 DEF Unresumed, Resumed, Answered
<1> QED
  BY <1>5, <1>6 DEF QuietInv

\* A process that waits to be resumed waits.
LEMMA TargetQuiet ==
  ASSUME Calm, Known, TargetNext
  PROVE  QuietInv'
<1>1. /\ TypeOK /\ NotGivenUp /\ TriggeredOnly /\ FlipWithin /\ FlipHolds
      /\ Unresumed /\ Resumed /\ Answered /\ LeaderKnown /\ TargetKnown
  BY KnownParts, RunParts
<1>2. UNCHANGED <<ctx, params, result, ioctl, mon, flip, work, probe>>
  BY DEF TargetNext, TargetStops, TargetKilled, TargetExits, TargetCrashes,
     TargetUnchanged
<1>3. \A r \in Runs :
        /\ proc'[r].state # "killed"
        /\ proc[r].state = "stopped" => proc'[r].state = "stopped"
        /\ proc[r].state \in {"execed", "stopped"} =>
                proc'[r].state \in {"execed", "stopped"}
  <2>1. PICK p \in Runs : \/ TargetStops(p) \/ TargetKilled(p)
                          \/ TargetExits(p)
    BY DEF TargetNext, TargetCrashes, Calm
  <2>2. /\ proc[p].state \in {"execed", "stopping", "running"}
        /\ proc'[p].state \in {"stopped", "dead"}
        /\ proc[p].state = "execed" => proc'[p].state = "stopped"
        /\ \A r \in Runs : r # p => proc'[r] = proc[r]
    BY <1>1, <2>1 DEF TargetStops, TargetKilled, TargetExits, Dies, SetState,
       NotGivenUp, TypeOK, Proc
  <2> QED
    BY <1>1, <2>2 DEF NotGivenUp
<1>4. /\ This' = This /\ Launching' = Launching /\ Launched' = Launched
      /\ Signalled' = Signalled /\ Closing' = Closing
  BY <1>2 DEF This, Launching, Launched, Signalled, Closing, Released
<1>5. NotGivenUp' /\ TriggeredOnly' /\ FlipWithin' /\ FlipHolds'
  BY <1>1, <1>2, <1>3 DEF NotGivenUp, TriggeredOnly, FlipWithin, FlipHolds
<1>6. Unresumed'
  <2>1. ioctl.pc \in {"mark", "monStart"} \/ Launching => This \in Runs
    BY <1>1 DEF TargetKnown
  <2>2. mon.pc # "none" => mon.leader \in Runs
    BY <1>1 DEF LeaderKnown
  <2> QED
    BY <1>1, <1>2, <1>3, <1>4, <2>1, <2>2 DEF Unresumed
<1>7. Resumed' /\ Answered'
  BY <1>1, <1>2, <1>4 DEF Resumed, Answered
<1> QED
  BY <1>5, <1>6, <1>7 DEF QuietInv

-----------------------------------------------------------------------------
(* The monitor thread.                                                     *)

\* It waits for a target that is not resumed, and undoes what a run left
\* when its process is dead.
LEMMA MonQuiet ==
  ASSUME Known, MonNext
  PROVE  QuietInv'
<1>1. /\ TypeOK /\ NotGivenUp /\ TriggeredOnly /\ FlipWithin /\ FlipHolds
      /\ Unresumed /\ Resumed /\ Answered /\ FlipOwned /\ TargetKnown
      /\ FlipStopped
  BY KnownParts, RunParts
<1>2. UNCHANGED <<params, proc, ioctl, work>>
  BY DEF MonNext, MonStarts, MonSeesExit, MonSeesStop, MonReverts,
     MonStopsFlip, MonFlipStopped, MonFlushes, MonUnregisters, MonPuts,
     MonPublishes, MonCompletes, MonClears
<1>3. /\ This' = This /\ Launching' = Launching /\ Launched' = Launched
      /\ Closing' = Closing
  BY <1>2 DEF This, Launching, Launched, Closing, Released
<1>4. /\ ctx'.flip_triggered = ctx.flip_triggered
      /\ ctx'.uprobe_active => ctx.uprobe_active
      /\ ctx'.restore_active => ctx.restore_active /\ mon.pc # "revert"
      /\ ctx'.bitflip_thread => ctx.bitflip_thread
      /\ mon.pc # "complete" => ctx'.monitor_done = ctx.monitor_done
  <2>1. CASE MonStarts \/ MonSeesExit \/ MonSeesStop \/ MonFlushes
    BY <2>1 DEF MonStarts, MonSeesExit, MonSeesStop, MonFlushes
  <2>2. CASE MonReverts \/ MonStopsFlip \/ MonFlipStopped
    BY <1>1, <2>2 DEF MonReverts, MonStopsFlip, MonFlipStopped, Restored,
       TypeOK, Ctx
  <2>3. CASE MonUnregisters \/ MonPuts
    BY <1>1, <2>3 DEF MonUnregisters, MonPuts, UnregisteredCtx,
       DisarmedCtx, TypeOK, Ctx
  <2>4. CASE MonPublishes \/ MonCompletes \/ MonClears
    BY <1>1, <2>4 DEF MonPublishes, MonCompletes, MonClears, Completed,
       TypeOK, Ctx
  <2> QED
    BY <2>1, <2>2, <2>3, <2>4 DEF MonNext
<1>5. /\ flip'.pc = flip.pc /\ flip'.tgid = flip.tgid
      /\ flip'.stop => flip.stop \/ mon.pc = "stopFlip"
  BY <1>1 DEF MonNext, MonStarts, MonSeesExit, MonSeesStop, MonReverts,
     MonStopsFlip, MonFlipStopped, MonFlushes, MonUnregisters, MonPuts,
     MonPublishes, MonCompletes, MonClears, Stopping, TypeOK, Flip
<1>6. ~mon'.stop /\ result'.process_hanged = result.process_hanged
  <2>1. CASE MonStarts \/ MonClears \/ MonSeesExit
    <3>1. result' = result
      BY <2>1 DEF MonStarts, MonClears, MonSeesExit
    <3>2. CASE MonStarts
      BY <1>1, <3>1, <3>2 DEF MonStarts, NotGivenUp, TypeOK, Mon
    <3>3. CASE MonSeesExit
      BY <1>1, <3>1, <3>3 DEF MonSeesExit, NotGivenUp, TypeOK, Mon
    <3>4. CASE MonClears
      BY <3>1, <3>4 DEF MonClears, NoMon
    <3> QED
      BY <2>1, <3>2, <3>3, <3>4
  <2>2. CASE MonReverts \/ MonStopsFlip \/ MonFlipStopped \/ MonFlushes
    <3>1. result' = result /\ \E pc : MonGoes(pc)
      BY <2>2 DEF MonReverts, MonStopsFlip, MonFlipStopped, MonFlushes
    <3>2. mon'.stop = mon.stop
      BY <1>1, <3>1 DEF MonGoes, TypeOK, Mon
    <3> QED
      BY <1>1, <3>1, <3>2 DEF NotGivenUp
  <2>3. CASE MonUnregisters \/ MonPuts \/ MonPublishes \/ MonCompletes
    <3>1. \E pc : MonGoes(pc)
      BY <2>3 DEF MonUnregisters, MonPuts, MonPublishes, MonCompletes
    <3>2. mon'.stop = mon.stop
      BY <1>1, <3>1 DEF MonGoes, TypeOK, Mon
    <3>3. result'.process_hanged = result.process_hanged
      BY <1>1, <2>3 DEF MonUnregisters, MonPuts, MonPublishes, MonCompletes,
         TypeOK, Result
    <3> QED
      BY <1>1, <3>2, <3>3 DEF NotGivenUp
  <2> QED
    BY <1>1, <2>1, <2>2, <2>3 DEF MonNext, MonSeesStop, ShouldStop, NotGivenUp
<1>7. \/ mon.pc = "created" /\ mon'.pc = "loop" /\ mon'.leader = mon.leader
      \/ mon.pc = "loop" /\ mon'.pc = "revert" /\ ~Live(mon.leader)
      \/ mon.pc = "revert" /\ mon'.pc = "stopFlip"
      \/ mon.pc = "stopFlip" /\ mon'.pc = "waitFlip"
      \/ mon.pc = "stopFlip" /\ mon'.pc = "flush" /\ ~ctx.bitflip_thread
      \/ mon.pc = "waitFlip" /\ mon'.pc = "flush" /\ flip.pc = "none"
         /\ ~ctx'.bitflip_thread
      \/ mon.pc = "flush" /\ mon'.pc \in {"unreg", "iput"} /\ Flushed
      \/ mon.pc = "flush" /\ mon'.pc = "publish"
         /\ ~params.target_pc_present
      \/ mon.pc \in {"unreg", "iput"} /\ mon'.pc \in {"iput", "publish"}
      \/ mon.pc \in {"publish", "complete"}
         /\ mon'.pc \in {"complete", "clear"}
      \/ mon.pc = "clear" /\ mon'.pc = "none"
  <2>1. CASE MonStarts \/ MonSeesExit \/ MonSeesStop
    BY <1>1, <2>1 DEF MonStarts, MonSeesExit, MonSeesStop, ShouldStop,
       NotGivenUp, TypeOK, Mon
  <2>2. CASE MonReverts \/ MonStopsFlip \/ MonFlipStopped
    BY <1>1, <2>2 DEF MonReverts, MonStopsFlip, MonFlipStopped, FlipGone,
       MonGoes, TypeOK, Mon, Ctx
  <2>3. CASE MonFlushes \/ MonUnregisters \/ MonPuts
    BY <1>1, <2>3 DEF MonFlushes, MonUnregisters, MonPuts, Disarms, MonGoes,
       TypeOK, Mon
  <2>4. CASE MonPublishes \/ MonCompletes \/ MonClears
    BY <1>1, <2>4 DEF MonPublishes, MonCompletes, MonClears, NoMon, MonGoes,
       TypeOK, Mon
  <2> QED
    BY <2>1, <2>2, <2>3, <2>4 DEF MonNext
<1>8. NotGivenUp' /\ TriggeredOnly' /\ FlipHolds'
  BY <1>1, <1>2, <1>5, <1>6 DEF NotGivenUp, TriggeredOnly, FlipHolds
<1>9. FlipWithin'
  <2>1. CASE mon.pc = "stopFlip" /\ ~ctx.bitflip_thread
    <3>1. ioctl.pc # "flipSet"
      <4> SUFFICES ASSUME ioctl.pc = "flipSet" PROVE FALSE
        OBVIOUS
      <4>1. ioctl.client = "fresh"
        BY Inside DEF Launching
      <4> QED
        BY <1>1, <2>1, <4>1 DEF Unresumed
    <3> QED
      BY <1>1, <1>4, <1>5, <2>1, <3>1 DEF FlipOwned, FlipWithin
  <2>2. CASE mon.pc # "stopFlip" \/ ctx.bitflip_thread
    BY <1>1, <1>4, <1>5, <1>7, <2>2 DEF FlipWithin
  <2> QED
    BY <2>1, <2>2
<1>10. Unresumed'
  <2>1. CASE ioctl.client \in {"fresh", "failed"}
    <3>1. \/ mon.pc = "created" /\ mon'.pc = "loop"
             /\ mon'.leader = mon.leader
          \/ mon.pc = "clear" /\ mon'.pc = "none"
      BY <1>1, <1>7, <2>1 DEF Unresumed, Live
    <3> QED
      BY <1>1, <1>2, <1>3, <1>4, <1>5, <2>1, <3>1 DEF Unresumed
  <2>2. CASE ioctl.client \in {"polling", "got"}
    <3>1. ioctl.pc \notin {"mark", "monStart"} /\ ~Launching
      BY <2>2, Inside
    <3> QED
      BY <1>2, <1>3, <2>2, <3>1 DEF Unresumed
  <2> QED
    BY <2>1, <2>2, Inside
<1>11. Resumed'
  <2> SUFFICES ASSUME Launched
               PROVE  Resumed'
    BY <1>3 DEF Resumed
  <2>1. Flushed => work = NoWork
    BY <1>1 DEF Flushed, NoWork, TypeOK, Work
  <2>2. params.target_pc_present
    BY <1>1 DEF TargetKnown, TriggeredOnly, This, Runs
  <2>3. mon'.pc \in {"unreg", "iput", "publish", "complete", "clear"}
           => work = NoWork
    BY <1>1, <1>7, <2>1, <2>2 DEF Resumed
  <2>4. Signalled' => work = NoWork
    <3>1. CASE mon.pc = "complete"
      BY <1>1, <3>1 DEF Resumed
    <3>2. CASE mon.pc # "complete"
      BY <1>1, <1>2, <1>3, <1>4, <3>2 DEF Signalled, Resumed
    <3> QED
      BY <3>1, <3>2
  <2>5. ctx'.restore_active => mon'.pc \in {"created", "loop", "revert"}
    BY <1>1, <1>4, <1>7 DEF Resumed
  <2>6. flip'.pc \in {"stop", "leader", "waitStop", "flip", "pin", "report",
                      "cont"} => flip'.tgid = This
    BY <1>1, <1>5 DEF Resumed
  <2> QED
    BY <1>2, <1>3, <2>3, <2>4, <2>5, <2>6 DEF Resumed
<1>12. Answered'
  BY <1>1, <1>2, <1>4, <1>7 DEF Answered
<1> QED
  BY <1>8, <1>9, <1>10, <1>11, <1>12 DEF QuietInv

-----------------------------------------------------------------------------
(* The client's calls.                                                     *)

\* A step of a run being started that leaves the threads and the processes
\* alone, except for what the step says of them.
StartStep(pcs, next) ==
    /\ ioctl.pc \in pcs /\ ioctl'.pc \in next
    /\ ioctl'.client = ioctl.client /\ ioctl'.sends = ioctl.sends
    /\ ioctl'.killed = ioctl.killed
    /\ UNCHANGED <<params, result, work>>
    /\ ctx'.restore_active = ctx.restore_active

\* Until the target is resumed nothing can be triggered.
LEMMA StartKeeps ==
  ASSUME Known,
         StartStep({"exec", "mark", "monStart", "monSet", "flipStart",
                    "flipSet", "arm", "cont"},
                   {"mark", "monStart", "monSet", "flipStart", "flipSet",
                    "arm", "cont", "fail"}),
         ~mon'.stop,
         \A r \in Runs : proc'[r].state # "killed",
         \/ flip' = flip /\ ctx'.flip_triggered = ctx.flip_triggered
         \/ /\ flip'.pc \in {"none", "created", "trig"} /\ ~flip'.stop
            /\ ~ctx'.flip_triggered
         \/ flip' = flip /\ ~ctx'.flip_triggered,
         flip'.pc # "none" => This \in Runs,
         mon'.pc \notin {"created", "loop"} =>
                flip'.pc = "none" /\ ~ctx'.bitflip_thread,
         ioctl'.pc # "fail" => proc'[This].state \in {"execed", "stopped"},
         mon'.pc \in {"none", "created", "loop", "clear"},
         mon'.pc \in {"created", "loop"} =>
                proc'[mon'.leader].state \in {"execed", "stopped"},
         ctx'.uprobe_active => ioctl'.pc = "cont"
  PROVE  QuietInv'
<1>1. /\ TypeOK /\ NotGivenUp /\ TriggeredOnly /\ Unresumed
  BY KnownParts, RunParts
<1>2. /\ ioctl.client = "fresh" /\ ioctl'.client = "fresh" /\ ~Closing
      /\ This' = This /\ ~Launched' /\ ~Closing'
  BY Inside DEF StartStep, Launching, This, Launched, Closing, Released
<1>3. flip'.pc \in {"none", "created", "trig"}
  BY <1>1, <1>2 DEF Unresumed
<1>4. flip'.pc \in {"created", "trig"} => ~flip'.stop /\ ~ctx'.flip_triggered
  BY <1>1, <1>2 DEF Unresumed
<1>5. NotGivenUp' /\ TriggeredOnly' /\ FlipHolds' /\ FlipWithin'
  <2>1. NotGivenUp'
    BY <1>1 DEF StartStep, NotGivenUp
  <2>2. TriggeredOnly'
    BY <1>1, <1>3, FijAssumption DEF StartStep, TriggeredOnly, This, Runs
  <2>3. FlipHolds' /\ FlipWithin'
    BY <1>3 DEF FlipHolds, FlipWithin
  <2> QED
    BY <2>1, <2>2, <2>3
<1>6. Unresumed'
  BY <1>1, <1>2, <1>3, <1>4 DEF StartStep, Unresumed, Launching
<1>7. Resumed' /\ Answered'
  BY <1>2 DEF Resumed, Answered
<1> QED
  BY <1>5, <1>6, <1>7 DEF QuietInv

\* What is known while a run is being started.
LEMMA StartKnown ==
  ASSUME Known,
         ioctl.pc \in {"exec", "mark", "monStart"} \/ Launching
  PROVE  /\ TypeOK /\ LeaderKnown
         /\ ioctl.client = "fresh" /\ ~mon.stop /\ ~ctx.restore_active
         /\ \A r \in Runs : proc[r].state # "killed"
         /\ flip.pc \in {"none", "created", "trig"}
         /\ flip.pc # "none" => This \in Runs
         /\ mon.pc \in {"none", "created", "loop", "clear"}
         /\ mon.pc \in {"created", "loop"} =>
                proc[mon.leader].state \in {"execed", "stopped"}
         /\ mon.pc \notin {"created", "loop"} =>
                flip.pc = "none" /\ ~ctx.bitflip_thread
         /\ ctx.uprobe_active => ioctl.pc = "cont"
         /\ Launching => mon.pc \in {"created", "loop"}
         /\ This \in Runs
         /\ ioctl.pc \in {"mark", "monStart"} \/ Launching =>
                proc[This].state \in {"execed", "stopped"} /\ Found(This)
<1>1. /\ TypeOK /\ LeaderKnown /\ TargetKnown /\ MonitorKnown
      /\ NotGivenUp /\ TriggeredOnly /\ FlipWithin /\ Unresumed
  BY KnownParts, RunParts
<1>2. ioctl.client = "fresh" /\ ~Closing
  BY Inside
<1>3. This \in Runs /\ This # NoPid
  BY <1>1, FijAssumption DEF TargetKnown, Runs, NoPid
<1>4. ioctl.pc \in {"mark", "monStart"} \/ Launching =>
            proc[This].state \in {"execed", "stopped"} /\ Live(This)
  BY <1>1 DEF Unresumed, Live
<1>5. Launching => mon.pc \in {"created", "loop"}
  BY <1>1, <1>4 DEF MonitorKnown
<1>6. /\ mon.pc \in {"none", "created", "loop", "clear"}
      /\ mon.pc \in {"created", "loop"} =>
                proc[mon.leader].state \in {"execed", "stopped"}
      /\ flip.pc \in {"none", "created", "trig"}
      /\ ~ctx.restore_active
      /\ ctx.uprobe_active => ioctl.pc = "cont"
  BY <1>1, <1>2 DEF Unresumed
<1>7. mon.pc \notin {"created", "loop"} =>
                flip.pc = "none" /\ ~ctx.bitflip_thread
  BY <1>1, <1>6 DEF FlipWithin
<1> QED
  BY <1>1, <1>2, <1>3, <1>4, <1>5, <1>6, <1>7 DEF NotGivenUp, Found

\* A run being started keeps QuietInv: it is never resumed before everything
\* else of it is there.
LEMMA StartQuiet ==
  ASSUME Known, StartNext
  PROVE  QuietInv'
<1>1. TypeOK
  BY KnownParts, RunParts
<1> USE DEF StartStep, IoctlGoes
<1>2. CASE Exec
  <2>1. /\ This \in Runs /\ ~mon.stop
        /\ mon.leader # This \/ mon.pc = "none"
        /\ \A r \in Runs : proc[r].state # "killed"
        /\ LeaderKnown
    BY <1>2, KnownParts, StartKnown DEF Exec, ExitKnown, This, TypeOK, Ioctl,
       LeaderKnown, Runs
  <2>2. StartStep({"exec"}, {"mark", "fail"})
    BY <1>1, <1>2 DEF Exec, TypeOK, Ioctl, Ctx
  <2>3. /\ \/ proc' = proc
           \/ proc'[This].state \in {"execed", "dead"}
        /\ ioctl'.pc = "mark" => proc'[This].state = "execed"
        /\ \A r \in Runs : r # This => proc'[r] = proc[r]
    <3> DEFINE Dead == [proc EXCEPT ![This].state = "dead",
                                    ![This].exit_code = "fail"]
    <3>1. \/ proc' = SetState(This, "execed")
          \/ IoctlGoes("fail") /\ proc' = proc
          \/ IoctlGoes("fail") /\ proc' = Dead
      <4> HIDE DEF IoctlGoes
      <4> QED
        BY <1>2 DEF Exec
    <3>2. CASE proc' = SetState(This, "execed")
      BY <1>1, <2>1, <3>2 DEF SetState, TypeOK, Proc
    <3>3. ASSUME IoctlGoes("fail") PROVE ioctl'.pc = "fail"
      BY <1>1, <3>3 DEF TypeOK, Ioctl
    <3>4. CASE IoctlGoes("fail") /\ proc' = proc
      BY <3>3, <3>4
    <3>5. CASE IoctlGoes("fail") /\ proc' = Dead
      <4>1. /\ proc'[This].state = "dead"
            /\ \A r \in Runs : r # This => proc'[r] = proc[r]
        BY <1>1, <2>1, <3>5 DEF TypeOK, Proc
      <4> QED
        BY <3>3, <3>5, <4>1
    <3> QED
      BY <3>1, <3>2, <3>4, <3>5
  <2>4. /\ UNCHANGED <<mon, flip>>
        /\ ctx'.flip_triggered = ctx.flip_triggered
        /\ ctx'.bitflip_thread = ctx.bitflip_thread
        /\ ctx'.uprobe_active = ctx.uprobe_active
    BY <1>1, <1>2 DEF Exec, TypeOK, Ctx
  <2>5. \A r \in Runs : proc'[r].state # "killed"
    BY <2>1, <2>3
  <2>6. mon.pc \in {"created", "loop"} =>
                proc'[mon.leader].state \in {"execed", "stopped"}
    BY <1>2, <2>1, <2>3, StartKnown DEF Exec, LeaderKnown
  <2> QED
    BY <1>2, <2>1, <2>2, <2>3, <2>4, <2>5, <2>6, StartKnown, StartKeeps
       DEF Exec
<1>3. CASE MarkRunning
  <2>1. StartStep({"mark"}, {"monStart", "fail"})
    BY <1>1, <1>3 DEF MarkRunning, TypeOK, Ioctl, Ctx
  <2>2. /\ UNCHANGED <<mon, flip, proc>>
        /\ ctx'.flip_triggered = ctx.flip_triggered
        /\ ctx'.bitflip_thread = ctx.bitflip_thread
        /\ ctx'.uprobe_active = ctx.uprobe_active
    BY <1>1, <1>3 DEF MarkRunning, TypeOK, Ctx
  <2> QED
    BY <2>1, <2>2, StartKnown, StartKeeps
<1>4. CASE StartMonitor
  <2>1. StartStep({"monStart"}, {"monSet", "fail"})
    BY <1>1, <1>4 DEF StartMonitor, TypeOK, Ioctl, Ctx
  <2>2. /\ UNCHANGED <<flip, proc>>
        /\ ctx'.flip_triggered = ctx.flip_triggered
        /\ ctx'.bitflip_thread = ctx.bitflip_thread
        /\ ctx'.uprobe_active = ctx.uprobe_active
    BY <1>1, <1>4 DEF StartMonitor, TypeOK, Ctx
  <2>3. \/ mon' = mon
        \/ mon'.pc = "created" /\ mon'.leader = This /\ ~mon'.stop
    BY <1>4 DEF StartMonitor, NoMon
  <2> QED
    BY <2>1, <2>2, <2>3, StartKnown, StartKeeps
<1>5. CASE SetMonitor \/ SetFlip
  <2>1. StartStep({"monSet", "flipSet"}, {"flipStart", "arm", "cont"})
    BY <1>1, <1>5 DEF SetMonitor, SetFlip, TypeOK, Ioctl, Ctx
  <2>2. /\ UNCHANGED <<mon, flip, proc>>
        /\ ctx'.flip_triggered = ctx.flip_triggered
        /\ ctx'.uprobe_active = ctx.uprobe_active
    BY <1>1, <1>5 DEF SetMonitor, SetFlip, TypeOK, Ctx
  <2> QED
    BY <2>1, <2>2, StartKnown, StartKeeps DEF Launching
<1>6. CASE StartFlip
  <2>1. StartStep({"flipStart"}, {"flipSet", "fail"})
    BY <1>1, <1>6 DEF StartFlip, TypeOK, Ioctl, Ctx
  <2>2. /\ UNCHANGED <<mon, proc>>
        /\ ~ctx'.flip_triggered
        /\ ctx'.bitflip_thread = ctx.bitflip_thread
        /\ ctx'.uprobe_active = ctx.uprobe_active
    BY <1>1, <1>6 DEF StartFlip, TypeOK, Ctx
  <2>3. flip' = flip \/ (flip'.pc = "created" /\ ~flip'.stop)
    <3>1. flip' = flip \/ flip' = [NoFlip EXCEPT !.pc = "created"]
      BY <1>6 DEF StartFlip
    <3> QED
      BY <3>1 DEF NoFlip
  <2> QED
    BY <2>1, <2>2, <2>3, StartKnown, StartKeeps DEF Launching
<1>7. CASE ArmProbe
  <2>1. StartStep({"arm"}, {"cont", "fail"})
    BY <1>1, <1>7 DEF ArmProbe, ArmedCtx, TypeOK, Ioctl, Ctx
  <2>2. /\ UNCHANGED <<mon, flip, proc>>
        /\ ctx'.flip_triggered = ctx.flip_triggered
        /\ ctx'.bitflip_thread = ctx.bitflip_thread
        /\ ioctl'.pc = "cont" \/ ctx'.uprobe_active = ctx.uprobe_active
    BY <1>1, <1>7 DEF ArmProbe, ArmedCtx, TypeOK, Ioctl, Ctx
  <2> QED
    BY <2>1, <2>2, StartKnown, StartKeeps DEF Launching
<1>8. CASE Continue
  <2>1. /\ Found(This) /\ ~ctx.restore_active /\ ~mon.stop
        /\ flip.pc \in {"none", "created", "trig"}
        /\ mon.pc \in {"created", "loop"}
        /\ \A r \in Runs : proc[r].state # "killed"
        /\ This \in Runs
    BY <1>8, StartKnown DEF Continue, Launching
  <2>2. /\ ioctl'.pc \in {"user", "wait"} /\ ioctl'.client = "polling"
        /\ ioctl'.sends = ioctl.sends /\ ioctl'.killed = ioctl.killed
        /\ UNCHANGED <<ctx, params, result, mon, flip, work>>
        /\ proc' = SetState(This, AfterSIGCONT(proc[This].state))
    BY <1>1, <1>8, <2>1 DEF Continue, TypeOK, Ioctl
  <2>3. \A r \in Runs : proc'[r].state # "killed"
    BY <1>1, <2>1, <2>2 DEF SetState, AfterSIGCONT, TypeOK, Proc
  <2>4. ctx.monitor_done = 0
    BY <1>8, <2>1, KnownParts, RunParts DEF Continue, MonitorKnown, Launching,
       Found
  <2>5. /\ ~Launching' /\ ~Closing' /\ ~Signalled'
    BY <2>2, <2>4 DEF Launching, Closing, Released, Signalled
  <2>6. NotGivenUp' /\ TriggeredOnly' /\ FlipWithin' /\ FlipHolds'
    BY <2>1, <2>2, <2>3, KnownParts DEF NotGivenUp, TriggeredOnly, FlipWithin,
       FlipHolds
  <2>7. Unresumed' /\ Resumed' /\ Answered'
    BY <2>1, <2>2, <2>5 DEF Unresumed, Resumed, Answered
  <2> QED
    BY <2>6, <2>7 DEF QuietInv
<1>9. CASE StartFails
  <2>1. /\ ioctl'.pc = "user" /\ ioctl'.client = "failed"
        /\ ioctl'.sends = ioctl.sends /\ ioctl'.killed = ioctl.killed
        /\ UNCHANGED <<params, result, proc, mon, flip, work>>
        /\ ioctl.pc = "fail"
    BY <1>1, <1>9 DEF StartFails, Returns, TypeOK, Ioctl
  <2>2. /\ ctx'.flip_triggered = ctx.flip_triggered
        /\ ctx'.bitflip_thread = ctx.bitflip_thread
        /\ ctx'.uprobe_active = ctx.uprobe_active
        /\ ctx'.restore_active = ctx.restore_active
    BY <1>1, <1>9 DEF StartFails, TypeOK, Ctx
  <2>3. /\ ioctl.client = "fresh" /\ ~Closing
        /\ ~Launching' /\ ~Launched' /\ ~Closing'
    BY <2>1, Inside DEF Launching, Launched, Closing, Released
  <2>4. NotGivenUp' /\ TriggeredOnly' /\ FlipWithin' /\ FlipHolds'
    BY <2>1, <2>2, KnownParts DEF NotGivenUp, TriggeredOnly, FlipWithin,
       FlipHolds
  <2>5. Unresumed' /\ Resumed' /\ Answered'
    BY <2>1, <2>2, <2>3, KnownParts DEF Unresumed, Resumed, Answered
  <2> QED
    BY <2>4, <2>5 DEF QuietInv
<1> QED
  BY <1>2, <1>3, <1>4, <1>5, <1>6, <1>7, <1>8, <1>9 DEF StartNext

LEMMA SendQuiet ==
  ASSUME Calm, Known, Send
  PROVE  QuietInv'
<1>1. TypeOK /\ FlipWithin /\ FlipStopped /\ Resumed /\ Answered /\ Unresumed
      /\ NotGivenUp /\ TriggeredOnly /\ FlipHolds
  BY KnownParts, RunParts
<1>2. /\ ioctl.pc = "user" /\ ioctl.client \in {"fresh", "got", "failed"}
      /\ ioctl'.client \in {"fresh", "failed"}
      /\ ioctl'.pc \in {"user", "exec"} /\ ~ioctl'.killed
      /\ UNCHANGED <<proc, mon, flip, work>>
      /\ params' \in ParamSet
      /\ result'.process_hanged = result.process_hanged
      /\ ioctl'.sends = ioctl.sends + 1
  BY <1>1 DEF Send, Outside, TypeOK, Ioctl, ClientStates, Result
<1>3. /\ ctx'.flip_triggered = ctx.flip_triggered
      /\ ctx'.bitflip_thread = ctx.bitflip_thread
      /\ ctx'.uprobe_active = ctx.uprobe_active
      /\ ctx'.restore_active = ctx.restore_active
  BY <1>1 DEF Send, TypeOK, Ctx
<1>4. ~Closing /\ ~Launching' /\ ~Launched' /\ ~Closing'
  BY <1>2 DEF Launching, Launched, Closing, Released
<1>5. NotGivenUp' /\ TriggeredOnly' /\ FlipWithin' /\ FlipHolds'
  <2>1. params'.target_pc_present
    BY <1>2 DEF Calm
  <2>2. flip.pc # "none" => ioctl.sends + 1 > 0
    BY <1>1 DEF TypeOK, Ioctl, Runs
  <2> QED
    BY <1>1, <1>2, <1>3, <2>1, <2>2 DEF NotGivenUp, TriggeredOnly, FlipWithin,
       FlipHolds
<1>6. /\ mon.pc \in {"none", "created", "loop", "clear"}
      /\ mon.pc \in {"created", "loop"} =>
                proc[mon.leader].state \in {"execed", "stopped"}
      /\ work = NoWork /\ ~ctx.uprobe_active /\ ~ctx.restore_active
      /\ flip.pc \in {"none", "created", "trig"}
      /\ flip.pc \in {"created", "trig"} =>
                    ~ctx.flip_triggered /\ ~flip.stop
  <2>1. CASE ioctl.client \in {"fresh", "failed"}
    BY <1>1, <1>2, <1>4, <2>1 DEF Unresumed
  <2>2. CASE ioctl.client = "got"
    <3>1. Launched /\ Signalled
      BY <1>2, <2>2 DEF Launched, Signalled
    <3> QED
      BY <1>1, <2>2, <3>1 DEF Resumed, Answered, FlipWithin
  <2> QED
    BY <1>2, <2>1, <2>2
<1>7. Unresumed' /\ Resumed' /\ Answered'
  BY <1>2, <1>3, <1>4, <1>6 DEF Unresumed, Resumed, Answered
<1> QED
  BY <1>5, <1>7 DEF QuietInv

\* The calls that wait for the result, and the close.
LEMMA CallQuiet ==
  ASSUME Calm, Known, Receive \/ WaitDone \/ Close
  PROVE  QuietInv'
<1>1. TypeOK /\ CallKnown /\ FlipStopped /\ Resumed /\ Answered /\ Unresumed
      /\ NotGivenUp /\ TriggeredOnly /\ FlipHolds /\ FlipWithin /\ ProbeKnown
  BY KnownParts, RunParts
<1>2. /\ UNCHANGED <<params, result, proc, mon, flip, work>>
      /\ ctx'.flip_triggered = ctx.flip_triggered
      /\ ctx'.bitflip_thread = ctx.bitflip_thread
      /\ ctx'.uprobe_active = ctx.uprobe_active
      /\ ctx'.restore_active = ctx.restore_active
      /\ \/ \E client : Returns(client)
         \/ IoctlGoes("relMon")
  BY <1>1 DEF Receive, WaitDone, Close, TypeOK, Ctx
<1>3. /\ ioctl'.pc \in {"user", "relMon"}
      /\ ioctl'.killed = ioctl.killed /\ ioctl'.sends = ioctl.sends
  BY <1>1, <1>2 DEF Returns, IoctlGoes, TypeOK, Ioctl
<1>4. NotGivenUp' /\ TriggeredOnly' /\ FlipWithin' /\ FlipHolds'
  BY <1>1, <1>2, <1>3 DEF NotGivenUp, TriggeredOnly, FlipWithin, FlipHolds
<1>5. CASE Receive \/ WaitDone
  <2>1. Launched /\ Signalled /\ ioctl'.client = "got"
        /\ ioctl'.pc = "user" /\ This' = This
    BY <1>1, <1>5 DEF Receive, WaitDone, Calm, Outside, Returns,
       CompletionDone, Awaited, CallKnown, Launched, Signalled, TypeOK, Ioctl,
       This
  <2>2. /\ mon.pc \in {"clear", "none"} /\ work = NoWork
        /\ ~ctx.uprobe_active /\ ~ctx.restore_active /\ flip.pc = "none"
    BY <1>1, <2>1 DEF FlipStopped, Resumed, ProbeKnown
  <2> QED
    BY <1>2, <1>4, <2>1, <2>2 DEF QuietInv, Unresumed, Resumed, Answered,
       Launching
<1>6. CASE Close
  <2>1. /\ ioctl'.pc = "relMon" /\ ioctl'.client = ioctl.client
        /\ ioctl.pc = "user"
    BY <1>1, <1>6 DEF Close, Outside, IoctlGoes, TypeOK, Ioctl
  <2>2. Closing' /\ ~Closing /\ ~Launched' /\ ~Launching'
    BY <2>1 DEF Closing, Released, Launched, Launching
  <2>3. Unresumed' /\ Resumed' /\ Answered'
    BY <1>1, <1>2, <2>1, <2>2 DEF Unresumed, Resumed, Answered
  <2> QED
    BY <1>4, <2>3 DEF QuietInv
<1> QED
  BY <1>5, <1>6

LEMMA ReleaseQuiet ==
  ASSUME Known, ReleaseNext
  PROVE  QuietInv'
<1>1. TypeOK /\ Resumed /\ Answered /\ Unresumed
      /\ NotGivenUp /\ TriggeredOnly /\ FlipHolds /\ FlipWithin
  BY KnownParts, RunParts
<1>2. /\ UNCHANGED <<params, result, proc, mon>>
      /\ ioctl'.client = ioctl.client
      /\ ioctl'.killed = ioctl.killed /\ ioctl'.sends = ioctl.sends
      /\ flip'.pc = flip.pc /\ flip'.tgid = flip.tgid
      /\ work' = work \/ work' = NoWork
      /\ ioctl.pc # "closed"
  BY <1>1 DEF ReleaseNext, ReleaseMonitor, ReleaseFlip, ReleaseFlipStopped,
     ReleaseCancels, ReleaseFlushes, ReleaseUnregisters, ReleasePuts,
     ReleaseFrees, Stopping, IoctlGoes, TypeOK, Ioctl, Flip
<1>3. /\ Closing /\ Closing' /\ ~Launched' /\ ~Launching'
      /\ ioctl.pc # "cont"
      /\ ioctl'.pc \in {"relFlip", "relFlipWait", "relCancel", "relFlush",
                        "relUnreg", "relIput", "relFree", "closed"}
  BY <1>1 DEF ReleaseNext, ReleaseMonitor, ReleaseFlip, ReleaseFlipStopped,
     ReleaseCancels, ReleaseFlushes, ReleaseUnregisters, ReleasePuts,
     ReleaseFrees, IoctlGoes, TypeOK, Ioctl, Closing, Released, Launched,
     Launching
<1>4. /\ ctx'.flip_triggered = ctx.flip_triggered
      /\ ctx'.bitflip_thread => ctx.bitflip_thread
      /\ ctx'.uprobe_active => ctx.uprobe_active
      /\ ctx'.restore_active = ctx.restore_active
  <2>1. CASE ReleaseMonitor \/ ReleaseFlip \/ ReleaseFlipStopped
             \/ ReleaseCancels
    BY <1>1, <2>1 DEF ReleaseMonitor, ReleaseFlip, ReleaseFlipStopped,
       ReleaseCancels, TypeOK, Ctx
  <2>2. CASE ReleaseFlushes \/ ReleaseUnregisters \/ ReleasePuts
             \/ ReleaseFrees
    BY <1>1, <2>2 DEF ReleaseFlushes, ReleaseUnregisters, ReleasePuts,
       ReleaseFrees, UnregisteredCtx, DisarmedCtx, TypeOK, Ctx
  <2> QED
    BY <2>1, <2>2 DEF ReleaseNext
<1>5. NotGivenUp' /\ TriggeredOnly' /\ FlipWithin' /\ FlipHolds'
  BY <1>1, <1>2, <1>3, <1>4 DEF NotGivenUp, TriggeredOnly, FlipWithin,
     FlipHolds
<1>6. Unresumed' /\ Resumed' /\ Answered'
  BY <1>1, <1>2, <1>3, <1>4 DEF Unresumed, Resumed, Answered
<1> QED
  BY <1>5, <1>6 DEF QuietInv

-----------------------------------------------------------------------------
(* Together.                                                               *)

LEMMA QuietStep ==
  ASSUME Calm, Known, [Next]_vars, ~Kill
  PROVE  QuietInv'
<1>1. TypeOK /\ NotGivenUp
  BY KnownParts, RunParts
<1>2. CASE ReceiveAgain \/ Closed \/ UNCHANGED vars
  BY <1>2 DEF ReceiveAgain, Closed, vars, Known, QuietInv, NotGivenUp,
     TriggeredOnly, FlipWithin, FlipHolds, Unresumed, Resumed, Answered,
     This, Launching, Launched, Signalled, Closing, Released
<1>3. ~KillNext
  BY <1>1 DEF NotGivenUp, KillNext, KillReads, KillStops, KillReturns
<1>4. CASE ClientNext
  BY <1>2, <1>3, <1>4, SendQuiet, CallQuiet DEF ClientNext
<1>5. CASE StartNext \/ ReleaseNext
  BY <1>5, StartQuiet, ReleaseQuiet
<1>6. CASE MonNext \/ FlipNext
  BY <1>6, MonQuiet, FlipQuiet
<1>7. CASE WorkNext \/ HitNext \/ TargetNext
  BY <1>7, WorkQuiet, TargetQuiet
<1> QED
  BY <1>2, <1>3, <1>4, <1>5, <1>6, <1>7 DEF Next

\* The invariant of the runs nobody gives up on.
THEOREM QuietKnown ==
  ASSUME Quiet
  PROVE  Safe => []Known
<1>1. Init => ProbeKnown /\ QuietInv
  BY InitProbe, InitQuiet
<1>2. /\ RunInv /\ RunInv' /\ ExitKnown /\ ProbeKnown /\ QuietInv
      /\ [Next]_vars
      => ProbeKnown' /\ QuietInv'
  <2> SUFFICES ASSUME RunInv, RunInv', ExitKnown, ProbeKnown, QuietInv,
                      [Next]_vars
               PROVE  ProbeKnown' /\ QuietInv'
    OBVIOUS
  <2>1. \A p, q \in ParamSet : p.target_pc_present = q.target_pc_present
    <3>1. \A p \in ParamSet : p.target_pc_present \in BOOLEAN
      BY FijAssumption DEF Params
    <3> QED
      BY <3>1 DEF Quiet, Calm
  <2>2. ProbeKnown'
    BY <2>1, ProbeStep
  <2>3. ~Kill
    BY DEF Quiet, Kill
  <2> QED
    BY <2>2, <2>3, QuietStep DEF Quiet, Known
<1>3. RunInv /\ ExitKnown /\ ProbeKnown /\ QuietInv => Known
  BY DEF Known
<1> QED
  BY <1>1, <1>2, <1>3, VerdictKnown, PTL DEF Safe

\* When the bitflip thread is about to write, the target it waited for is
\* still stopped (bitflip_ops.c:248 and 341 wait once, before the write): no
\* other thread resumes or ends it meanwhile.
THEOREM FlipsTheStopped ==
  ASSUME Quiet
  PROVE  Safe => []FlipOnlyWhileStopped
<1>1. Known => FlipOnlyWhileStopped
  BY KnownParts DEF FlipHolds, FlipOnlyWhileStopped
<1> QED
  BY <1>1, QuietKnown, PTL

\* A pinned page has been restored when the run is reported, although the
\* monitor thread looks for one (monitor.c:46) before it stops the thread that
\* pins it.
THEOREM PageIsRestored ==
  ASSUME Quiet
  PROVE  Safe => []PageRestored
<1>1. Known => PageRestored
  <2> SUFFICES ASSUME Known, Reported PROVE ~ctx.restore_active
    BY DEF PageRestored
  <2>1. Launched /\ Signalled
    BY DEF Reported, Launched, Signalled
  <2>2. mon.pc \in {"clear", "none"}
    BY <2>1, KnownParts, RunParts DEF FlipStopped
  <2> QED
    BY <2>1, <2>2, KnownParts DEF Resumed
<1> QED
  BY <1>1, QuietKnown, PTL

-----------------------------------------------------------------------------
(* A client that closes the file when its run is over.                     *)

\* What a step changes of what ClosedLast is about.
LEMMA CloseChanges ==
  ASSUME TypeOK, [Next]_vars
  PROVE  /\ ioctl' = ioctl \/ ClientNext \/ StartNext \/ KillNext
            \/ ReleaseNext
         /\ ReleaseFrees \/ ctx'.allocated = ctx.allocated
<1>1. CASE MonNext
  <2>1. ioctl' = ioctl
    BY <1>1, MonKeeps
  <2>2. ctx'.allocated = ctx.allocated
    <3>1. CASE MonStarts \/ MonSeesExit \/ MonSeesStop \/ MonFlushes
      BY <3>1 DEF MonStarts, MonSeesExit, MonSeesStop, MonFlushes
    <3>2. CASE MonReverts \/ MonStopsFlip \/ MonFlipStopped
      BY <3>2 DEF MonReverts, MonStopsFlip, MonFlipStopped, Restored, TypeOK,
         Ctx
    <3>3. CASE MonUnregisters \/ MonPuts
      BY <3>3 DEF MonUnregisters, MonPuts, UnregisteredCtx, DisarmedCtx,
         TypeOK, Ctx
    <3>4. CASE MonPublishes \/ MonCompletes \/ MonClears
      BY <3>4 DEF MonPublishes, MonCompletes, MonClears, Completed, TypeOK,
         Ctx
    <3> QED
      BY <1>1, <3>1, <3>2, <3>3, <3>4 DEF MonNext
  <2> QED
    BY <2>1, <2>2
<1>2. CASE FlipNext
  <2>1. ioctl' = ioctl
    BY <1>2, FlipAside DEF Aside
  <2>2. \/ ctx' = ctx
        \/ FlipPins \/ FlipClearsTrigger
    BY <1>2 DEF FlipNext, FlipStarts, FlipTriggered, FlipSlept, FlipCollects,
       FlipStops, FlipFindsLeader, FlipWaits, FlipRegister, FlipMemory,
       FlipReports, FlipResumes, FlipTimes, FlipReturns
  <2>3. ctx'.allocated = ctx.allocated
    BY <2>2 DEF FlipPins, FlipClearsTrigger, TypeOK, Ctx
  <2> QED
    BY <2>1, <2>3
<1>3. CASE WorkNext \/ HitNext
  <2>1. ioctl' = ioctl
    BY <1>3, WorkAside DEF Aside
  <2>2. ctx'.allocated = ctx.allocated
    BY <1>3 DEF WorkNext, WorkStarts, WorkUnregisters, WorkPuts, HitNext,
       UprobeHit, UnregisteredCtx, DisarmedCtx, TypeOK, Ctx
  <2> QED
    BY <2>1, <2>2
<1>4. CASE TargetNext \/ Closed \/ UNCHANGED vars
  <2>1. TargetNext => UNCHANGED <<ioctl, ctx>>
    BY DEF TargetNext, TargetStops, TargetKilled, TargetExits, TargetCrashes,
       TargetUnchanged
  <2>2. UNCHANGED <<ioctl, ctx>>
    BY <1>4, <2>1 DEF Closed, vars
  <2> QED
    BY <2>2
<1>5. CASE ClientNext
  BY <1>5 DEF ClientNext, Send, Receive, ReceiveAgain, WaitDone, Kill, Close,
     vars, TypeOK, Ctx
<1>6. CASE StartNext
  BY <1>6 DEF StartNext, Exec, MarkRunning, StartMonitor, SetMonitor,
     StartFlip, SetFlip, ArmProbe, ArmedCtx, Continue, StartFails, TypeOK,
     Ctx
<1>7. CASE KillNext
  BY <1>7 DEF KillNext, KillReads, KillStops, KillReturns
<1>8. CASE ReleaseNext
  BY <1>8 DEF ReleaseNext, ReleaseMonitor, ReleaseFlip, ReleaseFlipStopped,
     ReleaseCancels, ReleaseFlushes, ReleaseUnregisters, ReleasePuts,
     UnregisteredCtx, DisarmedCtx, TypeOK, Ctx
<1> QED
  BY <1>1, <1>2, <1>3, <1>4, <1>5, <1>6, <1>7, <1>8 DEF Next

\* fij_release finds the probe disarmed.
LEMMA ClosedStep ==
  ASSUME ~EarlyClose, Known, ClosedLast, [Next]_vars
  PROVE  ClosedLast'
<1>1. TypeOK /\ CallKnown /\ Unresumed /\ Answered
  BY KnownParts, RunParts
<1>2. ReleaseFrees \/ ctx'.allocated = ctx.allocated
  BY <1>1, CloseChanges
<1>3. CASE ioctl' = ioctl
  <2>1. ~ReleaseFrees
    BY <1>1, <1>3 DEF ReleaseFrees, IoctlGoes, TypeOK, Ioctl
  <2> QED
    BY <1>2, <1>3, <2>1 DEF ClosedLast, Closing, Released
<1>4. CASE Close
  <2>1. /\ ioctl'.pc = "relMon" /\ ioctl'.client = ioctl.client
        /\ ioctl.client \in {"got", "failed"} /\ ctx' = ctx
        /\ ctx.allocated
    BY <1>1, <1>4 DEF Close, Outside, IoctlGoes, TypeOK, Ioctl
  <2> QED
    BY <2>1 DEF ClosedLast
<1>5. CASE ReleaseNext
  <2>1. /\ Closing /\ ioctl'.client = ioctl.client
        /\ ReleaseFrees => ioctl'.pc = "closed"
        /\ ioctl.pc # "closed"
        /\ ioctl'.pc = "relUnreg" => ctx.uprobe_active
    BY <1>1, <1>5 DEF ReleaseNext, ReleaseMonitor, ReleaseFlip,
       ReleaseFlipStopped, ReleaseCancels, ReleaseFlushes,
       ReleaseUnregisters, ReleasePuts, ReleaseFrees, IoctlGoes, Armed,
       TypeOK, Ioctl, Closing, Released
  <2>2. ~ctx.uprobe_active
    BY <1>1, <2>1 DEF ClosedLast, Unresumed, Answered, Closing, Released
  <2> QED
    BY <1>2, <2>1, <2>2 DEF ClosedLast
<1>6. CASE StartNext \/ KillNext
  <2>1. /\ ioctl.pc \notin {"relFree", "closed"}
        /\ ioctl'.pc \in {"mark", "monStart", "monSet", "flipStart",
                          "flipSet", "arm", "cont", "fail", "user", "wait",
                          "killStop", "killWait"}
    <3>1. CASE Exec \/ MarkRunning \/ StartMonitor
      BY <1>1, <3>1 DEF Exec, MarkRunning, StartMonitor, IoctlGoes, TypeOK,
         Ioctl
    <3>2. CASE SetMonitor \/ StartFlip \/ SetFlip \/ ArmProbe
      BY <1>1, <3>2 DEF SetMonitor, StartFlip, SetFlip, ArmProbe, IoctlGoes,
         TypeOK, Ioctl
    <3>3. CASE Continue \/ StartFails
      BY <1>1, <3>3 DEF Continue, StartFails, Returns, IoctlGoes, TypeOK,
         Ioctl
    <3>4. CASE KillNext
      BY <1>1, <3>4 DEF KillNext, KillReads, KillStops, KillReturns,
         IoctlGoes, TypeOK, Ioctl
    <3> QED
      BY <1>6, <3>1, <3>2, <3>3, <3>4 DEF StartNext
  <2>2. ctx'.allocated = ctx.allocated
    BY <1>2, <2>1 DEF ReleaseFrees
  <2> QED
    BY <2>1, <2>2 DEF ClosedLast, Closing, Released
<1>7. CASE Send \/ Receive \/ WaitDone \/ Kill
  <2>1. ~Closing' /\ ctx'.allocated = ctx.allocated /\ ioctl.pc # "closed"
    BY <1>1, <1>2, <1>7 DEF Send, Receive, WaitDone, Kill, ReleaseFrees,
       Outside, Returns, IoctlGoes, TypeOK, Ioctl, Closing, Released
  <2> QED
    BY <2>1 DEF ClosedLast, Closing, Released
<1>8. ReceiveAgain => ioctl' = ioctl
  BY DEF ReceiveAgain, vars
<1> QED
  BY <1>1, <1>3, <1>4, <1>5, <1>6, <1>7, <1>8, CloseChanges DEF ClientNext

\* The probe is unregistered by one thread at a time, where the file is not
\* closed while a run is in progress: the three that test it without a lock
\* (uprobe.c:10, 178) are never between the test and the call together.
THEOREM DisarmsAlone ==
  ASSUME Quiet, ~EarlyClose
  PROVE  Safe => []DisarmExclusive
<1>1. Init => ClosedLast
  BY DEF Init, FreshCtx, ClosedLast, Closing, Released
<1>2. Known /\ ClosedLast /\ [Next]_vars => ClosedLast'
  BY ClosedStep
<1>3. Known /\ ClosedLast => DisarmExclusive
  <2> SUFFICES ASSUME Known, ClosedLast, work.pc = "unreg", mon.pc = "unreg"
               PROVE  FALSE
    BY DEF ClosedLast, DisarmExclusive, Unregistering
  <2>1. work # NoWork
    BY DEF NoWork
  <2>2. ioctl.client \in {"polling", "got"}
    BY KnownParts, Inside DEF Unresumed
  <2>3. CASE Launched
    BY <2>1, <2>3, KnownParts DEF Resumed
  <2>4. CASE Closing
    BY <2>2, <2>4, KnownParts DEF ClosedLast, Answered
  <2> QED
    BY <2>2, <2>3, <2>4, Inside
<1> QED
  BY <1>1, <1>2, <1>3, QuietKnown, PTL DEF Safe

\* Where nothing fails once the monitor thread is there, every run that has
\* one is resumed.
LEMMA StrandedStart ==
  ASSUME Faults \subseteq {"exec"}, Known, NothingStranded, StartNext
  PROVE  NothingStranded'
<1>1. TypeOK /\ Unresumed /\ FlipWithin
  BY KnownParts, RunParts
<1>2. /\ ioctl.client = "fresh"
      /\ ioctl.pc \in {"exec", "mark", "monStart"} \/ Launching
            \/ ioctl.pc = "fail"
  BY Inside DEF StartNext, Exec, MarkRunning, StartMonitor, SetMonitor,
     StartFlip, SetFlip, ArmProbe, Continue, StartFails, Launching
<1>3. Launching => Found(This)
  BY StartKnown
<1>4. /\ ~Launching => mon.pc \in {"none", "clear"} /\ ~ctx.bitflip_thread
      /\ ioctl.pc \in {"monSet", "flipStart"} => ~ctx.bitflip_thread
  BY <1>1, <1>2 DEF NothingStranded, FlipWithin
<1>5. ioctl.pc = "arm" => ~ctx.uprobe_active
  BY <1>1, <1>2 DEF Unresumed
<1>6. CASE Exec \/ MarkRunning \/ StartFails
  <2>1. /\ mon' = mon /\ ~Launching
        /\ ioctl'.pc \in {"mark", "monStart", "fail", "user"}
    BY <1>1, <1>6 DEF Exec, MarkRunning, StartFails, IoctlGoes, Returns,
       Launching, TypeOK, Ioctl
  <2> QED
    BY <1>4, <2>1 DEF NothingStranded
<1>7. CASE StartMonitor
  <2>1. ctx'.bitflip_thread = ctx.bitflip_thread /\ ~Launching
    BY <1>1, <1>7 DEF StartMonitor, Launching, TypeOK, Ctx
  <2>2. \/ ioctl'.pc = "monSet"
        \/ ioctl'.pc = "fail" /\ mon' = mon
    BY <1>1, <1>7 DEF StartMonitor, IoctlGoes, TypeOK, Ioctl
  <2> QED
    BY <1>4, <2>1, <2>2 DEF NothingStranded, Launching
<1>8. CASE SetMonitor \/ StartFlip
  <2>1. ctx'.bitflip_thread = ctx.bitflip_thread
    BY <1>1, <1>8 DEF SetMonitor, StartFlip, TypeOK, Ctx
  <2>2. /\ ioctl'.pc \in {"cont", "flipStart", "flipSet"}
        /\ ~ctx.bitflip_thread
    BY <1>1, <1>4, <1>8 DEF SetMonitor, StartFlip, IoctlGoes, TypeOK, Ioctl
  <2> QED
    BY <2>1, <2>2 DEF NothingStranded, Launching
<1>9. CASE SetFlip \/ ArmProbe
  <2>1. ioctl'.pc \in {"arm", "cont"}
    BY <1>1, <1>3, <1>5, <1>9 DEF SetFlip, ArmProbe, IoctlGoes, Launching,
       TypeOK, Ioctl
  <2> QED
    BY <2>1 DEF NothingStranded, Launching
<1>10. CASE Continue
  <2>1. ioctl'.client = "polling" /\ ioctl'.pc \in {"user", "wait"}
    BY <1>1, <1>3, <1>10 DEF Continue, Launching, TypeOK, Ioctl
  <2> QED
    BY <2>1 DEF NothingStranded
<1> QED
  BY <1>6, <1>7, <1>8, <1>9, <1>10 DEF StartNext

LEMMA StrandedStep ==
  ASSUME Quiet, Faults \subseteq {"exec"}, Known, NothingStranded, [Next]_vars
  PROVE  NothingStranded'
<1>1. TypeOK /\ Answered /\ NotGivenUp
  BY KnownParts, RunParts
<1>2. ~Kill /\ ~KillNext
  BY <1>1 DEF Quiet, NotGivenUp, Kill, KillNext, KillReads, KillStops,
     KillReturns
<1>3. CASE StartNext
  BY <1>3, StrandedStart
<1>4. CASE Send \/ Receive \/ WaitDone \/ Close
  <2>1. /\ mon' = mon /\ ~Launching
        /\ ioctl'.pc \in {"user", "exec", "relMon"}
        /\ ioctl'.client \in {"fresh", "failed"} =>
                ioctl.client \in {"fresh", "failed", "got"}
    BY <1>1, <1>4 DEF Send, Receive, WaitDone, Close, Outside, Returns,
       IoctlGoes, Launching, TypeOK, Ioctl, ClientStates
  <2> QED
    BY <1>1, <2>1 DEF NothingStranded, Answered
<1>5. CASE ReleaseNext
  <2>1. /\ mon' = mon /\ ~Launching /\ ~Launching'
        /\ ioctl'.client = ioctl.client
        /\ ioctl'.pc \notin {"monSet", "flipStart"}
    BY <1>1, <1>5 DEF ReleaseNext, ReleaseMonitor, ReleaseFlip,
       ReleaseFlipStopped, ReleaseCancels, ReleaseFlushes,
       ReleaseUnregisters, ReleasePuts, ReleaseFrees, IoctlGoes, Launching,
       TypeOK, Ioctl
  <2> QED
    BY <2>1 DEF NothingStranded
<1>6. CASE MonNext
  <2>1. ioctl' = ioctl /\ Launching' = Launching
    BY <1>1, <1>6, MonKeeps DEF Launching
  <2>2. ctx'.bitflip_thread => ctx.bitflip_thread
    <3>1. CASE MonStarts \/ MonSeesExit \/ MonSeesStop \/ MonFlushes
      BY <3>1 DEF MonStarts, MonSeesExit, MonSeesStop, MonFlushes
    <3>2. CASE MonReverts \/ MonStopsFlip \/ MonFlipStopped
      BY <1>1, <3>2 DEF MonReverts, MonStopsFlip, MonFlipStopped, Restored,
         TypeOK, Ctx
    <3>3. CASE MonUnregisters \/ MonPuts
      BY <1>1, <3>3 DEF MonUnregisters, MonPuts, UnregisteredCtx,
         DisarmedCtx, TypeOK, Ctx
    <3>4. CASE MonPublishes \/ MonCompletes \/ MonClears
      BY <1>1, <3>4 DEF MonPublishes, MonCompletes, MonClears, Completed,
         TypeOK, Ctx
    <3> QED
      BY <1>6, <3>1, <3>2, <3>3, <3>4 DEF MonNext
  <2>3. mon.pc \in {"none", "clear"} => mon'.pc = "none"
    BY <1>6 DEF MonNext, MonStarts, MonSeesExit, MonSeesStop, MonReverts,
       MonStopsFlip, MonFlipStopped, MonFlushes, MonUnregisters, MonPuts,
       MonPublishes, MonCompletes, MonClears, NoMon
  <2> QED
    BY <2>1, <2>2, <2>3 DEF NothingStranded
<1>7. CASE FlipNext
  BY <1>7, FlipChanges DEF NothingStranded, Aside
<1>8. CASE WorkNext \/ HitNext
  <2>1. ctx'.bitflip_thread = ctx.bitflip_thread
    BY <1>1, <1>8 DEF WorkNext, WorkStarts, WorkUnregisters, WorkPuts,
       HitNext, UprobeHit, UnregisteredCtx, DisarmedCtx, TypeOK, Ctx
  <2>2. UNCHANGED <<ioctl, mon>> /\ Launching' = Launching
    BY <1>1, <1>8, WorkAside DEF Aside, Launching
  <2> QED
    BY <2>1, <2>2 DEF NothingStranded
<1>9. CASE TargetNext \/ Closed \/ ReceiveAgain \/ UNCHANGED vars
  <2>1. TargetNext => UNCHANGED <<ioctl, ctx, mon>>
    BY DEF TargetNext, TargetStops, TargetKilled, TargetExits, TargetCrashes,
       TargetUnchanged
  <2>2. UNCHANGED <<ioctl, ctx, mon>>
    BY <1>9, <2>1 DEF Closed, ReceiveAgain, vars
  <2> QED
    BY <2>2 DEF NothingStranded, Launching
<1> QED
  BY <1>2, <1>3, <1>4, <1>5, <1>6, <1>7, <1>8, <1>9 DEF Next, ClientNext

\* When fij_release frees the context (chardev.c:39) nothing of the driver
\* is left but the monitor thread's last store: fij_release drops the pointer
\* to that thread and does not wait for it.
THEOREM FreedLast ==
  ASSUME Quiet, ~EarlyClose, Faults \subseteq {"exec"}
  PROVE  Safe => []LastStoreOnly
<1>1. Init => ClosedLast /\ NothingStranded
  BY DEF Init, FreshCtx, NoMon, ClosedLast, NothingStranded, Closing, Released
<1>2. /\ Known /\ ClosedLast /\ NothingStranded /\ [Next]_vars
      => ClosedLast' /\ NothingStranded'
  BY ClosedStep, StrandedStep
<1>3. Known /\ ClosedLast /\ NothingStranded => LastStoreOnly
  <2> SUFFICES ASSUME Known, ClosedLast, NothingStranded, ~ctx.allocated
               PROVE  /\ mon.pc \in {"none", "clear"} /\ flip.pc = "none"
                      /\ work = NoWork /\ ~probe
    BY DEF LastStoreOnly
  <2>1. ioctl.pc = "closed" /\ ioctl.client \in {"got", "failed"}
    BY DEF ClosedLast, Closing, Released
  <2>2. /\ mon.pc \in {"none", "clear"} /\ work = NoWork
        /\ ~ctx.uprobe_active
    BY <2>1, KnownParts DEF Answered, Unresumed, NothingStranded, Launching
  <2> QED
    BY <2>2, KnownParts DEF FlipWithin, ProbeKnown
<1> QED
  BY <1>1, <1>2, <1>3, QuietKnown, PTL DEF Safe
=============================================================================
