----------------------------- MODULE FijRunProofs -----------------------------
(***************************************************************************)
(* The driver implements FijRun, of a client that starts one run on the    *)
(* file, may give up on it, and closes the file when it is over: every     *)
(* step of the calls, of the two threads, of the worker and of the target  *)
(* is a step of the promise, or none.  Until the client gives up, QuietInv *)
(* holds; from then on GivenUp is enough.                                  *)
(***************************************************************************)
EXTENDS FijQuietProofs

\* The client that FijRun promises a verdict to.
OneRun ==
    /\ Calm /\ ~EarlyClose /\ MaxSends = 1
    /\ \A p \in ParamSet : ~p.all_threads

\* What is known when each step is taken, until the client gives up.
Facts == Known /\ ClosedLast /\ FaultKnown /\ Untouched /\ FlipMade

-----------------------------------------------------------------------------
(* What the invariants of the driver leave out.                            *)

LEMMA InitUntouched == Init => Untouched /\ FlipMade
  BY DEF Init, Untouched, FlipMade, FreshCtx, FreshResult, NoFlip

\* Only fij_start_exec says that a run is running.
LEMMA RunningStays ==
  ASSUME TypeOK, [Next]_vars, ~MarkRunning
  PROVE  ctx'.running => ctx.running
<1>1. CASE MonNext
  <2>1. CASE MonStarts \/ MonSeesExit \/ MonSeesStop \/ MonFlushes
    BY <2>1 DEF MonStarts, MonSeesExit, MonSeesStop, MonFlushes
  <2>2. CASE MonReverts \/ MonStopsFlip \/ MonFlipStopped
    BY <2>2 DEF MonReverts, MonStopsFlip, MonFlipStopped, Restored, TypeOK,
       Ctx
  <2>3. CASE MonUnregisters \/ MonPuts
    BY <2>3 DEF MonUnregisters, MonPuts, UnregisteredCtx, DisarmedCtx, TypeOK,
       Ctx
  <2>4. CASE MonPublishes \/ MonCompletes \/ MonClears
    BY <2>4 DEF MonPublishes, MonCompletes, MonClears, Completed, TypeOK, Ctx
  <2> QED
    BY <1>1, <2>1, <2>2, <2>3, <2>4 DEF MonNext
<1>2. CASE FlipNext
  <2>1. ctx' = ctx \/ FlipPins \/ FlipClearsTrigger
    BY <1>2 DEF FlipNext, FlipStarts, FlipTriggered, FlipSlept, FlipCollects,
       FlipStops, FlipFindsLeader, FlipWaits, FlipRegister, FlipMemory,
       FlipReports, FlipResumes, FlipTimes, FlipReturns
  <2> QED
    BY <2>1 DEF FlipPins, FlipClearsTrigger, TypeOK, Ctx
<1>3. CASE WorkNext \/ HitNext
  BY <1>3 DEF WorkNext, WorkStarts, WorkUnregisters, WorkPuts, HitNext,
     UprobeHit, UnregisteredCtx, DisarmedCtx, TypeOK, Ctx
<1>4. CASE TargetNext \/ KillNext \/ Closed \/ UNCHANGED vars
  BY <1>4 DEF TargetNext, TargetStops, TargetKilled, TargetExits,
     TargetCrashes, TargetUnchanged, KillNext, KillReads, KillStops,
     KillReturns, Closed, vars
<1>5. CASE ClientNext
  BY <1>5 DEF ClientNext, Send, Receive, ReceiveAgain, WaitDone, Kill, Close,
     vars, TypeOK, Ctx
<1>6. CASE StartNext
  BY <1>6 DEF StartNext, Exec, StartMonitor, SetMonitor, StartFlip, SetFlip,
     ArmProbe, ArmedCtx, Continue, StartFails, TypeOK, Ctx
<1>7. CASE ReleaseNext
  BY <1>7 DEF ReleaseNext, ReleaseMonitor, ReleaseFlip, ReleaseFlipStopped,
     ReleaseCancels, ReleaseFlushes, ReleaseUnregisters, ReleasePuts,
     ReleaseFrees, UnregisteredCtx, DisarmedCtx, TypeOK, Ctx
<1> QED
  BY <1>1, <1>2, <1>3, <1>4, <1>5, <1>6, <1>7 DEF Next

\* The client's first call is a SEND_MSG.
LEMMA FirstCall ==
  ASSUME ~EarlyClose, Known, Untouched, [Next]_vars, ioctl.sends = 0
  PROVE  /\ Send \/ ioctl' = ioctl
         /\ ctx'.running => ctx.running
<1>1. /\ TypeOK /\ ioctl.pc = "user" /\ ioctl.client = "fresh"
  BY KnownParts, RunParts DEF Untouched
<1>2. ~StartNext /\ ~KillNext /\ ~ReleaseNext /\ ~Closed
  BY <1>1 DEF StartNext, Exec, MarkRunning, StartMonitor, SetMonitor,
     StartFlip, SetFlip, ArmProbe, Continue, StartFails, KillNext, KillReads,
     KillStops, KillReturns, ReleaseNext, ReleaseMonitor, ReleaseFlip,
     ReleaseFlipStopped, ReleaseCancels, ReleaseFlushes, ReleaseUnregisters,
     ReleasePuts, ReleaseFrees, Closed
<1>3. ClientNext => Send
  BY <1>1 DEF ClientNext, Receive, ReceiveAgain, WaitDone, Kill, Close
<1>4. \/ MonNext \/ FlipNext \/ WorkNext \/ HitNext \/ TargetNext
      \/ UNCHANGED vars
      => ioctl' = ioctl
  BY <1>1, MonKeeps, FlipAside, WorkAside, TargetAside DEF Aside, vars
<1>5. ~MarkRunning
  BY <1>1 DEF MarkRunning
<1> QED
  BY <1>1, <1>2, <1>3, <1>4, <1>5, RunningStays DEF Next

LEMMA UntouchedStep ==
  ASSUME ~EarlyClose, Known, Untouched, [Next]_vars
  PROVE  Untouched'
<1>1. TypeOK
  BY KnownParts, RunParts
<1>2. CASE ioctl.sends = 0
  <2>1. Send => ioctl'.sends = 1
    BY <1>1, <1>2 DEF Send, TypeOK, Ioctl
  <2> QED
    BY <1>2, <2>1, FirstCall DEF Untouched
<1>3. CASE ioctl.sends # 0
  <2>1. Send => ioctl'.sends = ioctl.sends + 1
    BY <1>1 DEF Send, TypeOK, Ioctl
  <2>2. ~Send => ioctl'.sends = ioctl.sends
    <3>1. Receive \/ WaitDone => ioctl'.sends = ioctl.sends
      BY <1>1 DEF Receive, WaitDone, Returns, TypeOK, Ioctl
    <3>2. ReceiveAgain \/ Closed \/ UNCHANGED vars => ioctl' = ioctl
      BY DEF ReceiveAgain, Closed, vars
    <3> QED
      BY <1>1, <3>1, <3>2, IterationLasts DEF Next, ClientNext
  <2>3. ioctl.sends \in Nat
    BY <1>1, FijAssumption DEF TypeOK, Ioctl, Runs
  <2>4. ioctl'.sends # 0
    BY <1>3, <2>1, <2>2, <2>3
  <2> QED
    BY <2>4 DEF Untouched
<1> QED
  BY <1>2, <1>3

\* What the steps of the bitflip thread do to the processes it flips, and to
\* the others.
LEMMA FlipMarks ==
  ASSUME Known, FlipNext
  PROVE  /\ flip.pc # "flip" =>
                \A r \in Runs : proc'[r].faulty = proc[r].faulty
         /\ flip.pc = "flip" /\ flip'.pc \in {"pin", "report"} => Flipped'
         /\ Flipped => Flipped'
         /\ flip'.pc \in {"pin", "report"} =>
                flip.pc \in {"flip", "pin", "report"}
         /\ result'.fault_injected =>
                result.fault_injected \/ flip.pc = "report"
<1>1. TypeOK /\ FlipHolds
  BY KnownParts, RunParts
<1>2. flip.pc # "flip" => \A r \in Runs : proc'[r].faulty = proc[r].faulty
  <2> SUFFICES ASSUME flip.pc # "flip"
               PROVE  \A r \in Runs : proc'[r].faulty = proc[r].faulty
    OBVIOUS
  <2>1. \/ proc' = proc
        \/ Sigstop(flip.tgid)
        \/ proc' = SetState(flip.tgid, AfterSIGCONT(proc[flip.tgid].state))
    BY FlipPath DEF FlipStep
  <2> QED
    BY <1>1, <2>1 DEF Sigstop, SetState, TypeOK, Proc
<1>3. CASE flip.pc = "flip"
  <2>1. FlipRegister \/ FlipMemory
    BY <1>3 DEF FlipNext, FlipStarts, FlipTriggered, FlipSlept,
       FlipCollects, FlipStops, FlipFindsLeader, FlipWaits, FlipPins,
       FlipReports, FlipResumes, FlipClearsTrigger, FlipTimes, FlipReturns
  <2>2. /\ flip.tgid \in Runs /\ proc[flip.tgid].state = "stopped"
    BY <1>1, <1>3 DEF FlipHolds
  <2>3. \/ MarkFaulty(flip.tgid, TRUE)
        \/ proc' = proc /\ flip'.pc = "cont"
    BY <1>1, <2>1, <2>2 DEF FlipRegister, FlipMemory, FlipGoes, TypeOK, Flip
  <2>4. MarkFaulty(flip.tgid, TRUE) =>
            /\ proc'[flip.tgid].faulty
            /\ \A r \in Runs : proc[r].faulty => proc'[r].faulty
    <3> SUFFICES ASSUME MarkFaulty(flip.tgid, TRUE)
                 PROVE  /\ proc'[flip.tgid].faulty
                        /\ \A r \in Runs :
                                proc[r].faulty => proc'[r].faulty
      OBVIOUS
    <3>1. proc \in [Runs -> Proc]
      BY <1>1 DEF TypeOK
    <3>2. proc'[flip.tgid] = [proc[flip.tgid] EXCEPT
                                  !.faulty = proc[flip.tgid].faulty \/ TRUE]
      BY <2>2, <3>1 DEF MarkFaulty
    <3>3. (proc[flip.tgid].faulty \/ TRUE) = TRUE
      OBVIOUS
    <3>4. proc'[flip.tgid].faulty = TRUE
      <4>1. \A p \in Proc, b \in BOOLEAN : [p EXCEPT !.faulty = b].faulty = b
        BY DEF Proc
      <4>2. proc[flip.tgid] \in Proc
        BY <2>2, <3>1
      <4> QED
        BY <3>2, <3>3, <4>1, <4>2
    <3>5. \A r \in Runs : r # flip.tgid => proc'[r] = proc[r]
      BY <2>2, <3>1 DEF MarkFaulty
    <3> QED
      BY <3>4, <3>5
  <2>5. result' = result
    BY <2>1 DEF FlipRegister, FlipMemory
  <2> QED
    BY <1>3, <2>2, <2>3, <2>4, <2>5 DEF Flipped
<1>4. CASE flip.pc # "flip"
  <2>1. flip'.pc \in {"pin", "report"} => flip.pc = "pin"
    BY <1>4, FlipPath DEF FlipStep
  <2>2. result'.fault_injected = result.fault_injected \/ flip.pc = "report"
    <3>1. result' = result \/ FlipReports \/ FlipTimes
      BY DEF FlipNext, FlipStarts, FlipTriggered, FlipSlept, FlipCollects,
         FlipStops, FlipFindsLeader, FlipWaits, FlipRegister, FlipMemory,
         FlipPins, FlipResumes, FlipClearsTrigger, FlipReturns
    <3>2. FlipTimes => result'.fault_injected = result.fault_injected
      BY <1>1 DEF FlipTimes, TypeOK, Result
    <3> QED
      BY <3>1, <3>2 DEF FlipReports
  <2> QED
    BY <1>2, <1>4, <2>1, <2>2 DEF Flipped
<1> QED
  BY <1>3, <1>4

LEMMA FlipMadeStep ==
  ASSUME Known, FlipMade, [Next]_vars
  PROVE  FlipMade'
<1>1. TypeOK /\ FlipOwned
  BY KnownParts, RunParts
<1>2. CASE UNCHANGED vars \/ Closed
  BY <1>2 DEF vars, Closed, FlipMade
<1>3. CASE FlipNext
  <2>1. FlipMade' = (result'.fault_injected \/ flip'.pc \in {"pin", "report"}
                        => Flipped')
    BY DEF FlipMade, Flipped
  <2>2. result.fault_injected \/ flip.pc \in {"pin", "report"} => Flipped
    BY DEF FlipMade, Flipped
  <2> QED
    BY <1>3, <2>1, <2>2, FlipMarks
<1>4. CASE \/ StartNext \/ KillNext \/ ReleaseNext \/ MonNext \/ WorkNext
           \/ HitNext \/ TargetNext \/ ClientNext
  <2>1. flip'.pc = flip.pc \/ flip'.pc \notin {"pin", "report"}
    <3>1. CASE StartNext
      BY <3>1 DEF StartNext, Exec, MarkRunning, StartMonitor, SetMonitor,
         StartFlip, SetFlip, ArmProbe, Continue, StartFails, NoFlip
    <3>2. CASE MonNext
      BY <1>1, <3>2 DEF MonNext, MonStarts, MonSeesExit, MonSeesStop,
         MonReverts, MonStopsFlip, MonFlipStopped, MonFlushes,
         MonUnregisters, MonPuts, MonPublishes, MonCompletes, MonClears,
         Stopping, TypeOK, Flip
    <3>3. CASE KillNext \/ ReleaseNext
      BY <1>1, <3>3 DEF KillNext, KillReads, KillStops, KillReturns,
         ReleaseNext, ReleaseMonitor, ReleaseFlip, ReleaseFlipStopped,
         ReleaseCancels, ReleaseFlushes, ReleaseUnregisters, ReleasePuts,
         ReleaseFrees, Stopping, TypeOK, Flip
    <3>4. CASE WorkNext \/ HitNext \/ TargetNext \/ ClientNext
      BY <3>4 DEF WorkNext, WorkStarts, WorkUnregisters, WorkPuts, HitNext,
         UprobeHit, TargetNext, TargetStops, TargetKilled, TargetExits,
         TargetCrashes, TargetUnchanged, ClientNext, Send, Receive,
         ReceiveAgain, WaitDone, Kill, Close, vars
    <3> QED
      BY <1>4, <3>1, <3>2, <3>3, <3>4
  <2> QED
    BY <1>1, <1>4, <2>1, OthersFlipNothing DEF FlipMade
<1> QED
  BY <1>2, <1>3, <1>4 DEF Next

-----------------------------------------------------------------------------
(* The refinement.                                                         *)

\* What the mapping tells apart.
LEMMA Stutters ==
  ASSUME ioctl'.sends = ioctl.sends, ioctl'.killed = ioctl.killed,
         ioctl'.client = "failed" <=> ioctl.client = "failed",
         Told' <=> Told, Flipped' <=> Flipped,
         Told => /\ result'.fault_injected = result.fault_injected
                 /\ result'.process_hanged = result.process_hanged
  PROVE  UNCHANGED Abstract!runVars
<1>1. Phase' = Phase
  BY DEF Phase
<1>2. Verdict' = Verdict
  BY DEF Verdict
<1>3. Flipped' = Flipped
  BY DEF Flipped
<1> QED
  BY <1>1, <1>2, <1>3 DEF Abstract!runVars

\* When the client has the verdict, both threads are done.
LEMMA ToldLast ==
  ASSUME Facts, Told
  PROVE  /\ flip.pc = "none" /\ mon.pc \in {"clear", "none"}
         /\ ioctl.client \in {"polling", "got"}
<1>1. Reported => Launched /\ Signalled
  BY DEF Reported, Launched, Signalled
<1> QED
  BY <1>1, KnownParts, RunParts DEF Facts, Told, FlipStopped, Answered,
     FlipWithin, Reported

\* Every step of the bitflip thread flips a bit of the running target, or
\* does not show.
LEMMA FlipRefines ==
  ASSUME Facts, FlipNext
  PROVE  [Abstract!RunNext]_Abstract!runVars
<1>1. Known
  BY DEF Facts
<1>2. ioctl' = ioctl /\ ~Told
  BY <1>1, FlipChanges, ToldLast DEF Aside
<1>3. ~Told'
  BY <1>1, <1>2, FlipChanges DEF Told, Reported, Aside
<1>4. CASE flip.pc # "flip" \/ Flipped
  <2>1. Flipped' <=> Flipped
    BY <1>1, <1>4, FlipMarks DEF Flipped
  <2> QED
    BY <1>2, <1>3, <2>1, Stutters
<1>5. CASE flip.pc = "flip" /\ ~Flipped
  <2>1. ioctl.sends > 0 /\ ioctl.client \notin {"fresh", "failed"}
    BY <1>1, <1>5, KnownParts DEF TriggeredOnly, Unresumed
  <2>2. ioctl.sends \in Nat
    BY <1>1, KnownParts, RunParts, FijAssumption DEF TypeOK, Ioctl, Runs
  <2>3. Phase = "running" /\ Phase' = "running"
    BY <1>2, <1>3, <2>1, <2>2 DEF Phase
  <2>4. Verdict' = Verdict
    BY <1>2, <1>3 DEF Verdict
  <2>5. CASE Flipped'
    <3>1. Flipped' = TRUE
      BY <2>5 DEF Flipped
    <3>2. Abstract!Inject
      BY <1>2, <1>5, <2>3, <2>4, <3>1 DEF Abstract!Inject
    <3> QED
      BY <3>2 DEF Abstract!RunNext
  <2>6. CASE ~Flipped'
    BY <1>2, <1>3, <1>5, <2>6, Stutters
  <2> QED
    BY <2>5, <2>6
<1> QED
  BY <1>4, <1>5

\* The monitor thread reports when it signals the completion.
LEMMA MonRefines ==
  ASSUME Facts, MonNext
  PROVE  [Abstract!RunNext]_Abstract!runVars
<1>1. Known /\ ClosedLast /\ FaultKnown /\ FlipMade
  BY DEF Facts
<1>2. /\ TypeOK /\ NotGivenUp /\ FlipWithin /\ Unresumed /\ Answered
      /\ FlipOwned
  BY <1>1, KnownParts, RunParts
<1>3. /\ ioctl' = ioctl
      /\ ctx'.monitor_done # ctx.monitor_done => mon.pc = "complete"
  BY <1>2, MonKeeps
<1>4. Flipped' <=> Flipped
  BY <1>2, OthersFlipNothing DEF Flipped
<1>5. CASE mon.pc # "complete"
  <2>1. Told' <=> Told
    BY <1>3, <1>5 DEF Told, Reported
  <2>2. Told => result' = result
    <3> SUFFICES ASSUME Told PROVE result' = result
      OBVIOUS
    <3>1. mon.pc \in {"clear", "none"}
      BY ToldLast
    <3> QED
      BY <3>1 DEF MonNext, MonStarts, MonSeesExit, MonSeesStop, MonReverts,
         MonStopsFlip, MonFlipStopped, MonFlushes, MonUnregisters, MonPuts,
         MonPublishes, MonCompletes, MonClears
  <2> QED
    BY <1>3, <1>4, <2>1, <2>2, Stutters
<1>6. CASE mon.pc = "complete"
  <2>1. MonCompletes
    BY <1>6 DEF MonNext, MonStarts, MonSeesExit, MonSeesStop, MonReverts,
       MonStopsFlip, MonFlipStopped, MonFlushes, MonUnregisters, MonPuts,
       MonPublishes, MonClears
  <2>2. ctx'.monitor_done = ctx.monitor_done + 1 /\ result' = result
    BY <1>2, <2>1 DEF MonCompletes, Completed, TypeOK, Ctx
  <2>3. ctx'.monitor_done > 0
    BY <1>2, <2>2 DEF TypeOK, Ctx
  <2>4. ioctl.client = "polling" /\ Launched
    <3>1. ioctl.client \in {"polling", "got"}
      BY <1>1, <1>2, <1>6, Inside DEF Unresumed
    <3>2. ioctl.client = "polling"
      BY <1>2, <1>6, <3>1 DEF Answered
    <3> QED
      BY <1>1, <3>2, Inside DEF ClosedLast
  <2>5. Told'
    BY <1>2, <1>3, <2>3, <2>4 DEF Told, Reported, Launched, NotGivenUp
  <2>6. ~Told
    BY <1>6, ToldLast
  <2>7. ioctl.sends # 0
    BY <2>4, <1>1, KnownParts, RunParts, FijAssumption
       DEF TargetKnown, This, Runs
  <2>8. Phase = "running" /\ Phase' = "reported"
    BY <1>3, <2>4, <2>5, <2>6, <2>7 DEF Phase
  <2>9. flip.pc = "none" /\ ~result.process_hanged
    BY <1>2, <1>6 DEF FlipWithin, NotGivenUp
  <2>10. Flipped <=> result.fault_injected
    BY <1>1, <2>9 DEF FaultKnown, FlipMade, Flipped
  <2>11. Verdict' = [injected |-> result.fault_injected,
                     hanged |-> result.process_hanged]
    BY <2>2, <2>5 DEF Verdict
  <2>12. Verdict' \in Abstract!Verdicts
    BY <1>2, <2>11 DEF Abstract!Verdicts, TypeOK, Result
  <2>13. Flipped' = Flipped
    BY <1>4 DEF Flipped
  <2>14. Abstract!Report
    <3> DEFINE v == [injected |-> result.fault_injected,
                     hanged |-> result.process_hanged]
    <3>1. v \in Abstract!Verdicts /\ v.injected = result.fault_injected
          /\ v.hanged = result.process_hanged
      BY <2>11, <2>12
    <3>2. /\ Flipped => v.injected
          /\ v.injected => Flipped \/ ioctl.killed
          /\ v.hanged => ioctl.killed
      BY <2>9, <2>10, <3>1
    <3> HIDE DEF v
    <3>3. Verdict' = v
      BY <2>11 DEF v
    <3> QED
      BY <1>3, <2>8, <2>13, <3>1, <3>2, <3>3 DEF Abstract!Report
  <2> QED
    BY <2>14 DEF Abstract!RunNext
<1> QED
  BY <1>5, <1>6

\* A run being started shows only when it cannot be.
LEMMA StartRefines ==
  ASSUME Facts, StartNext
  PROVE  [Abstract!RunNext]_Abstract!runVars
<1>1. Known /\ Untouched
  BY DEF Facts
<1>2. TypeOK /\ FlipOwned /\ MonitorKnown
  BY <1>1, KnownParts, RunParts
<1>3. ioctl.client = "fresh" /\ ioctl.sends # 0 /\ ~Told
  BY <1>1, Inside DEF StartNext, Exec, MarkRunning, StartMonitor, SetMonitor,
     StartFlip, SetFlip, ArmProbe, Continue, StartFails, Launching, Untouched,
     Told, Reported
<1>4. Flipped' <=> Flipped
  BY <1>2, OthersFlipNothing DEF Flipped
<1>5. ioctl'.sends = ioctl.sends /\ ioctl'.killed = ioctl.killed
  BY <1>2 DEF StartNext, Exec, MarkRunning, StartMonitor, SetMonitor,
     StartFlip, SetFlip, ArmProbe, Continue, StartFails, IoctlGoes, Returns,
     TypeOK, Ioctl
<1>6. CASE StartFails
  <2>1. ioctl'.client = "failed" /\ ~Told'
    BY <1>2, <1>6 DEF StartFails, Returns, Told, Reported, TypeOK, Ioctl
  <2>2. Phase = "running" /\ Phase' = "failed"
    BY <1>3, <1>5, <2>1 DEF Phase
  <2>3. Verdict' = Verdict /\ Flipped' = Flipped
    BY <1>3, <1>4, <2>1 DEF Verdict, Flipped
  <2>4. Abstract!FailRun
    BY <1>5, <2>2, <2>3 DEF Abstract!FailRun
  <2> QED
    BY <2>4 DEF Abstract!RunNext
<1>7. CASE Continue
  <2>1. /\ ioctl'.client \in {"fresh", "polling"}
        /\ ioctl'.client = "polling" => Found(This)
        /\ ctx' = ctx
    BY <1>2, <1>3, <1>7 DEF Continue, IoctlGoes, TypeOK, Ioctl
  <2>2. ioctl'.client = "polling" => ctx.monitor_done = 0
    BY <1>2, <1>7, <2>1 DEF Continue, MonitorKnown, Launching, Found
  <2>3. ~Told'
    BY <2>1, <2>2 DEF Told, Reported
  <2> QED
    BY <1>3, <1>4, <1>5, <2>1, <2>3, Stutters
<1>8. CASE ~StartFails /\ ~Continue
  <2>1. ioctl'.client = "fresh"
    BY <1>2, <1>3, <1>8 DEF StartNext, Exec, MarkRunning, StartMonitor,
       SetMonitor, StartFlip, SetFlip, ArmProbe, IoctlGoes, TypeOK, Ioctl
  <2>2. ~Told'
    BY <2>1 DEF Told, Reported
  <2> QED
    BY <1>3, <1>4, <1>5, <2>1, <2>2, Stutters
<1> QED
  BY <1>6, <1>7, <1>8

\* The first call starts the run.
LEMMA SendRefines ==
  ASSUME OneRun, Facts, Send
  PROVE  [Abstract!RunNext]_Abstract!runVars
<1>1. Known /\ Untouched
  BY DEF Facts
<1>2. TypeOK /\ FlipOwned /\ NotGivenUp /\ CallKnown
  BY <1>1, KnownParts, RunParts
<1>3. Flipped' <=> Flipped
  BY <1>2, OthersFlipNothing DEF ClientNext, Flipped
<1>4. ioctl.sends = 0
  <2>1. ioctl.sends < 1
    BY DEF Send, OneRun
  <2>2. ioctl.sends \in 1 .. 1 \cup {0}
    BY <1>2 DEF OneRun, TypeOK, Ioctl, Runs
  <2> QED
    BY <2>1, <2>2
<1>5. ioctl.client = "fresh" /\ ~ctx.running
  BY <1>1, <1>4 DEF Untouched
<1>6. /\ ioctl'.sends = 1 /\ ioctl'.client = "fresh"
      /\ ioctl'.killed = FALSE
  <2>1. PICK call \in Calls :
          ioctl' = [ioctl EXCEPT
                      !.pc = IF ctx.running THEN "user" ELSE "exec",
                      !.client = IF ctx.running THEN "failed" ELSE "fresh",
                      !.sends = @ + 1, !.call = call, !.killed = FALSE]
    BY DEF Send
  <2>2. ioctl' = [ioctl EXCEPT !.pc = "exec", !.client = "fresh",
                               !.sends = 1, !.call = call,
                               !.killed = FALSE]
    BY <1>4, <1>5, <2>1
  <2> QED
    BY <1>2, <2>2 DEF TypeOK, Ioctl
<1>7. ~Told /\ ~Told'
  BY <1>5, <1>6 DEF Told, Reported
<1>8. Phase = "idle" /\ Phase' = "running"
  BY <1>4, <1>5, <1>6, <1>7 DEF Phase
<1>9. Verdict' = Verdict /\ Flipped' = Flipped
  BY <1>3, <1>7 DEF Verdict, Flipped
<1>10. ioctl'.killed = ioctl.killed
  BY <1>2, <1>6 DEF NotGivenUp, TypeOK, Ioctl
<1>11. Abstract!StartRun
  BY <1>8, <1>9, <1>10 DEF Abstract!StartRun
<1> QED
  BY <1>11 DEF Abstract!RunNext

\* The other calls, the worker, the probe and the target do not show, on
\* which run they may be.
LEMMA OthersRefine ==
  ASSUME OneRun, RunInv,
         \/ Receive \/ ReceiveAgain \/ WaitDone \/ Close \/ Closed
         \/ WorkNext \/ HitNext \/ TargetNext \/ UNCHANGED vars
  PROVE  [Abstract!RunNext]_Abstract!runVars
<1>1. TypeOK /\ FlipOwned /\ CallKnown
  BY RunParts
<1>2. CASE Receive \/ WaitDone
  <2>1. /\ ioctl.client = "polling" /\ ioctl.pc \in {"user", "wait"}
        /\ ctx.monitor_done > 0
    BY <1>1, <1>2 DEF Receive, WaitDone, CompletionDone, Awaited, Outside,
       CallKnown, OneRun, Calm
  <2>2. /\ ioctl'.client = "got" /\ ioctl'.sends = ioctl.sends
        /\ ioctl'.killed = ioctl.killed /\ result' = result
    BY <1>1, <1>2 DEF Receive, WaitDone, Returns, OneRun, Calm, TypeOK, Ioctl
  <2>3. Told /\ Told'
    BY <2>1, <2>2 DEF Told, Reported
  <2>4. Flipped' <=> Flipped
    BY <1>1, <1>2, OthersFlipNothing DEF ClientNext, Flipped
  <2> QED
    BY <2>1, <2>2, <2>3, <2>4, Stutters
<1>3. CASE Close
  <2>1. /\ ioctl.client \in {"got", "failed"} /\ ioctl'.client = ioctl.client
        /\ ioctl'.sends = ioctl.sends /\ ioctl'.killed = ioctl.killed
        /\ result' = result
    BY <1>1, <1>3 DEF Close, IoctlGoes, OneRun, TypeOK, Ioctl
  <2>2. Told' <=> Told
    BY <2>1 DEF Told, Reported
  <2>3. Flipped' <=> Flipped
    BY <1>1, <1>3, OthersFlipNothing DEF ClientNext, Flipped
  <2> QED
    BY <2>1, <2>2, <2>3, Stutters
<1>4. CASE ReceiveAgain \/ Closed \/ UNCHANGED vars
  <2>1. UNCHANGED <<ctx, result, proc, ioctl>>
    BY <1>4 DEF ReceiveAgain, Closed, vars
  <2> QED
    BY <2>1, Stutters DEF Told, Reported, Flipped
<1>5. CASE WorkNext \/ HitNext \/ TargetNext
  <2>1. Aside
    BY <1>1, <1>5, WorkAside, TargetAside
  <2>2. Told' <=> Told
    BY <2>1 DEF Aside, Told, Reported
  <2>3. /\ Flipped' <=> Flipped
        /\ result'.fault_injected = result.fault_injected
    BY <1>1, <1>5, OthersFlipNothing DEF Flipped
  <2> QED
    BY <2>1, <2>2, <2>3, Stutters DEF Aside
<1> QED
  BY <1>2, <1>3, <1>4, <1>5

\* Nor does the release, of a run that was reported or could not be started.
LEMMA ReleaseRefines ==
  ASSUME RunInv, ReleaseNext, ioctl.client \in {"got", "failed"}
  PROVE  [Abstract!RunNext]_Abstract!runVars
<1>1. TypeOK /\ FlipOwned
  BY RunParts
<1>2. /\ ioctl'.client = ioctl.client
      /\ ioctl'.sends = ioctl.sends /\ ioctl'.killed = ioctl.killed
      /\ result' = result
  BY <1>1 DEF ReleaseNext, ReleaseMonitor, ReleaseFlip, ReleaseFlipStopped,
     ReleaseCancels, ReleaseFlushes, ReleaseUnregisters, ReleasePuts,
     ReleaseFrees, IoctlGoes, TypeOK, Ioctl
<1>3. Told' <=> Told
  BY <1>2 DEF Told, Reported
<1>4. Flipped' <=> Flipped
  BY <1>1, OthersFlipNothing DEF Flipped
<1> QED
  BY <1>2, <1>3, <1>4, Stutters

\* Until the client gives up, every step of the driver is a step of FijRun,
\* or none.
LEMMA StepRefines ==
  ASSUME OneRun, Facts, [Next]_vars, ~Kill
  PROVE  [Abstract!RunNext]_Abstract!runVars
<1>1. Known /\ ClosedLast /\ RunInv
  BY KnownParts DEF Facts
<1>2. NotGivenUp
  BY <1>1, KnownParts
<1>3. ~KillNext
  BY <1>2 DEF NotGivenUp, KillNext, KillReads, KillStops, KillReturns
<1>4. CASE ReleaseNext
  <2>1. Closing
    BY <1>4 DEF ReleaseNext, ReleaseMonitor, ReleaseFlip, ReleaseFlipStopped,
       ReleaseCancels, ReleaseFlushes, ReleaseUnregisters, ReleasePuts,
       ReleaseFrees, Closing, Released
  <2> QED
    BY <1>1, <1>4, <2>1, ReleaseRefines DEF ClosedLast
<1> QED
  BY <1>1, <1>3, <1>4, StartRefines, SendRefines, OthersRefine, FlipRefines,
     MonRefines DEF Next, ClientNext

-----------------------------------------------------------------------------
(* The client gives up.                                                    *)

\* A run is no longer running when it is about to be completed.
LEMMA DoneStep ==
  ASSUME RunInv, DoneKnown, [Next]_vars
  PROVE  DoneKnown'
<1>1. TypeOK /\ CallKnown /\ TargetKnown /\ MonitorKnown
  BY RunParts
<1>2. CASE \/ FlipNext \/ WorkNext \/ HitNext \/ TargetNext \/ Closed
           \/ ReceiveAgain \/ UNCHANGED vars
  <2>1. /\ UNCHANGED <<ioctl, mon>>
        /\ ctx'.monitor_done = ctx.monitor_done
    BY <1>1, <1>2, FlipAside, WorkAside, TargetAside
       DEF Aside, Closed, ReceiveAgain, vars
  <2>2. Launched' = Launched /\ Signalled' = Signalled
    BY <2>1 DEF Launched, Signalled
  <2>3. ~MarkRunning
    BY <1>1, <2>1 DEF MarkRunning, IoctlGoes, TypeOK, Ioctl
  <2> QED
    BY <1>1, <2>1, <2>2, <2>3, RunningStays DEF DoneKnown
<1>3. CASE MonNext
  <2>1. /\ ioctl' = ioctl
        /\ ctx'.monitor_done # ctx.monitor_done => mon.pc = "complete"
    BY <1>1, <1>3, MonKeeps
  <2>2. Launched' = Launched /\ ~MarkRunning
    BY <1>1, <2>1 DEF Launched, MarkRunning, IoctlGoes, TypeOK, Ioctl
  <2>3. Signalled' => Signalled \/ (Launched /\ mon.pc = "complete")
    BY <2>1, <2>2 DEF Signalled
  <2>4. mon'.pc = "complete" => ~ctx'.running
    <3> SUFFICES ASSUME mon'.pc = "complete" PROVE ~ctx'.running
      OBVIOUS
    <3>1. ~MonStarts /\ ~MonSeesExit /\ ~MonSeesStop
      <4>1. ~MonStarts
        BY <1>1 DEF MonStarts, NoMon, TypeOK, Mon
      <4>2. ~MonSeesExit
        BY <1>1 DEF MonSeesExit, TypeOK, Mon
      <4>3. ~MonSeesStop
        BY <1>1 DEF MonSeesStop, TypeOK, Mon
      <4> QED
        BY <4>1, <4>2, <4>3
    <3>2. ~MonReverts /\ ~MonStopsFlip /\ ~MonFlipStopped
      BY <1>1 DEF MonReverts, MonStopsFlip, MonFlipStopped, MonGoes, TypeOK,
         Mon
    <3>3. ~MonFlushes /\ ~MonUnregisters /\ ~MonPuts
      BY <1>1 DEF MonFlushes, MonUnregisters, MonPuts, MonGoes, TypeOK, Mon
    <3>4. ~MonCompletes /\ ~MonClears
      BY <1>1 DEF MonCompletes, MonClears, MonGoes, NoMon, TypeOK, Mon
    <3>5. MonPublishes => ~ctx'.running
      BY <1>1 DEF MonPublishes, TypeOK, Ctx
    <3> QED
      BY <1>3, <3>1, <3>2, <3>3, <3>4, <3>5 DEF MonNext
  <2>5. ctx'.running => ctx.running
    BY <1>1, <2>2, RunningStays
  <2> QED
    BY <2>3, <2>4, <2>5 DEF DoneKnown
<1>4. CASE Send \/ Close \/ ReleaseNext
  <2>1. Send => ioctl'.client \in {"fresh", "failed"}
    BY <1>1 DEF Send, TypeOK, Ioctl
  <2>2. Close \/ ReleaseNext =>
            ioctl'.pc \in {"relMon", "relFlip", "relFlipWait", "relCancel",
                           "relFlush", "relUnreg", "relIput", "relFree",
                           "closed"}
    BY <1>1 DEF Close, ReleaseNext, ReleaseMonitor, ReleaseFlip,
       ReleaseFlipStopped, ReleaseCancels, ReleaseFlushes,
       ReleaseUnregisters, ReleasePuts, ReleaseFrees, IoctlGoes, TypeOK, Ioctl
  <2> QED
    BY <1>4, <2>1, <2>2 DEF DoneKnown, Signalled, Launched
<1>5. CASE Receive \/ WaitDone \/ Kill \/ KillNext
  <2>1. /\ Launched' => Launched
        /\ mon'.pc = mon.pc
    BY <1>1, <1>5 DEF Receive, WaitDone, Kill, KillNext, KillReads, KillStops,
       KillReturns, Returns, IoctlGoes, Outside, Stopping, Launched,
       CallKnown, TypeOK, Ioctl, Mon
  <2>2. Signalled' => Signalled
    <3>1. CASE Receive \/ WaitDone
      BY <1>1, <3>1 DEF Receive, WaitDone, CompletionDone, Awaited, Returns,
         Outside, Launched, Signalled, CallKnown, TypeOK, Ioctl
    <3>2. CASE Kill \/ KillNext
      <4>1. /\ ctx'.monitor_done = ctx.monitor_done
            /\ ioctl'.client = ioctl.client
        BY <1>1, <3>2 DEF Kill, KillNext, KillReads, KillStops, KillReturns,
           IoctlGoes, TypeOK, Ioctl, Ctx
      <4> QED
        BY <2>1, <4>1 DEF Signalled
    <3> QED
      BY <1>5, <3>1, <3>2
  <2>3. ~MarkRunning
    BY <1>1, <1>5 DEF Receive, WaitDone, Kill, KillNext, KillReads, KillStops,
       KillReturns, Outside, MarkRunning
  <2> QED
    BY <1>1, <2>1, <2>2, <2>3, RunningStays DEF DoneKnown
<1>6. CASE StartNext
  <2>1. CASE Continue
    <3>1. Launched' => Found(This) /\ UNCHANGED <<ctx, mon>>
      BY <1>1, <2>1 DEF Continue, IoctlGoes, Launched, CallKnown, TypeOK,
         Ioctl
    <3>2. Launched' => /\ ctx.monitor_done = 0 /\ mon'.pc # "complete"
                       /\ ioctl'.client = "polling"
      BY <1>1, <2>1, <3>1 DEF Continue, IoctlGoes, Launched, CallKnown,
         MonitorKnown, Launching, Found, TypeOK, Ioctl
    <3> QED
      BY <3>1, <3>2 DEF DoneKnown, Signalled
  <2>2. CASE ~Continue
    <3>1. ioctl'.client \in {"fresh", "failed"}
      BY <1>1, <1>6, <2>2 DEF StartNext, Exec, MarkRunning, StartMonitor,
         SetMonitor, StartFlip, SetFlip, ArmProbe, StartFails, Returns,
         IoctlGoes, CallKnown, Launching, TypeOK, Ioctl
    <3> QED
      BY <3>1 DEF DoneKnown, Signalled, Launched
  <2> QED
    BY <2>1, <2>2
<1> QED
  BY <1>2, <1>3, <1>4, <1>5, <1>6 DEF Next, ClientNext

\* KILL_TARGET is the client's giving up, and changes nothing else that
\* shows: it is refused when the completion is signalled.
LEMMA KillRefines ==
  ASSUME RunInv, DoneKnown, Kill
  PROVE  /\ [Abstract!RunNext]_Abstract!runVars
         /\ ioctl'.killed /\ GivenUp'
<1>1. TypeOK /\ FlipOwned /\ TargetKnown
  BY RunParts
<1>2. /\ ioctl.pc = "user" /\ ioctl.client = "polling"
      /\ ioctl'.client = "polling" /\ ioctl'.sends = ioctl.sends
      /\ ioctl'.pc \in {"user", "killRead"}
      /\ ioctl.killed = FALSE /\ ioctl'.killed = TRUE
      /\ ioctl'.pc # "user" => ctx.running
      /\ result' = result
      /\ ctx'.monitor_done = ctx.monitor_done
  BY <1>1 DEF Kill, Outside, TypeOK, Ioctl, Ctx
<1>3. ioctl.sends > 0
  BY <1>1, <1>2 DEF TargetKnown, Launched, This, Runs
<1>4. Told' <=> Told
  <2>1. Signalled => ioctl'.pc = "user"
    BY <1>2 DEF DoneKnown
  <2> QED
    BY <1>2, <2>1 DEF Signalled, Launched, Told, Reported
<1>5. Flipped' = Flipped
  <2>1. Flipped' <=> Flipped
    BY <1>1, OthersFlipNothing DEF ClientNext, Flipped
  <2> QED
    BY <2>1 DEF Flipped
<1>6. Phase' = Phase /\ Verdict' = Verdict
  BY <1>2, <1>4 DEF Phase, Verdict
<1>7. Abstract!GiveUp
  BY <1>2, <1>5, <1>6 DEF Abstract!GiveUp
<1>8. GivenUp'
  BY <1>2, <1>3 DEF GivenUp, Closing, Released
<1> QED
  BY <1>2, <1>7, <1>8 DEF Abstract!RunNext

\* The client then waits for the result, and closes the file.
LEMMA GivenUpStep ==
  ASSUME OneRun, RunInv, GivenUp, ioctl.killed, [Next]_vars
  PROVE  /\ ioctl'.killed = ioctl.killed /\ GivenUp'
         /\ ~StartNext /\ ~Send /\ ~Kill
<1>1. TypeOK /\ CallKnown /\ FlipStopped
  BY RunParts
<1>2. ~StartNext /\ ~Send /\ ~Kill
  <2>1. ~StartNext
    BY <1>1 DEF GivenUp, CallKnown, Launching, StartNext, Exec, MarkRunning,
       StartMonitor, SetMonitor, StartFlip, SetFlip, ArmProbe, Continue,
       StartFails
  <2>2. ~Send
    <3>1. ioctl.sends \in 1 .. 1 \cup {0} /\ ioctl.sends > 0
      BY <1>1 DEF GivenUp, OneRun, TypeOK, Ioctl, Runs
    <3>2. ~(ioctl.sends < MaxSends)
      BY <3>1 DEF OneRun
    <3> QED
      BY <3>2 DEF Send
  <2> QED
    BY <2>1, <2>2 DEF Kill
<1> SUFFICES ioctl'.killed = ioctl.killed /\ GivenUp'
  BY <1>2
<1>3. CASE FlipNext \/ WorkNext \/ HitNext \/ TargetNext
  <2>1. Aside
    BY <1>1, <1>3, FlipAside, WorkAside, TargetAside
  <2> QED
    BY <2>1 DEF Aside, GivenUp, Closing, Released
<1>4. CASE ReceiveAgain \/ Closed \/ UNCHANGED vars
  BY <1>4 DEF ReceiveAgain, Closed, vars, GivenUp, Closing, Released
<1>5. CASE MonNext
  <2>1. ioctl' = ioctl
    BY <1>1, <1>5, MonKeeps
  <2>2. flip'.pc = flip.pc
    BY <1>1, <1>5 DEF MonNext, MonStarts, MonSeesExit, MonSeesStop,
       MonReverts, MonStopsFlip, MonFlipStopped, MonFlushes, MonUnregisters,
       MonPuts, MonPublishes, MonCompletes, MonClears, Stopping, TypeOK, Flip
  <2>3. mon.pc \in {"clear", "none"} => mon'.pc = "none"
    BY <1>5 DEF MonNext, MonStarts, MonSeesExit, MonSeesStop, MonReverts,
       MonStopsFlip, MonFlipStopped, MonFlushes, MonUnregisters, MonPuts,
       MonPublishes, MonCompletes, MonClears, NoMon
  <2> QED
    BY <2>1, <2>2, <2>3 DEF GivenUp, Closing, Released
<1>6. CASE Receive \/ WaitDone
  <2>1. /\ ioctl'.client = "got" /\ ioctl'.sends = ioctl.sends
        /\ ioctl'.killed = ioctl.killed /\ ioctl'.pc = "user"
        /\ UNCHANGED <<mon, flip>>
    BY <1>1, <1>6 DEF Receive, WaitDone, Returns, OneRun, Calm, TypeOK, Ioctl
  <2>2. Signalled
    BY <1>1, <1>6 DEF Receive, WaitDone, CompletionDone, Awaited, Outside,
       CallKnown, OneRun, Calm, Signalled, Launched
  <2> QED
    BY <1>1, <2>1, <2>2 DEF FlipStopped, GivenUp, Closing, Released
<1>7. CASE Close
  <2>1. /\ ioctl'.client = ioctl.client /\ ioctl'.sends = ioctl.sends
        /\ ioctl'.killed = ioctl.killed
        /\ ioctl.client \in {"got", "failed"}
        /\ UNCHANGED <<mon, flip>>
    BY <1>1, <1>7 DEF Close, IoctlGoes, OneRun, TypeOK, Ioctl
  <2> QED
    BY <2>1 DEF GivenUp
<1>8. CASE KillNext
  <2>1. /\ ioctl'.client = "polling" /\ ioctl'.sends = ioctl.sends
        /\ ioctl'.killed = ioctl.killed
        /\ ioctl'.pc \in {"killStop", "killWait", "user"}
    BY <1>1, <1>8 DEF KillNext, KillReads, KillStops, KillReturns, IoctlGoes,
       CallKnown, TypeOK, Ioctl
  <2> QED
    BY <2>1 DEF GivenUp, Closing, Released
<1>9. CASE ReleaseNext
  <2>1. /\ Closing /\ ioctl'.client = ioctl.client
        /\ ioctl'.sends = ioctl.sends /\ ioctl'.killed = ioctl.killed
        /\ mon' = mon /\ flip'.pc = flip.pc
    BY <1>1, <1>9 DEF ReleaseNext, ReleaseMonitor, ReleaseFlip,
       ReleaseFlipStopped, ReleaseCancels, ReleaseFlushes,
       ReleaseUnregisters, ReleasePuts, ReleaseFrees, IoctlGoes, Stopping,
       TypeOK, Ioctl, Flip, Closing, Released
  <2> QED
    BY <2>1 DEF GivenUp
<1> QED
  BY <1>2, <1>3, <1>4, <1>5, <1>6, <1>7, <1>8, <1>9 DEF Next, ClientNext

\* A flip is not undone.
LEMMA FlipsLast ==
  ASSUME TypeOK, FlipNext, Flipped
  PROVE  Flipped'
<1>1. PICK r \in Runs : proc[r].faulty
  BY DEF Flipped
<1>2. proc \in [Runs -> Proc] /\ proc[r] \in Proc
  BY DEF TypeOK
<1>3. \/ proc' = proc
      \/ \E s : proc' = SetState(flip.tgid, s)
      \/ \E lands \in BOOLEAN : MarkFaulty(flip.tgid, lands)
  BY DEF FlipNext, FlipStarts, FlipTriggered, FlipSlept, FlipCollects,
     FlipStops, FlipFindsLeader, FlipWaits, FlipRegister, FlipMemory,
     FlipPins, FlipReports, FlipResumes, FlipClearsTrigger, FlipTimes,
     FlipReturns, Sigstop
<1>4. ASSUME NEW s, proc' = SetState(flip.tgid, s)
      PROVE  proc'[r].faulty
  BY <1>1, <1>2, <1>4 DEF SetState, Proc
<1>5. ASSUME NEW lands \in BOOLEAN, MarkFaulty(flip.tgid, lands)
      PROVE  proc'[r].faulty
  <2>1. CASE r # flip.tgid
    BY <1>1, <1>2, <1>5, <2>1 DEF MarkFaulty
  <2>2. CASE r = flip.tgid
    <3>1. proc'[r] = [proc[r] EXCEPT !.faulty = proc[r].faulty \/ lands]
      BY <1>2, <1>5, <2>2 DEF MarkFaulty
    <3>2. (proc[r].faulty \/ lands) = TRUE
      BY <1>1
    <3>3. \A p \in Proc, b \in BOOLEAN : [p EXCEPT !.faulty = b].faulty = b
      BY DEF Proc
    <3> QED
      BY <1>2, <3>1, <3>2, <3>3
  <2> QED
    BY <2>1, <2>2
<1>6. proc'[r].faulty
  BY <1>1, <1>3, <1>4, <1>5
<1> QED
  BY <1>6 DEF Flipped

\* A run the client gave up on and has been told of is over, too.
LEMMA GivenUpToldLast ==
  ASSUME RunInv, GivenUp, Told
  PROVE  flip.pc = "none" /\ mon.pc \in {"clear", "none"}
<1>1. Reported => Launched /\ Signalled
  BY DEF Reported, Launched, Signalled
<1> QED
  BY <1>1, RunParts DEF Told, FlipStopped, GivenUp

\* A step that tells the client of such a run tells it of the flip there was.
LEMMA GivenUpReports ==
  ASSUME RunInv, FaultKnown, GivenUp, ioctl'.killed = ioctl.killed,
         ioctl.killed, flip.pc = "none", ~Told, Told', result' = result,
         ioctl'.sends = ioctl.sends, ioctl'.client = ioctl.client,
         Flipped' <=> Flipped
  PROVE  Abstract!Report
<1>1. TypeOK
  BY RunParts
<1>2. Phase = "running" /\ Phase' = "reported"
  <2>1. ioctl.sends # 0 /\ ioctl.client # "failed"
    BY <1>1, FijAssumption DEF GivenUp, TypeOK, Ioctl, Runs
  <2> QED
    BY <2>1 DEF Phase
<1>3. Flipped => result.fault_injected
  BY DEF FaultKnown, Flipped
<1>4. Flipped' = Flipped
  BY DEF Flipped
<1> DEFINE v == [injected |-> result.fault_injected,
                 hanged |-> result.process_hanged]
<1>5. /\ v \in Abstract!Verdicts /\ v.injected = result.fault_injected
      /\ Verdict' = v
  BY <1>1 DEF Verdict, Abstract!Verdicts, TypeOK, Result
<1> HIDE DEF v
<1> QED
  BY <1>2, <1>3, <1>4, <1>5 DEF Abstract!Report

\* From then on every step is a step of FijRun, or none.
LEMMA GivenUpRefines ==
  ASSUME OneRun, RunInv, FaultKnown, GivenUp, ioctl.killed, [Next]_vars
  PROVE  [Abstract!RunNext]_Abstract!runVars
<1>1. TypeOK /\ FlipOwned /\ CallKnown /\ FlipStopped
  BY RunParts
<1>2. /\ ioctl'.killed = ioctl.killed /\ GivenUp'
      /\ ~StartNext /\ ~Send /\ ~Kill
  BY GivenUpStep
<1>3. CASE FlipNext
  <2>1. /\ ioctl' = ioctl /\ ctx'.monitor_done = ctx.monitor_done
        /\ flip.pc # "none"
    BY <1>1, <1>3, FlipAside DEF Aside
  <2>2. ~Told /\ ~Told'
    BY <2>1, GivenUpToldLast DEF Told, Reported
  <2>3. CASE Flipped' <=> Flipped
    BY <2>1, <2>2, <2>3, Stutters
  <2>4. CASE ~(Flipped' <=> Flipped)
    <3>1. Flipped' = TRUE /\ ~Flipped
      BY <1>1, <1>3, <2>4, FlipsLast DEF Flipped
    <3>2. ioctl.sends # 0 /\ ioctl.client # "failed"
      BY <1>1, FijAssumption DEF GivenUp, TypeOK, Ioctl, Runs
    <3>3. Phase = "running" /\ Phase' = "running" /\ Verdict' = Verdict
      BY <2>1, <2>2, <3>2 DEF Phase, Verdict
    <3>4. Abstract!Inject
      BY <2>1, <3>1, <3>3 DEF Abstract!Inject
    <3> QED
      BY <3>4 DEF Abstract!RunNext
  <2> QED
    BY <2>3, <2>4
<1>4. CASE MonNext
  <2>1. /\ ioctl' = ioctl
        /\ ctx'.monitor_done # ctx.monitor_done => mon.pc = "complete"
    BY <1>1, <1>4, MonKeeps
  <2>2. Flipped' <=> Flipped
    BY <1>1, <1>4, OthersFlipNothing DEF Flipped
  <2>3. CASE mon.pc # "complete"
    <3>1. Told' <=> Told
      BY <2>1, <2>3 DEF Told, Reported
    <3>2. mon.pc \in {"clear", "none"} => result' = result
      BY <1>4 DEF MonNext, MonStarts, MonSeesExit, MonSeesStop, MonReverts,
         MonStopsFlip, MonFlipStopped, MonFlushes, MonUnregisters, MonPuts,
         MonPublishes, MonCompletes, MonClears
    <3> QED
      BY <2>1, <2>2, <3>1, <3>2, GivenUpToldLast, Stutters
  <2>4. CASE mon.pc = "complete"
    <3>1. ~Told /\ result' = result
      BY <1>4, <2>4, GivenUpToldLast DEF MonNext, MonStarts, MonSeesExit,
         MonSeesStop, MonReverts, MonStopsFlip, MonFlipStopped, MonFlushes,
         MonUnregisters, MonPuts, MonPublishes, MonCompletes, MonClears
    <3>2. CASE Told'
      <4>1. ioctl.client = "polling" /\ ioctl.pc \in {"user", "wait"}
        BY <2>1, <2>4, <3>2 DEF Told, Reported, GivenUp
      <4>2. flip.pc = "none"
        BY <1>1, <2>4, <4>1 DEF FlipStopped, Launched
      <4>3. Abstract!Report
        BY <1>2, <2>1, <2>2, <3>1, <3>2, <4>2, GivenUpReports
      <4> QED
        BY <4>3 DEF Abstract!RunNext
    <3>3. CASE ~Told'
      BY <2>1, <2>2, <3>1, <3>3, Stutters
    <3> QED
      BY <3>2, <3>3
  <2> QED
    BY <2>3, <2>4
<1>5. CASE KillNext
  <2>1. /\ ioctl.client = "polling" /\ ioctl'.client = ioctl.client
        /\ ioctl'.sends = ioctl.sends
        /\ ioctl.pc \in {"killRead", "killStop", "killWait"}
        /\ UNCHANGED <<ctx, result>>
    BY <1>1, <1>5 DEF KillNext, KillReads, KillStops, KillReturns, IoctlGoes,
       CallKnown, TypeOK, Ioctl
  <2>2. Flipped' <=> Flipped
    BY <1>1, <1>5, OthersFlipNothing DEF Flipped
  <2>3. ~Told
    BY <2>1 DEF Told, Reported
  <2>4. CASE Told'
    <3>1. flip.pc = "none"
      BY <1>1, <2>1, <2>4 DEF Told, Reported, FlipStopped, Signalled, Launched
    <3>2. Abstract!Report
      BY <1>2, <2>1, <2>2, <2>3, <2>4, <3>1, GivenUpReports
    <3> QED
      BY <3>2 DEF Abstract!RunNext
  <2>5. CASE ~Told'
    BY <1>2, <2>1, <2>2, <2>3, <2>5, Stutters
  <2> QED
    BY <2>4, <2>5
<1>6. CASE ReleaseNext
  <2>1. Closing
    BY <1>6 DEF ReleaseNext, ReleaseMonitor, ReleaseFlip, ReleaseFlipStopped,
       ReleaseCancels, ReleaseFlushes, ReleaseUnregisters, ReleasePuts,
       ReleaseFrees, Closing, Released
  <2> QED
    BY <1>6, <2>1, ReleaseRefines DEF GivenUp
<1> QED
  BY <1>2, <1>3, <1>4, <1>5, <1>6, OthersRefine DEF Next, ClientNext

-----------------------------------------------------------------------------
(* The whole run.                                                          *)

LEMMA InitOneRun == Init => OneRunInv /\ Abstract!RunInit
<1> SUFFICES ASSUME Init PROVE OneRunInv /\ Abstract!RunInit
  OBVIOUS
<1>1. /\ ioctl.sends = 0 /\ ioctl.client = "fresh" /\ ioctl.killed = FALSE
      /\ ~Told /\ Flipped = FALSE /\ ~Launched /\ ~Closing /\ ctx.allocated
      /\ ioctl.pc = "user"
  BY DEF Init, Told, Reported, Flipped, NoProc, Launched, Closing, Released,
     FreshCtx
<1>2. OneRunInv
  BY <1>1, InitFault, InitUntouched, InitQuiet
     DEF OneRunInv, DoneKnown, Signalled, ClosedLast
<1>3. Abstract!RunInit
  BY <1>1 DEF Abstract!RunInit, Phase, Verdict, Abstract!NoVerdict
<1> QED
  BY <1>2, <1>3

\* QuietInv holds until the client gives up, and GivenUp from then on.
LEMMA OneRunStep ==
  ASSUME OneRun, RunInv, ExitKnown, ProbeKnown, OneRunInv, [Next]_vars
  PROVE  OneRunInv' /\ [Abstract!RunNext]_Abstract!runVars
<1>1. Untouched /\ FaultKnown /\ DoneKnown
  BY DEF OneRunInv
<1>2. FaultKnown' /\ DoneKnown'
  BY <1>1, FaultStep, DoneStep DEF OneRun
<1>3. CASE ioctl.killed
  <2>1. GivenUp
    BY <1>3 DEF OneRunInv
  <2>2. ioctl'.killed = ioctl.killed /\ GivenUp'
    BY <1>3, <2>1, GivenUpStep
  <2>3. Untouched'
    BY <2>2 DEF GivenUp, Untouched
  <2>4. OneRunInv'
    BY <1>2, <1>3, <2>2, <2>3 DEF OneRunInv
  <2> QED
    BY <1>1, <1>3, <2>1, <2>4, GivenUpRefines
<1>4. CASE ~ioctl.killed
  <2>1. Known /\ ClosedLast /\ FlipMade /\ Facts
    BY <1>1, <1>4 DEF OneRunInv, Known, Facts
  <2>2. ClosedLast' /\ Untouched' /\ FlipMade'
    BY <1>1, <2>1, ClosedStep, UntouchedStep, FlipMadeStep DEF OneRun
  <2>3. CASE Kill
    <3>1. /\ [Abstract!RunNext]_Abstract!runVars
          /\ ioctl'.killed /\ GivenUp'
      BY <1>1, <2>3, KillRefines
    <3>2. OneRunInv'
      BY <1>2, <2>2, <3>1 DEF OneRunInv
    <3> QED
      BY <3>1, <3>2
  <2>4. CASE ~Kill
    <3>1. QuietInv'
      BY <2>1, <2>4, QuietStep DEF OneRun
    <3>2. ~ioctl'.killed
      BY <3>1 DEF QuietInv, NotGivenUp
    <3>3. OneRunInv'
      BY <1>2, <2>2, <3>1, <3>2 DEF OneRunInv
    <3> QED
      BY <2>1, <2>4, <3>3, StepRefines
  <2> QED
    BY <2>3, <2>4
<1> QED
  BY <1>3, <1>4

\* What the driver promises the client, but for its liveness: the verdict is
\* given once and does not change; it tells of a flip if there was one, and
\* of one that was not made, or of a hang, only after the client gave up.
THEOREM DriverKeepsPromise ==
  ASSUME OneRun
  PROVE  Safe => Abstract!RunSafe
<1>1. Init => ProbeKnown /\ OneRunInv /\ Abstract!RunInit
  BY InitProbe, InitOneRun
<1>2. /\ RunInv /\ RunInv' /\ ExitKnown /\ ProbeKnown /\ OneRunInv
      /\ [Next]_vars
      => ProbeKnown' /\ OneRunInv' /\ [Abstract!RunNext]_Abstract!runVars
  <2> SUFFICES ASSUME RunInv, RunInv', ExitKnown, ProbeKnown, OneRunInv,
                      [Next]_vars
               PROVE  /\ ProbeKnown' /\ OneRunInv'
                      /\ [Abstract!RunNext]_Abstract!runVars
    OBVIOUS
  <2>1. \A p, q \in ParamSet : p.target_pc_present = q.target_pc_present
    <3>1. \A p \in ParamSet : p.target_pc_present \in BOOLEAN
      BY FijAssumption DEF Params
    <3> QED
      BY <3>1 DEF OneRun, Calm
  <2>2. ProbeKnown'
    BY <2>1, ProbeStep
  <2> QED
    BY <2>2, OneRunStep
<1> QED
  BY <1>1, <1>2, VerdictKnown, PTL DEF Safe, Abstract!RunSafe
=============================================================================
