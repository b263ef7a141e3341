--------------------------- MODULE FijReportProofs ---------------------------
(***************************************************************************)
(* What the client may rely on when its run is reported, for every value   *)
(* of the constants: any number of runs on a file, any parameters, any set *)
(* of faults, a client that kills and closes whenever it likes.            *)
(*                                                                         *)
(* RunInv says how far the run is; ExitKnown, KillKnown, IterationKnown,   *)
(* StopKnown and FaultKnown say, on top of it, what has become of the      *)
(* target and what the result will hold.                                   *)
(***************************************************************************)
EXTENDS FijModuleProofs

-----------------------------------------------------------------------------
(* What the steps that belong to no call of the client leave alone.        *)

\* A process that ended stays as it ended, one that has not begun does not
\* begin, and who was killed by KILL_TARGET is remembered.
Lasting(r) ==
    /\ proc[r].state # "none" => proc'[r].state # "none"
    /\ proc[r].state \in {"none", "dead"} =>
            /\ proc'[r].state = proc[r].state
            /\ proc'[r].exit_code = proc[r].exit_code
    /\ proc[r].sigkilled => proc'[r].sigkilled

\* A step after which the client's call, the monitor thread, its verdict and
\* what the context says of both are the same, and no bitflip thread has
\* come.
Aside ==
    /\ UNCHANGED <<ioctl, mon>>
    /\ ctx'.monitor_done = ctx.monitor_done
    /\ ctx'.target_tgid = ctx.target_tgid
    /\ result'.iteration = result.iteration
    /\ result'.exit_code = result.exit_code
    /\ result'.process_hanged = result.process_hanged
    /\ flip.pc = "none" => flip'.pc = "none"
    /\ \A r \in Runs : Lasting(r)

\* A signal revives nobody and creates nobody.
LEMMA SignalLasts ==
  ASSUME TypeOK, NEW p, NEW s \in ProcStates, proc' = SetState(p, s),
         p \in Runs /\ proc[p].state \in {"none", "dead"} =>
            s = proc[p].state,
         p \in Runs /\ proc[p].state # "none" => s # "none"
  PROVE  \A r \in Runs : Lasting(r)
<1> TAKE r \in Runs
<1>1. proc \in [Runs -> Proc]
  BY DEF TypeOK
<1>2. CASE r = p
  <2>1. /\ proc'[r].state = s
        /\ proc'[r].exit_code = proc[r].exit_code
        /\ proc'[r].sigkilled = proc[r].sigkilled
    BY <1>1, <1>2 DEF SetState, Proc
  <2> QED
    BY <1>2, <2>1 DEF Lasting
<1>3. CASE r # p
  <2>1. proc'[r] = proc[r]
    BY <1>1, <1>3 DEF SetState
  <2> QED
    BY <2>1 DEF Lasting
<1> QED
  BY <1>2, <1>3

\* A SIGCONT does not, either.
LEMMA SigcontLasts ==
  ASSUME TypeOK, NEW p,
         proc' = SetState(p, AfterSIGCONT(proc[p].state))
  PROVE  \A r \in Runs : Lasting(r)
<1> DEFINE s == IF p \in Runs THEN AfterSIGCONT(proc[p].state) ELSE "dead"
<1>1. p \in Runs => proc[p].state \in ProcStates
  BY DEF TypeOK, Proc
<1>2. /\ s \in ProcStates
      /\ p \in Runs /\ proc[p].state \in {"none", "dead"} =>
            s = proc[p].state
      /\ p \in Runs /\ proc[p].state # "none" => s # "none"
  BY <1>1 DEF AfterSIGCONT, ProcStates
<1>3. proc' = SetState(p, s)
  <2>1. CASE p \in Runs
    BY <2>1
  <2>2. CASE p \notin Runs
    BY <2>2 DEF SetState, TypeOK
  <2> QED
    BY <2>1, <2>2
<1> HIDE DEF s
<1> QED
  BY <1>2, <1>3, SignalLasts

\* A flip changes no process's state.
LEMMA FaultyLasts ==
  ASSUME TypeOK, NEW p, NEW lands \in BOOLEAN, MarkFaulty(p, lands)
  PROVE  \A r \in Runs : /\ Lasting(r)
                         /\ proc'[r].state = proc[r].state
<1> TAKE r \in Runs
<1>1. proc \in [Runs -> Proc]
  BY DEF TypeOK
<1>2. CASE r = p
  <2>1. /\ proc'[r].state = proc[r].state
        /\ proc'[r].exit_code = proc[r].exit_code
        /\ proc'[r].sigkilled = proc[r].sigkilled
    BY <1>1, <1>2 DEF MarkFaulty, Proc
  <2> QED
    BY <2>1 DEF Lasting
<1>3. CASE r # p
  BY <1>1, <1>3 DEF MarkFaulty, Lasting
<1> QED
  BY <1>2, <1>3

\* The bitflip thread's steps are such steps.
LEMMA FlipAside == TypeOK /\ FlipNext => Aside /\ flip.pc # "none"
<1> SUFFICES ASSUME TypeOK, FlipNext PROVE Aside /\ flip.pc # "none"
  OBVIOUS
<1>1. CASE \/ FlipStarts \/ FlipTriggered \/ FlipSlept \/ FlipCollects
           \/ FlipFindsLeader \/ FlipWaits \/ FlipReturns
  BY <1>1 DEF FlipStarts, FlipTriggered, FlipSlept, FlipCollects,
              FlipFindsLeader, FlipWaits, FlipReturns, Aside, Lasting
<1>2. CASE FlipPins \/ FlipClearsTrigger
  <2>1. ctx'.monitor_done = ctx.monitor_done
        /\ ctx'.target_tgid = ctx.target_tgid
    BY <1>2 DEF FlipPins, FlipClearsTrigger, TypeOK, Ctx
  <2> QED
    BY <1>2, <2>1 DEF FlipPins, FlipClearsTrigger, Aside, Lasting
<1>3. CASE FlipStops
  <2>1. CASE Found(flip.tgid) /\ Sigstop(flip.tgid)
    <3>1. flip.tgid \in Runs
      BY <2>1 DEF Found, TypeOK, Flip
    <3>2. proc[flip.tgid].state \in ProcStates
      BY <3>1 DEF TypeOK, Proc
    <3>3. \A r \in Runs : Lasting(r)
      BY <2>1, <3>1, <3>2, SignalLasts DEF Sigstop, AfterSIGSTOP, ProcStates
    <3> QED
      BY <1>3, <3>3 DEF FlipStops, Aside
  <2>2. CASE UNCHANGED proc
    BY <1>3, <2>2 DEF FlipStops, Aside, Lasting
  <2> QED
    BY <1>3, <2>1, <2>2 DEF FlipStops
<1>4. CASE FlipRegister \/ FlipMemory
  <2>1. \/ UNCHANGED proc
        \/ \E lands \in BOOLEAN : MarkFaulty(flip.tgid, lands)
    BY <1>4 DEF FlipRegister, FlipMemory
  <2>2. \A r \in Runs : Lasting(r)
    BY <2>1, FaultyLasts DEF Lasting
  <2> QED
    BY <1>4, <2>2 DEF FlipRegister, FlipMemory, Aside
<1>5. CASE FlipResumes
  <2>1. \A r \in Runs : Lasting(r)
    BY <1>5, SigcontLasts DEF FlipResumes, Resumes
  <2> QED
    BY <1>5, <2>1 DEF FlipResumes, Aside
<1>6. CASE FlipReports \/ FlipTimes
  <2>1. /\ result'.iteration = result.iteration
        /\ result'.exit_code = result.exit_code
        /\ result'.process_hanged = result.process_hanged
    BY <1>6 DEF FlipReports, FlipTimes, TypeOK, Result
  <2> QED
    BY <1>6, <2>1 DEF FlipReports, FlipTimes, Aside, Lasting
<1> QED
  BY <1>1, <1>2, <1>3, <1>4, <1>5, <1>6 DEF FlipNext

\* So are those of the work item, of a probe hit and of the target.
LEMMA WorkAside == TypeOK /\ (WorkNext \/ HitNext) => Aside
<1> SUFFICES ASSUME TypeOK, WorkNext \/ HitNext PROVE Aside
  OBVIOUS
<1>1. /\ ctx'.monitor_done = ctx.monitor_done
      /\ ctx'.target_tgid = ctx.target_tgid
  BY DEF WorkNext, WorkStarts, WorkUnregisters, UnregisteredCtx, WorkPuts,
         DisarmedCtx, HitNext, UprobeHit, TypeOK, Ctx
<1>2. UNCHANGED <<params, result, proc, ioctl, mon, flip>>
  BY DEF WorkNext, WorkStarts, WorkUnregisters, WorkPuts, HitNext, UprobeHit
<1> QED
  BY <1>1, <1>2 DEF Aside, Lasting

LEMMA TargetAside == TypeOK /\ TargetNext => Aside
<1> SUFFICES ASSUME TypeOK, NEW p \in Runs,
                    \/ TargetStops(p) \/ TargetKilled(p)
                    \/ TargetExits(p) \/ TargetCrashes(p)
             PROVE  Aside
  BY DEF TargetNext
<1>1. proc \in [Runs -> Proc]
  BY DEF TypeOK
<1>2. /\ proc[p].state \notin {"none", "dead"}
      /\ proc'[p].state \in {"stopped", "dead"}
      /\ proc'[p].sigkilled = proc[p].sigkilled
      /\ \A r \in Runs \ {p} : proc'[r] = proc[r]
  BY <1>1 DEF TargetStops, TargetKilled, TargetExits, TargetCrashes, Dies,
              SetState, Live, Proc
<1>3. \A r \in Runs : Lasting(r)
  BY <1>2 DEF Lasting
<1> QED
  BY <1>3 DEF TargetStops, TargetKilled, TargetExits, TargetCrashes,
              TargetUnchanged, Aside

-----------------------------------------------------------------------------
(* RunInv.                                                                 *)

LEMMA InitRun == Init => CallKnown /\ TargetKnown /\ MonitorKnown /\ FlipStopped
  BY DEF Init, CallKnown, TargetKnown, MonitorKnown, FlipStopped, Launching,
         Launched, Signalled

\* Such a step keeps RunInv,
LEMMA AsideRun ==
  ASSUME RunInv, Aside
  PROVE  CallKnown' /\ TargetKnown' /\ MonitorKnown' /\ FlipStopped'
<1> USE DEF RunInv
<1>1. /\ ioctl' = ioctl /\ mon' = mon /\ This' = This
      /\ Launching' = Launching /\ Launched' = Launched
      /\ Signalled' = Signalled
  BY DEF Aside, This, Launching, Launched, Signalled
<1>2. CallKnown'
  BY <1>1 DEF CallKnown
<1>3. TargetKnown'
  BY <1>1 DEF TargetKnown, Aside, Lasting
<1>4. This \in Runs /\ Live(This)' => Live(This)
  BY <1>1 DEF Live, Aside, Lasting
<1>5. MonitorKnown'
  <2>1. Launching => This \in Runs
    BY DEF TargetKnown
  <2> QED
    BY <1>1, <1>4, <2>1 DEF MonitorKnown, Aside
<1>6. FlipStopped'
  BY <1>1 DEF FlipStopped, Aside
<1> QED
  BY <1>2, <1>3, <1>5, <1>6

\* and so does a step of fij_release, or one that leaves the call failed:
\* nothing is claimed of a run that failed or of a file being closed.
LEMMA OverRun ==
  ASSUME \/ ioctl'.pc \in {"relMon", "closed"} \cup
                          {"relFlip", "relFlipWait", "relCancel", "relFlush",
                           "relUnreg", "relIput", "relFree"}
         \/ ioctl'.pc = "user" /\ ioctl'.client \in {"fresh", "failed"}
         \/ ioctl'.pc = "fail" /\ ioctl'.client = "fresh"
  PROVE  CallKnown' /\ TargetKnown' /\ MonitorKnown' /\ FlipStopped'
  BY DEF CallKnown, TargetKnown, MonitorKnown, FlipStopped, Launching,
         Launched, Signalled

\* Starting a run.
LEMMA StartRun ==
  ASSUME RunInv, StartNext
  PROVE  CallKnown' /\ TargetKnown' /\ MonitorKnown' /\ FlipStopped'
<1> USE DEF RunInv, ThreadInv, TypeOK, IoctlGoes, This
<1>1. CASE Exec
  <2>1. CASE ioctl'.pc = "fail"
    BY <1>1, <2>1, OverRun DEF Exec, CallKnown, Ioctl
  <2>2. CASE ioctl'.pc # "fail"
    <3>1. /\ ioctl'.pc = "mark" /\ ioctl'.client = "fresh"
          /\ ioctl'.sends = ioctl.sends
          /\ proc' = SetState(ioctl.sends, "execed")
          /\ ctx'.target_tgid = ioctl.sends
      BY <1>1, <2>2 DEF Exec, CallKnown, Ioctl, Ctx
    <3>2. ioctl.sends \in Runs
      BY <1>1 DEF Exec, TargetKnown
    <3>3. proc'[ioctl.sends].state = "execed"
      BY <3>1, <3>2 DEF SetState, Proc
    <3> QED
      BY <3>1, <3>2, <3>3
         DEF CallKnown, TargetKnown, MonitorKnown, FlipStopped, Launching,
             Launched, Signalled
  <2> QED
    BY <2>1, <2>2
<1>2. CASE MarkRunning
  <2>1. /\ ioctl'.pc \in {"fail", "monStart"} /\ ioctl'.client = "fresh"
        /\ ioctl'.sends = ioctl.sends
        /\ ctx'.target_tgid = ctx.target_tgid
        /\ proc' = proc
    BY <1>2 DEF MarkRunning, CallKnown, Ioctl, Ctx
  <2> QED
    BY <1>2, <2>1
       DEF MarkRunning, CallKnown, TargetKnown, MonitorKnown, FlipStopped,
           Launching, Launched, Signalled
<1>3. CASE StartMonitor
  <2>1. /\ ioctl'.pc \in {"fail", "monSet"} /\ ioctl'.client = "fresh"
        /\ ioctl'.sends = ioctl.sends
        /\ ctx'.target_tgid = ctx.target_tgid
        /\ ctx'.monitor_done = 0
        /\ proc' = proc
    BY <1>3 DEF StartMonitor, CallKnown, Ioctl, Ctx
  <2>2. ioctl'.pc = "monSet" =>
            /\ mon'.pc = "created" /\ mon'.leader = ioctl.sends
            /\ ~mon'.stop
    BY <1>3 DEF StartMonitor, Ioctl, NoMon
  <2> QED
    BY <1>3, <2>1, <2>2
       DEF StartMonitor, CallKnown, TargetKnown, MonitorKnown, FlipStopped,
           Launching, Launched, Signalled
<1>4. CASE SetMonitor \/ StartFlip \/ SetFlip \/ ArmProbe
  <2>1. /\ ioctl'.pc = "fail" \/ Launching'
        /\ ioctl'.client = "fresh" /\ ioctl'.sends = ioctl.sends
        /\ Launching
        /\ UNCHANGED <<proc, mon>>
    BY <1>4 DEF SetMonitor, StartFlip, SetFlip, ArmProbe, CallKnown,
                Launching, Ioctl
  <2>2. /\ ctx'.target_tgid = ctx.target_tgid
        /\ ctx'.monitor_done = ctx.monitor_done
    BY <1>4 DEF SetMonitor, StartFlip, SetFlip, ArmProbe, ArmedCtx, Ctx
  <2>3. CallKnown'
    BY <2>1 DEF CallKnown, Launching
  <2>4. ~Launched'
    BY <2>1 DEF Launched
  <2>5. TargetKnown'
    BY <2>1, <2>2, <2>4 DEF TargetKnown, Launching
  <2>6. MonitorKnown'
    BY <2>1, <2>2, <2>4 DEF MonitorKnown, Live
  <2>7. FlipStopped'
    BY <2>4 DEF FlipStopped, Signalled
  <2> QED
    BY <2>3, <2>5, <2>6, <2>7
<1>5. CASE Continue
  <2>1. CASE ~Found(ioctl.sends)
    BY <1>5, <2>1, OverRun DEF Continue, CallKnown, Launching, Ioctl
  <2>2. CASE Found(ioctl.sends)
    <3>1. /\ ioctl'.pc \in {"user", "wait"} /\ ioctl'.client = "polling"
          /\ ioctl'.sends = ioctl.sends
          /\ UNCHANGED <<ctx, mon>>
          /\ Launching /\ Live(ioctl.sends)
      BY <1>5, <2>2 DEF Continue, Ioctl, Launching, Found
    <3>2. /\ ioctl.sends \in Runs
          /\ ctx.target_tgid = ioctl.sends
          /\ proc[ioctl.sends].state # "none"
      BY <3>1 DEF TargetKnown
    <3>3. /\ mon.pc \in {"created", "loop"} /\ mon.leader = ioctl.sends
          /\ ctx.monitor_done = 0
      BY <3>1 DEF MonitorKnown
    <3>4. proc'[ioctl.sends].state # "none"
      BY <1>5, <2>2, <3>2 DEF Continue, SetState, AfterSIGCONT, Proc
    <3> QED
      BY <3>1, <3>2, <3>3, <3>4
         DEF CallKnown, TargetKnown, MonitorKnown, FlipStopped, Launching,
             Launched, Signalled
  <2> QED
    BY <2>1, <2>2
<1>6. CASE StartFails
  BY <1>6, OverRun DEF StartFails, Returns, Ioctl
<1> QED
  BY <1>1, <1>2, <1>3, <1>4, <1>5, <1>6 DEF StartNext

\* The client's calls.
LEMMA CallRun ==
  ASSUME RunInv, ClientNext \/ KillNext
  PROVE  CallKnown' /\ TargetKnown' /\ MonitorKnown' /\ FlipStopped'
<1> USE DEF RunInv, ThreadInv, TypeOK, IoctlGoes, This
<1>1. CASE Send
  <2>1. \/ ioctl'.pc = "user" /\ ioctl'.client = "failed"
        \/ /\ ioctl'.pc = "exec" /\ ioctl'.client = "fresh"
           /\ ioctl'.sends = ioctl.sends + 1
    BY <1>1 DEF Send, Ioctl
  <2>2. ioctl.sends + 1 \in Runs
    BY <1>1, FijAssumption DEF Send, Ioctl, Runs
  <2> QED
    BY <2>1, <2>2, OverRun
       DEF CallKnown, TargetKnown, MonitorKnown, FlipStopped, Launching,
           Launched, Signalled
<1>2. CASE Receive
  <2>1. /\ ioctl.pc = "user" /\ ioctl.client = "polling"
        /\ ctx.monitor_done > 0
        /\ ioctl'.pc = "user" /\ ioctl'.client = "got"
        /\ ioctl'.sends = ioctl.sends
        /\ UNCHANGED <<ctx, proc, mon, flip>>
    BY <1>2 DEF Receive, Outside, CompletionDone, Returns, Ioctl
  <2> QED
    BY <2>1
       DEF CallKnown, TargetKnown, MonitorKnown, FlipStopped, Launching,
           Launched, Signalled, Live
<1>3. CASE ReceiveAgain
  BY <1>3, AsideRun DEF ReceiveAgain, vars, Aside, Lasting
<1>4. CASE WaitDone
  <2>1. CASE ioctl'.client = "failed"
    BY <1>4, <2>1, OverRun DEF WaitDone, Returns, Ioctl
  <2>2. CASE ioctl'.client # "failed"
    <3>1. /\ ioctl.pc = "wait" /\ ioctl.client = "polling"
          /\ ctx.monitor_done > 0
          /\ ioctl'.pc = "user" /\ ioctl'.client = "got"
          /\ ioctl'.sends = ioctl.sends
          /\ ctx'.target_tgid = ctx.target_tgid
          /\ UNCHANGED <<proc, mon, flip>>
      BY <1>4, <2>2 DEF WaitDone, Awaited, Returns, CallKnown, Ioctl, Ctx
    <3> QED
      BY <3>1
         DEF CallKnown, TargetKnown, MonitorKnown, FlipStopped, Launching,
             Launched, Signalled, Live
  <2> QED
    BY <2>1, <2>2
<1>5. CASE Kill
  <2>1. /\ ioctl.pc = "user" /\ ioctl.client = "polling"
        /\ ioctl'.pc \in {"user", "killRead"} /\ ioctl'.client = "polling"
        /\ ioctl'.sends = ioctl.sends
        /\ UNCHANGED <<mon, flip>>
    BY <1>5 DEF Kill, Outside, Ioctl
  <2>2. /\ ctx'.target_tgid = ctx.target_tgid
        /\ ctx'.monitor_done = ctx.monitor_done
    BY <1>5 DEF Kill, Ctx
  <2>3. /\ ioctl.sends \in Runs /\ ctx.target_tgid = ioctl.sends
        /\ proc[ioctl.sends].state # "none"
    BY <2>1 DEF TargetKnown, Launched
  <2>4. proc'[ioctl.sends].state # "none"
    BY <1>5, <2>3 DEF Kill, Sigkill, AfterSIGKILL, Proc
  <2> QED
    BY <2>1, <2>2, <2>3, <2>4
       DEF CallKnown, TargetKnown, MonitorKnown, FlipStopped, Launching,
           Launched, Signalled
<1>6. CASE Close
  BY <1>6, OverRun DEF Close, Ioctl
<1>7. CASE KillNext
  <2>1. /\ ioctl.pc \in {"killRead", "killStop", "killWait"}
        /\ ioctl'.pc \in {"user", "killStop", "killWait"}
        /\ ioctl'.client = ioctl.client /\ ioctl'.sends = ioctl.sends
        /\ UNCHANGED <<ctx, proc, flip>>
    BY <1>7 DEF KillNext, KillReads, KillStops, KillReturns, Ioctl
  <2>2. mon'.pc = mon.pc /\ mon'.leader = mon.leader
    BY <1>7 DEF KillNext, KillReads, KillStops, KillReturns, Stopping, Mon
  <2>3. ioctl.client = "polling"
    BY <2>1 DEF CallKnown
  <2> QED
    BY <2>1, <2>2, <2>3
       DEF CallKnown, TargetKnown, MonitorKnown, FlipStopped, Launching,
           Launched, Signalled
<1> QED
  BY <1>1, <1>2, <1>3, <1>4, <1>5, <1>6, <1>7 DEF ClientNext

\* fij_release.
LEMMA ReleaseRun ==
  ASSUME RunInv, ReleaseNext
  PROVE  CallKnown' /\ TargetKnown' /\ MonitorKnown' /\ FlipStopped'
<1>1. ioctl'.pc \in {"relFlip", "relFlipWait", "relCancel", "relFlush",
                     "relUnreg", "relIput", "relFree", "closed"}
  BY DEF RunInv, ThreadInv, TypeOK, Ioctl, IoctlGoes, ReleaseNext,
         ReleaseMonitor, ReleaseFlip, ReleaseFlipStopped, ReleaseCancels,
         ReleaseFlushes, ReleaseUnregisters, ReleasePuts, ReleaseFrees
<1> QED
  BY <1>1, OverRun

\* What the monitor thread leaves alone.
LEMMA MonKeeps ==
  ASSUME TypeOK, MonNext
  PROVE  /\ mon.pc # "none"
         /\ UNCHANGED <<proc, ioctl, params>>
         /\ ctx'.target_tgid = ctx.target_tgid
         /\ ctx'.monitor_done # ctx.monitor_done => mon.pc = "complete"
         /\ mon'.pc # "none" => mon'.leader = mon.leader
         /\ mon'.stop => mon.stop
<1>1. mon.pc # "none" /\ UNCHANGED <<proc, ioctl, params>>
  BY DEF MonNext, MonStarts, MonSeesExit, MonSeesStop, MonReverts,
         MonStopsFlip, MonFlipStopped, MonFlushes, MonUnregisters, MonPuts,
         MonPublishes, MonCompletes, MonClears
<1>2. /\ ctx'.target_tgid = ctx.target_tgid
      /\ ctx'.monitor_done # ctx.monitor_done => mon.pc = "complete"
  <2> USE DEF TypeOK, Ctx
  <2>1. CASE MonStarts \/ MonSeesExit \/ MonSeesStop \/ MonFlushes
    BY <2>1 DEF MonStarts, MonSeesExit, MonSeesStop, MonFlushes
  <2>2. CASE MonReverts \/ MonStopsFlip
    BY <2>2 DEF MonReverts, Restored, MonStopsFlip
  <2>3. CASE MonUnregisters \/ MonPuts
    BY <2>3 DEF MonUnregisters, UnregisteredCtx, MonPuts, DisarmedCtx
  <2>4. CASE MonFlipStopped \/ MonPublishes
    BY <2>4 DEF MonFlipStopped, MonPublishes
  <2>5. CASE MonCompletes \/ MonClears
    BY <2>5 DEF MonCompletes, Completed, MonClears
  <2> QED
    BY <2>1, <2>2, <2>3, <2>4, <2>5 DEF MonNext
<1>3. /\ mon'.pc # "none" => mon'.leader = mon.leader
      /\ mon'.stop => mon.stop
  <2> USE DEF TypeOK, Mon, MonGoes
  <2>1. CASE MonStarts \/ MonClears
    BY <2>1 DEF MonStarts, MonClears, NoMon
  <2>2. CASE MonSeesExit \/ MonSeesStop \/ MonReverts \/ MonStopsFlip
    BY <2>2 DEF MonSeesExit, MonSeesStop, MonReverts, MonStopsFlip
  <2>3. CASE MonFlipStopped \/ MonFlushes \/ MonUnregisters \/ MonPuts
    BY <2>3 DEF MonFlipStopped, MonFlushes, MonUnregisters, MonPuts
  <2>4. CASE MonPublishes \/ MonCompletes
    BY <2>4 DEF MonPublishes, MonCompletes
  <2> QED
    BY <2>1, <2>2, <2>3, <2>4 DEF MonNext
<1> QED
  BY <1>1, <1>2, <1>3

\* The monitor thread moves on to the flush when the bitflip thread is gone,
\* or when there was none, which FlipOwned tells it.
LEMMA MonRun ==
  ASSUME RunInv, MonNext
  PROVE  CallKnown' /\ TargetKnown' /\ MonitorKnown' /\ FlipStopped'
<1> USE DEF RunInv, ThreadInv
<1>1. /\ This' = This /\ ioctl' = ioctl /\ proc' = proc
      /\ Launching' = Launching /\ Launched' = Launched
  BY MonKeeps DEF This, Launching, Launched
<1>2. CallKnown' /\ TargetKnown'
  BY <1>1, MonKeeps DEF CallKnown, TargetKnown
<1>3. MonitorKnown'
  <2>1. Launching /\ Live(This) =>
            mon'.pc \in {"created", "loop"} /\ ctx'.monitor_done = 0
    <3> SUFFICES ASSUME Launching, Live(This)
                 PROVE  mon'.pc \in {"created", "loop"}
                        /\ ctx'.monitor_done = 0
      OBVIOUS
    <3>1. /\ mon.pc \in {"created", "loop"} /\ ctx.monitor_done = 0
          /\ mon.leader = This /\ ~mon.stop
      BY DEF MonitorKnown
    <3>2. MonStarts
      BY <3>1 DEF MonNext, MonStarts, MonSeesExit, MonSeesStop, ShouldStop,
                  MonReverts, MonStopsFlip, MonFlipStopped, MonFlushes,
                  MonUnregisters, MonPuts, MonPublishes, MonCompletes,
                  MonClears
    <3> QED
      BY <3>1, <3>2 DEF MonStarts, TypeOK, Mon
  <2> QED
    BY <1>1, <2>1, MonKeeps DEF MonitorKnown, Live
<1>4. FlipStopped'
  <2> SUFFICES ASSUME Launched PROVE FlipStopped'
    BY <1>1 DEF FlipStopped, Signalled
  <2> DEFINE Past == {"flush", "unreg", "iput", "publish", "complete",
                      "clear"}
  <2>1. ioctl.pc # "flipSet" /\ ~Released
    BY DEF Launched, Released
  <2>2. mon'.pc \in Past => flip'.pc = "none"
    <3>1. CASE mon.pc \in Past
      BY <3>1 DEF FlipStopped, MonNext, MonStarts, MonSeesExit, MonSeesStop,
                  MonReverts, MonStopsFlip, MonFlipStopped, MonFlushes,
                  MonUnregisters, MonPuts, MonPublishes, MonCompletes,
                  MonClears
    <3>2. CASE MonFlipStopped
      BY <3>2 DEF MonFlipStopped, FlipGone
    <3>3. CASE MonStopsFlip
      <4>1. ~ctx.bitflip_thread => flip.pc = "none"
        BY <2>1 DEF FlipOwned
      <4>2. IF ctx.bitflip_thread THEN mon'.pc = "waitFlip"
            ELSE UNCHANGED flip
        BY <3>3 DEF MonStopsFlip, MonGoes, TypeOK, Mon
      <4> QED
        BY <4>1, <4>2
    <3>4. CASE MonStarts \/ MonSeesExit \/ MonSeesStop \/ MonReverts
      <4>1. mon'.pc \in {"none", "loop", "revert", "stopFlip"}
        <5> USE DEF TypeOK, Mon, MonGoes
        <5>1. MonStarts => mon'.pc \in {"none", "loop"}
          BY DEF MonStarts, NoMon
        <5>2. MonSeesExit \/ MonSeesStop => mon'.pc = "revert"
          BY DEF MonSeesExit, MonSeesStop
        <5>3. MonReverts => mon'.pc = "stopFlip"
          BY DEF MonReverts
        <5> QED
          BY <3>4, <5>1, <5>2, <5>3
      <4> QED
        BY <4>1
    <3> QED
      BY <3>1, <3>2, <3>3, <3>4
         DEF MonNext, MonFlushes, MonUnregisters, MonPuts, MonPublishes,
             MonCompletes, MonClears
  <2>3. Signalled' => flip'.pc = "none" /\ mon'.pc \in {"clear", "none"}
    <3>1. CASE Signalled
      <4>1. mon.pc = "clear" /\ flip.pc = "none"
        BY <3>1, MonKeeps DEF FlipStopped
      <4>2. MonClears
        BY <4>1 DEF MonNext, MonStarts, MonSeesExit, MonSeesStop, MonReverts,
                    MonStopsFlip, MonFlipStopped, MonFlushes, MonUnregisters,
                    MonPuts, MonPublishes, MonCompletes, MonClears
      <4> QED
        BY <4>1, <4>2 DEF MonClears, NoMon
    <3>2. CASE ~Signalled
      <4>1. Signalled' => mon.pc = "complete"
        BY <1>1, <3>2, MonKeeps DEF Signalled
      <4>2. mon.pc = "complete" => MonCompletes
        BY DEF MonNext, MonStarts, MonSeesExit, MonSeesStop, MonReverts,
               MonStopsFlip, MonFlipStopped, MonFlushes, MonUnregisters,
               MonPuts, MonPublishes, MonCompletes, MonClears
      <4>3. MonCompletes => mon'.pc = "clear" /\ flip' = flip
        BY DEF MonCompletes, MonGoes, TypeOK, Mon
      <4> QED
        BY <4>1, <4>2, <4>3 DEF FlipStopped
    <3> QED
      BY <3>1, <3>2
  <2> QED
    BY <1>1, <2>2, <2>3 DEF FlipStopped
<1> QED
  BY <1>2, <1>3, <1>4

\* RunInv is inductive.
LEMMA RunStep == RunInv /\ [Next]_vars => RunInv'
<1> SUFFICES ASSUME RunInv, [Next]_vars PROVE RunInv'
  OBVIOUS
<1>1. ThreadInv'
  BY ThreadStep DEF RunInv
<1>2. CallKnown' /\ TargetKnown' /\ MonitorKnown' /\ FlipStopped'
  <2>1. CASE FlipNext \/ WorkNext \/ HitNext \/ TargetNext
    BY <2>1, FlipAside, WorkAside, TargetAside, AsideRun
       DEF RunInv, ThreadInv
  <2>2. CASE Closed \/ UNCHANGED vars
    BY <2>2, AsideRun DEF Closed, vars, Aside, Lasting
  <2> QED
    BY <2>1, <2>2, StartRun, CallRun, ReleaseRun, MonRun DEF Next
<1> QED
  BY <1>1, <1>2 DEF RunInv

\* The client, the target and the two threads agree on how far the run is,
\* whatever failed before it and whoever is killed meanwhile.
THEOREM RunKnown == Safe => []RunInv
<1>1. Init => RunInv
  BY InitTypeOK, InitThreads, InitRun DEF RunInv, ThreadInv
<1> QED
  BY <1>1, RunStep, PTL DEF Safe

\* A result that is reported is final: neither thread that writes it without
\* a lock (monitor.c:80, bitflip_thread.c:146) can still be about to.
THEOREM ReportedIsFinal == Safe => ResultFrozen
<1> DEFINE A == Reported /\ Reported' => result' = result
<1>1. RunInv /\ [Next]_vars => A
  <2> SUFFICES ASSUME RunInv, Next, Reported, Reported'
               PROVE  result' = result
    BY DEF vars
  <2>1. flip.pc = "none" /\ mon.pc \in {"clear", "none"}
    BY DEF RunInv, FlipStopped, Reported, Signalled, Launched
  <2>2. MonNext => MonClears
    BY <2>1 DEF MonNext, MonStarts, MonSeesExit, MonSeesStop, MonReverts,
                MonStopsFlip, MonFlipStopped, MonFlushes, MonUnregisters,
                MonPuts, MonPublishes, MonCompletes, MonClears
  <2>3. ~FlipNext
    BY <2>1, FlipAside DEF RunInv, ThreadInv
  <2>4. ~Send
    BY DEF Send, Reported, RunInv, ThreadInv, TypeOK, Ioctl
  <2>5. ClientNext => Send \/ UNCHANGED result
    BY DEF ClientNext, Receive, ReceiveAgain, WaitDone, Kill, Close, vars
  <2>6. StartNext \/ KillNext \/ ReleaseNext => UNCHANGED result
    BY DEF StartNext, Exec, MarkRunning, StartMonitor, SetMonitor, StartFlip,
           SetFlip, ArmProbe, Continue, StartFails, KillNext, KillReads,
           KillStops, KillReturns, ReleaseNext, ReleaseMonitor, ReleaseFlip,
           ReleaseFlipStopped, ReleaseCancels, ReleaseFlushes,
           ReleaseUnregisters, ReleasePuts, ReleaseFrees
  <2>7. WorkNext \/ HitNext \/ TargetNext \/ Closed => UNCHANGED result
    BY DEF WorkNext, WorkStarts, WorkUnregisters, WorkPuts, HitNext,
           UprobeHit, TargetNext, TargetStops, TargetKilled, TargetExits,
           TargetCrashes, TargetUnchanged, Closed, vars
  <2> QED
    BY <2>2, <2>3, <2>4, <2>5, <2>6, <2>7 DEF Next, MonClears
<1>2. RunInv /\ [Next]_vars => [A]_vars
  BY <1>1
<1> QED
  BY <1>2, RunKnown, PTL DEF Safe, ResultFrozen

-----------------------------------------------------------------------------
(* ExitKnown and KillKnown.                                                *)

LEMMA InitVerdict == Init => ExitKnown /\ KillKnown
  BY DEF Init, ExitKnown, KillKnown, Launched, Signalled, NoMon, NoProc,
         FreshResult, Live

\* A process that is not Live any more keeps its exit code.
LEMMA DeadLasts ==
  ASSUME NEW r \in Runs, Lasting(r)
  PROVE  /\ ~Live(r) => /\ proc'[r].state \in {"none", "dead"}
                        /\ proc'[r].exit_code = proc[r].exit_code
         /\ proc[r].sigkilled => proc'[r].sigkilled
  BY DEF Lasting, Live

\* Steps beside the call keep both,
LEMMA AsideVerdict ==
  ASSUME RunInv, ExitKnown, KillKnown, Aside
  PROVE  ExitKnown' /\ KillKnown'
<1>1. /\ ioctl' = ioctl /\ mon' = mon /\ This' = This
      /\ Launched' = Launched /\ Signalled' = Signalled
      /\ result'.exit_code = result.exit_code
      /\ result'.process_hanged = result.process_hanged
  BY DEF Aside, This, Launched, Signalled
<1>2. \A r \in Runs : /\ ~Live(r) => /\ proc'[r].state \in {"none", "dead"}
                                     /\ proc'[r].exit_code = proc[r].exit_code
                      /\ proc[r].sigkilled => proc'[r].sigkilled
  BY DeadLasts DEF Aside
<1>3. /\ mon.pc # "none" => mon.leader \in Runs
      /\ Launched => This \in Runs
  BY DEF RunInv, ThreadInv, LeaderKnown, TargetKnown
<1>4. Signalled => Launched
  BY DEF Signalled
<1>5. ioctl.pc \in {"killRead", "killStop", "killWait"} => Launched
  BY DEF RunInv, CallKnown, Launched
<1>6. ExitKnown'
  <2>1. ~mon.stop /\ mon.pc \notin {"none", "created", "loop"} =>
            /\ proc'[mon.leader].state \in {"none", "dead"}
            /\ mon.exit_code = proc'[mon.leader].exit_code
    BY <1>2, <1>3 DEF ExitKnown
  <2>2. Signalled /\ ~ioctl.killed =>
            /\ proc'[This].state \in {"none", "dead"}
            /\ result.exit_code = proc'[This].exit_code
    BY <1>2, <1>3, <1>4 DEF ExitKnown
  <2> QED
    BY <1>1, <2>1, <2>2 DEF ExitKnown, Live
<1>7. KillKnown'
  <2>1. \/ mon.pc = "none" \/ ~mon.stop
        \/ proc'[mon.leader].state \in {"none", "dead"}
        \/ proc'[mon.leader].sigkilled
    BY <1>2, <1>3 DEF KillKnown
  <2>2. \/ ioctl.pc \notin {"killRead", "killStop", "killWait"}
        \/ proc'[This].state \in {"none", "dead"}
        \/ proc'[This].sigkilled
    BY <1>2, <1>3, <1>5 DEF KillKnown
  <2>3. result.process_hanged => \E r \in Runs : proc'[r].sigkilled
    BY <1>2 DEF KillKnown
  <2> QED
    BY <1>1, <2>1, <2>2, <2>3 DEF KillKnown, Live
<1> QED
  BY <1>6, <1>7

\* and so do those that change nothing of the target and the monitor thread
\* and after which the target is not, or not yet, with the client.
LEMMA AwayVerdict ==
  ASSUME ExitKnown, KillKnown,
         UNCHANGED <<mon, result, proc>>, This' = This,
         ~Launched',
         ioctl'.pc \notin {"exec", "killRead", "killStop", "killWait"}
  PROVE  ExitKnown' /\ KillKnown'
<1>1. ExitKnown'
  BY DEF ExitKnown, Signalled, Live
<1>2. KillKnown'
  BY DEF KillKnown, Live
<1> QED
  BY <1>1, <1>2

\* Starting a run: the monitor thread of an earlier run watches an earlier
\* process.
LEMMA StartVerdict ==
  ASSUME RunInv, ExitKnown, KillKnown, StartNext
  PROVE  ExitKnown' /\ KillKnown'
<1>1. /\ TypeOK /\ LeaderKnown /\ CallKnown /\ TargetKnown /\ MonitorKnown
      /\ This' = This /\ result' = result /\ ioctl'.killed = ioctl.killed
  <2>1. /\ ioctl'.sends = ioctl.sends /\ ioctl'.killed = ioctl.killed
        /\ result' = result
    BY DEF StartNext, Exec, MarkRunning, StartMonitor, SetMonitor, StartFlip,
           SetFlip, ArmProbe, Continue, StartFails, IoctlGoes, Returns,
           RunInv, ThreadInv, TypeOK, Ioctl
  <2> QED
    BY <2>1 DEF RunInv, ThreadInv, This
<1>2. CASE Exec
  <2>1. /\ ioctl.pc = "exec" /\ ioctl.sends \in Runs
        /\ ~Launched' /\ mon' = mon
        /\ ioctl'.pc \notin {"exec", "killRead", "killStop", "killWait"}
    BY <1>1, <1>2 DEF Exec, IoctlGoes, TypeOK, Ioctl, CallKnown, TargetKnown,
                      Launched, This
  <2>2. \A r \in Runs : /\ r # ioctl.sends => proc'[r] = proc[r]
                        /\ proc'[r].sigkilled = proc[r].sigkilled
    BY <1>1, <1>2 DEF Exec, SetState, TypeOK, Proc, This
  <2>3. mon.pc # "none" => mon.leader \in Runs /\ mon.leader # ioctl.sends
    BY <1>1, <2>1 DEF LeaderKnown, ExitKnown, This, Runs
  <2>4. mon.pc # "none" => proc'[mon.leader] = proc[mon.leader]
    BY <2>2, <2>3
  <2>5. ExitKnown'
    BY <1>1, <2>1, <2>4 DEF ExitKnown, Signalled, Live
  <2>6. result.process_hanged => \E r \in Runs : proc'[r].sigkilled
    BY <2>2 DEF KillKnown
  <2>7. KillKnown'
    BY <1>1, <2>1, <2>4, <2>6 DEF KillKnown, Live
  <2> QED
    BY <2>5, <2>7
<1>3. CASE MarkRunning \/ SetMonitor \/ StartFlip \/ SetFlip \/ ArmProbe
           \/ StartFails
  <2>1. /\ UNCHANGED <<mon, proc>> /\ ~Launched'
        /\ ioctl'.pc \notin {"exec", "killRead", "killStop", "killWait"}
    BY <1>1, <1>3 DEF MarkRunning, SetMonitor, StartFlip, SetFlip, ArmProbe,
                      StartFails, IoctlGoes, Returns, TypeOK, Ioctl,
                      CallKnown, Launching, Launched
  <2> QED
    BY <1>1, <2>1, AwayVerdict
<1>4. CASE StartMonitor
  <2>1. /\ proc' = proc /\ ~Launched'
        /\ ioctl'.pc \notin {"exec", "killRead", "killStop", "killWait"}
    BY <1>1, <1>4 DEF StartMonitor, IoctlGoes, TypeOK, Ioctl, CallKnown,
                      Launched
  <2>2. CASE mon' = mon
    BY <1>1, <2>1, <2>2, AwayVerdict
  <2>3. CASE mon' # mon
    <3>1. /\ mon'.pc = "created" /\ ~mon'.stop
          /\ mon'.leader = ioctl.sends
      BY <1>4, <2>3 DEF StartMonitor, NoMon, This
    <3>2. ioctl.sends <= ioctl.sends
      BY <1>1 DEF TypeOK, Ioctl, Runs
    <3>3. ExitKnown'
      BY <1>1, <2>1, <3>1, <3>2 DEF ExitKnown, Signalled, This
    <3>4. KillKnown'
      BY <1>1, <2>1, <3>1 DEF KillKnown
    <3> QED
      BY <3>3, <3>4
  <2> QED
    BY <2>2, <2>3
<1>5. CASE Continue
  <2>1. CASE ~Found(This)
    <3>1. /\ UNCHANGED <<mon, proc>> /\ ~Launched' /\ ioctl'.pc = "fail"
      BY <1>1, <1>5, <2>1 DEF Continue, IoctlGoes, TypeOK, Ioctl, Launched
    <3> QED
      BY <1>1, <3>1, AwayVerdict
  <2>2. CASE Found(This)
    <3>1. /\ UNCHANGED <<ctx, mon>> /\ ioctl'.client = "polling"
          /\ ioctl'.pc \in {"user", "wait"}
          /\ ~mon.stop /\ ctx.monitor_done = 0
          /\ proc' = SetState(This, AfterSIGCONT(proc[This].state))
      BY <1>1, <1>5, <2>2 DEF Continue, TypeOK, Ioctl, MonitorKnown,
                              Launching, Found
    <3>2. \A r \in Runs :
            /\ ~Live(r) => /\ proc'[r].state \in {"none", "dead"}
                           /\ proc'[r].exit_code = proc[r].exit_code
            /\ proc[r].sigkilled => proc'[r].sigkilled
      BY <1>1, <3>1, SigcontLasts, DeadLasts
    <3>3. mon.pc # "none" => mon.leader \in Runs
      BY <1>1 DEF LeaderKnown
    <3>4. ~Signalled'
      BY <3>1 DEF Signalled
    <3>5. ~mon.stop /\ mon.pc \notin {"none", "created", "loop"} =>
            /\ proc'[mon.leader].state \in {"none", "dead"}
            /\ mon.exit_code = proc'[mon.leader].exit_code
      BY <3>2, <3>3 DEF ExitKnown
    <3>6. ExitKnown'
      BY <1>1, <3>1, <3>4, <3>5 DEF ExitKnown, Live
    <3>7. result.process_hanged => \E r \in Runs : proc'[r].sigkilled
      BY <3>2 DEF KillKnown
    <3>8. KillKnown'
      BY <1>1, <3>1, <3>7 DEF KillKnown
    <3> QED
      BY <3>6, <3>8
  <2> QED
    BY <2>1, <2>2
<1> QED
  BY <1>2, <1>3, <1>4, <1>5 DEF StartNext

\* The client's calls: KILL_TARGET sends SIGKILL before it stops the thread.
LEMMA CallVerdict ==
  ASSUME RunInv, ExitKnown, KillKnown, ClientNext \/ KillNext
  PROVE  ExitKnown' /\ KillKnown'
<1>1. /\ TypeOK /\ LeaderKnown /\ CallKnown /\ TargetKnown /\ MonitorKnown
  BY DEF RunInv, ThreadInv
<1>2. CASE Send
  <2>1. /\ UNCHANGED <<mon, proc>>
        /\ ioctl'.sends = ioctl.sends + 1
        /\ ioctl'.client \in {"failed", "fresh"}
        /\ ioctl'.pc \in {"user", "exec"}
        /\ ~Launched'
    BY <1>1, <1>2 DEF Send, TypeOK, Ioctl, Launched
  <2>2. /\ result'.exit_code = result.exit_code
        /\ result'.process_hanged = result.process_hanged
    BY <1>1, <1>2 DEF Send, TypeOK, Result
  <2>3. mon.pc # "none" => /\ mon.leader <= ioctl.sends + 1
                           /\ mon.leader < ioctl.sends + 1
    <3>1. ioctl.sends \in Nat
      BY <1>1 DEF TypeOK, Ioctl, Runs
    <3>2. mon.pc # "none" => mon.leader \in Nat /\ mon.leader <= ioctl.sends
      BY <1>1 DEF LeaderKnown, ExitKnown, This, Runs
    <3> QED
      BY <3>1, <3>2
  <2>4. ExitKnown'
    BY <2>1, <2>2, <2>3 DEF ExitKnown, Signalled, Live, This
  <2>5. KillKnown'
    BY <2>1, <2>2 DEF KillKnown, Live
  <2> QED
    BY <2>4, <2>5
<1>3. CASE Receive \/ WaitDone
  <2>1. /\ UNCHANGED <<mon, proc, result>> /\ This' = This
        /\ ioctl'.killed = ioctl.killed /\ ioctl'.pc = "user"
    BY <1>1, <1>3 DEF Receive, WaitDone, Returns, TypeOK, Ioctl, This
  <2>2. Launched' => Launched /\ Signalled
    BY <1>1, <1>3 DEF Receive, WaitDone, Returns, Outside, CompletionDone,
                      Awaited, TypeOK, Ioctl, CallKnown, Launched, Signalled
  <2>3. ExitKnown'
    BY <2>1, <2>2 DEF ExitKnown, Signalled, Live
  <2>4. KillKnown'
    BY <2>1, <2>2 DEF KillKnown, Live
  <2> QED
    BY <2>3, <2>4
<1>4. CASE ReceiveAgain
  BY <1>4, AsideVerdict DEF ReceiveAgain, vars, Aside, Lasting
<1>5. CASE Kill
  <2>1. /\ UNCHANGED <<mon, result>> /\ This' = This
        /\ ioctl'.killed /\ ioctl'.pc \in {"user", "killRead"}
        /\ Launched
        /\ ioctl'.pc = "killRead" => Sigkill(ctx.target_tgid)
        /\ ioctl'.pc # "killRead" => proc' = proc
    BY <1>1, <1>5 DEF Kill, Outside, TypeOK, Ioctl, This, Launched
  <2>2. This \in Runs /\ ctx.target_tgid = This
    BY <1>1, <2>1 DEF TargetKnown
  <2>3. \A r \in Runs :
            /\ ~Live(r) => /\ proc'[r].state \in {"none", "dead"}
                           /\ proc'[r].exit_code = proc[r].exit_code
            /\ proc[r].sigkilled => proc'[r].sigkilled
            /\ ioctl'.pc = "killRead" /\ r = This /\ Live(r)
                  => proc'[r].sigkilled
    <3>1. CASE proc' = proc /\ ioctl'.pc # "killRead"
      BY <3>1 DEF Live
    <3>2. CASE Sigkill(This)
      <4>1. TAKE r \in Runs
      <4>2. CASE r = This
        BY <1>1, <3>2, <4>2 DEF Sigkill, AfterSIGKILL, Live, TypeOK, Proc
      <4>3. CASE r # This
        BY <1>1, <3>2, <4>3 DEF Sigkill, Live, TypeOK
      <4> QED
        BY <4>2, <4>3
    <3> QED
      BY <2>1, <2>2, <3>1, <3>2
  <2>4. mon.pc # "none" => mon.leader \in Runs
    BY <1>1 DEF LeaderKnown
  <2>5. \/ mon.pc \in {"none", "created", "loop"} \/ mon.stop
        \/ /\ proc'[mon.leader].state \in {"none", "dead"}
           /\ mon.exit_code = proc'[mon.leader].exit_code
    BY <2>3, <2>4 DEF ExitKnown
  <2>6. ExitKnown'
    BY <2>1, <2>5 DEF ExitKnown, Live
  <2>7. \/ mon.pc = "none" \/ ~mon.stop
        \/ proc'[mon.leader].state \in {"none", "dead"}
        \/ proc'[mon.leader].sigkilled
    BY <2>3, <2>4 DEF KillKnown
  <2>8. \/ ioctl'.pc # "killRead"
        \/ proc'[This].state \in {"none", "dead"}
        \/ proc'[This].sigkilled
    BY <2>2, <2>3
  <2>9. result.process_hanged => \E r \in Runs : proc'[r].sigkilled
    BY <2>3 DEF KillKnown
  <2>10. KillKnown'
    BY <2>1, <2>7, <2>8, <2>9 DEF KillKnown, Live
  <2> QED
    BY <2>6, <2>10
<1>6. CASE Close
  <2>1. /\ UNCHANGED <<mon, proc, result>> /\ This' = This
        /\ ioctl'.pc = "relMon" /\ ~Launched'
    BY <1>1, <1>6 DEF Close, IoctlGoes, TypeOK, Ioctl, This, Launched
  <2> QED
    BY <2>1, AwayVerdict
<1>7. CASE KillNext
  <2>1. /\ UNCHANGED <<ctx, proc, result>> /\ This' = This
        /\ ioctl.pc \in {"killRead", "killStop", "killWait"}
        /\ ioctl'.pc \in {"user", "killStop", "killWait"}
        /\ ioctl'.killed = ioctl.killed
        /\ ioctl'.client = ioctl.client
    BY <1>1, <1>7 DEF KillNext, KillReads, KillStops, KillReturns, IoctlGoes,
                      TypeOK, Ioctl, This
  <2>2. /\ mon'.pc = mon.pc /\ mon'.leader = mon.leader
        /\ mon'.exit_code = mon.exit_code
        /\ mon.stop => mon'.stop
    BY <1>1, <1>7 DEF KillNext, KillReads, KillStops, KillReturns, Stopping,
                      TypeOK, Mon
  <2>3. ioctl.killed /\ (Live(This) => proc[This].sigkilled)
    BY <2>1 DEF KillKnown
  <2>4. mon.pc # "none" => mon.leader = This
    BY <1>1, <2>1 DEF CallKnown, MonitorKnown, Launched
  <2>5. ExitKnown'
    BY <2>1, <2>2, <2>3 DEF ExitKnown, Live
  <2>6. KillKnown'
    BY <2>1, <2>2, <2>3, <2>4 DEF KillKnown, Live
  <2> QED
    BY <2>5, <2>6
<1> QED
  BY <1>2, <1>3, <1>4, <1>5, <1>6, <1>7 DEF ClientNext

LEMMA ReleaseVerdict ==
  ASSUME RunInv, ExitKnown, KillKnown, ReleaseNext
  PROVE  ExitKnown' /\ KillKnown'
<1>1. /\ ioctl'.pc \in {"relFlip", "relFlipWait", "relCancel", "relFlush",
                        "relUnreg", "relIput", "relFree", "closed"}
      /\ This' = This /\ UNCHANGED <<mon, proc, result>>
  BY DEF RunInv, ThreadInv, TypeOK, Ioctl, This, IoctlGoes, ReleaseNext,
         ReleaseMonitor, ReleaseFlip, ReleaseFlipStopped, ReleaseCancels,
         ReleaseFlushes, ReleaseUnregisters, ReleasePuts, ReleaseFrees
<1> QED
  BY <1>1, AwayVerdict DEF Launched

\* The monitor thread looks at the target before it looks at its stop bit,
\* and publishes what it saw.
LEMMA MonVerdict ==
  ASSUME RunInv, RunInv', ExitKnown, KillKnown, MonNext
  PROVE  ExitKnown' /\ KillKnown'
<1>1. /\ TypeOK /\ LeaderKnown /\ MonitorKnown /\ FlipStopped
      /\ This' = This /\ UNCHANGED <<proc, ioctl>>
      /\ mon'.pc # "none" => mon'.leader = mon.leader
      /\ mon'.stop => mon.stop
      /\ mon.pc # "none"
      /\ Launched' = Launched
  BY MonKeeps DEF RunInv, ThreadInv, This, Launched
<1>2. CASE MonStarts \/ MonClears
  <2>1. /\ UNCHANGED result
        /\ mon'.pc \in {"none", "loop"}
        /\ mon'.stop = mon.stop \/ mon'.pc = "none"
        /\ mon'.pc = "none" => ~mon'.stop
    BY <1>1, <1>2 DEF MonStarts, MonClears, NoMon, TypeOK, Mon
  <2>2. Signalled' => Signalled
    BY <1>1, <1>2, MonKeeps DEF Signalled, MonStarts, MonClears
  <2>3. ExitKnown'
    BY <1>1, <2>1, <2>2 DEF ExitKnown, Live
  <2>4. KillKnown'
    BY <1>1, <2>1 DEF KillKnown, Live
  <2> QED
    BY <2>3, <2>4
<1>3. CASE MonSeesExit
  <2>1. /\ UNCHANGED <<ctx, result>>
        /\ mon'.pc = "revert" /\ ~Live(mon.leader)
        /\ mon'.exit_code = proc[mon.leader].exit_code
        /\ mon'.stop = mon.stop
    BY <1>1, <1>3 DEF MonSeesExit, TypeOK, Mon
  <2>2. ExitKnown'
    BY <1>1, <2>1 DEF ExitKnown, Live, Signalled
  <2>3. KillKnown'
    BY <1>1, <2>1 DEF KillKnown, Live
  <2> QED
    BY <2>2, <2>3
<1>4. CASE MonSeesStop
  <2>1. /\ UNCHANGED ctx /\ mon.pc = "loop"
        /\ mon'.pc = "revert" /\ Live(mon.leader)
        /\ mon'.stop /\ mon.stop
        /\ result'.exit_code = result.exit_code
    BY <1>1, <1>4 DEF MonSeesStop, ShouldStop, TypeOK, Mon, Result
  <2>2. \E r \in Runs : proc[r].sigkilled
    BY <1>1, <2>1 DEF KillKnown, LeaderKnown
  <2>3. ~Signalled
    BY <1>1, <2>1 DEF FlipStopped
  <2>4. ExitKnown'
    BY <1>1, <2>1, <2>3 DEF ExitKnown, Live, Signalled
  <2>5. KillKnown'
    BY <1>1, <2>1, <2>2 DEF KillKnown, Live
  <2> QED
    BY <2>4, <2>5
<1>5. CASE \/ MonReverts \/ MonStopsFlip \/ MonFlipStopped \/ MonFlushes
           \/ MonUnregisters \/ MonPuts
  <2>1. /\ UNCHANGED result
        /\ mon.pc \notin {"none", "created", "loop", "complete", "clear"}
        /\ mon'.pc \notin {"none", "created", "loop", "complete", "clear"}
        /\ mon'.stop = mon.stop /\ mon'.exit_code = mon.exit_code
    BY <1>1, <1>5 DEF MonReverts, MonStopsFlip, MonFlipStopped, MonFlushes,
                      MonUnregisters, MonPuts, MonGoes, TypeOK, Mon
  <2>2. ~Signalled'
    BY <2>1 DEF RunInv, FlipStopped
  <2>3. ExitKnown'
    BY <1>1, <2>1, <2>2 DEF ExitKnown, Live
  <2>4. KillKnown'
    BY <1>1, <2>1 DEF KillKnown, Live
  <2> QED
    BY <2>3, <2>4
<1>6. CASE MonPublishes
  <2>1. /\ mon.pc = "publish" /\ mon'.pc = "complete"
        /\ mon'.stop = mon.stop /\ mon'.exit_code = mon.exit_code
        /\ result'.exit_code = mon.exit_code
        /\ result'.process_hanged = result.process_hanged
    BY <1>1, <1>6 DEF MonPublishes, MonGoes, TypeOK, Mon, Result
  <2>2. ~Signalled'
    BY <2>1 DEF RunInv, FlipStopped
  <2>3. ExitKnown'
    BY <1>1, <2>1, <2>2 DEF ExitKnown, Live
  <2>4. KillKnown'
    BY <1>1, <2>1 DEF KillKnown, Live
  <2> QED
    BY <2>3, <2>4
<1>7. CASE MonCompletes
  <2>1. /\ UNCHANGED result
        /\ mon.pc = "complete" /\ mon'.pc = "clear"
        /\ mon'.stop = mon.stop /\ mon'.exit_code = mon.exit_code
    BY <1>1, <1>7 DEF MonCompletes, MonGoes, TypeOK, Mon
  <2>2. Signalled' /\ ~ioctl.killed =>
            ~Live(This) /\ result.exit_code = proc[This].exit_code
    <3> SUFFICES ASSUME Signalled', ~ioctl.killed
                 PROVE  ~Live(This) /\ result.exit_code = proc[This].exit_code
      OBVIOUS
    <3>1. Launched
      BY <1>1 DEF Signalled
    <3>2. ~mon.stop /\ mon.leader = This
      BY <1>1, <2>1, <3>1 DEF KillKnown, MonitorKnown
    <3> QED
      BY <2>1, <3>2 DEF ExitKnown
  <2>3. ExitKnown'
    BY <1>1, <2>1, <2>2 DEF ExitKnown, Live
  <2>4. KillKnown'
    BY <1>1, <2>1 DEF KillKnown, Live
  <2> QED
    BY <2>3, <2>4
<1> QED
  BY <1>2, <1>3, <1>4, <1>5, <1>6, <1>7 DEF MonNext

\* ExitKnown and KillKnown hold in every reachable state.
LEMMA VerdictKnown == Safe => [](RunInv /\ ExitKnown /\ KillKnown)
<1> DEFINE Inv == RunInv /\ ExitKnown /\ KillKnown
<1>1. Init => ExitKnown /\ KillKnown
  BY InitVerdict
<1>2. RunInv /\ RunInv' /\ ExitKnown /\ KillKnown /\ [Next]_vars
        => ExitKnown' /\ KillKnown'
  <2> SUFFICES ASSUME RunInv, RunInv', ExitKnown, KillKnown, [Next]_vars
               PROVE  ExitKnown' /\ KillKnown'
    OBVIOUS
  <2>1. CASE FlipNext \/ WorkNext \/ HitNext \/ TargetNext
    BY <2>1, FlipAside, WorkAside, TargetAside, AsideVerdict
       DEF RunInv, ThreadInv
  <2>2. CASE Closed \/ UNCHANGED vars
    BY <2>2, AsideVerdict DEF Closed, vars, Aside, Lasting
  <2> QED
    BY <2>1, <2>2, StartVerdict, CallVerdict, ReleaseVerdict, MonVerdict
       DEF Next
<1> QED
  BY <1>1, <1>2, RunKnown, PTL DEF Safe

\* The completion means that the target is dead, unless the client itself
\* gave up on it (monitor.c:28-39).
THEOREM CompletedIsExited == Safe => []CompletedAfterExit
<1>1. RunInv /\ ExitKnown => CompletedAfterExit
  <2> SUFFICES ASSUME RunInv, ExitKnown, Reported, ~ioctl.killed
               PROVE  proc[This].state = "dead"
    BY DEF CompletedAfterExit
  <2>1. Launched /\ Signalled
    BY DEF Reported, Launched, Signalled
  <2>2. ~Live(This) /\ proc[This].state # "none"
    BY <2>1 DEF ExitKnown, RunInv, TargetKnown
  <2> QED
    BY <2>2 DEF Live
<1> QED
  BY <1>1, VerdictKnown, PTL

\* A run is reported as hanged only if KILL_TARGET has killed a target on
\* this file (monitor.c:36): an earlier run's hang is not taken back.
THEOREM HangedIsKilled ==
  Safe => [](result.process_hanged => \E r \in Runs : proc[r].sigkilled)
<1>1. KillKnown => (result.process_hanged =>
                        \E r \in Runs : proc[r].sigkilled)
  BY DEF KillKnown
<1> QED
  BY <1>1, VerdictKnown, PTL

\* On a file on which one run is started, as the runner does it
\* (fij_ioctls.cpp), it is this run's target that was killed.
THEOREM OneRunHangedIsKilled ==
  ASSUME MaxSends = 1
  PROVE  Safe => []HangImpliesKilled
<1>1. RunInv /\ KillKnown => HangImpliesKilled
  <2> SUFFICES ASSUME RunInv, KillKnown, Reported, result.process_hanged
               PROVE  proc[This].sigkilled
    BY DEF HangImpliesKilled
  <2>1. This \in Runs
    BY DEF Reported, Launched, RunInv, TargetKnown
  <2>2. Runs = {1}
    BY DEF Runs
  <2> QED
    BY <2>1, <2>2 DEF KillKnown
<1> QED
  BY <1>1, VerdictKnown, PTL

-----------------------------------------------------------------------------
(* What a reported run has left of its target and of its probe, and that   *)
(* the result the client reads is the one of the process it started.       *)

\* RunInv, as the proofs below use it.
LEMMA RunParts ==
  RunInv => /\ TypeOK /\ LeaderKnown /\ MonitorOwned /\ FlipOwned
            /\ CallKnown /\ TargetKnown /\ MonitorKnown /\ FlipStopped
  BY DEF RunInv, ThreadInv

-----------------------------------------------------------------------------
(* Whose result it is.                                                     *)

\* The steps that do not start or end a call leave the client's knowledge
\* and the iteration alone.
LEMMA IterationLasts ==
  ASSUME TypeOK,
         \/ StartNext \/ KillNext \/ ReleaseNext \/ MonNext \/ FlipNext
         \/ WorkNext \/ HitNext \/ TargetNext \/ Kill \/ Close
  PROVE  /\ ioctl'.sends = ioctl.sends
         /\ ioctl'.call = ioctl.call
         /\ ioctl'.client = "got" => ioctl.client = "got"
         /\ result'.iteration = result.iteration
<1>1. CASE StartNext
  BY <1>1 DEF StartNext, Exec, MarkRunning, StartMonitor, SetMonitor, StartFlip,
     SetFlip, ArmProbe, Continue, StartFails, Returns, IoctlGoes, TypeOK, Ioctl
<1>2. CASE KillNext \/ ReleaseNext
  BY <1>2 DEF KillNext, KillReads, KillStops, KillReturns, ReleaseNext,
     ReleaseMonitor, ReleaseFlip, ReleaseFlipStopped, ReleaseCancels,
     ReleaseFlushes, ReleaseUnregisters, ReleasePuts, ReleaseFrees, IoctlGoes,
     TypeOK, Ioctl
<1>3. CASE Kill \/ Close
  BY <1>3 DEF Kill, Close, IoctlGoes, TypeOK, Ioctl
<1>4. CASE MonNext
  BY <1>4 DEF MonNext, MonStarts, MonSeesExit, MonSeesStop, MonReverts,
     MonStopsFlip, MonFlipStopped, MonFlushes, MonUnregisters, MonPuts,
     MonPublishes, MonCompletes, MonClears, TypeOK, Result
<1>5. CASE FlipNext \/ WorkNext \/ HitNext \/ TargetNext
  BY <1>5, FlipAside, WorkAside, TargetAside DEF Aside
<1> QED
  BY <1>1, <1>2, <1>3, <1>4, <1>5

LEMMA IterationStep ==
  ASSUME RunInv, IterationKnown, [Next]_vars
  PROVE  IterationKnown'
<1>1. TypeOK /\ CallKnown /\ TargetKnown
  BY RunParts
<1>2. CASE UNCHANGED vars \/ Closed \/ ReceiveAgain
  BY <1>2 DEF vars, Closed, ReceiveAgain, IterationKnown, This
<1>3. CASE Send
  <2>1. /\ ioctl'.sends = ioctl.sends + 1
        /\ ioctl'.client \in {"failed", "fresh"}
        /\ ioctl'.call = "SEND_MSG" => result'.iteration = ioctl.sends + 1
    BY <1>1, <1>3 DEF Send, TypeOK, Ioctl, Result
  <2> QED
    BY <2>1 DEF IterationKnown, This
<1>4. CASE Receive \/ WaitDone
  <2>1. /\ ioctl'.sends = ioctl.sends /\ ioctl'.call = ioctl.call
        /\ result' = result
    BY <1>1, <1>4 DEF Receive, WaitDone, Returns, TypeOK, Ioctl
  <2>2. This \in Runs
    BY <1>1, <1>4 DEF Receive, WaitDone, Outside, CallKnown, TargetKnown,
                      Launched
  <2> QED
    BY <2>1, <2>2 DEF IterationKnown, This, Runs
<1>5. CASE \/ StartNext \/ KillNext \/ ReleaseNext \/ MonNext \/ FlipNext
           \/ WorkNext \/ HitNext \/ TargetNext \/ Kill \/ Close
  BY <1>1, <1>5, IterationLasts DEF IterationKnown, This
<1> QED
  BY <1>2, <1>3, <1>4, <1>5 DEF Next, ClientNext

\* The iteration and the exit code the client is given are those of the
\* process it started, whatever was refused, killed or lost before
\* (ioctl.c:135-142, monitor.c:28-32, 80).
THEOREM ResultIsTheRuns == Safe => []ResultIsOwn
<1>1. Init => IterationKnown
  BY DEF Init, IterationKnown, This
<1>2. RunInv /\ ExitKnown /\ IterationKnown => ResultIsOwn
  <2> SUFFICES ASSUME RunInv, ExitKnown, IterationKnown,
                      ioctl.client = "got", ioctl.pc = "user"
               PROVE  /\ ~ioctl.killed =>
                            result.exit_code = proc[This].exit_code
                      /\ ioctl.call = "SEND_MSG" => result.iteration = This
    BY DEF ResultIsOwn
  <2>1. Signalled
    BY DEF Signalled, Launched
  <2> QED
    BY <2>1 DEF ExitKnown, IterationKnown
<1>3. RunInv /\ IterationKnown /\ [Next]_vars => IterationKnown'
  BY IterationStep
<1> QED
  BY <1>1, <1>2, <1>3, VerdictKnown, PTL DEF Safe

-----------------------------------------------------------------------------
(* The target is resumed.                                                  *)

\* SIGSTOP is pending or has been delivered.
Halted(r) == proc[r].state \in {"execed", "stopping", "stopped"}

\* The bitflip thread has sent a SIGSTOP to r and has not sent SIGCONT.
Halts(r) ==
    /\ flip.pc \in {"leader", "waitStop", "flip", "pin", "report", "cont"}
    /\ flip.tgid = r

\* A step that leaves the bitflip thread alone and halts no process.
LEMMA NotHalting ==
  ASSUME StopKnown, flip' = flip, This' = This, Launched' => Launched,
         Launched /\ Halted(This)' => Halted(This)
  PROVE  StopKnown'
  BY DEF StopKnown, Halted

LEMMA FlipHalts ==
  ASSUME RunInv, StopKnown, FlipNext
  PROVE  StopKnown'
<1>1. /\ TypeOK /\ ioctl' = ioctl /\ This' = This /\ Launched' = Launched
      /\ Launched => This \in Runs
  BY RunParts, FlipAside DEF Aside, This, Launched, TargetKnown
<1>2. CASE FlipStarts \/ FlipTriggered \/ FlipSlept \/ FlipCollects
  <2>1. /\ proc' = proc
        /\ flip.pc \in {"created", "trig", "sleep", "collect"}
    BY <1>2 DEF FlipStarts, FlipTriggered, FlipSlept, FlipCollects
  <2> QED
    BY <1>1, <2>1 DEF StopKnown
<1>3. CASE FlipClearsTrigger \/ FlipTimes \/ FlipReturns
  <2>1. /\ proc' = proc
        /\ flip.pc \in {"untrig", "out", "park"}
    BY <1>3 DEF FlipClearsTrigger, FlipTimes, FlipReturns
  <2> QED
    BY <1>1, <2>1 DEF StopKnown
<1>4. CASE FlipStops
  <2>1. CASE Found(flip.tgid)
    <3>1. /\ Sigstop(flip.tgid) /\ flip'.pc \in {"leader", "waitStop"}
          /\ flip'.tgid = flip.tgid
      BY <1>1, <1>4, <2>1 DEF FlipStops, FlipGoes, TypeOK, Flip
    <3>2. This \in Runs /\ This # flip.tgid =>
              proc'[This].state = proc[This].state
      BY <1>1, <3>1 DEF Sigstop, SetState, TypeOK
    <3>3. flip.pc = "stop"
      BY <1>4 DEF FlipStops
    <3> QED
      BY <1>1, <3>1, <3>2, <3>3 DEF StopKnown
  <2>2. CASE ~Found(flip.tgid)
    BY <1>1, <1>4, <2>2 DEF FlipStops, StopKnown
  <2> QED
    BY <2>1, <2>2
<1>5. CASE FlipFindsLeader
  <2>1. /\ proc' = proc
        /\ Found(flip.tgid) => flip'.pc = "waitStop" /\ flip'.tgid = flip.tgid
    BY <1>1, <1>5 DEF FlipFindsLeader, TypeOK, Flip
  <2>2. CASE Found(flip.tgid)
    BY <1>1, <2>1, <2>2 DEF StopKnown
  <2>3. CASE ~Found(flip.tgid)
    <3>1. This \in Runs => ~(Halted(This) /\ flip.tgid = This)
      BY <2>3, FijAssumption DEF Found, Live, Halted, Runs, NoPid
    <3> QED
      BY <1>1, <2>1, <3>1 DEF StopKnown, Halted
  <2> QED
    BY <2>2, <2>3
<1>6. CASE FlipWaits \/ FlipPins \/ FlipReports
  <2>1. /\ proc' = proc /\ flip'.tgid = flip.tgid
        /\ flip'.pc \in {"flip", "report", "cont"}
    BY <1>1, <1>6 DEF FlipWaits, FlipPins, FlipReports, FlipGoes, TypeOK, Flip
  <2> QED
    BY <1>1, <2>1 DEF StopKnown
<1>7. CASE FlipRegister \/ FlipMemory
  <2>1. /\ flip'.tgid = flip.tgid
        /\ flip'.pc \in {"pin", "report", "cont"}
    BY <1>1, <1>7 DEF FlipRegister, FlipMemory, FlipGoes, TypeOK, Flip
  <2>2. \/ proc' = proc
        \/ \E lands \in BOOLEAN : MarkFaulty(flip.tgid, lands)
    BY <1>7 DEF FlipRegister, FlipMemory
  <2>3. \A r \in Runs : proc'[r].state = proc[r].state
    BY <1>1, <2>2, FaultyLasts
  <2> QED
    BY <1>1, <2>1, <2>3 DEF StopKnown
<1>8. CASE FlipResumes
  <2>1. proc' = SetState(flip.tgid, AfterSIGCONT(proc[flip.tgid].state))
    BY <1>8 DEF FlipResumes, Resumes
  <2>2. This \in Runs => IF This = flip.tgid
                         THEN ~Halted(This)'
                         ELSE proc'[This].state = proc[This].state
    BY <1>1, <2>1 DEF SetState, AfterSIGCONT, Halted, TypeOK, Proc
  <2> QED
    BY <1>1, <2>2 DEF StopKnown, Halted
<1> QED
  BY <1>2, <1>3, <1>4, <1>5, <1>6, <1>7, <1>8 DEF FlipNext

LEMMA StopStep ==
  ASSUME RunInv, StopKnown, [Next]_vars
  PROVE  StopKnown'
<1>1. TypeOK /\ CallKnown /\ (Launched => This \in Runs)
  BY RunParts DEF TargetKnown
<1>2. CASE UNCHANGED vars \/ Closed \/ ReceiveAgain
  BY <1>2 DEF vars, Closed, ReceiveAgain, StopKnown, This, Launched
<1>3. CASE Send
  <2>1. ~Launched'
    BY <1>1, <1>3 DEF Send, Launched, TypeOK, Ioctl
  <2> QED
    BY <2>1 DEF StopKnown
<1>4. CASE Receive \/ WaitDone \/ Close
  <2>1. /\ UNCHANGED <<proc, flip>> /\ This' = This
        /\ Launched' => Launched
    BY <1>1, <1>4 DEF Receive, WaitDone, Close, Outside, Returns, IoctlGoes,
                      CallKnown, Launched, This, TypeOK, Ioctl
  <2> QED
    BY <2>1, NotHalting DEF Halted
<1>5. CASE Kill
  <2>1. /\ flip' = flip /\ This' = This /\ Launched
        /\ UNCHANGED proc \/ Sigkill(ctx.target_tgid)
    BY <1>1, <1>5 DEF Kill, Outside, Launched, This, TypeOK, Ioctl
  <2>2. Halted(This)' => Halted(This)
    BY <1>1, <2>1 DEF Sigkill, AfterSIGKILL, Halted, TypeOK, Proc
  <2> QED
    BY <2>1, <2>2, NotHalting
<1>6. CASE KillNext \/ ReleaseNext
  <2>1. /\ proc' = proc /\ This' = This
        /\ flip'.pc = flip.pc /\ flip'.tgid = flip.tgid
    BY <1>1, <1>6 DEF KillNext, KillReads, KillStops, KillReturns, ReleaseNext,
       ReleaseMonitor, ReleaseFlip, ReleaseFlipStopped, ReleaseCancels,
       ReleaseFlushes, ReleaseUnregisters, ReleasePuts, ReleaseFrees,
       Stopping, IoctlGoes, This, TypeOK, Ioctl, Flip
  <2>2. Launched' => Launched
    <3>1. CASE KillNext
      BY <1>1, <3>1 DEF KillNext, KillReads, KillStops, KillReturns, IoctlGoes,
                        CallKnown, Launched, TypeOK, Ioctl
    <3>2. CASE ReleaseNext
      BY <1>1, <3>2 DEF ReleaseNext, ReleaseMonitor, ReleaseFlip,
         ReleaseFlipStopped, ReleaseCancels, ReleaseFlushes,
         ReleaseUnregisters, ReleasePuts, ReleaseFrees, IoctlGoes, Launched,
         TypeOK, Ioctl
    <3> QED
      BY <1>6, <3>1, <3>2
  <2> QED
    BY <2>1, <2>2 DEF StopKnown
<1>7. CASE StartNext
  <2>1. CASE Continue
    <3>1. CASE ~Found(This)
      BY <1>1, <2>1, <3>1 DEF Continue, IoctlGoes, Launched, StopKnown, TypeOK,
                              Ioctl
    <3>2. CASE Found(This)
      <4>1. /\ This \in Runs /\ This' = This
            /\ proc' = SetState(This, AfterSIGCONT(proc[This].state))
        BY <1>1, <2>1, <3>2 DEF Continue, Found, This, NoPid, TypeOK, Ioctl
      <4>2. ~Halted(This)'
        BY <1>1, <4>1 DEF SetState, AfterSIGCONT, Halted, TypeOK, Proc
      <4> QED
        BY <4>1, <4>2 DEF StopKnown, Halted
    <3> QED
      BY <3>1, <3>2
  <2>2. CASE ~Continue
    <3>1. ~Launched'
      BY <1>1, <1>7, <2>2 DEF StartNext, Exec, MarkRunning, StartMonitor,
         SetMonitor, StartFlip, SetFlip, ArmProbe, StartFails, Returns,
         IoctlGoes, CallKnown, Launching, Launched, TypeOK, Ioctl
    <3> QED
      BY <3>1 DEF StopKnown
  <2> QED
    BY <2>1, <2>2
<1>8. CASE MonNext
  <2>1. UNCHANGED <<proc, ioctl>> /\ flip'.pc = flip.pc /\ flip'.tgid = flip.tgid
    BY <1>1, <1>8 DEF MonNext, MonStarts, MonSeesExit, MonSeesStop, MonReverts,
       MonStopsFlip, MonFlipStopped, MonFlushes, MonUnregisters, MonPuts,
       MonPublishes, MonCompletes, MonClears, Stopping, TypeOK, Flip
  <2> QED
    BY <2>1 DEF StopKnown, Launched, This
<1>9. CASE WorkNext \/ HitNext
  <2>1. UNCHANGED <<proc, ioctl, flip>>
    BY <1>9 DEF WorkNext, WorkStarts, WorkUnregisters, WorkPuts, HitNext,
                UprobeHit
  <2> QED
    BY <2>1 DEF StopKnown, Launched, This
<1>10. CASE TargetNext
  <2> SUFFICES ASSUME NEW p \in Runs,
                      \/ TargetStops(p) \/ TargetKilled(p)
                      \/ TargetExits(p) \/ TargetCrashes(p)
               PROVE  StopKnown'
    BY <1>10 DEF TargetNext
  <2>1. UNCHANGED <<ioctl, flip>>
    BY DEF TargetStops, TargetKilled, TargetExits, TargetCrashes,
           TargetUnchanged
  <2>2. This \in Runs /\ Halted(This)' => Halted(This)
    BY <1>1, <2>1 DEF TargetStops, TargetKilled, TargetExits, TargetCrashes,
                      Dies, SetState, Halted, This, TypeOK, Proc
  <2>3. Launched' = Launched /\ This' = This
    BY <2>1 DEF Launched, This
  <2> QED
    BY <1>1, <2>1, <2>2, <2>3, NotHalting
<1> QED
  BY <1>2, <1>3, <1>4, <1>5, <1>6, <1>7, <1>8, <1>9, <1>10, FlipHalts
     DEF Next, ClientNext

\* When SEND_MSG has returned and the injection is over, no SIGSTOP of the
\* driver is left on the target: not with a failed flip, a kthread_stop, a
\* killed or crashed target, or the two SIGCONTs in either order
\* (ioctl.c:105, bitflip_ops.c:280, 356).
THEOREM TargetIsResumed == Safe => []TargetResumed
<1>1. Init => StopKnown
  BY DEF Init, StopKnown, Launched
<1>2. RunInv /\ StopKnown /\ [Next]_vars => StopKnown'
  BY StopStep
<1>3. StopKnown => TargetResumed
  BY DEF StopKnown, TargetResumed, Launched
<1> QED
  BY <1>1, <1>2, <1>3, RunKnown, PTL DEF Safe

-----------------------------------------------------------------------------
(* A flip that was made is reported, unless it is one of all threads.      *)

\* Only the bitflip thread marks a process, reports and takes a branch.
LEMMA OthersFlipNothing ==
  ASSUME TypeOK, FlipOwned,
         \/ StartNext \/ KillNext \/ ReleaseNext \/ MonNext \/ WorkNext
         \/ HitNext \/ TargetNext \/ ClientNext
  PROVE  /\ params' = params \/ params' \in ParamSet
         /\ flip'.all => flip.all
         /\ flip.pc \in {"pin", "report"} => flip'.pc \in {"pin", "report"}
         /\ result'.fault_injected = result.fault_injected
         /\ \A r \in Runs : proc'[r].faulty = proc[r].faulty
<1>1. CASE StartNext
  <2>1. params' = params /\ result' = result
    BY <1>1 DEF StartNext, Exec, MarkRunning, StartMonitor, SetMonitor,
       StartFlip, SetFlip, ArmProbe, Continue, StartFails
  <2>2. \A r \in Runs : proc'[r].faulty = proc[r].faulty
    BY <1>1 DEF StartNext, Exec, MarkRunning, StartMonitor, SetMonitor,
       StartFlip, SetFlip, ArmProbe, Continue, StartFails, SetState, TypeOK,
       Proc
  <2>3. \/ flip' = flip
        \/ flip.pc = "none" /\ ~flip'.all
    BY <1>1 DEF StartNext, Exec, MarkRunning, StartMonitor, SetMonitor,
       StartFlip, SetFlip, ArmProbe, Continue, StartFails, NoFlip, FlipOwned
  <2> QED
    BY <2>1, <2>2, <2>3
<1>2. CASE KillNext \/ ReleaseNext
  BY <1>2 DEF KillNext, KillReads, KillStops, KillReturns, ReleaseNext,
     ReleaseMonitor, ReleaseFlip, ReleaseFlipStopped, ReleaseCancels,
     ReleaseFlushes, ReleaseUnregisters, ReleasePuts, ReleaseFrees, Stopping,
     TypeOK, Flip
<1>3. CASE MonNext
  BY <1>3 DEF MonNext, MonStarts, MonSeesExit, MonSeesStop, MonReverts,
     MonStopsFlip, MonFlipStopped, MonFlushes, MonUnregisters, MonPuts,
     MonPublishes, MonCompletes, MonClears, Stopping, TypeOK, Flip, Result
<1>4. CASE WorkNext \/ HitNext
  BY <1>4 DEF WorkNext, WorkStarts, WorkUnregisters, WorkPuts, HitNext,
     UprobeHit
<1>5. CASE TargetNext
  BY <1>5 DEF TargetNext, TargetStops, TargetKilled, TargetExits,
     TargetCrashes, Dies, SetState, TargetUnchanged, TypeOK, Proc
<1>6. CASE Send
  BY <1>6 DEF Send, TypeOK, Result
<1>7. CASE Receive \/ ReceiveAgain \/ WaitDone \/ Close
  BY <1>7 DEF Receive, ReceiveAgain, WaitDone, Close, vars
<1>8. CASE Kill
  <2>1. \A r \in Runs : proc'[r].faulty = proc[r].faulty
    BY <1>8 DEF Kill, Sigkill, TypeOK, Proc
  <2> QED
    BY <1>8, <2>1 DEF Kill
<1> QED
  BY <1>1, <1>2, <1>3, <1>4, <1>5, <1>6, <1>7, <1>8 DEF ClientNext

LEMMA FlipFaults ==
  ASSUME TypeOK, FaultKnown, FlipNext
  PROVE  FaultKnown'
<1>1. /\ params' = params /\ ~params.all_threads /\ ~flip.all
      /\ \A r \in Runs : proc[r].faulty =>
            result.fault_injected \/ flip.pc \in {"pin", "report"}
  BY DEF FaultKnown, FlipNext, FlipStarts, FlipTriggered, FlipSlept,
     FlipCollects, FlipStops, FlipFindsLeader, FlipWaits, FlipRegister,
     FlipMemory, FlipPins, FlipReports, FlipResumes, FlipClearsTrigger,
     FlipTimes, FlipReturns
<1>2. CASE \/ FlipStarts \/ FlipTriggered \/ FlipSlept \/ FlipCollects
           \/ FlipFindsLeader \/ FlipWaits \/ FlipClearsTrigger
           \/ FlipReturns
  <2>1. /\ proc' = proc /\ result' = result
        /\ flip.pc \notin {"pin", "report"}
    BY <1>2 DEF FlipStarts, FlipTriggered, FlipSlept, FlipCollects,
       FlipFindsLeader, FlipWaits, FlipClearsTrigger, FlipReturns
  <2>2. ~flip'.all
    <3>1. CASE FlipStarts \/ FlipReturns \/ FlipFindsLeader
      <4>1. flip' = NoFlip \/ flip'.all = flip.all
        <5>1. CASE FlipStarts
          BY <1>1, <5>1 DEF FlipStarts, TypeOK, Flip
        <5>2. CASE FlipReturns \/ FlipFindsLeader
          BY <1>1, <5>2 DEF FlipReturns, FlipFindsLeader, TypeOK, Flip
        <5> QED
          BY <3>1, <5>1, <5>2
      <4> QED
        BY <1>1, <4>1 DEF NoFlip
    <3>2. CASE FlipCollects
      BY <1>1, <3>2 DEF FlipCollects, FlipGoes, TypeOK, Flip
    <3>3. CASE FlipTriggered \/ FlipSlept \/ FlipWaits \/ FlipClearsTrigger
      BY <1>1, <3>3 DEF FlipTriggered, FlipSlept, FlipWaits,
         FlipClearsTrigger, FlipGoes, TypeOK, Flip
    <3> QED
      BY <1>2, <3>1, <3>2, <3>3
  <2> QED
    BY <1>1, <2>1, <2>2 DEF FaultKnown
<1>3. CASE FlipStops \/ FlipResumes
  <2>1. /\ result' = result /\ ~flip'.all
        /\ flip.pc \notin {"pin", "report"}
        /\ \A r \in Runs : proc'[r].faulty = proc[r].faulty
    BY <1>1, <1>3 DEF FlipStops, FlipResumes, Sigstop, SetState, FlipGoes,
       TypeOK, Flip, Proc
  <2> QED
    BY <1>1, <2>1 DEF FaultKnown
<1>4. CASE FlipRegister \/ FlipMemory
  <2>1. /\ result' = result /\ ~flip'.all
        /\ flip.pc = "flip"
        /\ proc' = proc \/ flip'.pc \in {"pin", "report"}
    BY <1>1, <1>4 DEF FlipRegister, FlipMemory, FlipGoes, TypeOK, Flip
  <2> QED
    BY <1>1, <2>1 DEF FaultKnown
<1>5. CASE FlipPins
  <2>1. /\ proc' = proc /\ result' = result /\ ~flip'.all
        /\ flip'.pc = "report"
    BY <1>1, <1>5 DEF FlipPins, FlipGoes, TypeOK, Flip
  <2> QED
    BY <1>1, <2>1 DEF FaultKnown
<1>6. CASE FlipReports
  <2>1. ~flip'.all /\ result'.fault_injected
    BY <1>1, <1>6 DEF FlipReports, ReportsFault, FlipGoes, TypeOK, Flip, Result
  <2> QED
    BY <1>1, <2>1 DEF FaultKnown
<1>7. CASE FlipTimes
  <2>1. /\ proc' = proc /\ ~flip'.all /\ flip.pc = "out"
        /\ result'.fault_injected = result.fault_injected
    BY <1>1, <1>7 DEF FlipTimes, FlipGoes, TypeOK, Flip, Result
  <2> QED
    BY <1>1, <2>1 DEF FaultKnown
<1> QED
  BY <1>2, <1>3, <1>4, <1>5, <1>6, <1>7 DEF FlipNext

LEMMA InitFault == Init => FaultKnown
  BY DEF Init, FaultKnown, ZeroParams, NoFlip, NoProc

LEMMA FaultStep ==
  ASSUME RunInv, FaultKnown, [Next]_vars,
         \A p \in ParamSet : ~p.all_threads
  PROVE  FaultKnown'
<1>1. TypeOK /\ FlipOwned
  BY RunParts
<1>2. CASE UNCHANGED vars \/ Closed
  BY <1>2 DEF vars, Closed, FaultKnown
<1>3. CASE FlipNext
  BY <1>1, <1>3, FlipFaults
<1>4. CASE \/ StartNext \/ KillNext \/ ReleaseNext \/ MonNext \/ WorkNext
           \/ HitNext \/ TargetNext \/ ClientNext
  BY <1>1, <1>4, OthersFlipNothing DEF FaultKnown
<1> QED
  BY <1>2, <1>3, <1>4 DEF Next

\* Of a client that never asks for a flip of all threads, every bit that was
\* flipped is reported, whatever failed, was killed or was stopped in between:
\* the bitflip thread is gone before the monitor thread tells
\* (monitor.c:52-58).
THEOREM FaultIsReported ==
  ASSUME \A p \in ParamSet : ~p.all_threads
  PROVE  Safe => []FaultReported
<1>1. Init => FaultKnown
  BY InitFault
<1>2. RunInv /\ FaultKnown /\ [Next]_vars => FaultKnown'
  BY FaultStep
<1>3. RunInv /\ FaultKnown => FaultReported
  <2> SUFFICES ASSUME RunInv, FaultKnown, Reported, proc[This].faulty
               PROVE  result.fault_injected
    BY DEF FaultReported
  <2>1. Launched /\ Signalled
    BY DEF Reported, Launched, Signalled
  <2>2. This \in Runs /\ flip.pc = "none"
    BY <2>1, RunParts DEF TargetKnown, FlipStopped
  <2> QED
    BY <2>2 DEF FaultKnown
<1> QED
  BY <1>1, <1>2, <1>3, RunKnown, PTL DEF Safe

-----------------------------------------------------------------------------
(* The probe is gone.                                                      *)

\* A step that arms nothing and changes no parameter.
ProbeShrinks ==
    /\ params' = params
    /\ probe' = ctx'.uprobe_active /\ ctx'.inj_uprobe = ctx'.uprobe_active
    /\ ctx'.uprobe_active => ctx.uprobe_active
    /\ ctx'.inj_inode => ctx.inj_inode

LEMMA ThreadsShrink ==
  ASSUME TypeOK, ProbeKnown,
         \/ FlipNext \/ WorkNext \/ HitNext \/ TargetNext \/ MonNext
         \/ KillNext \/ ReleaseNext
  PROVE  ProbeShrinks
<1> USE DEF ProbeKnown, ProbeShrinks, TypeOK, Ctx
<1>1. CASE FlipNext
  <2>1. /\ UNCHANGED <<params, probe>>
        /\ ctx'.uprobe_active = ctx.uprobe_active
        /\ ctx'.inj_uprobe = ctx.inj_uprobe
        /\ ctx'.inj_inode = ctx.inj_inode
    BY <1>1 DEF FlipNext, FlipStarts, FlipTriggered, FlipSlept,
       FlipCollects, FlipStops, FlipFindsLeader, FlipWaits, FlipRegister,
       FlipMemory, FlipPins, FlipReports, FlipResumes, FlipClearsTrigger,
       FlipTimes, FlipReturns
  <2> QED
    BY <2>1
<1>2. CASE WorkStarts \/ WorkPuts \/ HitNext
  <2>1. /\ UNCHANGED <<params, probe>>
        /\ ctx'.uprobe_active = ctx.uprobe_active
        /\ ctx'.inj_uprobe = ctx.inj_uprobe
        /\ ctx'.inj_inode = ctx.inj_inode \/ ~ctx'.inj_inode
    BY <1>2 DEF WorkStarts, WorkPuts, HitNext, UprobeHit, DisarmedCtx
  <2> QED
    BY <2>1
<1>3. CASE WorkUnregisters \/ MonUnregisters \/ ReleaseUnregisters
  <2>1. /\ UNCHANGED params /\ ~probe' /\ ~ctx'.uprobe_active
        /\ ~ctx'.inj_uprobe /\ ctx'.inj_inode = ctx.inj_inode
        /\ probe' = FALSE /\ ctx'.uprobe_active = FALSE
        /\ ctx'.inj_uprobe = FALSE
    BY <1>3 DEF WorkUnregisters, MonUnregisters, ReleaseUnregisters,
       UnregisteredCtx
  <2> QED
    BY <2>1
<1>4. CASE TargetNext
  BY <1>4 DEF TargetNext, TargetStops, TargetKilled, TargetExits,
     TargetCrashes, TargetUnchanged
<1>5. CASE MonNext /\ ~MonUnregisters
  <2>1. /\ UNCHANGED <<params, probe>>
        /\ ctx'.uprobe_active = ctx.uprobe_active
        /\ ctx'.inj_uprobe = ctx.inj_uprobe
        /\ ctx'.inj_inode = ctx.inj_inode \/ ~ctx'.inj_inode
    <3>1. CASE MonStarts \/ MonSeesExit \/ MonSeesStop \/ MonFlushes
      BY <3>1 DEF MonStarts, MonSeesExit, MonSeesStop, MonFlushes
    <3>2. CASE MonReverts \/ MonStopsFlip \/ MonFlipStopped
      BY <3>2 DEF MonReverts, MonStopsFlip, MonFlipStopped, Restored
    <3>3. CASE MonPuts \/ MonPublishes \/ MonCompletes \/ MonClears
      BY <3>3 DEF MonPuts, MonPublishes, MonCompletes, MonClears,
         DisarmedCtx, Completed
    <3> QED
      BY <1>5, <3>1, <3>2, <3>3 DEF MonNext
  <2> QED
    BY <2>1
<1>6. CASE KillNext \/ (ReleaseNext /\ ~ReleaseUnregisters)
  <2>1. /\ UNCHANGED <<params, probe>>
        /\ ctx'.uprobe_active = ctx.uprobe_active
        /\ ctx'.inj_uprobe = ctx.inj_uprobe
        /\ ctx'.inj_inode = ctx.inj_inode \/ ~ctx'.inj_inode
    <3>1. CASE KillNext \/ ReleaseFlip \/ ReleaseCancels \/ ReleaseFlushes
      BY <3>1 DEF KillNext, KillReads, KillStops, KillReturns, ReleaseFlip,
         ReleaseCancels, ReleaseFlushes
    <3>2. CASE ReleaseMonitor
      BY <3>2 DEF ReleaseMonitor
    <3>3. CASE ReleaseFlipStopped \/ ReleasePuts \/ ReleaseFrees
      BY <3>3 DEF ReleaseFlipStopped, ReleasePuts, ReleaseFrees, DisarmedCtx
    <3> QED
      BY <1>6, <3>1, <3>2, <3>3 DEF ReleaseNext
  <2> QED
    BY <2>1
<1> QED
  BY <1>1, <1>2, <1>3, <1>4, <1>5, <1>6 DEF WorkNext, MonNext, ReleaseNext

\* Such a step keeps ProbeKnown unless the monitor thread gets further.
LEMMA ProbeAway ==
  ASSUME ProbeKnown, ProbeShrinks,
         ioctl'.pc = "arm" => ioctl.pc = "arm",
         Launched' => Launched,
         Launched /\ mon' # mon => mon'.pc \notin
                    {"iput", "publish", "complete", "clear"},
         Signalled' => Signalled
  PROVE  ProbeKnown'
  BY DEF ProbeKnown, ProbeShrinks

LEMMA InitProbe == Init => ProbeKnown
<1> SUFFICES ASSUME Init PROVE ProbeKnown
  OBVIOUS
<1>1. /\ probe = FALSE /\ ctx.uprobe_active = FALSE
      /\ ctx.inj_uprobe = FALSE /\ ctx.inj_inode = FALSE
  BY DEF Init, FreshCtx
<1>2. /\ ~params.target_pc_present
      /\ ioctl.pc = "user" /\ ioctl.client = "fresh"
  BY DEF Init, ZeroParams
<1> QED
  BY <1>1, <1>2 DEF ProbeKnown, Launched, Signalled

LEMMA ProbeStep ==
  ASSUME RunInv, RunInv', ProbeKnown, [Next]_vars,
         \A p, q \in ParamSet : p.target_pc_present = q.target_pc_present
  PROVE  ProbeKnown'
<1>1. /\ TypeOK /\ CallKnown /\ TargetKnown /\ MonitorKnown /\ FlipStopped
  BY RunParts
<1>2. CASE UNCHANGED vars \/ Closed \/ ReceiveAgain
  BY <1>2 DEF vars, Closed, ReceiveAgain, ProbeKnown, Launched, Signalled
<1>3. CASE Send
  <2>1. /\ params' \in ParamSet /\ ~Launched' /\ ~Signalled'
        /\ ioctl'.pc # "arm"
    BY <1>1, <1>3 DEF Send, Launched, Signalled, TypeOK, Ioctl
  <2>2. /\ probe' = probe
        /\ ctx'.uprobe_active = ctx.uprobe_active
        /\ ctx'.inj_uprobe = ctx.inj_uprobe
        /\ ctx'.inj_inode = ctx.inj_inode
    BY <1>1, <1>3 DEF Send, TypeOK, Ctx
  <2>3. ctx.uprobe_active \/ ctx.inj_inode =>
            params'.target_pc_present = params.target_pc_present
    BY <2>1 DEF ProbeKnown
  <2> QED
    BY <2>1, <2>2, <2>3 DEF ProbeKnown
<1>4. CASE Receive \/ WaitDone \/ Close \/ Kill
  <2>1. /\ UNCHANGED <<params, mon, probe>>
        /\ ctx'.uprobe_active = ctx.uprobe_active
        /\ ctx'.inj_uprobe = ctx.inj_uprobe
        /\ ctx'.inj_inode = ctx.inj_inode
    BY <1>1, <1>4 DEF Receive, WaitDone, Close, Kill, TypeOK, Ctx
  <2>2. /\ ioctl'.pc \in {"user", "relMon", "killRead"}
        /\ Launched' => Launched
        /\ Signalled' => Signalled
    <3>1. CASE Receive \/ Close
      BY <1>1, <3>1 DEF Receive, Close, Returns, IoctlGoes, Outside,
         CompletionDone, Launched, Signalled, TypeOK, Ioctl
    <3>2. CASE WaitDone
      BY <1>1, <3>2 DEF WaitDone, Returns, Awaited, CallKnown, Launched,
         Signalled, TypeOK, Ioctl
    <3>3. CASE Kill
      <4>1. ctx'.monitor_done = ctx.monitor_done
        BY <1>1, <3>3 DEF Kill, TypeOK, Ctx
      <4>2. /\ ioctl.client = "polling" /\ ioctl'.client = "polling"
            /\ ioctl.pc = "user" /\ ioctl'.pc \in {"user", "killRead"}
        BY <1>1, <3>3 DEF Kill, Outside, TypeOK, Ioctl
      <4> QED
        BY <4>1, <4>2 DEF Launched, Signalled
    <3> QED
      BY <1>4, <3>1, <3>2, <3>3
  <2> QED
    BY <2>1, <2>2, ProbeAway DEF ProbeShrinks, ProbeKnown
<1>5. CASE KillNext \/ ReleaseNext
  <2>1. ProbeShrinks
    BY <1>1, <1>5, ThreadsShrink
  <2>2. /\ mon'.pc = mon.pc
        /\ ioctl'.client = ioctl.client
        /\ ioctl'.pc # "arm"
        /\ KillNext => ctx' = ctx
    BY <1>1, <1>5 DEF KillNext, KillReads, KillStops, KillReturns,
       ReleaseNext, ReleaseMonitor, ReleaseFlip, ReleaseFlipStopped,
       ReleaseCancels, ReleaseFlushes, ReleaseUnregisters, ReleasePuts,
       ReleaseFrees, Stopping, IoctlGoes, TypeOK, Ioctl, Mon
  <2>3. /\ KillNext => Launched
        /\ ReleaseNext => ~Launched'
    BY <1>1 DEF KillNext, KillReads, KillStops, KillReturns,
       ReleaseNext, ReleaseMonitor, ReleaseFlip, ReleaseFlipStopped,
       ReleaseCancels, ReleaseFlushes, ReleaseUnregisters, ReleasePuts,
       ReleaseFrees, IoctlGoes, CallKnown, Launched, TypeOK, Ioctl
  <2> QED
    BY <1>5, <2>1, <2>2, <2>3 DEF ProbeKnown, ProbeShrinks, Signalled
<1>6. CASE FlipNext \/ WorkNext \/ HitNext \/ TargetNext
  <2>1. ProbeShrinks /\ Aside
    BY <1>1, <1>6, ThreadsShrink, FlipAside, WorkAside, TargetAside
  <2>2. /\ UNCHANGED <<ioctl, mon>>
        /\ Launched' = Launched /\ Signalled' = Signalled
    BY <2>1 DEF Aside, Launched, Signalled
  <2> QED
    BY <2>1, <2>2, ProbeAway
<1>7. CASE MonNext
  <2>1. ProbeShrinks
    BY <1>1, <1>7, ThreadsShrink
  <2>2. ioctl' = ioctl /\ Launched' = Launched
    BY <1>1, <1>7, MonKeeps DEF Launched
  <2>3. CASE \/ MonStarts \/ MonSeesExit \/ MonSeesStop \/ MonReverts
             \/ MonStopsFlip \/ MonFlipStopped
    <3>1. /\ mon'.pc \notin {"iput", "publish", "complete", "clear"}
          /\ ctx'.monitor_done = ctx.monitor_done
      <4>1. CASE MonStarts \/ MonSeesExit \/ MonSeesStop
        <5>1. ctx' = ctx
          BY <4>1 DEF MonStarts, MonSeesExit, MonSeesStop
        <5>2. mon' = NoMon \/ mon'.pc \in {"loop", "revert"}
          BY <1>1, <4>1 DEF MonStarts, MonSeesExit, MonSeesStop, TypeOK, Mon
        <5> QED
          BY <5>1, <5>2 DEF NoMon
      <4>2. CASE MonReverts \/ MonStopsFlip \/ MonFlipStopped
        BY <1>1, <4>2 DEF MonReverts, MonStopsFlip, MonFlipStopped, MonGoes,
           Restored, TypeOK, Mon, Ctx
      <4> QED
        BY <2>3, <4>1, <4>2
    <3> QED
      BY <2>1, <2>2, <3>1, ProbeAway DEF Signalled
  <2>4. CASE MonFlushes
    <3>1. /\ ctx' = ctx
          /\ mon'.pc \in {"unreg", "iput", "publish"}
          /\ mon'.pc = "iput" => ~Armed
          /\ mon'.pc = "publish" => ~params.target_pc_present
      BY <1>1, <2>4 DEF MonFlushes, Disarms, MonGoes, TypeOK, Mon
    <3> QED
      BY <2>1, <2>2, <3>1 DEF ProbeKnown, ProbeShrinks, Armed, Signalled
  <2>5. CASE MonUnregisters
    <3>1. /\ ~ctx'.uprobe_active /\ mon'.pc = "iput"
          /\ ctx'.monitor_done = ctx.monitor_done
      BY <1>1, <2>5 DEF MonUnregisters, UnregisteredCtx, MonGoes, TypeOK,
         Mon, Ctx
    <3> QED
      BY <2>1, <2>2, <3>1 DEF ProbeKnown, ProbeShrinks, Signalled
  <2>6. CASE MonPuts
    <3>1. /\ ~ctx'.inj_inode /\ mon.pc = "iput" /\ mon'.pc = "publish"
          /\ ctx'.monitor_done = ctx.monitor_done
      BY <1>1, <2>6 DEF MonPuts, DisarmedCtx, MonGoes, TypeOK, Mon, Ctx
    <3> QED
      BY <2>1, <2>2, <3>1 DEF ProbeKnown, ProbeShrinks, Signalled
  <2>7. CASE MonPublishes \/ MonCompletes
    <3>1. /\ mon.pc \in {"publish", "complete"}
          /\ mon'.pc \in {"complete", "clear"}
      BY <1>1, <2>7 DEF MonPublishes, MonCompletes, MonGoes, TypeOK, Mon
    <3> QED
      BY <2>1, <2>2, <3>1 DEF ProbeKnown, ProbeShrinks, Signalled
  <2>8. CASE MonClears
    <3>1. /\ mon.pc = "clear" /\ mon'.pc = "none"
          /\ ctx'.monitor_done = ctx.monitor_done
      BY <1>1, <2>8 DEF MonClears, NoMon, TypeOK, Ctx
    <3> QED
      BY <2>1, <2>2, <3>1, ProbeAway DEF Signalled
  <2> QED
    BY <1>7, <2>3, <2>4, <2>5, <2>6, <2>7, <2>8 DEF MonNext
<1>8. CASE StartNext /\ ~Continue
  <2>1. ~Launched' /\ ~Signalled'
    BY <1>1, <1>8 DEF StartNext, Exec, MarkRunning, StartMonitor, SetMonitor,
       StartFlip, SetFlip, ArmProbe, StartFails, Returns, IoctlGoes,
       CallKnown, Launching, Launched, Signalled, TypeOK, Ioctl
  <2>2. params' = params
    BY <1>8 DEF StartNext, Exec, MarkRunning, StartMonitor, SetMonitor,
       StartFlip, SetFlip, ArmProbe, StartFails
  <2>3. CASE ArmProbe /\ ctx' # ctx
    <3>1. /\ ioctl.pc = "arm" /\ probe' = TRUE
          /\ ctx'.uprobe_active = TRUE /\ ctx'.inj_uprobe = TRUE
          /\ ctx'.inj_inode = TRUE
      BY <1>1, <2>3 DEF ArmProbe, ArmedCtx, TypeOK, Ctx
    <3> QED
      BY <2>1, <2>2, <3>1 DEF ProbeKnown
  <2>4. CASE ~ArmProbe \/ ctx' = ctx
    <3>1. probe' = probe
      BY <1>8, <2>4, <1>1 DEF StartNext, Exec, MarkRunning, StartMonitor,
         SetMonitor, StartFlip, SetFlip, ArmProbe, ArmedCtx, StartFails,
         ProbeKnown, TypeOK, Ctx
    <3>2. /\ ctx'.uprobe_active = ctx.uprobe_active
          /\ ctx'.inj_uprobe = ctx.inj_uprobe
          /\ ctx'.inj_inode = ctx.inj_inode
      BY <1>1, <1>8, <2>4 DEF StartNext, Exec, MarkRunning, StartMonitor,
         SetMonitor, StartFlip, SetFlip, StartFails, TypeOK, Ctx
    <3>3. ioctl'.pc = "arm" => params.target_pc_present
      BY <1>1, <1>8 DEF StartNext, Exec, MarkRunning, StartMonitor,
         SetMonitor, StartFlip, SetFlip, ArmProbe, StartFails, Returns,
         IoctlGoes, TypeOK, Ioctl
    <3> QED
      BY <2>1, <2>2, <3>1, <3>2, <3>3 DEF ProbeKnown
  <2> QED
    BY <2>3, <2>4
<1>9. CASE Continue
  <2>1. /\ UNCHANGED <<ctx, params, mon, probe>>
        /\ ioctl'.pc \in {"user", "wait", "fail"}
    BY <1>1, <1>9 DEF Continue, IoctlGoes, TypeOK, Ioctl
  <2>2. Launched' => Found(This) /\ ioctl'.client = "polling"
    BY <1>1, <1>9 DEF Continue, IoctlGoes, Launched, TypeOK, Ioctl
  <2>3. Launched' => /\ mon.pc \in {"created", "loop"}
                     /\ ctx.monitor_done = 0
    BY <1>1, <1>9, <2>2 DEF Continue, MonitorKnown, Launching, Found
  <2> QED
    BY <2>1, <2>2, <2>3 DEF ProbeKnown, Signalled
<1> QED
  BY <1>2, <1>3, <1>4, <1>5, <1>6, <1>7, <1>8, <1>9 DEF Next, ClientNext

\* A run that is reported has left no probe in the program's file and no
\* reference to its inode, if the runs of the file are all with a target_pc
\* or all without one: a monitor thread looks at the parameters of the last
\* SEND_MSG (monitor.c:75).
THEOREM ProbeIsGone ==
  ASSUME \A p, q \in ParamSet : p.target_pc_present = q.target_pc_present
  PROVE  Safe => []ProbeGone
<1>1. Init => ProbeKnown
  BY InitProbe
<1>2. RunInv /\ RunInv' /\ ProbeKnown /\ [Next]_vars => ProbeKnown'
  BY ProbeStep
<1>3. ProbeKnown => ProbeGone
  BY DEF ProbeKnown, ProbeGone, Reported, Launched, Signalled
<1> QED
  BY <1>1, <1>2, <1>3, RunKnown, PTL DEF Safe
=============================================================================
