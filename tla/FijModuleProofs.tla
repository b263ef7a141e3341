--------------------------- MODULE FijModuleProofs ---------------------------
(***************************************************************************)
(* What the driver guarantees for every value of the constants: any number *)
(* of runs on a file, any parameters, any set of faults, a client that     *)
(* kills and closes whenever it likes.                                     *)
(***************************************************************************)
EXTENDS FijModule, TLAPS

USE DEF NoPid

\* The state after fij_open is well typed.
LEMMA InitTypeOK == Init => TypeOK
<1> SUFFICES ASSUME Init PROVE TypeOK
  OBVIOUS
<1>1. ctx \in Ctx
  BY DEF Init, Ctx, FreshCtx
<1>2. params \in Params /\ result \in Result
  BY DEF Init, Params, ZeroParams, Result, FreshResult, ExitCodes
<1>3. proc \in [Runs -> Proc]
  BY DEF Init, Proc, NoProc, ProcStates, ExitCodes
<1>4. ioctl \in Ioctl
  BY DEF Init, Ioctl, IoctlPcs, ClientStates
<1>5. mon \in Mon /\ flip \in Flip
  BY DEF Init, Mon, NoMon, MonPcs, ExitCodes, Flip, NoFlip, FlipPcs
<1>6. work \in Work /\ probe \in BOOLEAN
  BY DEF Init, Work, NoWork
<1> QED
  BY <1>1, <1>2, <1>3, <1>4, <1>5, <1>6 DEF TypeOK

\* A signal leaves the process table well typed; a pid that is not in the
\* table changes nothing.
LEMMA SetStateType ==
  ASSUME NEW r, NEW s, proc \in [Runs -> Proc], r \in Runs => s \in ProcStates
  PROVE  SetState(r, s) \in [Runs -> Proc]
<1>1. CASE r \in Runs
  BY <1>1 DEF SetState, Proc
<1>2. CASE r \notin Runs
  BY <1>2 DEF SetState, Proc
<1> QED
  BY <1>1, <1>2

\* A process that ended is well typed.
LEMMA DeadType ==
  ASSUME NEW r, NEW c \in ExitCodes, proc \in [Runs -> Proc]
  PROVE  [proc EXCEPT ![r].state = "dead", ![r].exit_code = c]
            \in [Runs -> Proc]
<1>1. CASE r \in Runs
  BY <1>1 DEF Proc, ProcStates
<1>2. CASE r \notin Runs
  BY <1>2 DEF Proc, ProcStates
<1> QED
  BY <1>1, <1>2

\* SIGCONT leaves a process in a state of the table.
LEMMA SigcontType ==
  ASSUME NEW r \in Runs, proc \in [Runs -> Proc]
  PROVE  AfterSIGCONT(proc[r].state) \in ProcStates
  BY DEF AfterSIGCONT, Proc, ProcStates

\* What the threads do to the context, to themselves and to the record of
\* a process keeps the types.
LEMMA CtxType ==
  ASSUME ctx \in Ctx
  PROVE  UnregisteredCtx \in Ctx /\ DisarmedCtx \in Ctx /\ ArmedCtx \in Ctx
<1>1. UnregisteredCtx \in Ctx
  BY DEF UnregisteredCtx, Ctx
<1>2. DisarmedCtx \in Ctx
  BY DEF DisarmedCtx, Ctx
<1>3. ArmedCtx \in Ctx
  BY DEF ArmedCtx, Ctx
<1> QED
  BY <1>1, <1>2, <1>3

LEMMA StoppingType ==
  /\ flip \in Flip => Stopping(flip) \in Flip
  /\ mon \in Mon => Stopping(mon) \in Mon
  BY DEF Stopping, Flip, Mon

LEMMA FaultyType ==
  ASSUME NEW r, NEW lands \in BOOLEAN, proc \in [Runs -> Proc],
         MarkFaulty(r, lands)
  PROVE  proc' \in [Runs -> Proc]
<1>1. CASE r \in Runs
  BY <1>1 DEF MarkFaulty, Proc
<1>2. CASE r \notin Runs
  BY <1>2 DEF MarkFaulty, Proc
<1> QED
  BY <1>1, <1>2

\* Every step of the bitflip thread keeps the types.
LEMMA FlipType == TypeOK /\ FlipNext => TypeOK'
<1> SUFFICES ASSUME TypeOK, FlipNext PROVE TypeOK'
  OBVIOUS
<1> USE DEF TypeOK, Flip, FlipPcs, FlipGoes
<1>1. CASE FlipStarts
  BY <1>1 DEF FlipStarts, NoFlip, Params
<1>2. CASE FlipTriggered
  BY <1>2 DEF FlipTriggered
<1>3. CASE FlipSlept
  BY <1>3 DEF FlipSlept
<1>4. CASE FlipCollects
  <2>1. ctx.target_tgid \in Runs \cup {NoPid} /\ params.all_threads \in BOOLEAN
    BY DEF Ctx, Params
  <2>2. Injected \in FlipPcs
    BY DEF Injected
  <2> QED
    BY <1>4, <2>1, <2>2 DEF FlipCollects
<1>5. CASE FlipStops
  BY <1>5 DEF FlipStops, Injected, Sigstop, SetState, AfterSIGSTOP, Proc,
              ProcStates, Found
<1>6. CASE FlipFindsLeader
  BY <1>6 DEF FlipFindsLeader, NoFlip
<1>7. CASE FlipWaits
  BY <1>7 DEF FlipWaits
<1>8. CASE FlipRegister
  BY <1>8, FaultyType DEF FlipRegister
<1>9. CASE FlipMemory
  BY <1>9, FaultyType DEF FlipMemory
<1>10. CASE FlipPins
  BY <1>10 DEF FlipPins, Ctx
<1>11. CASE FlipReports
  BY <1>11 DEF FlipReports, ReportsFault, Result
<1>12. CASE FlipResumes
  <2>1. SetState(flip.tgid, Resumes(proc[flip.tgid].state)) \in [Runs -> Proc]
    BY SetStateType, SigcontType DEF Resumes
  <2>2. Injected \in FlipPcs
    BY DEF Injected
  <2> QED
    BY <1>12, <2>1, <2>2 DEF FlipResumes
<1>13. CASE FlipClearsTrigger
  BY <1>13 DEF FlipClearsTrigger, Ctx
<1>14. CASE FlipTimes
  BY <1>14 DEF FlipTimes, Result
<1>15. CASE FlipReturns
  BY <1>15 DEF FlipReturns, NoFlip
<1>16. QED
  BY <1>1, <1>2, <1>3, <1>4, <1>5, <1>6, <1>7, <1>8, <1>9, <1>10, <1>11,
     <1>12, <1>13, <1>14, <1>15 DEF FlipNext

\* So does every step of the monitor thread,
LEMMA MonType == TypeOK /\ LeaderKnown /\ MonNext => TypeOK'
<1> SUFFICES ASSUME TypeOK, LeaderKnown, MonNext PROVE TypeOK'
  OBVIOUS
<1> USE DEF TypeOK, Mon, MonPcs, MonGoes
<1>1. CASE MonStarts
  BY <1>1 DEF MonStarts, NoMon, ExitCodes
<1>2. CASE MonSeesExit
  BY <1>2 DEF MonSeesExit, LeaderKnown, Proc
<1>3. CASE MonSeesStop
  BY <1>3 DEF MonSeesStop, Result, ExitCodes
<1>4. CASE MonReverts
  BY <1>4 DEF MonReverts, Restored, Ctx
<1>5. CASE MonStopsFlip
  <2>1. [ctx EXCEPT !.target_alive = FALSE] \in Ctx
    BY DEF Ctx
  <2> QED
    BY <1>5, <2>1, StoppingType DEF MonStopsFlip
<1>6. CASE MonFlipStopped
  BY <1>6 DEF MonFlipStopped, Ctx
<1>7. CASE MonFlushes
  BY <1>7 DEF MonFlushes
<1>8. CASE MonUnregisters
  BY <1>8, CtxType DEF MonUnregisters
<1>9. CASE MonPuts
  BY <1>9, CtxType DEF MonPuts
<1>10. CASE MonPublishes
  BY <1>10 DEF MonPublishes, Ctx, Result
<1>11. CASE MonCompletes
  BY <1>11 DEF MonCompletes, Completed, Ctx
<1>12. CASE MonClears
  BY <1>12 DEF MonClears, NoMon, Ctx, ExitCodes
<1> QED
  BY <1>1, <1>2, <1>3, <1>4, <1>5, <1>6, <1>7, <1>8, <1>9, <1>10, <1>11,
     <1>12 DEF MonNext

\* of the disarm work and of a probe hit,
LEMMA WorkType == TypeOK /\ (WorkNext \/ HitNext) => TypeOK'
<1> SUFFICES ASSUME TypeOK, WorkNext \/ HitNext PROVE TypeOK'
  OBVIOUS
<1> USE DEF TypeOK, Work
<1>1. CASE WorkStarts
  BY <1>1 DEF WorkStarts
<1>2. CASE WorkUnregisters
  BY <1>2, CtxType DEF WorkUnregisters
<1>3. CASE WorkPuts
  BY <1>3, CtxType DEF WorkPuts
<1>4. CASE HitNext
  <2> DEFINE q == QueuesDisarm
  <2>1. q \in BOOLEAN
    BY DEF QueuesDisarm
  <2>2. /\ ctx' = [ctx EXCEPT !.flip_triggered = TRUE,
                              !.uprobe_disarm_queued = @ \/ q]
        /\ work' = [work EXCEPT !.pending = @ \/ q]
        /\ UNCHANGED <<params, result, proc, ioctl, mon, flip, probe>>
    BY <1>4 DEF HitNext, UprobeHit
  <2> HIDE DEF q
  <2>3. ctx' \in Ctx
    BY <2>1, <2>2 DEF Ctx
  <2>4. work' \in Work
    BY <2>1, <2>2
  <2> QED
    BY <2>2, <2>3, <2>4
<1> QED
  BY <1>1, <1>2, <1>3, <1>4 DEF WorkNext

\* of the target,
LEMMA TargetType == TypeOK /\ TargetNext => TypeOK'
<1> SUFFICES ASSUME TypeOK, NEW r \in Runs,
                    \/ TargetStops(r) \/ TargetKilled(r)
                    \/ TargetExits(r) \/ TargetCrashes(r)
             PROVE  TypeOK'
  BY DEF TargetNext
<1>1. proc' \in [Runs -> Proc]
  BY DEF TypeOK, Proc, ProcStates, ExitCodes, TargetStops, TargetKilled,
         TargetExits, TargetCrashes, Dies, SetState
<1> QED
  BY <1>1 DEF TypeOK, TargetStops, TargetKilled, TargetExits, TargetCrashes,
              TargetUnchanged

\* of a run being started,
LEMMA StartType == TypeOK /\ StartNext => TypeOK'
<1> SUFFICES ASSUME TypeOK, StartNext PROVE TypeOK'
  OBVIOUS
<1> USE DEF TypeOK, Ioctl, IoctlPcs, IoctlGoes, This
<1>1. CASE Exec
  <2>1. proc' \in [Runs -> Proc]
    <3>1. SetState(This, "execed") \in [Runs -> Proc]
      BY SetStateType DEF ProcStates
    <3>2. [proc EXCEPT ![This].state = "dead", ![This].exit_code = "fail"]
            \in [Runs -> Proc]
      BY DeadType DEF ExitCodes
    <3> QED
      BY <1>1, <3>1, <3>2 DEF Exec
  <2>2. ctx' \in Ctx
    BY <1>1 DEF Exec, Ctx
  <2>3. ioctl' \in Ioctl
    BY <1>1 DEF Exec
  <2> QED
    BY <1>1, <2>1, <2>2, <2>3 DEF Exec
<1>2. CASE MarkRunning
  BY <1>2 DEF MarkRunning, Ctx
<1>3. CASE StartMonitor
  <2>1. [ctx EXCEPT !.monitor_done = 0] \in Ctx
    BY DEF Ctx
  <2>2. [NoMon EXCEPT !.pc = "created", !.leader = ioctl.sends] \in Mon
    BY DEF Mon, MonPcs, NoMon, ExitCodes, Runs
  <2> QED
    BY <1>3, <2>1, <2>2 DEF StartMonitor
<1>4. CASE SetMonitor
  BY <1>4 DEF SetMonitor, Ctx
<1>5. CASE StartFlip
  <2>1. [ctx EXCEPT !.flip_triggered = FALSE] \in Ctx
    BY DEF Ctx
  <2>2. [NoFlip EXCEPT !.pc = "created"] \in Flip
    BY DEF Flip, FlipPcs, NoFlip
  <2> QED
    BY <1>5, <2>1, <2>2 DEF StartFlip
<1>6. CASE SetFlip
  BY <1>6 DEF SetFlip, Ctx
<1>7. CASE ArmProbe
  BY <1>7, CtxType DEF ArmProbe
<1>8. CASE Continue
  <2>1. SetState(This, AfterSIGCONT(proc[This].state)) \in [Runs -> Proc]
    BY SetStateType, SigcontType
  <2>2. \A to \in {"user", "wait"} :
            [ioctl EXCEPT !.client = "polling", !.pc = to] \in Ioctl
    BY DEF ClientStates
  <2>3. [ioctl EXCEPT !.pc = "fail"] \in Ioctl
    OBVIOUS
  <2>4. ioctl' \in Ioctl
    <3>1. \/ \E to \in {"user", "wait"} :
                ioctl' = [ioctl EXCEPT !.client = "polling", !.pc = to]
          \/ ioctl' = [ioctl EXCEPT !.pc = "fail"]
      BY <1>8 DEF Continue
    <3> HIDE DEF TypeOK, Ioctl, IoctlPcs, IoctlGoes
    <3> QED
      BY <2>2, <2>3, <3>1
  <2> QED
    BY <1>8, <2>1, <2>4 DEF Continue
<1>9. CASE StartFails
  BY <1>9 DEF StartFails, Returns, Ctx, ClientStates
<1> QED
  BY <1>1, <1>2, <1>3, <1>4, <1>5, <1>6, <1>7, <1>8, <1>9 DEF StartNext

\* of the calls of the client,
LEMMA ClientType == TypeOK /\ ClientNext => TypeOK'
<1> SUFFICES ASSUME TypeOK, ClientNext PROVE TypeOK'
  OBVIOUS
<1> USE DEF TypeOK, Ioctl, IoctlPcs, ClientStates, IoctlGoes, Returns
<1>1. CASE Send
  <2> USE DEF Send
  <2>1. ctx' \in Ctx
    BY <1>1 DEF Ctx
  <2>2. params' \in Params
    BY <1>1, FijAssumption
  <2>3. result' \in Result
    BY <1>1 DEF Result
  <2>4. ioctl.sends + 1 \in Runs
    BY <1>1, FijAssumption DEF Runs
  <2>5. ioctl' \in Ioctl
    <3>1. PICK call \in Calls :
            ioctl' = [ioctl EXCEPT
                        !.pc = IF ctx.running THEN "user" ELSE "exec",
                        !.client = IF ctx.running THEN "failed" ELSE "fresh",
                        !.sends = @ + 1, !.call = call, !.killed = FALSE]
      BY <1>1
    <3>2. call \in {"SEND_MSG", "EXEC_AND_FAULT"}
      BY FijAssumption
    <3> QED
      BY <3>1, <3>2, <2>4
  <2> QED
    BY <1>1, <2>1, <2>2, <2>3, <2>5
<1>2. CASE Receive
  BY <1>2 DEF Receive
<1>3. CASE ReceiveAgain
  BY <1>3 DEF ReceiveAgain, vars
<1>4. CASE WaitDone
  <2>1. ctx' \in Ctx
    BY <1>4 DEF WaitDone, Awaited, Ctx
  <2> QED
    BY <1>4, <2>1 DEF WaitDone
<1>5. CASE Kill
  <2>1. proc' \in [Runs -> Proc]
    BY <1>5 DEF Kill, Sigkill, AfterSIGKILL, Live, Ctx, Proc, ProcStates
  <2>2. ctx' \in Ctx
    BY <1>5 DEF Kill, Ctx, Live
  <2>3. ioctl' \in Ioctl
    BY <1>5 DEF Kill
  <2> QED
    BY <1>5, <2>1, <2>2, <2>3 DEF Kill
<1>6. CASE Close
  BY <1>6 DEF Close
<1> QED
  BY <1>1, <1>2, <1>3, <1>4, <1>5, <1>6 DEF ClientNext

\* of KILL_TARGET,
LEMMA KillType == TypeOK /\ KillNext => TypeOK'
<1> SUFFICES ASSUME TypeOK, KillNext PROVE TypeOK'
  OBVIOUS
<1> USE DEF TypeOK, Ioctl, IoctlPcs, IoctlGoes
<1>1. CASE KillReads
  BY <1>1 DEF KillReads
<1>2. CASE KillStops
  <2>1. mon' \in Mon
    BY <1>2 DEF KillStops, Stopping, Mon
  <2> QED
    BY <1>2, <2>1 DEF KillStops
<1>3. CASE KillReturns
  BY <1>3 DEF KillReturns
<1> QED
  BY <1>1, <1>2, <1>3 DEF KillNext

\* and of fij_release.
LEMMA ReleaseType == TypeOK /\ ReleaseNext => TypeOK'
<1> SUFFICES ASSUME TypeOK, ReleaseNext PROVE TypeOK'
  OBVIOUS
<1> USE DEF TypeOK, Ioctl, IoctlPcs, IoctlGoes
<1>1. CASE ReleaseMonitor
  <2>1. ctx' \in Ctx
    <3>1. CASE ctx.pc_monitor_thread
      <4>1. ctx.monitor_done + 1 \in Nat
        BY DEF Ctx
      <4>2. [ctx EXCEPT !.target_alive = FALSE,
                        !.monitor_done = ctx.monitor_done + 1,
                        !.pc_monitor_thread = FALSE] \in Ctx
        BY <4>1 DEF Ctx
      <4> QED
        BY <1>1, <3>1, <4>2 DEF ReleaseMonitor
    <3>2. CASE ~ctx.pc_monitor_thread
      BY <1>1, <3>2 DEF ReleaseMonitor
    <3> QED
      BY <3>1, <3>2
  <2> QED
    BY <1>1, <2>1 DEF ReleaseMonitor
<1>2. CASE ReleaseFlip
  <2>1. flip' \in Flip
    BY <1>2 DEF ReleaseFlip, Stopping, Flip
  <2> QED
    BY <1>2, <2>1 DEF ReleaseFlip
<1>3. CASE ReleaseFlipStopped
  BY <1>3 DEF ReleaseFlipStopped, Ctx
<1>4. CASE ReleaseCancels
  BY <1>4 DEF ReleaseCancels, Work, NoWork
<1>5. CASE ReleaseFlushes
  BY <1>5 DEF ReleaseFlushes
<1>6. CASE ReleaseUnregisters
  BY <1>6 DEF ReleaseUnregisters, UnregisteredCtx, Ctx
<1>7. CASE ReleasePuts
  BY <1>7 DEF ReleasePuts, DisarmedCtx, Ctx
<1>8. CASE ReleaseFrees
  BY <1>8 DEF ReleaseFrees, Ctx
<1> QED
  BY <1>1, <1>2, <1>3, <1>4, <1>5, <1>6, <1>7, <1>8 DEF ReleaseNext

\* Every step of the driver and of its surroundings keeps the types.
LEMMA TypeStep == TypeOK /\ LeaderKnown /\ [Next]_vars => TypeOK'
<1>1. CASE UNCHANGED vars
  BY <1>1 DEF TypeOK, vars
<1>2. CASE Closed
  BY <1>2 DEF Closed, TypeOK, vars
<1> QED
  BY <1>1, <1>2, ClientType, StartType, KillType, ReleaseType, MonType,
     FlipType, WorkType, TargetType DEF Next

\* The parts of ThreadInv that speak of the threads.
LEMMA InitThreads == Init => LeaderKnown /\ MonitorOwned /\ FlipOwned
  BY DEF Init, LeaderKnown, MonitorOwned, FlipOwned, NoMon, NoFlip

\* A step that leaves alone what the three parts mention keeps them.
LEMMA ThreadsUntouched ==
  ASSUME LeaderKnown, MonitorOwned, FlipOwned,
         UNCHANGED <<ctx, ioctl, mon, flip>>
  PROVE  LeaderKnown' /\ MonitorOwned' /\ FlipOwned'
  BY DEF LeaderKnown, MonitorOwned, FlipOwned, Released

\* Starting a run keeps ThreadInv: a thread is created only when none is
\* left, and its pointer is stored before anything else is done.
LEMMA StartThreads ==
  ASSUME ThreadInv, StartNext
  PROVE  LeaderKnown' /\ MonitorOwned' /\ FlipOwned'
<1> USE DEF ThreadInv, LeaderKnown, MonitorOwned, FlipOwned, Released,
            IoctlGoes, TypeOK, Ioctl, Mon, Flip, Ctx
<1>1. CASE Exec
  BY <1>1 DEF Exec
<1>2. CASE MarkRunning
  BY <1>2 DEF MarkRunning
<1>3. CASE StartMonitor
  BY <1>3 DEF StartMonitor, NoMonitor, NoMon, Found, This
<1>4. CASE SetMonitor
  BY <1>4 DEF SetMonitor
<1>5. CASE StartFlip
  BY <1>5 DEF StartFlip, NoFlip
<1>6. CASE SetFlip
  BY <1>6 DEF SetFlip
<1>7. CASE ArmProbe
  <2>1. /\ ctx'.bitflip_thread = ctx.bitflip_thread
        /\ ctx'.pc_monitor_thread = ctx.pc_monitor_thread
    BY <1>7 DEF ArmProbe, ArmedCtx
  <2> QED
    BY <1>7, <2>1 DEF ArmProbe
<1>8. CASE Continue
  BY <1>8 DEF Continue
<1>9. CASE StartFails
  BY <1>9 DEF StartFails, Returns
<1> QED
  BY <1>1, <1>2, <1>3, <1>4, <1>5, <1>6, <1>7, <1>8, <1>9 DEF StartNext

\* The client's calls neither create nor end a thread.
LEMMA CallThreads ==
  ASSUME ThreadInv, ClientNext \/ KillNext
  PROVE  LeaderKnown' /\ MonitorOwned' /\ FlipOwned'
<1> USE DEF ThreadInv, LeaderKnown, MonitorOwned, FlipOwned, Released, Outside,
            Returns, IoctlGoes, TypeOK, Ioctl, Mon, Flip, Ctx
<1>1. CASE Send
  BY <1>1 DEF Send
<1>2. CASE Receive \/ ReceiveAgain \/ Close
  BY <1>2 DEF Receive, ReceiveAgain, Close, vars
<1>3. CASE WaitDone
  BY <1>3 DEF WaitDone
<1>4. CASE Kill
  BY <1>4 DEF Kill
<1>5. CASE KillReads \/ KillReturns
  BY <1>5 DEF KillReads, KillReturns
<1>6. CASE KillStops
  BY <1>6 DEF KillStops, Stopping
<1> QED
  BY <1>1, <1>2, <1>3, <1>4, <1>5, <1>6 DEF ClientNext, KillNext

\* fij_release keeps ThreadInv: it waits for the bitflip thread before it
\* clears its pointer, and nobody asks for the monitor thread afterwards.
LEMMA ReleaseThreads ==
  ASSUME ThreadInv, ReleaseNext
  PROVE  LeaderKnown' /\ MonitorOwned' /\ FlipOwned'
<1> USE DEF ThreadInv, LeaderKnown, MonitorOwned, FlipOwned, Released,
            IoctlGoes, TypeOK, Ioctl, Mon, Flip, Ctx
<1>1. CASE ReleaseMonitor
  BY <1>1 DEF ReleaseMonitor
<1>2. CASE ReleaseFlip
  BY <1>2 DEF ReleaseFlip, Stopping
<1>3. CASE ReleaseFlipStopped
  BY <1>3 DEF ReleaseFlipStopped
<1>4. CASE ReleaseCancels \/ ReleaseFlushes
  BY <1>4 DEF ReleaseCancels, ReleaseFlushes
<1>5. CASE ReleaseUnregisters \/ ReleasePuts \/ ReleaseFrees
  <2>1. ctx'.bitflip_thread = ctx.bitflip_thread
    BY <1>5 DEF ReleaseUnregisters, UnregisteredCtx, ReleasePuts, DisarmedCtx,
                ReleaseFrees
  <2>2. Released' /\ UNCHANGED <<mon, flip>> /\ ioctl'.pc # "flipSet"
    BY <1>5 DEF ReleaseUnregisters, ReleasePuts, ReleaseFrees
  <2>3. ioctl.pc # "flipSet"
    BY <1>5 DEF ReleaseUnregisters, ReleasePuts, ReleaseFrees
  <2> QED
    BY <2>1, <2>2, <2>3
<1> QED
  BY <1>1, <1>2, <1>3, <1>4, <1>5 DEF ReleaseNext

\* The monitor thread clears its pointer as it returns, and the bitflip
\* thread's when that thread is gone.
LEMMA MonThreads ==
  ASSUME ThreadInv, MonNext
  PROVE  LeaderKnown' /\ MonitorOwned' /\ FlipOwned'
<1> USE DEF ThreadInv, LeaderKnown, MonitorOwned, FlipOwned, Released, MonGoes,
            TypeOK, Ioctl, Mon, Flip, Ctx
<1>1. CASE MonStarts
  BY <1>1 DEF MonStarts, NoMon
<1>2. CASE MonSeesExit \/ MonSeesStop \/ MonFlushes
  BY <1>2 DEF MonSeesExit, MonSeesStop, MonFlushes
<1>3. CASE MonReverts
  BY <1>3 DEF MonReverts, Restored
<1>4. CASE MonStopsFlip
  BY <1>4 DEF MonStopsFlip, Stopping
<1>5. CASE MonFlipStopped
  BY <1>5 DEF MonFlipStopped, FlipGone
<1>6. CASE MonUnregisters \/ MonPuts
  <2>1. /\ ctx'.bitflip_thread = ctx.bitflip_thread
        /\ ctx'.pc_monitor_thread = ctx.pc_monitor_thread
    BY <1>6 DEF MonUnregisters, UnregisteredCtx, MonPuts, DisarmedCtx
  <2> QED
    BY <1>6, <2>1 DEF MonUnregisters, MonPuts
<1>7. CASE MonPublishes \/ MonCompletes
  BY <1>7 DEF MonPublishes, MonCompletes, Completed
<1>8. CASE MonClears
  BY <1>8 DEF MonClears, NoMon
<1> QED
  BY <1>1, <1>2, <1>3, <1>4, <1>5, <1>6, <1>7, <1>8 DEF MonNext

\* The bitflip thread disappears, but never creates a thread.
LEMMA FlipThreads ==
  ASSUME ThreadInv, FlipNext
  PROVE  LeaderKnown' /\ MonitorOwned' /\ FlipOwned'
<1> USE DEF ThreadInv, LeaderKnown, MonitorOwned, FlipOwned, Released, FlipGoes,
            TypeOK, Flip, Ctx
<1>1. CASE FlipStarts \/ FlipFindsLeader \/ FlipReturns
  BY <1>1 DEF FlipStarts, FlipFindsLeader, FlipReturns, NoFlip
<1>2. CASE FlipTriggered \/ FlipSlept \/ FlipCollects
  BY <1>2 DEF FlipTriggered, FlipSlept, FlipCollects
<1>3. CASE FlipStops \/ FlipWaits \/ FlipRegister \/ FlipMemory
  BY <1>3 DEF FlipStops, FlipWaits, FlipRegister, FlipMemory
<1>4. CASE FlipPins \/ FlipClearsTrigger
  BY <1>4 DEF FlipPins, FlipClearsTrigger
<1>5. CASE FlipReports \/ FlipResumes \/ FlipTimes
  BY <1>5 DEF FlipReports, FlipResumes, FlipTimes
<1> QED
  BY <1>1, <1>2, <1>3, <1>4, <1>5 DEF FlipNext

\* The work item and the probe touch no thread.
LEMMA WorkThreads ==
  ASSUME ThreadInv, WorkNext \/ HitNext
  PROVE  LeaderKnown' /\ MonitorOwned' /\ FlipOwned'
<1> USE DEF ThreadInv, LeaderKnown, MonitorOwned, FlipOwned, Released, TypeOK,
            Ctx
<1>1. CASE WorkNext
  BY <1>1 DEF WorkNext, WorkStarts, WorkUnregisters, UnregisteredCtx, WorkPuts,
              DisarmedCtx
<1>2. CASE HitNext
  BY <1>2 DEF HitNext, UprobeHit
<1> QED
  BY <1>1, <1>2

\* ThreadInv is inductive.
LEMMA ThreadStep == ThreadInv /\ [Next]_vars => ThreadInv'
<1> SUFFICES ASSUME ThreadInv, [Next]_vars PROVE ThreadInv'
  OBVIOUS
<1>1. TypeOK'
  BY TypeStep DEF ThreadInv
<1>2. LeaderKnown' /\ MonitorOwned' /\ FlipOwned'
  <2>1. CASE TargetNext \/ Closed \/ UNCHANGED vars
    BY <2>1, ThreadsUntouched
       DEF ThreadInv, TargetNext, TargetStops, TargetKilled, TargetExits,
           TargetCrashes, TargetUnchanged, Closed, vars
  <2> QED
    BY <2>1, StartThreads, CallThreads, ReleaseThreads, MonThreads,
       FlipThreads, WorkThreads DEF Next
<1> QED
  BY <1>1, <1>2 DEF ThreadInv

\* ThreadInv holds in every reachable state.
THEOREM ThreadsKnown == Safe => []ThreadInv
<1>1. Init => ThreadInv
  BY InitTypeOK, InitThreads DEF ThreadInv
<1>2. QED
  BY <1>1, ThreadStep, PTL DEF Safe

\* The variables keep their types (struct fij_ctx and the threads' states).
THEOREM TypeCorrect == Safe => []TypeOK
<1>1. ThreadInv => TypeOK
  BY DEF ThreadInv
<1>2. QED
  BY <1>1, ThreadsKnown, PTL

\* Only fij_monitor_start creates a monitor thread, and not while one is
\* there: the test of pc_monitor_thread (monitor.c:100) is enough although
\* no lock protects it and the thread clears the pointer itself.
THEOREM MonitorsSeparate == Safe => MonitorsDoNotOverlap
<1> DEFINE A == mon.pc # "created" /\ mon'.pc = "created" => mon.pc = "none"
<1>1. ThreadInv /\ [Next]_vars => A
  <2> SUFFICES ASSUME ThreadInv, Next, mon.pc # "created", mon'.pc = "created"
               PROVE  mon.pc = "none"
    BY DEF vars
  <2>1. ~MonNext
    <3> USE DEF ThreadInv, TypeOK, Mon, MonGoes, NoMon
    <3>1. ~(MonStarts \/ MonSeesExit \/ MonSeesStop \/ MonReverts)
      BY DEF MonStarts, MonSeesExit, MonSeesStop, MonReverts
    <3>2. ~(MonStopsFlip \/ MonFlipStopped \/ MonFlushes \/ MonUnregisters)
      BY DEF MonStopsFlip, MonFlipStopped, MonFlushes, MonUnregisters
    <3>3. ~(MonPuts \/ MonPublishes \/ MonCompletes \/ MonClears)
      BY DEF MonPuts, MonPublishes, MonCompletes, MonClears
    <3> QED
      BY <3>1, <3>2, <3>3 DEF MonNext
  <2>2. CASE StartNext
    BY <2>2 DEF StartNext, Exec, MarkRunning, StartMonitor, SetMonitor,
                StartFlip, SetFlip, ArmProbe, Continue, StartFails, NoMonitor,
                ThreadInv, MonitorOwned, Released
  <2>3. CASE KillNext
    BY <2>3 DEF KillNext, KillReads, KillStops, KillReturns, Stopping,
                ThreadInv, TypeOK, Mon
  <2>4. ~(ClientNext \/ ReleaseNext)
    BY DEF ClientNext, Send, Receive, ReceiveAgain, WaitDone, Kill, Close,
           ReleaseNext, ReleaseMonitor, ReleaseFlip, ReleaseFlipStopped,
           ReleaseCancels, ReleaseFlushes, ReleaseUnregisters, ReleasePuts,
           ReleaseFrees, vars
  <2>5. ~(FlipNext \/ WorkNext \/ HitNext \/ TargetNext \/ Closed)
    BY DEF FlipNext, FlipStarts, FlipTriggered, FlipSlept, FlipCollects,
           FlipStops, FlipFindsLeader, FlipWaits, FlipRegister, FlipMemory,
           FlipPins, FlipReports, FlipResumes, FlipClearsTrigger, FlipTimes,
           FlipReturns, WorkNext, WorkStarts, WorkUnregisters, WorkPuts,
           HitNext, UprobeHit, TargetNext, TargetStops, TargetKilled,
           TargetExits, TargetCrashes, TargetUnchanged, Closed, vars
  <2> QED
    BY <2>1, <2>2, <2>3, <2>4, <2>5 DEF Next
<1>2. ThreadInv /\ [Next]_vars => [A]_vars
  BY <1>1
<1>3. QED
  BY <1>2, ThreadsKnown, PTL DEF Safe, MonitorsDoNotOverlap

\* Only fij_start_bitflip_thread creates a bitflip thread, and not while one
\* is there: its test of bitflip_thread (bitflip_thread.c:160) is enough
\* although the monitor thread and fij_release both clear the pointer.
THEOREM FlipsSeparate == Safe => FlipsDoNotOverlap
<1> DEFINE A == flip.pc # "created" /\ flip'.pc = "created" => flip.pc = "none"
<1>1. ThreadInv /\ [Next]_vars => A
  <2> SUFFICES ASSUME ThreadInv, Next,
                      flip.pc # "created", flip'.pc = "created"
               PROVE  flip.pc = "none"
    BY DEF vars
  <2>1. ~FlipNext
    <3> USE DEF ThreadInv, TypeOK, Flip, FlipGoes, NoFlip
    <3>1. ~(FlipStarts \/ FlipTriggered \/ FlipSlept \/ FlipPins)
      BY DEF FlipStarts, FlipTriggered, FlipSlept, FlipPins
    <3>2. ~(FlipCollects \/ FlipStops \/ FlipFindsLeader \/ FlipWaits)
      <4>1. ~FlipCollects
        BY DEF FlipCollects, Injected
      <4>2. ~FlipStops
        BY DEF FlipStops, Injected
      <4>3. ~FlipFindsLeader
        BY DEF FlipFindsLeader
      <4>4. ~FlipWaits
        BY DEF FlipWaits
      <4> QED
        BY <4>1, <4>2, <4>3, <4>4
    <3>3. ~(FlipRegister \/ FlipMemory \/ FlipReports \/ FlipResumes)
      BY DEF FlipRegister, FlipMemory, FlipReports, FlipResumes, Injected
    <3>4. ~(FlipClearsTrigger \/ FlipTimes \/ FlipReturns)
      BY DEF FlipClearsTrigger, FlipTimes, FlipReturns
    <3> QED
      BY <3>1, <3>2, <3>3, <3>4 DEF FlipNext
  <2>2. CASE StartNext
    BY <2>2 DEF StartNext, Exec, MarkRunning, StartMonitor, SetMonitor,
                StartFlip, SetFlip, ArmProbe, Continue, StartFails,
                ThreadInv, FlipOwned
  <2>3. ~MonNext
    <3> USE DEF ThreadInv, TypeOK, Flip
    <3>1. ~MonStopsFlip
      BY DEF MonStopsFlip, Stopping
    <3> QED
      BY <3>1 DEF MonNext, MonStarts, MonSeesExit, MonSeesStop, MonReverts,
                  MonFlipStopped, MonFlushes, MonUnregisters, MonPuts,
                  MonPublishes, MonCompletes, MonClears
  <2>4. ~ReleaseNext
    <3> USE DEF ThreadInv, TypeOK, Flip
    <3>1. ~ReleaseFlip
      BY DEF ReleaseFlip, Stopping
    <3> QED
      BY <3>1 DEF ReleaseNext, ReleaseMonitor, ReleaseFlipStopped,
                  ReleaseCancels, ReleaseFlushes, ReleaseUnregisters,
                  ReleasePuts, ReleaseFrees
  <2>5. ~(ClientNext \/ KillNext \/ Closed)
    BY DEF ClientNext, Send, Receive, ReceiveAgain, WaitDone, Kill, Close,
           KillNext, KillReads, KillStops, KillReturns, Closed, vars
  <2>6. ~(WorkNext \/ HitNext \/ TargetNext)
    BY DEF WorkNext, WorkStarts, WorkUnregisters, WorkPuts, HitNext, UprobeHit,
           TargetNext, TargetStops, TargetKilled, TargetExits, TargetCrashes,
           TargetUnchanged
  <2> QED
    BY <2>1, <2>2, <2>3, <2>4, <2>5, <2>6 DEF Next
<1>2. ThreadInv /\ [Next]_vars => [A]_vars
  BY <1>1
<1>3. QED
  BY <1>2, ThreadsKnown, PTL DEF Safe, FlipsDoNotOverlap
=============================================================================
