------------------------------ MODULE FijModule ------------------------------
(***************************************************************************)
(* The driver as a whole: the client's calls, the two threads, the work    *)
(* item, the probe and the target, interleaved; and what must hold of      *)
(* them.                                                                   *)
(***************************************************************************)
EXTENDS FijIoctl

HitNext == \E r \in Runs : UprobeHit(r)

Next ==
    \/ ClientNext \/ StartNext \/ KillNext \/ ReleaseNext
    \/ MonNext \/ FlipNext \/ WorkNext \/ HitNext \/ TargetNext
    \/ Closed

\* The scheduler runs every kernel thread, worker and system call that can
\* run, and delivers signals.
KernelFairness ==
    /\ WF_vars(StartNext) /\ WF_vars(KillNext) /\ WF_vars(ReleaseNext)
    /\ WF_vars(MonNext) /\ WF_vars(FlipNext) /\ WF_vars(WorkNext)
    /\ \A r \in Runs : /\ WF_vars(TargetStops(r))
                       /\ WF_vars(TargetKilled(r))

\* run_send_and_poll polls until the completion is there, and then closes.
ClientFairness ==
    /\ WF_vars(Receive) /\ WF_vars(WaitDone) /\ WF_vars(Close)

\* A program that always ends.
Terminates == \A r \in Runs : WF_vars(TargetExits(r))

\* The program may hang; the client kills it when its time is up.
TimesOut == WF_vars(Kill)

Safe == Init /\ [][Next]_vars

Spec == Safe /\ KernelFairness /\ ClientFairness /\ Terminates

HangSpec == Safe /\ KernelFairness /\ ClientFairness /\ TimesOut

-----------------------------------------------------------------------------
(* Safety.  Reported: the client's run has completed, as RECEIVE_MSG (or   *)
(* EXEC_AND_FAULT) tells it.                                               *)

Reported ==
    /\ ioctl.client \in {"polling", "got"} /\ ioctl.pc \in {"user", "wait"}
    /\ ctx.monitor_done > 0 \/ ioctl.client = "got"

\* A bit that was flipped is never reported as "no fault": the runner would
\* repeat the run (fij_run.cpp) and the analyzer count a fault-free one.
FaultReported ==
    Reported /\ proc[This].faulty => result.fault_injected

\* When the bitflip thread is about to write, the target that
\* fij_wait_task_stopped waited for is still stopped: a bit of a running
\* task's saved registers may never reach the program.
FlipOnlyWhileStopped ==
    flip.pc = "flip" => proc[flip.tgid].state = "stopped"

\* Once SEND_MSG has returned and the injection is over, no SIGSTOP of the
\* driver is left on the target, whichever of the two SIGCONTs came last.
TargetResumed ==
    /\ flip.pc \in {"untrig", "out", "park", "none"}
    /\ ioctl.pc = "user" /\ ioctl.client \in {"polling", "got"}
    => proc[This].state \notin {"execed", "stopping", "stopped"}

\* Who has tested that the probe is armed and has not disarmed it yet.
Unregistering ==
    {d \in {"work", "monitor", "release"} :
        \/ d = "work" /\ work.pc = "unreg"
        \/ d = "monitor" /\ mon.pc = "unreg"
        \/ d = "release" /\ ioctl.pc = "relUnreg"}

\* The probe is unregistered by one of them at a time: the worker, the
\* monitor thread and fij_release all test it without a lock.
DisarmExclusive == \A d, e \in Unregistering : d = e

\* A run that is reported has left no probe in the program's file and holds
\* no reference to its inode.
ProbeGone == Reported => ~probe /\ ~ctx.uprobe_active /\ ~ctx.inj_inode

\* A file-backed page that was pinned for restoration has been restored when
\* the run is reported: the next run maps the same page cache.
PageRestored == Reported => ~ctx.restore_active

\* After fij_release nothing of the driver runs but the monitor's last
\* store; no probe and no work item refers to the context.
LastStoreOnly ==
    ~ctx.allocated => /\ mon.pc \in {"none", "clear"}
                      /\ flip.pc = "none"
                      /\ work = NoWork
                      /\ ~probe

\* fij_release stops the threads before it frees the context.
ThreadsStopped == ~ctx.allocated => mon.pc = "none" /\ flip.pc = "none"

\* The completion is signalled when the target has exited, unless the
\* client gave up on it.
CompletedAfterExit ==
    Reported /\ ~ioctl.killed => proc[This].state = "dead"

\* Only a target that KILL_TARGET killed is reported as hanged.
HangImpliesKilled ==
    Reported /\ result.process_hanged => proc[This].sigkilled

\* The result the client is given is the one of the process it started; the
\* exit code is the process's own unless the client gave up on it.
ResultIsOwn ==
    ioctl.client = "got" /\ ioctl.pc = "user" =>
        /\ ~ioctl.killed => result.exit_code = proc[This].exit_code
        /\ ioctl.call = "SEND_MSG" => result.iteration = This

-----------------------------------------------------------------------------
(* An inductive invariant: who answers for the two kernel threads.         *)

\* fij_release no longer looks at the monitor thread.
Released == ioctl.pc \in {"relFlip", "relFlipWait", "relCancel", "relFlush",
                         "relUnreg", "relIput", "relFree", "closed"}

\* A monitor thread watches a process that was started.
LeaderKnown == mon.pc # "none" => mon.leader \in Runs

\* A monitor thread that exists is found in the context, unless the pointer
\* to it is about to be stored or was dropped by fij_release.
MonitorOwned ==
    mon.pc # "none" => ctx.pc_monitor_thread \/ ioctl.pc = "monSet" \/ Released

\* So is a bitflip thread; nobody drops that pointer.
FlipOwned ==
    flip.pc # "none" => ctx.bitflip_thread \/ ioctl.pc = "flipSet"

ThreadInv == TypeOK /\ LeaderKnown /\ MonitorOwned /\ FlipOwned

-----------------------------------------------------------------------------
(* An inductive invariant: how far the current run is.                     *)

\* fij_start_exec has created the monitor thread and has not resumed the
\* target yet.
Launching == ioctl.pc \in {"monSet", "flipStart", "flipSet", "arm", "cont"}

\* The target was resumed, and the client waits for the result or has it.
Launched ==
    /\ ioctl.client \in {"polling", "got"}
    /\ ioctl.pc \in {"user", "wait", "killRead", "killStop", "killWait"}

\* The completion has been signalled, and perhaps consumed.
Signalled == Launched /\ (ctx.monitor_done > 0 \/ ioctl.client = "got")

\* What the client knows while it is inside a call.
CallKnown ==
    /\ ioctl.pc \in {"exec", "mark", "monStart", "fail"} \/ Launching =>
            ioctl.client = "fresh"
    /\ ioctl.pc \in {"wait", "killRead", "killStop", "killWait"} =>
            ioctl.client = "polling"

\* The process of the run is the one the context names.
TargetKnown ==
    /\ ioctl.pc = "exec" => This \in Runs
    /\ ioctl.pc \in {"mark", "monStart"} \/ Launching \/ Launched =>
            /\ This \in Runs
            /\ ctx.target_tgid = This
            /\ proc[This].state # "none"

\* The monitor thread is the one of the run, and waits while the run is
\* being started.
MonitorKnown ==
    /\ Launching \/ Launched => mon.pc = "none" \/ mon.leader = This
    /\ Launching => ~mon.stop
    /\ Launching /\ Live(This) =>
            mon.pc \in {"created", "loop"} /\ ctx.monitor_done = 0

\* The bitflip thread is gone before the monitor thread tells the client.
FlipStopped ==
    /\ Launched /\ mon.pc \in {"flush", "unreg", "iput", "publish",
                               "complete", "clear"} => flip.pc = "none"
    /\ Signalled => flip.pc = "none" /\ mon.pc \in {"clear", "none"}

RunInv ==
    ThreadInv /\ CallKnown /\ TargetKnown /\ MonitorKnown /\ FlipStopped

\* No process is stopped but by the bitflip thread that will resume it.
StopKnown ==
    Launched /\ proc[This].state \in {"execed", "stopping", "stopped"} =>
        /\ flip.pc \in {"leader", "waitStop", "flip", "pin", "report", "cont"}
        /\ flip.tgid = This

\* What the monitor thread found out: the exit code of a process that is
\* dead, unless it was told to stop; and what becomes of it.
ExitKnown ==
    /\ mon.pc # "none" => /\ mon.leader <= This
                          /\ ioctl.pc = "exec" => mon.leader < This
    /\ ~mon.stop /\ mon.pc \notin {"none", "created", "loop"} =>
            /\ ~Live(mon.leader)
            /\ mon.exit_code = proc[mon.leader].exit_code
    /\ mon.pc \in {"complete", "clear"} => result.exit_code = mon.exit_code
    /\ Signalled /\ ~ioctl.killed =>
            /\ ~Live(This)
            /\ result.exit_code = proc[This].exit_code

\* Only KILL_TARGET stops a monitor thread, after it killed the target.
KillKnown ==
    /\ ioctl.pc \in {"killRead", "killStop", "killWait"} =>
            /\ ioctl.killed
            /\ Live(This) => proc[This].sigkilled
    /\ Launched /\ ~ioctl.killed => ~mon.stop
    /\ mon.pc # "none" /\ mon.stop /\ Live(mon.leader) =>
            proc[mon.leader].sigkilled
    /\ result.process_hanged => \E r \in Runs : proc[r].sigkilled

\* A SEND_MSG numbers its result.
IterationKnown ==
    /\ ioctl.client = "got" => This > 0
    /\ This > 0 /\ ioctl.call = "SEND_MSG" => result.iteration = This

\* A flip that was made is reported, or about to be.
FaultKnown ==
    /\ ~params.all_threads /\ ~flip.all
    /\ \A r \in Runs : proc[r].faulty =>
            result.fault_injected \/ flip.pc \in {"pin", "report"}

\* The probe: what the context says of it, that only a run with a target_pc
\* arms one, and that the monitor thread has disarmed it before it tells.
ProbeKnown ==
    /\ probe = ctx.uprobe_active /\ ctx.inj_uprobe = ctx.uprobe_active
    /\ params.target_pc_present => params \in ParamSet
    /\ ioctl.pc = "arm" \/ ctx.uprobe_active \/ ctx.inj_inode =>
            params.target_pc_present
    /\ Launched /\ mon.pc \in {"iput", "publish", "complete", "clear"} =>
            ~ctx.uprobe_active
    /\ Launched /\ mon.pc \in {"publish", "complete", "clear"} =>
            ~ctx.inj_inode
    /\ Signalled => ~ctx.uprobe_active /\ ~ctx.inj_inode

-----------------------------------------------------------------------------
(* An inductive invariant of the runs that wait for the probe, whose       *)
(* target nothing kills and whose client waits for the completion.         *)

\* fij_release has been called.
Closing == ioctl.pc = "relMon" \/ Released

\* What these runs suppose of the client and of what may fail around the
\* driver.
Calm ==
    /\ Faults \subseteq {"nomem", "exec", "map"}
    /\ \A p \in ParamSet : p.target_pc_present

Quiet == ~CanKill /\ Calm

\* Nobody gives up on the target.
NotGivenUp ==
    /\ ~ioctl.killed /\ ~mon.stop /\ ~result.process_hanged
    /\ ioctl.pc \notin {"killRead", "killStop", "killWait"}
    /\ \A r \in Runs : proc[r].state # "killed"

\* The bitflip thread waits for the probe.
TriggeredOnly ==
    /\ ioctl.sends > 0 => params.target_pc_present
    /\ flip.pc # "none" => ioctl.sends > 0
    /\ flip.pc # "sleep"

\* The monitor thread outlives the bitflip thread.
FlipWithin ==
    mon.pc \notin {"created", "loop", "revert", "stopFlip", "waitFlip"} =>
        flip.pc = "none" /\ ~ctx.bitflip_thread

\* What the bitflip thread writes to is stopped until it is resumed.
FlipHolds ==
    /\ flip.pc \in {"stop", "leader", "waitStop", "flip", "pin", "report",
                    "cont"} => flip.tgid \in Runs
    /\ flip.pc \in {"flip", "pin", "report"} =>
            proc[flip.tgid].state = "stopped"

\* A run that was not resumed: its process waits to be, and nothing has been
\* triggered.
Unresumed ==
    /\ ioctl.pc \in {"mark", "monStart"} \/ Launching =>
            proc[This].state \in {"execed", "stopped"}
    /\ ioctl.client \in {"fresh", "failed"} =>
            /\ mon.pc \in {"none", "created", "loop", "clear"}
            /\ mon.pc \in {"created", "loop"} =>
                    proc[mon.leader].state \in {"execed", "stopped"}
            /\ work = NoWork
            /\ ctx.uprobe_active => ioctl.pc = "cont"
            /\ ~ctx.restore_active
            /\ \/ flip.pc \in {"none", "created", "trig"}
               \/ flip.pc \in {"out", "park"} /\ Closing
            /\ flip.pc \in {"created", "trig"} =>
                    /\ ~ctx.flip_triggered
                    /\ flip.stop => Closing

\* A run that was resumed: the bitflip thread is after its process, and what
\* it leaves is undone once the process is dead.
Resumed ==
    Launched =>
        /\ flip.pc \in {"stop", "leader", "waitStop", "flip", "pin", "report",
                        "cont"} => flip.tgid = This
        /\ ctx.restore_active => mon.pc \in {"created", "loop", "revert"}
        /\ mon.pc \in {"unreg", "iput", "publish", "complete", "clear"} =>
                work = NoWork
        /\ Signalled => work = NoWork

\* A run whose result the client has.
Answered ==
    ioctl.client = "got" =>
        /\ mon.pc \in {"clear", "none"}
        /\ work = NoWork
        /\ ~ctx.uprobe_active

QuietInv ==
    /\ NotGivenUp /\ TriggeredOnly /\ FlipWithin /\ FlipHolds
    /\ Unresumed /\ Resumed /\ Answered

\* A client that closes the file when its run is over closes it last.
ClosedLast ==
    /\ Closing => ioctl.client \in {"got", "failed"}
    /\ ioctl.pc # "relUnreg"
    /\ ~ctx.allocated => ioctl.pc = "closed"

\* Where nothing fails once the monitor thread is there, a run that was not
\* resumed leaves no thread behind.
NothingStranded ==
    /\ ioctl.client \in {"fresh", "failed"} /\ ~Launching =>
            mon.pc \in {"none", "clear"}
    /\ ioctl.pc \in {"monSet", "flipStart"} => ~ctx.bitflip_thread

\* Nothing has happened to a file on which no run was started.
Untouched ==
    ioctl.sends = 0 =>
        /\ ioctl.pc = "user" /\ ioctl.client = "fresh"
        /\ ~ctx.running

\* A flip that is reported, or about to be, was made.
FlipMade ==
    result.fault_injected \/ flip.pc \in {"pin", "report"} =>
        \E r \in Runs : proc[r].faulty

\* The driver refuses to kill a target whose completion is signalled, or is
\* the monitor thread's next step.
DoneKnown ==
    (Launched /\ mon.pc = "complete") \/ Signalled => ~ctx.running

\* A run the client gave up on: its result is awaited before the file is
\* closed, and leaves no thread behind that could change it.
GivenUp ==
    /\ ioctl.sends > 0
    /\ ioctl.client \in {"polling", "got"}
    /\ Closing => ioctl.client = "got"
    /\ ioctl.client = "got" => mon.pc \in {"clear", "none"} /\ flip.pc = "none"

\* A file on which one run is started.
OneRunInv ==
    /\ Untouched /\ FaultKnown /\ DoneKnown
    /\ IF ioctl.killed THEN GivenUp
       ELSE QuietInv /\ ClosedLast /\ FlipMade

-----------------------------------------------------------------------------
(* What a step may never do.                                               *)

\* A result that is reported does not change before the client starts its
\* next run, although two kernel threads write it without a lock.
ResultFrozen == [][Reported /\ Reported' => result' = result]_vars

\* A monitor thread is created only when the one before it has returned.
MonitorsDoNotOverlap ==
    [][mon.pc # "created" /\ mon'.pc = "created" => mon.pc = "none"]_vars

\* A bitflip thread is created only when the one before it has returned.
FlipsDoNotOverlap ==
    [][flip.pc # "created" /\ flip'.pc = "created" => flip.pc = "none"]_vars

-----------------------------------------------------------------------------
(* Liveness.                                                               *)

\* A run that was started is reported: RECEIVE_MSG does not return EAGAIN,
\* and EXEC_AND_FAULT does not wait, forever.
Completes == ioctl.client = "polling" ~> ioctl.client # "polling"

\* KILL_TARGET returns, although it waits for a thread that waits for
\* another one.
KillReturnsEventually == ioctl.pc = "killRead" ~> ioctl.pc = "user"

\* fij_release returns.
CloseReturns == ioctl.pc = "relMon" ~> ioctl.pc = "closed"

-----------------------------------------------------------------------------
(* The promise to the client, for a file on which one run is started.      *)

\* The client's run has been reported to it, now or before it closed.
Told == Reported \/ ioctl.client = "got"

Phase == CASE ioctl.sends = 0 -> "idle"
           [] ioctl.client = "failed" -> "failed"
           [] Told -> "reported"
           [] OTHER -> "running"

Flipped == \E r \in Runs : proc[r].faulty

Verdict == IF Told THEN [injected |-> result.fault_injected,
                         hanged |-> result.process_hanged]
           ELSE [injected |-> FALSE, hanged |-> FALSE]

Abstract == INSTANCE FijRun WITH
    phase <- Phase, flipped <- Flipped, killed <- ioctl.killed,
    verdict <- Verdict

\* The driver implements FijRun.
KeepsPromise == Abstract!RunSpec
=============================================================================
