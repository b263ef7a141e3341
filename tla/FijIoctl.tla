------------------------------ MODULE FijIoctl ------------------------------
(***************************************************************************)
(* iface/ioctl.c and iface/chardev.c: the calls of the one client that     *)
(* opened the file.  SEND_MSG and EXEC_AND_FAULT execute a target, create  *)
(* the two threads, arm the probe and resume the target; RECEIVE_MSG polls *)
(* for the completion; KILL_TARGET gives up on a target; release tears the *)
(* context down.  The client makes one call at a time, in the order of     *)
(* fij_runner's run_send_and_poll.                                         *)
(***************************************************************************)
EXTENDS FijMonitor

IoctlGoes(pc) == ioctl' = [ioctl EXCEPT !.pc = pc]

\* The call returns to the client, who now knows as much.
Returns(client) == ioctl' = [ioctl EXCEPT !.pc = "user", !.client = client]

Outside == ioctl.pc = "user" /\ ctx.allocated

\* The process of the run being started.
This == ioctl.sends

-----------------------------------------------------------------------------
(* Starting a run.                                                         *)

\* copy_from_user, then the test of running in fij_start_exec.  The
\* iteration number of an EXEC_AND_FAULT is read from memory nobody wrote.
Send ==
    /\ Outside
    /\ ioctl.client # "polling"
    /\ ioctl.sends < MaxSends
    /\ \E p \in ParamSet, call \in Calls, i \in Runs \cup {0} :
        /\ call = "SEND_MSG" => i = ioctl.sends + 1
        /\ params' = p
        /\ result' = [result EXCEPT !.iteration = i]
        /\ ctx' = [ctx EXCEPT !.monitor_done = 0]
        /\ ioctl' = [ioctl EXCEPT
                        !.pc = IF ctx.running THEN "user" ELSE "exec",
                        !.client = IF ctx.running THEN "failed" ELSE "fresh",
                        !.sends = @ + 1, !.call = call, !.killed = FALSE]
    /\ UNCHANGED <<proc, mon, flip, work, probe>>

\* fij_build_argv_from_params, then fij_exec_and_stop: the child notes its
\* pid in the context, opens its log (an empty log_path is opened too, and
\* that fails) and stops itself; call_usermodehelper_exec waits for the
\* exec.
Exec ==
    /\ ioctl.pc = "exec"
    /\ \/ /\ params.log_path
          /\ proc' = SetState(This, "execed")
          /\ ctx' = [ctx EXCEPT !.target_tgid = This]
          /\ IoctlGoes("mark")
       \/ /\ ~params.log_path \/ "exec" \in Faults
          /\ proc' = [proc EXCEPT ![This].state = "dead",
                                  ![This].exit_code = "fail"]
          /\ ctx' = [ctx EXCEPT !.target_tgid = This]
          /\ IoctlGoes("fail")
       \/ /\ "nomem" \in Faults
          /\ IoctlGoes("fail")
          /\ UNCHANGED <<proc, ctx>>
    /\ UNCHANGED <<params, result, mon, flip, work, probe>>

\* running, target_alive, and the target's memory map for target_pc.
MarkRunning ==
    /\ ioctl.pc = "mark"
    /\ ctx' = [ctx EXCEPT !.running = TRUE, !.target_alive = TRUE]
    /\ IoctlGoes(IF params.target_pc_present /\ ~Found(This) THEN "fail"
                 ELSE "monStart")
    /\ UNCHANGED <<params, result, proc, mon, flip, work, probe>>

\* fij_monitor_start as far as kthread_run(monitor_thread_fn): the thread
\* exists before the pointer to it is stored.  A bug: no test for a monitor
\* that is there already.
MonitorFree == TRUE
NoMonitor == ~ctx.pc_monitor_thread

StartMonitor ==
    /\ ioctl.pc = "monStart"
    /\ ctx' = [ctx EXCEPT !.monitor_done = 0]
    /\ \/ /\ NoMonitor /\ Found(This)
          /\ mon' = [NoMon EXCEPT !.pc = "created", !.leader = This]
          /\ IoctlGoes("monSet")
       \/ /\ ~NoMonitor \/ ~Found(This) \/ "nomem" \in Faults
          /\ IoctlGoes("fail")
          /\ UNCHANGED mon
    /\ UNCHANGED <<params, result, proc, flip, work, probe>>

SetMonitor ==
    /\ ioctl.pc = "monSet"
    /\ ctx' = [ctx EXCEPT !.pc_monitor_thread = TRUE]
    /\ IoctlGoes(IF params.no_injection THEN "cont" ELSE "flipStart")
    /\ UNCHANGED <<params, result, proc, mon, flip, work, probe>>

\* fij_start_bitflip_thread.
StartFlip ==
    /\ ioctl.pc = "flipStart"
    /\ ctx' = [ctx EXCEPT !.flip_triggered = FALSE]
    /\ \/ /\ ~ctx.bitflip_thread
          /\ flip' = [NoFlip EXCEPT !.pc = "created"]
          /\ IoctlGoes("flipSet")
       \/ /\ ctx.bitflip_thread \/ "nomem" \in Faults
          /\ IoctlGoes("fail")
          /\ UNCHANGED flip
    /\ UNCHANGED <<params, result, proc, mon, work, probe>>

SetFlip ==
    /\ ioctl.pc = "flipSet"
    /\ ctx' = [ctx EXCEPT !.bitflip_thread = TRUE]
    /\ IoctlGoes(IF params.target_pc_present THEN "arm" ELSE "cont")
    /\ UNCHANGED <<params, result, proc, mon, flip, work, probe>>

\* fij_uprobe_arm.
ArmProbe ==
    /\ ioctl.pc = "arm"
    /\ \/ /\ ~ctx.uprobe_active /\ Found(This)
          /\ ctx' = ArmedCtx
          /\ probe' = TRUE
          /\ IoctlGoes("cont")
       \/ /\ ctx.uprobe_active \/ ~Found(This) \/ "map" \in Faults
          /\ IoctlGoes("fail")
          /\ UNCHANGED <<ctx, probe>>
    /\ UNCHANGED <<params, result, proc, mon, flip, work>>

\* fij_send_cont, and the return of SEND_MSG.
Continue ==
    /\ ioctl.pc = "cont"
    /\ IF Found(This)
       THEN /\ proc' = SetState(This, AfterSIGCONT(proc[This].state))
            /\ ioctl' = [ioctl EXCEPT
                            !.client = "polling",
                            !.pc = IF ioctl.call = "SEND_MSG" THEN "user"
                                   ELSE "wait"]
       ELSE IoctlGoes("fail") /\ UNCHANGED proc
    /\ UNCHANGED <<ctx, params, result, mon, flip, work, probe>>

\* The error path of fij_start_exec.  It resets running and nothing else.
StartFails ==
    /\ ioctl.pc = "fail"
    /\ ctx' = [ctx EXCEPT !.running = FALSE]
    /\ Returns("failed")
    /\ UNCHANGED <<params, result, proc, mon, flip, work, probe>>

-----------------------------------------------------------------------------
(* Getting the result.                                                     *)

\* A bug: the result is handed out as soon as the run no longer runs.
NotRunning == ~ctx.running
CompletionDone == ctx.monitor_done > 0

\* RECEIVE_MSG: completion_done does not consume the completion.
Receive ==
    /\ Outside /\ ioctl.client = "polling"
    /\ CompletionDone
    /\ Returns("got")
    /\ UNCHANGED <<ctx, params, result, proc, mon, flip, work, probe>>

\* RECEIVE_MSG returns EAGAIN, and the client sleeps and tries again.
ReceiveAgain ==
    /\ Outside /\ ioctl.client = "polling"
    /\ ~CompletionDone
    /\ UNCHANGED vars

\* wait_for_completion.  A bug: it does not wait.
DoesNotWait == TRUE
Awaited == ctx.monitor_done > 0

\* EXEC_AND_FAULT consumes the completion, or a signal interrupts it.
WaitDone ==
    /\ ioctl.pc = "wait"
    /\ \/ /\ Awaited
          /\ ctx' = [ctx EXCEPT !.monitor_done = @ - 1]
          /\ Returns("got")
       \/ /\ "signal" \in Faults
          /\ Returns("failed")
          /\ UNCHANGED ctx
    /\ UNCHANGED <<params, result, proc, mon, flip, work, probe>>

-----------------------------------------------------------------------------
(* KILL_TARGET, at most once a run, when the client's time is up.          *)

Prompt == mon.pc # "created" /\ flip.pc # "created"

Kill ==
    /\ CanKill /\ (PromptThreads => Prompt)
    /\ Outside /\ ioctl.client = "polling"
    /\ ~ioctl.killed /\ ~params.no_injection
    /\ LET valid == ctx.running /\ ctx.target_tgid # NoPid
       IN /\ ioctl' = [ioctl EXCEPT !.killed = TRUE,
                                    !.pc = IF valid THEN "killRead" ELSE @]
          /\ IF valid
             THEN /\ Sigkill(ctx.target_tgid)
                  /\ ctx' = [ctx EXCEPT !.target_alive =
                                            @ /\ ~Live(ctx.target_tgid)]
             ELSE UNCHANGED <<proc, ctx>>
    /\ UNCHANGED <<params, result, mon, flip, work, probe>>

KillReads ==
    /\ ioctl.pc = "killRead"
    /\ IoctlGoes(IF ctx.pc_monitor_thread THEN "killStop" ELSE "user")
    /\ UNCHANGED <<ctx, params, result, proc, mon, flip, work, probe>>

\* kthread_stop on the pointer that was read, then its wait.
KillStops ==
    /\ ioctl.pc = "killStop"
    /\ mon' = Stopping(mon)
    /\ IoctlGoes("killWait")
    /\ UNCHANGED <<ctx, params, result, proc, flip, work, probe>>

KillReturns ==
    /\ ioctl.pc = "killWait"
    /\ mon.pc = "none"
    /\ IoctlGoes("user")
    /\ UNCHANGED <<ctx, params, result, proc, mon, flip, work, probe>>

-----------------------------------------------------------------------------
(* fij_release, when the client closes the file or exits.                  *)

Close ==
    /\ Outside
    /\ ioctl.client \in {"got", "failed"} \/ EarlyClose
    /\ IoctlGoes("relMon")
    /\ UNCHANGED <<ctx, params, result, proc, mon, flip, work, probe>>

\* fij_monitor_stop: it completes the completion; it does not stop the
\* thread and does not wait for it.
ReleaseMonitor ==
    /\ ioctl.pc = "relMon"
    /\ ctx' = IF ctx.pc_monitor_thread
              THEN [ctx EXCEPT !.target_alive = FALSE, !.monitor_done = @ + 1,
                               !.pc_monitor_thread = FALSE]
              ELSE ctx
    /\ IoctlGoes("relFlip")
    /\ UNCHANGED <<params, result, proc, mon, flip, work, probe>>

\* fij_stop_bitflip_thread.
ReleaseFlip ==
    /\ ioctl.pc = "relFlip"
    /\ IF ctx.bitflip_thread
       THEN flip' = Stopping(flip) /\ IoctlGoes("relFlipWait")
       ELSE UNCHANGED flip /\ IoctlGoes("relCancel")
    /\ UNCHANGED <<ctx, params, result, proc, mon, work, probe>>

ReleaseFlipStopped ==
    /\ ioctl.pc = "relFlipWait"
    /\ flip.pc = "none"
    /\ ctx' = [ctx EXCEPT !.bitflip_thread = FALSE, !.running = FALSE]
    /\ IoctlGoes("relCancel")
    /\ UNCHANGED <<params, result, proc, mon, flip, work, probe>>

\* cancel_work_sync.
ReleaseCancels ==
    /\ ioctl.pc = "relCancel"
    /\ work.pc = "idle"
    /\ work' = NoWork
    /\ IoctlGoes("relFlush")
    /\ UNCHANGED <<ctx, params, result, proc, mon, flip, probe>>

\* fij_uprobe_disarm_sync.
ReleaseFlushes ==
    /\ ioctl.pc = "relFlush"
    /\ Flushed
    /\ IoctlGoes(IF Armed THEN "relUnreg" ELSE "relIput")
    /\ UNCHANGED <<ctx, params, result, proc, mon, flip, work, probe>>

ReleaseUnregisters ==
    /\ ioctl.pc = "relUnreg"
    /\ ctx' = UnregisteredCtx
    /\ probe' = FALSE
    /\ IoctlGoes("relIput")
    /\ UNCHANGED <<params, result, proc, mon, flip, work>>

ReleasePuts ==
    /\ ioctl.pc = "relIput"
    /\ ctx' = DisarmedCtx
    /\ IoctlGoes("relFree")
    /\ UNCHANGED <<params, result, proc, mon, flip, work, probe>>

ReleaseFrees ==
    /\ ioctl.pc = "relFree"
    /\ ctx' = [ctx EXCEPT !.allocated = FALSE]
    /\ IoctlGoes("closed")
    /\ UNCHANGED <<params, result, proc, mon, flip, work, probe>>

\* The file is closed: nothing more is asked of the driver.
Closed == ioctl.pc = "closed" /\ UNCHANGED vars

StartNext ==
    \/ Exec \/ MarkRunning \/ StartMonitor \/ SetMonitor \/ StartFlip
    \/ SetFlip \/ ArmProbe \/ Continue \/ StartFails

KillNext == KillReads \/ KillStops \/ KillReturns

ReleaseNext ==
    \/ ReleaseMonitor \/ ReleaseFlip \/ ReleaseFlipStopped \/ ReleaseCancels
    \/ ReleaseFlushes \/ ReleaseUnregisters \/ ReleasePuts \/ ReleaseFrees

ClientNext == Send \/ Receive \/ ReceiveAgain \/ WaitDone \/ Kill \/ Close
=============================================================================
