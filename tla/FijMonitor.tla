----------------------------- MODULE FijMonitor -----------------------------
(***************************************************************************)
(* core/monitor.c, monitor_thread_fn: one kernel thread per run waits for  *)
(* the target to exit or for kthread_stop, undoes what the run left in the *)
(* kernel (a pinned page, the bitflip thread, the probe) and publishes the *)
(* result.                                                                 *)
(***************************************************************************)
EXTENDS FijBitflip

MonGoes(pc) == mon' = [mon EXCEPT !.pc = pc]

MonStarts ==
    /\ mon.pc = "created"
    /\ mon' = IF mon.stop THEN NoMon ELSE [mon EXCEPT !.pc = "loop"]
    /\ UNCHANGED <<ctx, params, result, proc, ioctl, flip, work, probe>>

\* The leader's exit_state is looked at before kthread_should_stop.
MonSeesExit ==
    /\ mon.pc = "loop"
    /\ ~Live(mon.leader)
    /\ mon' = [mon EXCEPT !.pc = "revert",
                          !.exit_code = proc[mon.leader].exit_code]
    /\ UNCHANGED <<ctx, params, result, proc, ioctl, flip, work, probe>>

\* The target is alive and somebody called kthread_stop: it hanged.  A bug:
\* the thread gives up on a live target by itself.
GivesUp == TRUE
ShouldStop == mon.stop

MonSeesStop ==
    /\ mon.pc = "loop"
    /\ Live(mon.leader) /\ ShouldStop
    /\ mon' = [mon EXCEPT !.pc = "revert", !.exit_code = "SIGKILL"]
    /\ result' = [result EXCEPT !.process_hanged = TRUE]
    /\ UNCHANGED <<ctx, params, proc, ioctl, flip, work, probe>>

\* fij_revert_file_backed_bitflip, if a page is pinned.  A bug: it is not
\* called.
Unrestored(c) == c
Restored(c) == [c EXCEPT !.restore_active = FALSE]

MonReverts ==
    /\ mon.pc = "revert"
    /\ ctx' = Restored(ctx)
    /\ MonGoes("stopFlip")
    /\ UNCHANGED <<params, result, proc, ioctl, flip, work, probe>>

\* target_alive = 0, then fij_stop_bitflip_thread if there is one.
MonStopsFlip ==
    /\ mon.pc = "stopFlip"
    /\ ctx' = [ctx EXCEPT !.target_alive = FALSE]
    /\ IF ctx.bitflip_thread
       THEN flip' = Stopping(flip) /\ MonGoes("waitFlip")
       ELSE UNCHANGED flip /\ MonGoes("flush")
    /\ UNCHANGED <<params, result, proc, ioctl, work, probe>>

\* kthread_stop returns when the thread has exited.  A bug: it returns at
\* once.
FlipAnywhere == TRUE
FlipGone == flip.pc = "none"

MonFlipStopped ==
    /\ mon.pc = "waitFlip"
    /\ FlipGone
    /\ ctx' = [ctx EXCEPT !.bitflip_thread = FALSE, !.running = FALSE]
    /\ MonGoes("flush")
    /\ UNCHANGED <<params, result, proc, ioctl, flip, work, probe>>

\* fij_uprobe_disarm_sync, if the run has a target_pc.  A bug: only a run
\* without one disarms.
DisarmsWrongRun == ~params.target_pc_present
Disarms == params.target_pc_present

MonFlushes ==
    /\ mon.pc = "flush"
    /\ IF Disarms
       THEN Flushed /\ MonGoes(IF Armed THEN "unreg" ELSE "iput")
       ELSE MonGoes("publish")
    /\ UNCHANGED <<ctx, params, result, proc, ioctl, flip, work, probe>>

MonUnregisters ==
    /\ mon.pc = "unreg"
    /\ ctx' = UnregisteredCtx
    /\ probe' = FALSE
    /\ MonGoes("iput")
    /\ UNCHANGED <<params, result, proc, ioctl, flip, work>>

MonPuts ==
    /\ mon.pc = "iput"
    /\ ctx' = DisarmedCtx
    /\ MonGoes("publish")
    /\ UNCHANGED <<params, result, proc, ioctl, flip, work, probe>>

MonPublishes ==
    /\ mon.pc = "publish"
    /\ result' = [result EXCEPT !.exit_code = mon.exit_code]
    /\ ctx' = [ctx EXCEPT !.running = FALSE]
    /\ MonGoes("complete")
    /\ UNCHANGED <<params, proc, ioctl, flip, work, probe>>

\* complete(&ctx->monitor_done).  A bug: the completion is forgotten.
Uncompleted(c) == c
Completed(c) == [c EXCEPT !.monitor_done = @ + 1]

MonCompletes ==
    /\ mon.pc = "complete"
    /\ ctx' = Completed(ctx)
    /\ MonGoes("clear")
    /\ UNCHANGED <<params, result, proc, ioctl, flip, work, probe>>

\* The thread's last store, after the client may already have been told.
MonClears ==
    /\ mon.pc = "clear"
    /\ ctx' = [ctx EXCEPT !.pc_monitor_thread = FALSE]
    /\ mon' = NoMon
    /\ UNCHANGED <<params, result, proc, ioctl, flip, work, probe>>

MonNext ==
    \/ MonStarts \/ MonSeesExit \/ MonSeesStop \/ MonReverts \/ MonStopsFlip
    \/ MonFlipStopped \/ MonFlushes \/ MonUnregisters \/ MonPuts
    \/ MonPublishes \/ MonCompletes \/ MonClears
=============================================================================
