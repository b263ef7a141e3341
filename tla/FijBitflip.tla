----------------------------- MODULE FijBitflip -----------------------------
(***************************************************************************)
(* core/bitflip_thread.c and the injection of core/bitflip_ops.c: the      *)
(* fij_bitflip thread waits for its moment (a probe hit, or a random       *)
(* delay), stops the target, flips one bit, reports it and resumes the     *)
(* target, then parks until kthread_stop.                                  *)
(*                                                                         *)
(* The target has one thread here, so the loop of the all_threads variant  *)
(* runs once; which process and which thread of a tree is picked, and what *)
(* the tree does meanwhile, is FijInject.                                  *)
(***************************************************************************)
EXTENDS FijUprobe

FlipGoes(pc) == flip' = [flip EXCEPT !.pc = pc]

\* kthread_stop: set the bit of a thread that has not exited yet.  A bug:
\* the thread is not told.
Untold(thread) == thread
Stopping(thread) == [thread EXCEPT !.stop = @ \/ thread.pc # "none"]

\* Where fij_stop_flip_resume_one_random returns to.
Injected == IF flip.det THEN "untrig" ELSE "out"

\* kthread_run returned: the thread exists and has not run.  A thread that
\* is stopped before it ran never calls its function.
FlipStarts ==
    /\ flip.pc = "created"
    /\ flip' = IF flip.stop THEN NoFlip
               ELSE [flip EXCEPT
                        !.det = params.target_pc_present,
                        !.pc = IF params.target_pc_present THEN "trig"
                               ELSE "sleep"]
    /\ UNCHANGED <<ctx, params, result, proc, ioctl, mon, work, probe>>

\* Deterministic mode: wait_event_killable on the probe's trigger.
FlipTriggered ==
    /\ flip.pc = "trig"
    /\ ctx.flip_triggered \/ flip.stop
    /\ FlipGoes(IF flip.stop \/ ~ctx.target_alive THEN "out" ELSE "collect")
    /\ UNCHANGED <<ctx, params, result, proc, ioctl, mon, work, probe>>

\* Nondeterministic mode: the random delay is over.  ret is uninitialised
\* when the delay was 0 or was slept with msleep_interruptible, so the
\* thread may give up although nothing is wrong; it also does when the
\* sleep was interrupted.
FlipSlept ==
    /\ flip.pc = "sleep"
    /\ \/ ctx.target_alive /\ ~flip.stop /\ FlipGoes("collect")
       \/ FlipGoes("out")
    /\ UNCHANGED <<ctx, params, result, proc, ioctl, mon, work, probe>>

\* fij_collect_descendants and the choice of a process and a thread.
FlipCollects ==
    /\ flip.pc = "collect"
    /\ \/ /\ Found(ctx.target_tgid)
          /\ flip' = [flip EXCEPT !.pc = "stop", !.tgid = ctx.target_tgid,
                                  !.all = params.all_threads]
       \/ /\ ~Found(ctx.target_tgid) \/ "nomem" \in Faults
          /\ FlipGoes(Injected)
    /\ UNCHANGED <<ctx, params, result, proc, ioctl, mon, work, probe>>

\* fij_group_stop.
FlipStops ==
    /\ flip.pc = "stop"
    /\ \/ /\ Found(flip.tgid)
          /\ Sigstop(flip.tgid)
          /\ FlipGoes(IF flip.all THEN "leader" ELSE "waitStop")
       \/ /\ ~Found(flip.tgid)
          /\ FlipGoes(Injected)
          /\ UNCHANGED proc
    /\ UNCHANGED <<ctx, params, result, ioctl, mon, work, probe>>

\* All threads: the leader is looked up again, and for_each_thread follows
\* the pointer even when it is NULL.  The oops kills the thread.
FlipFindsLeader ==
    /\ flip.pc = "leader"
    /\ flip' = IF Found(flip.tgid) THEN [flip EXCEPT !.pc = "waitStop"]
               ELSE NoFlip
    /\ UNCHANGED <<ctx, params, result, proc, ioctl, mon, work, probe>>

\* fij_wait_task_stopped returns 0 for a stopped task only; a task that died,
\* a kthread_stop and the timeout of 100 ms all give up.  A bug: the
\* returned error is ignored.
IgnoresWait(s) == TRUE
StoppedInTime(s) == s = "stopped"

FlipWaits ==
    /\ flip.pc = "waitStop"
    /\ FlipGoes(IF StoppedInTime(proc[flip.tgid].state) THEN "flip" ELSE "cont")
    /\ UNCHANGED <<ctx, params, result, proc, ioctl, mon, work, probe>>

MarkFaulty(r, lands) == proc' = [proc EXCEPT ![r].faulty = @ \/ lands]

\* fij_flip_for_task on a register: the thread's saved registers, whatever
\* the thread does now.  The program sees the flip if it is stopped; if it
\* was resumed it may overwrite them first, and if it died nobody reads
\* them.  The flip fails for a register or bit out of range.
FlipRegister ==
    /\ flip.pc = "flip"
    /\ \/ /\ \E lands \in BOOLEAN :
                /\ proc[flip.tgid].state = "stopped" => lands
                /\ lands => Live(flip.tgid)
                /\ MarkFaulty(flip.tgid, lands)
          /\ FlipGoes("report")
       \/ UNCHANGED proc /\ FlipGoes("cont")
    /\ UNCHANGED <<ctx, params, result, ioctl, mon, work, probe>>

\* fij_perform_mem_bitflip: it backs out of a dead or doomed target, and
\* pins a file-backed page after it wrote to it.
FlipMemory ==
    /\ flip.pc = "flip"
    /\ Found(flip.tgid) /\ ~flip.stop /\ ctx.target_alive
    /\ MarkFaulty(flip.tgid, TRUE)
    /\ \E pc \in {"pin", "report"} : FlipGoes(pc)
    /\ UNCHANGED <<ctx, params, result, ioctl, mon, work, probe>>

FlipPins ==
    /\ flip.pc = "pin"
    /\ \E ok \in BOOLEAN : ctx' = [ctx EXCEPT !.restore_active = @ \/ ok]
    /\ FlipGoes("report")
    /\ UNCHANGED <<params, result, proc, ioctl, mon, work, probe>>

\* Only the single-thread injection reports.  A bug: the flag is left alone.
ReportsNothing == FALSE
ReportsFault == ~flip.all

FlipReports ==
    /\ flip.pc = "report"
    /\ result' = [result EXCEPT !.fault_injected = @ \/ ReportsFault]
    /\ FlipGoes("cont")
    /\ UNCHANGED <<ctx, params, proc, ioctl, mon, work, probe>>

\* fij_send_cont, on every path that sent a SIGSTOP.  A bug: the target is
\* left alone after a failed flip.
NeverResumes(s) == s
Resumes(s) == AfterSIGCONT(s)

FlipResumes ==
    /\ flip.pc = "cont"
    /\ proc' = SetState(flip.tgid, Resumes(proc[flip.tgid].state))
    /\ FlipGoes(Injected)
    /\ UNCHANGED <<ctx, params, result, ioctl, mon, work, probe>>

FlipClearsTrigger ==
    /\ flip.pc = "untrig"
    /\ ctx' = [ctx EXCEPT !.flip_triggered = FALSE]
    /\ FlipGoes("out")
    /\ UNCHANGED <<params, result, proc, ioctl, mon, work, probe>>

FlipTimes ==
    /\ flip.pc = "out"
    /\ result' = [result EXCEPT !.timed = TRUE]
    /\ FlipGoes("park")
    /\ UNCHANGED <<ctx, params, proc, ioctl, mon, work, probe>>

\* The thread returns only after kthread_stop.
FlipReturns ==
    /\ flip.pc = "park" /\ flip.stop
    /\ flip' = NoFlip
    /\ UNCHANGED <<ctx, params, result, proc, ioctl, mon, work, probe>>

FlipNext ==
    \/ FlipStarts \/ FlipTriggered \/ FlipSlept \/ FlipCollects \/ FlipStops
    \/ FlipFindsLeader \/ FlipWaits \/ FlipRegister \/ FlipMemory \/ FlipPins
    \/ FlipReports \/ FlipResumes \/ FlipClearsTrigger \/ FlipTimes
    \/ FlipReturns
=============================================================================
