------------------------------ MODULE FijUprobe ------------------------------
(***************************************************************************)
(* core/uprobe.c: the probe that triggers a deterministic injection, the   *)
(* work item that disarms it after its first hit, and the steps of         *)
(* fij_uprobe_disarm_sync, which two callers run (the monitor thread and   *)
(* fij_release).                                                           *)
(***************************************************************************)
EXTENDS FijTarget

\* READ_ONCE(ctx->uprobe_active) && ctx->inj_uprobe.
Armed == ctx.uprobe_active /\ ctx.inj_uprobe

\* fij_uprobe_arm, once uprobe_register succeeded.
ArmedCtx == [ctx EXCEPT !.inj_inode = TRUE, !.inj_uprobe = TRUE,
                        !.uprobe_active = TRUE]

\* After uprobe_unregister_sync.
UnregisteredCtx == [ctx EXCEPT !.inj_uprobe = FALSE, !.uprobe_active = FALSE]

\* iput(ctx->inj_inode), and the flag that lets a hit queue the work again.
DisarmedCtx == [ctx EXCEPT !.inj_inode = FALSE, !.uprobe_disarm_queued = FALSE]

\* flush_work returns: the item is neither queued nor running.  A bug: it is
\* not waited for.
NoFlush == TRUE
Flushed == ~work.pending /\ work.pc = "idle"

\* fij_uprobe_post_actions: queue the disarm unless it is queued already.
QueuesDisarm == Armed /\ ~ctx.uprobe_disarm_queued

-----------------------------------------------------------------------------
(* uprobe_disarm_workfn, on a worker thread.                               *)

WorkStarts ==
    /\ work.pending /\ work.pc = "idle"
    /\ work' = [pending |-> FALSE, pc |-> IF Armed THEN "unreg" ELSE "iput"]
    /\ UNCHANGED <<ctx, params, result, proc, ioctl, mon, flip, probe>>

WorkUnregisters ==
    /\ work.pc = "unreg"
    /\ work' = [work EXCEPT !.pc = "iput"]
    /\ ctx' = UnregisteredCtx
    /\ probe' = FALSE
    /\ UNCHANGED <<params, result, proc, ioctl, mon, flip>>

WorkPuts ==
    /\ work.pc = "iput"
    /\ work' = [work EXCEPT !.pc = "idle"]
    /\ ctx' = DisarmedCtx
    /\ UNCHANGED <<params, result, proc, ioctl, mon, flip, probe>>

WorkNext == WorkStarts \/ WorkUnregisters \/ WorkPuts

-----------------------------------------------------------------------------
\* uprobe_hit, in the target's context when it reaches target_pc: trigger
\* the bitflip thread and queue the disarm.
UprobeHit(r) ==
    /\ probe
    /\ r = ctx.target_tgid
    /\ proc[r].state \in {"running", "stopping", "killed"}
    /\ ctx' = [ctx EXCEPT !.flip_triggered = TRUE,
                          !.uprobe_disarm_queued = @ \/ QueuesDisarm]
    /\ work' = [work EXCEPT !.pending = @ \/ QueuesDisarm]
    /\ UNCHANGED <<params, result, proc, ioctl, mon, flip, probe>>
=============================================================================
