------------------------------ MODULE FijTarget ------------------------------
(***************************************************************************)
(* The target process as the driver meets it: what a signal does to it and *)
(* what it does by itself.  The kernel's signal code is not in the         *)
(* repository; it is modelled from the way the driver uses it.  The        *)
(* target is one process; FijTree models a tree of them.                   *)
(***************************************************************************)
EXTENDS FijCtx

Live(r) == proc[r].state \notin {"none", "dead"}

\* pid_task(find_vpid(tgid)) returns a task: a child of the user-mode helper
\* is reaped as it dies, so a dead pid is not found.
Found(r) == r # NoPid /\ Live(r)

AfterSIGSTOP(s) == IF s = "running" THEN "stopping" ELSE s

\* SIGCONT also discards a SIGSTOP that is still pending.
AfterSIGCONT(s) ==
    IF s \in {"execed", "stopping", "stopped"} THEN "running" ELSE s

AfterSIGKILL(s) == IF s \in {"none", "dead"} THEN s ELSE "killed"

SetState(r, s) == [proc EXCEPT ![r].state = s]

\* fij_group_stop and fij_send_sigkill to a pid that is found.
Sigstop(r) == proc' = SetState(r, AfterSIGSTOP(proc[r].state))
Sigkill(r) ==
    proc' = [proc EXCEPT ![r].state = AfterSIGKILL(@),
                         ![r].sigkilled = Live(r) \/ @]

Dies(r, code) ==
    proc' = [proc EXCEPT ![r].state = "dead", ![r].exit_code = code]

TargetUnchanged == UNCHANGED <<ctx, params, result, ioctl, mon, flip, work,
                               probe>>

-----------------------------------------------------------------------------
\* A pending SIGSTOP is delivered on the way to user mode.
TargetStops(r) ==
    /\ proc[r].state \in {"execed", "stopping"}
    /\ proc' = SetState(r, "stopped")
    /\ TargetUnchanged

\* A pending SIGKILL is delivered.
TargetKilled(r) ==
    /\ proc[r].state = "killed"
    /\ Dies(r, "SIGKILL")
    /\ TargetUnchanged

\* The program ends, or a fault makes it crash.
TargetExits(r) ==
    /\ proc[r].state \in {"running", "stopping"}
    /\ \E code \in {"zero", "fail"} : Dies(r, code)
    /\ TargetUnchanged

\* Something outside the driver kills the process.
TargetCrashes(r) ==
    /\ "crash" \in Faults
    /\ Live(r)
    /\ Dies(r, "fail")
    /\ TargetUnchanged

TargetNext ==
    \E r \in Runs : \/ TargetStops(r)
                    \/ TargetKilled(r)
                    \/ TargetExits(r)
                    \/ TargetCrashes(r)
=============================================================================
