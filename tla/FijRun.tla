------------------------------- MODULE FijRun -------------------------------
(***************************************************************************)
(* What one open file of /dev/fij promises its client, with no thread, no  *)
(* probe and no work queue in sight: a run is started, at most one bit of  *)
(* the target is flipped while it runs, and one verdict is given that does *)
(* not change until the next run is started.  The verdict says that a bit  *)
(* was flipped if one was; it says so without a flip, or says that the     *)
(* target hanged, only of a target the client gave up on.                  *)
(***************************************************************************)
VARIABLES phase, flipped, killed, verdict

runVars == <<phase, flipped, killed, verdict>>

Phases == {"idle", "running", "reported", "failed"}
Verdicts == [injected : BOOLEAN, hanged : BOOLEAN]
NoVerdict == [injected |-> FALSE, hanged |-> FALSE]

RunTypeOK ==
    /\ phase \in Phases
    /\ flipped \in BOOLEAN
    /\ killed \in BOOLEAN
    /\ verdict \in Verdicts

RunInit ==
    /\ phase = "idle"
    /\ flipped = FALSE
    /\ killed = FALSE
    /\ verdict = NoVerdict

StartRun ==
    /\ phase = "idle"
    /\ phase' = "running"
    /\ UNCHANGED <<flipped, killed, verdict>>

\* The target could not be started.
FailRun ==
    /\ phase = "running"
    /\ phase' = "failed"
    /\ UNCHANGED <<flipped, killed, verdict>>

Inject ==
    /\ phase = "running"
    /\ ~flipped
    /\ flipped' = TRUE
    /\ UNCHANGED <<phase, killed, verdict>>

GiveUp ==
    /\ ~killed
    /\ killed' = TRUE
    /\ UNCHANGED <<phase, flipped, verdict>>

Report ==
    /\ phase = "running"
    /\ phase' = "reported"
    /\ \E v \in Verdicts :
        /\ flipped => v.injected
        /\ v.injected => flipped \/ killed
        /\ v.hanged => killed
        /\ verdict' = v
    /\ UNCHANGED <<flipped, killed>>

RunNext == StartRun \/ FailRun \/ Inject \/ GiveUp \/ Report

RunSafe == RunInit /\ [][RunNext]_runVars

RunSpec == RunSafe /\ WF_runVars(Report)
=============================================================================
