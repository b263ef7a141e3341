------------------------------- MODULE FijCtx -------------------------------
(***************************************************************************)
(* The state of one open file of /dev/fij: the driver's context            *)
(* (struct fij_ctx), the two kernel threads and the work item that share   *)
(* it, the ioctl the client is inside, and the processes it executed.      *)
(*                                                                         *)
(* The driver takes no lock.  Every action of the modules that extend this *)
(* one is therefore a run of statements of one thread that touches shared  *)
(* state once, and the interleaving of the threads is the interleaving of  *)
(* the actions.                                                            *)
(*                                                                         *)
(* Pointers are abstracted to BOOLEAN, "is it non-NULL"; a pid is the      *)
(* number of the SEND_MSG that created it, and 0 is no process.            *)
(***************************************************************************)
EXTENDS Naturals

CONSTANTS
    MaxSends,      \* how many runs the client starts on the file it opened
    ParamSet,      \* the fij_params the client may send
    Calls,         \* how it starts a run: SEND_MSG or EXEC_AND_FAULT
    CanKill,       \* the client calls KILL_TARGET when the run takes too long
    EarlyClose,    \* the client may exit while a run is in progress
    Faults,        \* what may fail around the driver, see FaultKinds
    PromptThreads  \* a kernel thread has run before KILL_TARGET is called

Runs == 1 .. MaxSends
NoPid == 0

\* The fields of struct fij_params that decide which code runs.  log_path is
\* "is the string non-empty".
Params == [ target_pc_present : BOOLEAN,
            no_injection      : BOOLEAN,
            all_threads       : BOOLEAN,
            log_path          : BOOLEAN ]

\* "nomem": an allocation or kthread_run fails; "exec": the program or its
\* log cannot be opened; "crash": something outside the driver kills the
\* target; "map": target_pc is in no mapping of the program's file or the
\* probe is refused; "signal": a signal interrupts the client's ioctl.
FaultKinds == {"nomem", "exec", "crash", "map", "signal"}

ASSUME FijAssumption ==
    /\ MaxSends \in Nat
    /\ ParamSet \subseteq Params
    /\ Calls \subseteq {"SEND_MSG", "EXEC_AND_FAULT"}
    /\ CanKill \in BOOLEAN
    /\ EarlyClose \in BOOLEAN
    /\ Faults \subseteq FaultKinds
    /\ PromptThreads \in BOOLEAN

VARIABLES
    ctx,      \* struct fij_ctx without exec
    params,   \* ctx->exec.params
    result,   \* ctx->exec.result
    proc,     \* the process each run executed
    ioctl,    \* the client, and where in the driver its call is
    mon,      \* the fij_monitor kernel thread
    flip,     \* the fij_bitflip kernel thread
    work,     \* uprobe_disarm_work on the system work queue
    probe     \* is our uprobe registered with the kernel

vars == <<ctx, params, result, proc, ioctl, mon, flip, work, probe>>

-----------------------------------------------------------------------------
Ctx == [ allocated            : BOOLEAN,
         running              : BOOLEAN,
         target_alive         : BOOLEAN,
         target_tgid          : Runs \cup {NoPid},
         bitflip_thread       : BOOLEAN,
         pc_monitor_thread    : BOOLEAN,
         flip_triggered       : BOOLEAN,
         uprobe_active        : BOOLEAN,
         inj_uprobe           : BOOLEAN,
         inj_inode            : BOOLEAN,
         uprobe_disarm_queued : BOOLEAN,
         monitor_done         : Nat,
         restore_active       : BOOLEAN ]

\* fij_open allocates the context zeroed.
FreshCtx == [ allocated            |-> TRUE,
              running              |-> FALSE,
              target_alive         |-> FALSE,
              target_tgid          |-> NoPid,
              bitflip_thread       |-> FALSE,
              pc_monitor_thread    |-> FALSE,
              flip_triggered       |-> FALSE,
              uprobe_active        |-> FALSE,
              inj_uprobe           |-> FALSE,
              inj_inode            |-> FALSE,
              uprobe_disarm_queued |-> FALSE,
              monitor_done         |-> 0,
              restore_active       |-> FALSE ]

ExitCodes == {"zero", "fail", "SIGKILL"}

\* timed is "injection_time_ns has been written".
Result == [ iteration      : Runs \cup {0},
            fault_injected : BOOLEAN,
            process_hanged : BOOLEAN,
            exit_code      : ExitCodes,
            timed          : BOOLEAN ]

FreshResult == [ iteration |-> 0, fault_injected |-> FALSE,
                 process_hanged |-> FALSE, exit_code |-> "zero",
                 timed |-> FALSE ]

\* "execed": the SIGSTOP of helper_child_init is pending and no instruction
\* of the program has run; "stopping": a SIGSTOP is pending; "killed": a
\* SIGKILL is.  A dead process has been reaped: its pid is found no more.
ProcStates == {"none", "execed", "stopping", "stopped", "running", "killed",
               "dead"}

\* faulty and sigkilled are history: a bit of this process was flipped, and
\* KILL_TARGET sent it SIGKILL.
Proc == [ state : ProcStates, exit_code : ExitCodes,
          faulty : BOOLEAN, sigkilled : BOOLEAN ]

NoProc == [ state |-> "none", exit_code |-> "zero",
            faulty |-> FALSE, sigkilled |-> FALSE ]

IoctlPcs == {"user", "exec", "mark", "monStart", "monSet", "flipStart",
             "flipSet", "arm", "cont", "fail", "wait", "killRead", "killStop",
             "killWait", "relMon", "relFlip", "relFlipWait", "relCancel",
             "relFlush", "relUnreg", "relIput", "relFree", "closed"}

\* What the client knows of its run.
ClientStates == {"fresh", "polling", "got", "failed"}

Ioctl == [ pc : IoctlPcs, client : ClientStates, sends : Runs \cup {0},
           call : {"SEND_MSG", "EXEC_AND_FAULT"}, killed : BOOLEAN ]

MonPcs == {"none", "created", "loop", "revert", "stopFlip", "waitFlip",
           "flush", "unreg", "iput", "publish", "complete", "clear"}

\* stop is the thread's KTHREAD_SHOULD_STOP bit.
Mon == [ pc : MonPcs, stop : BOOLEAN, leader : Runs \cup {NoPid},
         exit_code : ExitCodes ]

NoMon == [ pc |-> "none", stop |-> FALSE, leader |-> NoPid,
           exit_code |-> "zero" ]

FlipPcs == {"none", "created", "trig", "sleep", "collect", "stop", "leader",
            "waitStop", "flip", "pin", "report", "cont", "untrig", "out",
            "park"}

\* det and all are the branches the thread took (target_pc_present and
\* all_threads, read once each), tgid the process it picked.
Flip == [ pc : FlipPcs, stop : BOOLEAN, det : BOOLEAN, all : BOOLEAN,
          tgid : Runs \cup {NoPid} ]

NoFlip == [ pc |-> "none", stop |-> FALSE, det |-> FALSE, all |-> FALSE,
            tgid |-> NoPid ]

\* The work item: queued, and how far uprobe_disarm_workfn has run.
Work == [ pending : BOOLEAN, pc : {"idle", "unreg", "iput"} ]

NoWork == [ pending |-> FALSE, pc |-> "idle" ]

\* The values the variables range over.
TypeOK ==
    /\ ctx \in Ctx
    /\ params \in Params
    /\ result \in Result
    /\ proc \in [Runs -> Proc]
    /\ ioctl \in Ioctl
    /\ mon \in Mon
    /\ flip \in Flip
    /\ work \in Work
    /\ probe \in BOOLEAN

ZeroParams == [ target_pc_present |-> FALSE, no_injection |-> FALSE,
                all_threads |-> FALSE, log_path |-> FALSE ]

\* fij_open: a zeroed context, no thread, nothing queued.
Init ==
    /\ ctx = FreshCtx
    /\ params = ZeroParams
    /\ result = FreshResult
    /\ proc = [r \in Runs |-> NoProc]
    /\ ioctl = [ pc |-> "user", client |-> "fresh", sends |-> 0,
                 call |-> "SEND_MSG", killed |-> FALSE ]
    /\ mon = NoMon
    /\ flip = NoFlip
    /\ work = NoWork
    /\ probe = FALSE
=============================================================================
