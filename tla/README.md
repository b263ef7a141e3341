# Verification of FIJ, the fault injector

FIJ flips one bit of a running program and records what becomes of it. A Linux
kernel module (`src/fij`) executes the target, stops it at a chosen or random
moment, flips a bit of a register or of memory, resumes it and watches it until
it ends. A user-space runner (`src/fij_runner`) drives campaigns of such runs
through `/dev/fij` and classifies the outcomes. This directory holds TLA+ models
of both, TLC configurations that check them, and TLAPS proofs about the driver and
its refinement of an abstract specification, the injection, the settings and
the campaign.

## 1. The system

### Parts, state and operations

| part | source | state | operations |
| --- | --- | --- | --- |
| per-open context | `iface/chardev.c`, `fij_main.c`, `fij_internal.h` | `struct fij_ctx`, one per open file | open, release |
| ioctl interface | `iface/ioctl.c` | `ctx->exec`, `running`, `target_alive` | SEND_MSG, EXEC_AND_FAULT, RECEIVE_MSG, KILL_TARGET |
| target executor | `core/exec_helper.c` | `target_tgid`, the new process | execute and stop |
| monitor thread | `core/monitor.c` | its leader, `pc_monitor_thread`, `monitor_done`, the result's exit code and `process_hanged` | wait for exit or stop, revert the page, stop the bitflip thread, disarm, report |
| bitflip thread | `core/bitflip_thread.c` | `bitflip_thread`, `flip_triggered`, `injection_time_ns` | wait for its moment, inject, park |
| injection | `core/bitflip_ops.c`, `signal.c`, `util.c` | the target's registers and memory, `restore`, `fault_injected` | stop, wait, flip, report, resume |
| probe | `core/uprobe.c` | `uprobe_active`, `inj_uprobe`, `inj_inode`, the disarm work item | arm, hit, disarm by the worker, disarm synchronously |
| process tree | `core/processes.c` | `targets`, `ntargets`, `capacity` | count the descendants, make room, collect them |
| random choices | `core/util.c`, `bitflip_thread.c` | none; references on tasks | draw the delay, process, thread, register or memory, register, bit |
| run client | `fij_ioctls.cpp` | one open file, time since the start, `killed` | send, poll, kill once, close |
| campaign | `fij_run.cpp`, `fij_campaign.cpp` | baseline times, the delay, results, one directory per run | baseline loop, injection loop, both on an OpenMP team |
| analyzer | `campaign_analyzer.cpp` | counters by class and place | classify, count, summarise |
| configuration | `fij_config.cpp`, `fij_core.cpp` | none | JSON to `fij_params` |

### How they interact

The client's calls run in the client's thread inside the driver. SEND_MSG
executes the target, creates the monitor thread and the bitflip thread, arms the
probe and resumes the target. From then on five things run at once: the client,
the two threads, the worker that disarms the probe, and the target (whose probe
hit runs in its own context). They share `struct fij_ctx` and **take no lock**;
they synchronise by a completion, wait queues, `kthread_stop`, the flush of the
work item, and signals to the target. The runner opens the device once per run,
and several runs go on at once, each with a context of its own.

### What is hard, and what makes each part correct

* **Lifetime.** Threads, work items and probes refer to the context; the order
  of release decides whether any of them outlives it (`LastStoreOnly`,
  `ThreadsStopped`, `ProbeGone`, `CloseReturns`).
* **Ownership of threads.** A thread is created before its pointer is stored,
  clears the pointer itself, and is created again by the next run
  (`MonitorsDoNotOverlap`, `FlipsDoNotOverlap`, `ThreadInv`).
* **The stop.** Two sources of SIGCONT and one of SIGSTOP act on one target
  (`FlipOnlyWhileStopped`, `TargetResumed`).
* **The report.** Two threads write the result, a third copies it out; it has to
  be final when it is announced, belong to its run and tell the truth
  (`KeepsPromise`, `ResultFrozen`, `ResultIsOwn`, `FaultReported`,
  `HangImpliesKilled`, `CompletedAfterExit`).
* **Giving up.** KILL_TARGET waits for a thread that waits for a thread
  (`KillReturnsEventually`, `Completes`).
* **The tree.** The processes are counted and collected in two walks, the threads
  counted and taken in two more, and in between they fork, end and are reaped
  (`Fits`, `Preorder`, `CollectsAll`, `RefsSettled`).
* **The flip.** It has to hit a thread that is stopped, each one once, and leave
  nobody stopped, whatever fails on the way (`HitsStopped`, `FlippedOnce`,
  `AllThreadsHit`, `ResultTrue`, `StoppedAreResumed`, `InjectionEnds`).
* **The settings.** What is flipped at last goes through a merge of three levels,
  defaults, clamps, and draws in three units and two signednesses; a setting the
  driver refuses is repeated forever (`Honoured`, `DelayBounded`, `Unbiased`,
  `HitAtLast`).
* **The page.** A flip in a file-backed page outlives the process
  (`PageRestored`).
* **The campaign.** Threads take runs in any order and repeat them; the time
  limit of one phase is measured in another; every run has to be counted once, in
  the right class, although its directory is used again and the reference is one
  of the runs (`SummaryAddsUp`, `LoggedRunsSettled`, `KillsOnlySlow`,
  `CorruptionSeen`, `CampaignEnds`).

`PROJECT.json` lists the hazards line by line, with the properties that would catch
each going wrong. Some have none: what the code does there is what a property
would forbid, the model reaches it, and the note says in which runs the nearest
property holds nevertheless.

## 2. The modules

```
FijCtx <- FijTarget <- FijUprobe <- FijBitflip <- FijMonitor <- FijIoctl <- FijModule
                                                                  FijRun <-(INSTANCE)- FijModule
FijModule <- MCFij (runs)
FijModule <- FijModuleProofs <- FijReportProofs
                             <- FijQuietProofs <- FijRunProofs      (theorems)
FijTree <- FijCollect <- FijInject <- MCInject (runs)
FijInject <- FijInjectProofs <- FijCollectProofs                    (theorems)
FijSettings <- FijDraw <- MCSettings (runs), FijDrawProofs (theorems)
FijCampaign <- FijAnalyzer <- MCCampaign (runs), FijCampaignProofs (theorems)
```

Arrows point from the extended module to the one that extends it.

* **FijCtx**: the constants, the variables (`ctx` is `struct fij_ctx`, `params`
  and `result` its `exec`; one record per thread with its program counter) and
  the state `fij_open` leaves. Pointers are "non-NULL or not"; a pid is the
  number of the run that created the process.
* **FijTarget**: what SIGSTOP, SIGCONT and SIGKILL do to a process and what it
  does by itself. External: the kernel's signal code is not in the repository.
  A pending stop is a state of its own, because SIGCONT discards it and because
  the code waits for it to take effect. A dead process is reaped at once, as a
  child of the user-mode helper is.
* **FijUprobe**: arming, the hit, the disarm work item in three steps (test,
  unregister, put), and the synchronous disarm that the monitor thread and
  `fij_release` both run.
* **FijBitflip**: `bitflip_thread_fn` in both modes, and the injection from the
  choice of the target to the resuming SIGCONT. One action per access to shared
  state; each early return and error path is a disjunct.
* **FijMonitor**: `monitor_thread_fn` from its creation to its last store.
* **FijIoctl**: the calls. `fij_start_exec` is nine actions, one for each point
  where another thread may see a difference; its error path resets `running` and
  nothing else, as in the code. `fij_release` is eight.
* **FijModule**: all of them interleaved, the fairness, the properties, the
  inductive invariants and the refinement mapping.
* **FijRun**: the abstract specification, what one open file promises for one
  run, without threads: at most one flip while it runs; one verdict, which
  says that a bit was flipped if one was, and says so without a flip, or says
  that the target hanged, only if the client gave up on it. `FijModule`
  maps the driver's state to it (`Abstract`: `Phase`, `Told`, `Flipped`,
  `Verdict`), and `KeepsPromise` is its `RunSpec`.
* **FijTree**: the target as a tree of processes with threads that fork, start
  threads, end and are reaped. External; it is made from what the driver reads
  of it: the main thread's list of children, `exit_state`, `mm`, the state of
  each thread.
* **FijCollect**: `fij_collect_descendants`, one entry of a list of children per
  step. The recursion is a path from the root and the child looked at last.
* **FijInject**: `fij_stop_flip_resume_one_random` and the all-threads variant,
  with the pickers, on that tree. FijBitflip has the same function for a target
  with one thread, against the other threads of the driver; here the driver is
  the bitflip thread alone and the target is rich. The two agree on the order of
  stop, wait, flip, report and resume.
* **FijSettings**: from a job's three levels of JSON to `struct fij_params`,
  with the defaults and clamps and what the client overrides. `Overriding` is the
  merge of two levels of the file.
* **FijDraw**: the random choices of one injection from these parameters, in the
  code's arithmetic at reduced widths, and the runner that repeats the run.
* **FijCampaign**: `run_injection_campaign` with `run_send_and_poll` as one
  attempt. Of a run it keeps how long it takes, the verdict and what it leaves
  in its directory; the driver's answer is any that respects FijRun. Baseline
  run 0 leaves the reference: the golden files, nothing, or an empty log. The
  average of the baseline times is computed as the code does it, with the
  divisor that wraps for one entry and 0 / 0 for two.
* **FijAnalyzer**: classification and counting, and the campaign's properties.

Actions are as coarse as they can be without hiding an interleaving: statements
of one thread that touch shared state once are one action. Two merges are worth
naming. `uprobe_register` and the store of `uprobe_active` are one step, because
the target has not been resumed then. `flush_work` and the test of
`uprobe_active` that follows it stay two accesses apart from the unregistering,
which is the window that matters.

History variables, marked as such: whether a bit of the process was flipped and
whether KILL_TARGET signalled it; who forked a process, which processes could be
reached all the time and whether one was forked during the walk; how often each
thread and memory was flipped; whether a baseline run is a warm-up run; what a
logged attempt wrote.

The definitions introduced by "A bug:" are plausible errors in the code. They are
used by no action; each property is tested by putting one in place of the
definition after it and seeing TLC refute the property.

## 3. The runs

| run | checks | bounds | what it shows |
| --- | --- | --- | --- |
| det | FlipOnlyWhileStopped, DisarmExclusive, ProbeGone, PageRestored, LastStoreOnly, KeepsPromise | one run with a `target_pc`, with and without injection, by SEND_MSG and EXEC_AND_FAULT | with a patient client the deterministic mode is right: it implements FijRun, which says that the run is reported, truthfully and for good |
| giveup | FaultReported, HangImpliesKilled, Completes, KillReturnsEventually | one run with a random delay or a trigger, on a target that may hang, KILL_TARGET | a flip that landed is reported in spite of the race with SEND_MSG's own SIGCONT; giving up works and is reported as such |
| reuse | ThreadInv (with TypeOK), ResultIsOwn, CompletedAfterExit, MonitorsDoNotOverlap, FlipsDoNotOverlap | two runs on one file, both modes, both calls | the second run does not meet the threads of the first |
| faults | TargetResumed, ResultFrozen, CloseReturns | all 16 parameter sets, every fault, KILL_TARGET, a client that exits at any time, threads that have not run yet | errors do not leave the target stopped after an injection, and release always returns |
| inject | InjectTypeOK, Fits, Preorder, CollectsAll, HitsStopped, FlippedOnce, AllThreadsHit, ResultTrue, StoppedAreResumed, RefsSettled, InjectionEnds | three processes, two threads each, two forks, new threads or exits at any moment; an array of an earlier run or none | one injection is right however the tree changes under it |
| settings | SettingsTypeOK, Honoured, DelayBounded, Unbiased, HitAtLast | 310 files, one key at a time on any of the three levels and some pairs, two architectures | register, bit and memory are what the file asks for, the draws are within bounds and unbiased, feasible jobs get their injection |
| campaign | CampaignTypeOK, KillsOnlySlow, SummaryAddsUp, CorruptionSeen, LoggedRunsSettled, CampaignEnds | two threads, three baseline runs of which the first may fail, two injection runs, failing calls | the campaign ends and its summary is complete |
| bad_free | ThreadsStopped | det | release can free the context before the monitor's last store |
| bad_report | FaultReported | one run with `all_threads` | the flip is not reported |
| bad_warm_up | WarmUpExcluded | as campaign | a warm-up run can be averaged |
| bad_index | HitsTree | two processes, `nprocess` 1, no change of the tree | with one process the process flipped need not be in the tree |
| bad_delay | WindowRespected | a minimum of 1 ms | a short window ignores its minimum |

The five `bad_` runs are expected to be refuted. Each states what a comment or a
log line of the code says, and the counterexample shows the code doing
otherwise; the findings in `PROJECT.json` quote the lines.

**Why the bounds are enough.** Contexts are not shared, so one open file with one
client is the whole of the driver's state. One run exercises every thread;
two are needed, and are enough, for a thread to meet its successor, because a
third run can only start from a state like the one the second started from. The
proofs of section 4 do not depend on the bound. `monitor_done` needs no bound: it
is reset at each start and completed at most twice in between. For the campaign
two threads are enough for any two results to change places, three baseline
runs are the code's own minimum, and between the durations 1 and 15 ms lies a
tenfold difference. `Failing`, the baseline runs whose call may fail, is {0}: it
is the reference, and with it two successful runs are left, the case of 0 / 0.
For an injection three processes make a walk that has a sibling to come back to
and a level to descend, two threads make a loop that goes on after a failure, and
two events (`MaxEvents`) let one thing vanish and another appear in any two of
the windows. Which processes there are at the start is free. `FijDraw` scales its
widths: a millisecond has 4 ns, a window is short below 5 ms, a random word has
16 values and a register 4 bits; minima and maxima lie on both sides of each
bound, and 16 leaves a remainder for the weights that are tried, so that words
are drawn again.

**Deadlock** is checked in every run: the only state without a proper step is a
closed file (`Closed`) or a finished campaign (`Finished`), which stutter.

**Fairness.** `KernelFairness`: weak fairness for each thread, worker and system
call in progress, and for signal delivery; the scheduler gives no less. No
fairness is assumed of a probe hit, of a fault, or of a program's progress.
`ClientFairness`: the runner polls until it is answered and then closes
(`fij_ioctls.cpp:106-132`). `Terminates` (the target ends by itself) is used in
det and faults; `TimesOut` (the client kills the target when its time is up,
`:109-113`) in giveup, where the target may hang. `PromptThreads` is
TRUE in these: a thread has run for the first time before the client's time is
up, which is ten times the program's duration. Without it KILL_TARGET can stop a
thread that never runs and never completes, and `Completes` fails.
`InjectSpec` assumes weak fairness of the bitflip thread alone; the tree does what
it likes, within its events. `DrawSpec` assumes that the runner and the driver go
on (weak) and that a run repeated forever finds its target alive and draws a
register or address that can be flipped at last (strong).
`CampaignFairness`: the OpenMP threads run; SEND_MSG does not fail forever, and
a run repeated forever reports an injection at last (strong fairness). The last
is an assumption about chance, and the code depends on it: the retry loop at
`fij_run.cpp:245` has no other way out.

## 4. The proofs

Eight modules hold theorems. Each theorem below is about the same formula that a
run checks on a small instance, for every value of the constants that satisfies
the stated hypotheses. The inductive invariants are defined in the modules they
are about, so that TLC can evaluate them; each was checked on a small instance
before it was proved.

### The driver

The proof modules extend each other in the order `FijModuleProofs`,
`FijReportProofs`, `FijQuietProofs`, `FijRunProofs`; the hypotheses grow along the way. The only assumption on the constants is
`FijAssumption`.

**For any number of runs on a file, any parameters, any set of faults, and a client
that kills and closes when it likes:**

| theorem | states | inductive invariant |
| --- | --- | --- |
| `TypeCorrect`, `ThreadsKnown` | `TypeOK`, `ThreadInv` | `ThreadInv` |
| `MonitorsSeparate`, `FlipsSeparate` | `MonitorsDoNotOverlap`, `FlipsDoNotOverlap` | `ThreadInv` |
| `RunKnown`, `ReportedIsFinal` | `RunInv`, `ResultFrozen` | `RunInv` |
| `CompletedIsExited` | `CompletedAfterExit` | `RunInv`, `ExitKnown` |
| `HangedIsKilled` | a hang is reported only if KILL_TARGET killed some target of the file | `RunInv`, `KillKnown` |
| `ResultIsTheRuns` | `ResultIsOwn` | `RunInv`, `ExitKnown`, `IterationKnown` |
| `TargetIsResumed` | `TargetResumed` | `RunInv`, `StopKnown` |

*Threads.* The code decides whether it may create a thread by a pointer in the
context, which it reads without a lock, and which the thread (or the monitor
thread, or release) clears. That is enough if a thread that exists is always
found through its pointer. It is, except in two windows: between `kthread_run`
and the store of the pointer (`monSet`, `flipSet`), where the only caller that
could create another one is the one that is there; and, for the monitor thread,
after `fij_release` has dropped the pointer, after which no run is started.
`MonitorOwned` and `FlipOwned` say exactly this, and `LeaderKnown` is what the
types of the monitor's steps need. One lemma per group of actions
(`StartThreads`, `CallThreads`, `ReleaseThreads`, `MonThreads`, `FlipThreads`,
`WorkThreads`; `...Type` for the types), and `ThreadStep` over all.

*The report.* Two threads write the result and a third reads it. `RunInv` relates
the three: how far the client's call is, which target is this run's and alive
(`CallKnown`, `TargetKnown`), what `monitor_done` says of the monitor thread
(`MonitorKnown`), and that from the moment the monitor thread has stopped the
bitflip thread none is left that could write (`FlipStopped`). So when the client
has been answered both writers are past their last store: `ReportedIsFinal`.
`ExitKnown` then says what the monitor's exit code is worth, `IterationKnown` what
the result's iteration is, `StopKnown` where a stop of the target can still come
from. `HangImpliesKilled` names *this* run's target; it is proved for a file with
one run (`OneRunHangedIsKilled`, `MaxSends = 1`, which is how the runner uses a
file), because the verdict of an earlier run stays in the result.

**With a hypothesis on the parameters:**

* `FaultIsReported`: `FaultReported`, unless `all_threads` is asked for. With it the
  statement is false, which is what the run bad_report shows.
* `ProbeIsGone`: `ProbeGone`, if all the runs of a file have a `target_pc` or none
  has. The monitor thread looks at the parameters of the latest SEND_MSG, not at
  those of its run; the runner opens the file once per run.

**Deterministic runs that nobody gives up on** (`Quiet`: no KILL_TARGET and
`Calm`, that is, a `target_pc` in every parameter set, and of the faults at most a
failed allocation, exec or mapping), with any number of runs on a file:

* `FlipsTheStopped`: `FlipOnlyWhileStopped`. With a random delay it is false: the
  SIGCONT of SEND_MSG may follow the injection's SIGSTOP.
* `PageIsRestored`: `PageRestored`. The monitor thread looks for a pinned page
  *before* it stops the thread that pins it, so this holds only because the
  target cannot end between its SIGSTOP and its SIGCONT.
* `DisarmsAlone`: `DisarmExclusive`, if the file is not closed during a run.
* `FreedLast`: `LastStoreOnly`, if moreover nothing fails after the exec.

`QuietInv` says on top of `RunInv` that the bitflip thread is within its injection
only while the target is stopped, has been triggered, and is waited for.
What KILL_TARGET, an early close and a random delay do instead is among the hazards.

**The refinement.** `FijRunProofs` proves the safety half of `KeepsPromise`, that
is `Safe => Abstract!RunSafe`, under `OneRun`: one deterministic run on a file
whose client closes it after it has the result, or after the run could not be
started. Whether the client may call KILL_TARGET (`CanKill`), and when, is left
open, so the theorem covers the clients that the run det leaves out.
`Phase`, `Told`, `Flipped` and `Verdict` in `FijModule` are the refinement
mapping. The initial state maps to the initial state; of the steps, the first
SEND_MSG or EXEC_AND_FAULT maps to `StartRun`, its error path to `FailRun`, the
flip to `Inject`, KILL_TARGET to `GiveUp`, and the step that lets the client see
the completion to `Report`: that is `MonCompletes`, or the return of KILL_TARGET
when the completion came while the client was inside that call. Every other step
maps to a stutter.

The invariant is `OneRunInv`, on top of `RunInv`, `ExitKnown` and `ProbeKnown`. Until
the client gives up it contains `QuietInv`, and the verdict is right about the flip
(`FaultKnown`, `FlipMade`). KILL_TARGET falsifies much of `QuietInv`: a stopped
target dies, the monitor thread leaves its loop while the target lives, the probe
may be hit during the clean-up. What is left is `GivenUp`, which is all that
FijRun needs: the client still waits for the result before it closes the file,
and when it has it, both threads are past the stores that could change it. Two
things join the halves. `DoneKnown` says that a run that is about to be completed
is no longer `running`, so a KILL_TARGET that comes after the completion is refused
and takes back nothing that was told. And `FaultKnown` holds throughout, so a flip
that was made is reported of a killed target, too.

### The injection

`FijInjectProofs` and, for the last two, `FijCollectProofs` prove, for any number of processes, threads and events, any
parameters and any capacity an earlier run left:

| theorem | states | inductive invariant |
| --- | --- | --- |
| `InjectTypes` | `InjectTypeOK` | `StepInv`, `StopInv`, `HitInv` |
| `CollectedFits` | `Fits` | `RoomInv` |
| `FlippedAtMostOnce` | `FlippedOnce` | `HitInv` |
| `AllResumed` | `StoppedAreResumed` | `StopInv` |
| `ReferencesArePut` | `RefsSettled` | `StepInv` |
| `FlipsTheHalted`, `MissesNoThread` | `HitsStopped`, `AllThreadsHit` | `HoldInv` |
| `ResultIsTrue` | `ResultTrue` | `SingleInv` |
| `TargetsInOrder` | `Preorder` | `TreeKnown`, `WayDown`, `InOrder`, `SteadyInv` |
| `NoneIsMissed` | `CollectsAll` | those and `CoverInv` |

*Fits*: the capacity is computed from the first walk and never read from the tree
again; `RoomInv` adds the types to `Fits`, and every append of the second walk is
preceded by its own test. *FlippedOnce*: `HitInv` says that only the process drawn
is hit, that a thread the loop has still to come to is not hit yet, and that
`did_mem` is set if the memory was. The list of threads may change; the loop goes
on in ascending order, so what it has passed is not met again. *StoppedAreResumed*:
`StopInv` says that only the process drawn is stopped or has a stop pending, and
only from the SIGSTOP to the SIGCONT. It has to be shown against the tree's own
steps, too: a new process or thread must not inherit a stop, and a pid without
a process must have none. *RefsSettled*: `RefsKnown` counts the references held at
each point of the code, of which two are known to be kept. *HitsStopped* and
*AllThreadsHit*: a process that is being halted forks no more and gets no new
thread (`Held`, against the tree's steps in `TreeHolds`), so that what was waited
for stays halted and the loop sees every thread there will be (`LoopKnown`).
*ResultTrue*: `Struck` is the set of places hit; a single injection hits none
before its flip, and the flip one or none.

*Preorder* and *CollectsAll* are about ancestors and descendants, which are
usually defined by recursion. Here they are least sets: `Line(p)` is what every
set has that contains p and, of each member, the process that forked it, and
`Reachable` what every set has that contains the root and, of each member, the
children a walk does not skip. What is proved of them uses one such set at a time
and no induction. *Preorder*: while the second walk is under way, the calls it is
in are processes each of which forked the next (`WayDown`); each of them is a
target, what is gathered after it descends from it, and none of its own children
is gathered that it has not looked at yet (`InOrder`). So a process that is
entered is new, its parent is a target, and all that lies between came from that
parent. Forks and exits do not matter, because a fork gives no existing process
another forebear (`LineLasts`) and an exit takes a child off the list for good
(`TreeLasts`). *CollectsAll*: a walk that has been to S `Covers` the children of
its members but for those that the calls still open have not come to. The second
walk covers those children that are reachable all the time, whatever else
happens; when all calls have returned, what it has gathered, together with all
that is not steady, is a set of the kind that contains `Reachable`. If the array
is full first and nothing was forked, counting decides: the first walk covered a
set with as many members as it counted, exits only remove from what that set
encloses, and the targets are as many different members of it (`CountCovers`,
`SpaceCovers`). Assumptions: `TreeAssumption`, `KeptAssumption` and
`ParamAssumption`.

### The settings

`FijDrawProofs` proves, for any set of files, any architectures and any widths of
the words and units:

| theorem | states | by |
| --- | --- | --- |
| `SettingsTypes` | `SettingsTypeOK` | `ParamsInv`, `DrawnInv` |
| `FileIsHonoured` | `Honoured` | `ParamsInv`, `DrawnInv` |
| `DelayIsBounded` | `DelayBounded` | `DrawnInv`, the bounds of each draw |
| `ChoiceIsUnbiased` | `Unbiased` | `MultiplesBelow`, `FairDraw` |

`AskedInv` says of the register, the bit and the two memory settings what the most
specific level of the file makes of them, and `DrawnInv` what has been drawn so
far. *Honoured* claims what both the Readme and the code say; it leaves out the
number of a thread and the job that sets `only_mem` and names a register, where
they differ (section 5). *Unbiased* is arithmetic: the
words below the limit are a whole number of blocks of 1 + weight, and one word of
each block says register; the words are counted by a bijection. Assumptions:
`DrawAssumption` and `FilesAssumption`: the values in a file fit the C `int` that
takes them, and register numbers are not negative. A value that does not fit is
outside the model (the JSON library converts it).

### The campaign

`FijCampaignProofs` proves, for any number of threads, runs and baseline runs:

| theorem | states | inductive invariant |
| --- | --- | --- |
| `CampaignTypes` | `CampaignTypeOK` | `RunInv`, `TimeInv`, `StatsInv` |
| `SettledRuns` | `LoggedRunsSettled` | `RunInv` |
| `SummaryComplete` | `SummaryAddsUp` | `RunInv`, `StatsInv` |
| `SlowAreKilled` | `KillsOnlySlow` | `TimeInv` |
| `CorruptionIsSeen` | `CorruptionSeen` | `FilesInv`, `CountInv` |

`RunInv` shares the runs out: a run that was taken is logged or is in the hands of
exactly one thread, which has not logged it; one that was not taken is not logged.
Hence only the one thread writes to its directory, and not after the log; and when
the loop is over, which needs every thread idle and every run taken, all are
logged. `StatsInv` then counts: as many as were analysed, in classes and in
places alike. `FilesInv` and `CountInv` tie a class's counter to the set of the
runs in it, and a run's files to the attempt that counts, although a directory is
written once per attempt. *KillsOnlySlow*: the average of the baseline times is at
least the shortest of them, for any number of entries (a sum of n numbers is at
least n times their minimum), and the deadline is ten times the average; if all
the entries were longer than a target that was killed, so would the deadline be.
Its hypothesis is `10 * d <= MaxInt` for every time d: the deadline is an `int`
(`fij_ioctls.cpp:109`). To make the sum a subject of proof `TotalTime` is the
number of milliseconds, a cardinality, and not a fold; it has the same value.

### Model-checked only

* Everything about liveness, since fairness and ENABLED are out of the prover's
  reach: `Completes`, `KillReturnsEventually`, `CloseReturns`, `InjectionEnds`,
  `HitAtLast`, `CampaignEnds`, and the fairness of FijRun in `KeepsPromise`.
* What the hypotheses leave out. A theorem with a hypothesis says nothing of the
  other values of the constants. The runs that check the same formula satisfy the
  hypothesis, and where the formula is false without it a run or a hazard says so.
* `DisarmExclusive`, `LastStoreOnly` and `KeepsPromise` of a client that closes the
  file during a run: not claimed by any run either.

## 5. What is not modelled

* Which address of memory is drawn, the VMA it lies in and the byte that is saved
  for the restoration: `FlipMemory` succeeds or fails. In FijBitflip its look at
  `target_alive` (`bitflip_ops.c:151`) and its write are one step: a target that
  dies in between has no memory to write to, which is the failure, and a flag
  cleared in between is taken as cleared right after the write.
* The offsets of registers in `pt_regs` and their names: a constant of FijDraw.
* The kernel's lists while they change. `FijCollect` takes the comment that
  `children` is protected by RCU at its word, which the mainline kernel does not
  promise; a walk that is sent to another list is outside the model, and so is
  what follows a NULL main thread (`bitflip_ops.c:239`).
* Processes that outlive the root and the report of their run.
* `run_campaigns_from_config`, a sequential loop over the jobs; `run_with_retries`,
  which the campaign does not call; the EBUSY retries of the client.
* Building argv, paths, placeholders, JSON, CSV, timestamps, image comparison:
  formatting and I/O.
* `inject_workfn` (never queued) and `core/bitflip.c` (not in the Makefile).
* Several processes sharing one file descriptor of `/dev/fij`: the runner never
  does it.
* Memory ordering. The accesses are READ_ONCE/WRITE_ONCE and are taken as
  sequentially consistent.
* Uses of freed memory: `LastStoreOnly` and `ThreadsStopped` say when one is
  possible; the model does not go on from there with arbitrary state.
* Coremark and the other sample targets under `src/tests`.

Met while modelling and listed under the hazards without a run of their own:
disarm work queued between the flush and `kfree` when the client exits early; two
threads unregistering the probe after KILL_TARGET; the verdict of an earlier run
on the same file that survives into the next; an empty `log_path` that is opened
all the same (`exec_helper.c:25` compares a character with a pointer), so that a
target without a log is never started; `kthread_stop` on a monitor thread that
has returned; a report before the killed target has exited; with a
random delay, a register flipped while the target runs, because the SIGCONT of
SEND_MSG (`ioctl.c:105`) may follow the injection's SIGSTOP, and a page left
unrestored, because the monitor looks at `restore.active` (`monitor.c:46`) before it
stops the bitflip thread; a NULL main thread in the loop over all threads.

Divergences between text and code that no property states:

* `Readme.md:178` names the key `reg_bit`; the code reads `bit`
  (`fij_config.cpp:112`).
* `Readme.md:184` numbers threads from 0; the driver numbers them from 1 and takes
  0 for a random one (`util.c:109`).
* `Readme.md:123` says that `only_mem` sends all injections to memory; a register
  that is named wins (`bitflip_ops.c:368`).
* `fij.h:122` gives 200 ms as the default maximum; `bitflip_thread.c:15` has 1000.
* The comment at `bitflip_ops.c:284` says that one success among the threads makes
  the result 0; the code returns the first error. `AllThreadsHit` and `ResultTrue`
  are about that error and about what was hit, not about the comment.
* A register name the architecture does not have is a random register, without a
  message (`reg_name_to_id`); `no_injection` and `max_delay_ms` of the file are
  overridden by the client (`fij_ioctls.cpp:82`).

## 6. The plan

What could follow, most important first:

1. **Proofs**: the refinement with several runs on a file, and of the runs with a
   random delay, where FijRun has to promise less: a register may be flipped too
   late for the program to see it, and be reported.
2. **FijInject under FijModule**: the injection into a tree as a refinement of the
   injection that FijBitflip models.
3. Concurrent callers on one file: SEND_MSG refused with EBUSY after it has
   overwritten the parameters.
4. The loop over the jobs, with a campaign that throws.
