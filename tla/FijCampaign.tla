----------------------------- MODULE FijCampaign -----------------------------
(***************************************************************************)
(* fij_runner: one injection campaign (fij_run.cpp) with the client loop   *)
(* of each run (run_send_and_poll).  The threads of an OpenMP team take    *)
(* the iterations of the baseline loop, then those of the injection loop;  *)
(* a barrier ends each loop.  Every run opens its own file of /dev/fij, so *)
(* what the driver answers is what FijRun promises of one file.            *)
(***************************************************************************)
EXTENDS Integers, Sequences, FiniteSets

CONSTANTS
    Workers,       \* the OpenMP threads
    Runs,          \* how many injection runs are asked for
    BaselineRuns,  \* how many baseline runs are asked for
    Durations,     \* how long a target may take, in ms
    Failing        \* bound: the baseline runs whose SEND_MSG may fail

ASSUME CampaignAssumption ==
    /\ Workers # {}
    /\ Runs \in Nat \ {0}
    /\ BaselineRuns \in Nat \ {0}
    /\ Durations \subseteq Nat \ {0}
    /\ Failing \subseteq Nat

\* A target that does not end by itself.
NeverEnds == 0

\* Fewer than three baseline runs are made three.
BaselineCount == IF BaselineRuns <= 2 THEN 3 ELSE BaselineRuns

Iterations == 0 .. Runs - 1

VARIABLES
    phase,     \* which loop the team is in
    next,      \* the first iteration nobody has taken
    worker,    \* what each thread is doing
    baseline,  \* baseline_times; warm (history): of run 0 or 1
    maxDelay,  \* max_delay_ms
    logged,    \* injection_<i>.json
    output,    \* the files in injection_<i>, against the golden run's
    golden,    \* the files of baseline run 0
    wrote,     \* history: what a logged attempt that exits with 0 left
    stats      \* AnalyzeStats

files == <<output, golden, wrote>>
vars == <<phase, next, worker, baseline, maxDelay, logged, files, stats>>

Phases == {"baseline", "inject", "analyze", "done", "failed"}

\* What the target leaves in its directory: the golden files, other files,
\* or (it ended before it wrote them) none.
Outputs == {"golden", "wrong", "none"}

\* A baseline run that fails leaves an empty directory or, when the helper
\* has opened the log, an empty log.txt.
References == {"golden", "empty log", "none"}

\* The fields of fij_result that the campaign and the analyzer look at.
Verdicts == [injected : BOOLEAN, hanged : BOOLEAN, ok : BOOLEAN,
             memory : BOOLEAN]

\* There is no JSON file yet.
NoLog == [injected |-> FALSE, hanged |-> FALSE, ok |-> FALSE,
          memory |-> FALSE]

\* lasts is the time at the turn of the client's loop that finds the run
\* reported, if nobody kills the target; killed is the client's flag.
Worker == [pc : {"idle", "send", "poll"}, i : Nat,
           lasts : Durations \cup {NeverEnds}, killed : BOOLEAN]

Idle == [pc |-> "idle", i |-> 0, lasts |-> NeverEnds, killed |-> FALSE]

Classes == {"BENIGN", "HANG", "CRASH", "SDC"}
Places == {"Register", "Memory"}
NoStats == [total |-> 0, count |-> [c \in Classes |-> 0],
            split |-> [c \in Classes |-> [p \in Places |-> 0]]]

CampaignTypeOK ==
    /\ phase \in Phases
    /\ next \in Nat
    /\ worker \in [Workers -> Worker]
    /\ phase = "inject" => \A w \in Workers : worker[w].i \in Iterations
    /\ baseline \in Seq([warm : BOOLEAN, time : Durations])
    /\ maxDelay \in Nat
    /\ logged \in [Iterations -> Verdicts]
    /\ output \in [Iterations -> Outputs]
    /\ golden \in References
    /\ wrote \in [Iterations -> Outputs]
    /\ stats \in [total : Nat, count : [Classes -> Nat],
                  split : [Classes -> [Places -> Nat]]]

CampaignInit ==
    /\ phase = "baseline"
    /\ next = 0
    /\ worker = [w \in Workers |-> Idle]
    /\ baseline = << >>
    /\ maxDelay = 0
    /\ logged = [i \in Iterations |-> NoLog]
    /\ output = [i \in Iterations |-> "none"]
    /\ golden = "none"
    /\ wrote = output
    /\ stats = NoStats

-----------------------------------------------------------------------------
(* One run.                                                                *)

\* A bug: one iteration too many.
InclusiveEnd == IF phase = "baseline" THEN BaselineCount ELSE Runs + 1
LoopEnd == IF phase = "baseline" THEN BaselineCount ELSE Runs

\* schedule(dynamic): an idle thread takes the next iteration.  A bug: it
\* leaves an injection run to the others too.
Shared(n) == IF phase = "inject" THEN n ELSE n + 1
Advanced(n) == n + 1

TakeIteration(w) ==
    /\ phase \in {"baseline", "inject"}
    /\ worker[w].pc = "idle"
    /\ next < LoopEnd
    /\ worker' = [worker EXCEPT ![w] = [Idle EXCEPT !.pc = "send", !.i = next]]
    /\ next' = Advanced(next)
    /\ UNCHANGED <<phase, baseline, maxDelay, logged, files, stats>>

\* open and SEND_MSG.  Without an injection the target ends.
Send(w) ==
    /\ worker[w].pc = "send"
    /\ \E d \in Durations \cup (IF phase = "inject" THEN {NeverEnds} ELSE {}) :
          worker' = [worker EXCEPT ![w].pc = "poll", ![w].lasts = d,
                                   ![w].killed = FALSE]
    /\ UNCHANGED <<phase, next, baseline, maxDelay, logged, files, stats>>

\* A system_error: a baseline run is given up, an injection run repeated.
SendFails(w) ==
    /\ worker[w].pc = "send"
    /\ phase = "baseline" => worker[w].i \in Failing
    /\ worker' = IF phase = "baseline" THEN [worker EXCEPT ![w] = Idle]
                 ELSE worker
    /\ golden' \in IF phase = "baseline" /\ worker[w].i = 0
                   THEN {"none", "empty log"} ELSE {golden}
    /\ UNCHANGED <<phase, next, baseline, maxDelay, logged, output, wrote,
                   stats>>

\* 10 * max_delay_ms, of the largest int a negative number.
MaxInt == 2147483647
Tenfold == IF maxDelay = MaxInt THEN -10 ELSE 10 * maxDelay

\* Ten times max_delay_ms has passed.  A bug: once is enough.
TenfoldIgnored(w) == worker[w].lasts >= maxDelay
LongerThanTenfold(w) == worker[w].lasts >= Tenfold

Overdue(w) ==
    phase = "inject" /\ (worker[w].lasts = NeverEnds \/ LongerThanTenfold(w))

\* KILL_TARGET, once, before the RECEIVE_MSG of the same turn of the loop.
Kill(w) ==
    /\ worker[w].pc = "poll"
    /\ Overdue(w) /\ ~worker[w].killed
    /\ worker' = [worker EXCEPT ![w].killed = TRUE]
    /\ UNCHANGED <<phase, next, baseline, maxDelay, logged, files, stats>>

Answered(w) == worker[w].pc = "poll" /\ (Overdue(w) => worker[w].killed)

\* baseline_times.push_back, in the order in which the runs end.
ReceiveBaseline(w) ==
    /\ phase = "baseline" /\ Answered(w)
    /\ baseline' = Append(baseline, [warm |-> worker[w].i < 2,
                                     time |-> worker[w].lasts])
    /\ worker' = [worker EXCEPT ![w] = Idle]
    /\ golden' = IF worker[w].i = 0 THEN "golden" ELSE golden
    /\ UNCHANGED <<phase, next, maxDelay, logged, output, wrote, stats>>

\* What the driver may answer: only a killed target hanged, and a hanged one
\* has a nonzero exit code.
Answers(w) == {v \in Verdicts : v.hanged => worker[w].killed /\ ~v.ok}

\* A target overwrites what an earlier attempt left in its directory, if it
\* gets that far.  A bug: what is there stays.
Kept(old, new) == IF old = "none" THEN new ELSE old
Overwritten(old, new) == IF new = "none" THEN old ELSE new

\* The run is recorded and logged when a fault was injected, and repeated
\* otherwise.  A bug: the verdict is not looked at; the flag is never set.
AnyVerdict(v) == TRUE
NoVerdict(v) == FALSE
FaultInjected(v) == v.injected

ReceiveInjection(w) ==
    /\ phase = "inject" /\ Answered(w)
    /\ \E v \in Answers(w), new \in Outputs :
        /\ output' = [output EXCEPT ![worker[w].i] = Overwritten(@, new)]
        /\ IF FaultInjected(v)
           THEN /\ logged' = [logged EXCEPT ![worker[w].i] = v]
                /\ wrote' = [wrote EXCEPT ![worker[w].i] =
                                IF v.ok THEN new ELSE @]
                /\ worker' = [worker EXCEPT ![w] = Idle]
           ELSE /\ worker' = [worker EXCEPT ![w].pc = "send"]
                /\ UNCHANGED <<logged, wrote>>
    /\ UNCHANGED <<phase, next, baseline, maxDelay, golden, stats>>

-----------------------------------------------------------------------------
(* Between the loops.                                                      *)

LoopOver ==
    /\ next = LoopEnd
    /\ \A w \in Workers : worker[w].pc = "idle"

\* The average leaves out the first two entries of baseline_times.
Averaged == SubSeq(baseline, 3, Len(baseline))

\* The sum of the times, as the number of their milliseconds.
Milliseconds(n) == {n} \X (1 .. Averaged[n].time)
TotalTime == Cardinality(UNION {Milliseconds(n) : n \in DOMAIN Averaged})

\* The rounded average in ms.  With one entry the divisor wraps around and
\* the quotient is 0.
AverageDelay ==
    LET n == Len(Averaged)
    IN IF Averaged = << >> THEN 0 ELSE (2 * TotalTime + n) \div (2 * n)

\* With two entries it is 0 / 0, whose conversion to int is undefined: x86
\* makes it negative, ARM 0 and RISC-V the largest number.
NotANumber == {-1, 0, MaxInt}

EndBaseline ==
    /\ phase = "baseline" /\ LoopOver
    /\ IF baseline = << >>
       THEN phase' = "failed" /\ UNCHANGED <<next, maxDelay>>
       ELSE /\ phase' = "inject"
            /\ next' = 0
            /\ \E avg \in IF Len(baseline) = 2 THEN NotANumber
                         ELSE {AverageDelay} :
                    maxDelay' = IF avg <= 0 THEN 1 ELSE avg
    /\ UNCHANGED <<worker, baseline, logged, files, stats>>

EndInjection ==
    /\ phase = "inject" /\ LoopOver
    /\ phase' = "analyze"
    /\ next' = 0
    /\ UNCHANGED <<worker, baseline, maxDelay, logged, files, stats>>

RunnerNext ==
    \/ \E w \in Workers : \/ TakeIteration(w) \/ Send(w) \/ SendFails(w)
                          \/ Kill(w) \/ ReceiveBaseline(w)
                          \/ ReceiveInjection(w)
    \/ EndBaseline \/ EndInjection
=============================================================================
