----------------------------- MODULE FijAnalyzer -----------------------------
(***************************************************************************)
(* fij_analyzer: classify every injection of a campaign and count the      *)
(* classes (analyze_injection_campaign); and the campaign as a whole, from *)
(* the baseline to the summary.                                            *)
(***************************************************************************)
EXTENDS FijCampaign

\* Some file of the golden run is missing or differs; where it left none,
\* nothing does.  (The log of a run that starts is taken not to be empty.)
Mismatch(i) == golden # "none" /\ golden # output[i]

Class(i) ==
    CASE ~logged[i].ok /\ logged[i].hanged -> "HANG"
      [] ~logged[i].ok /\ ~logged[i].hanged -> "CRASH"
      [] logged[i].ok /\ Mismatch(i) -> "SDC"
      [] OTHER -> "BENIGN"

Place(i) == IF logged[i].memory THEN "Memory" ELSE "Register"

\* The critical section stats_update.  A bug: benign runs have no split.
UnsplitBenign(s, c, p) ==
    [s EXCEPT !.total = @ + 1, !.count[c] = @ + 1,
              !.split[c][p] = IF c = "BENIGN" THEN @ ELSE @ + 1]
Counted(s, c, p) ==
    [s EXCEPT !.total = @ + 1, !.count[c] = @ + 1, !.split[c][p] = @ + 1]

\* One iteration of the analysis loop.  next counts them; a run whose JSON
\* file says that nothing was injected is passed over.
AnalyzeRun ==
    /\ phase = "analyze"
    /\ next < Runs
    /\ stats' = IF logged[next].injected
                THEN Counted(stats, Class(next), Place(next)) ELSE stats
    /\ next' = next + 1
    /\ UNCHANGED <<phase, worker, baseline, maxDelay, logged, files>>

EndAnalysis ==
    /\ phase = "analyze" /\ next = Runs
    /\ phase' = "done"
    /\ UNCHANGED <<next, worker, baseline, maxDelay, logged, files, stats>>

Finished == phase \in {"done", "failed"} /\ UNCHANGED vars

CampaignNext == RunnerNext \/ AnalyzeRun \/ EndAnalysis \/ Finished

\* An attempt that reports an injected fault.
Injects(w) == ReceiveInjection(w) /\ worker'[w].pc = "idle"

\* The team is scheduled; SEND_MSG does not fail forever, and a run that is
\* repeated forever is hit at last.
CampaignFairness ==
    /\ \A w \in Workers :
        /\ WF_vars(TakeIteration(w)) /\ WF_vars(Kill(w))
        /\ WF_vars(ReceiveBaseline(w)) /\ WF_vars(ReceiveInjection(w))
        /\ SF_vars(Send(w)) /\ SF_vars(Injects(w))
    /\ WF_vars(EndBaseline) /\ WF_vars(EndInjection)
    /\ WF_vars(AnalyzeRun) /\ WF_vars(EndAnalysis)

CampaignSafe == CampaignInit /\ [][CampaignNext]_vars
CampaignSpec == CampaignSafe /\ CampaignFairness

-----------------------------------------------------------------------------
\* A target is killed only if it takes longer than some fault-free run did,
\* unless only one or two of those did not fail: the deadline is computed
\* from times that another phase measured, with the first two left out.
KillsOnlySlow ==
    \A w \in Workers :
        worker[w].killed /\ worker[w].lasts # NeverEnds
            /\ Len(baseline) > 2 =>
            \E n \in DOMAIN baseline : worker[w].lasts > baseline[n].time

\* Every run that was asked for ends in the summary exactly once, in one
\* class and in one place, although attempts are repeated and the threads
\* take the runs in any order.
SummaryAddsUp ==
    phase = "done" =>
        /\ stats.total = Runs
        /\ stats.count["BENIGN"] + stats.count["HANG"]
             + stats.count["CRASH"] + stats.count["SDC"] = Runs
        /\ \A c \in Classes :
            stats.count[c] =
                stats.split[c]["Register"] + stats.split[c]["Memory"]

Ending(with) == {i \in Iterations : logged[i].ok /\ wrote[i] = with}

\* A run that ends as if nothing had happened but writes other files counts
\* as a silent corruption, one that writes the same files as benign, if
\* baseline run 0 did not fail: whatever an earlier attempt left behind in
\* the directory.  (Of a run that writes none the earlier files are judged.)
CorruptionSeen ==
    phase = "done" /\ golden = "golden" =>
        /\ stats.count["SDC"] >= Cardinality(Ending("wrong"))
        /\ stats.count["BENIGN"] >= Cardinality(Ending("golden"))

\* The warm-up runs, the first two, do not count for the delay.
WarmUpExcluded ==
    phase = "inject" =>
        \A n \in DOMAIN Averaged : ~Averaged[n].warm

LoggedKept ==
    \A i \in Iterations :
        logged[i].injected => output'[i] = output[i] /\ logged'[i] = logged[i]

\* A directory whose run is logged is not written by a later attempt.
LoggedRunsSettled == [][LoggedKept]_vars

\* The campaign ends, although every run is repeated until it is hit.
CampaignEnds == <>(phase \in {"done", "failed"})

-----------------------------------------------------------------------------
(* Inductive invariants: who works on which run, and what is counted.      *)

RunTypeOK ==
    /\ phase \in Phases
    /\ next \in Nat
    /\ worker \in [Workers -> Worker]
    /\ logged \in [Iterations -> Verdicts]

Busy(w) == worker[w].pc # "idle"

NoneLogged == \A i \in Iterations : ~logged[i].injected
AllLogged == \A i \in Iterations : logged[i].injected

\* A run is logged, or one thread works on it, or nobody has taken it yet.
RunsShared ==
    /\ next <= Runs
    /\ \A w \in Workers : Busy(w) =>
            /\ worker[w].i < next
            /\ ~logged[worker[w].i].injected
            /\ \A v \in Workers : Busy(v) /\ v # w => worker[v].i # worker[w].i
    /\ \A i \in Iterations :
            IF i < next
            THEN \/ logged[i].injected
                 \/ \E w \in Workers : Busy(w) /\ worker[w].i = i
            ELSE ~logged[i].injected

RunInv ==
    /\ RunTypeOK
    /\ phase = "baseline" => NoneLogged
    /\ phase = "inject" => RunsShared
    /\ phase \in {"analyze", "done"} => AllLogged

\* Every run analyzed is counted, once in each way.
StatsInv ==
    /\ stats \in [total : Nat, count : [Classes -> Nat],
                  split : [Classes -> [Places -> Nat]]]
    /\ stats.count["BENIGN"] + stats.count["HANG"] + stats.count["CRASH"]
            + stats.count["SDC"] = stats.total
    /\ \A c \in Classes : stats.count[c] =
            stats.split[c]["Register"] + stats.split[c]["Memory"]
    /\ phase \in {"baseline", "inject"} => stats.total = 0
    /\ phase = "analyze" => next <= Runs /\ stats.total = next
    /\ phase = "done" => stats.total = Runs

\* The times of the baseline, the deadline made from them and the targets
\* that were killed after it.
TimeInv ==
    /\ baseline \in Seq([warm : BOOLEAN, time : Durations])
    /\ maxDelay \in Nat
    /\ \A w \in Workers :
        /\ ~Busy(w) => worker[w] = Idle
        /\ phase \in {"baseline", "failed"} =>
            /\ ~worker[w].killed
            /\ worker[w].pc = "poll" => worker[w].lasts \in Durations
        /\ worker[w].killed => worker[w].lasts = NeverEnds
                               \/ worker[w].lasts >= Tenfold
    /\ phase \notin {"baseline", "failed"} /\ Len(baseline) > 2 =>
            maxDelay = IF AverageDelay <= 0 THEN 1 ELSE AverageDelay

\* What the attempts that count left is still there.
FilesInv ==
    /\ output \in [Iterations -> Outputs]
    /\ golden \in References
    /\ wrote \in [Iterations -> Outputs]
    /\ \A i \in Iterations :
        /\ ~logged[i].injected => wrote[i] = "none"
        /\ wrote[i] # "none" => output[i] = wrote[i]

\* The runs analyzed so far that are of a class.
OfClass(c) == {i \in Iterations : i < next /\ Class(i) = c}

CountInv ==
    /\ phase \in {"analyze", "done"} =>
            \A c \in Classes : stats.count[c] = Cardinality(OfClass(c))
    /\ phase = "done" => next = Runs
=============================================================================
