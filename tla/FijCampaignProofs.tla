-------------------------- MODULE FijCampaignProofs --------------------------
(***************************************************************************)
(* What a campaign guarantees with any number of threads, runs and         *)
(* baseline runs, whatever the runs answer and however often they are      *)
(* repeated.                                                               *)
(***************************************************************************)
EXTENDS FijAnalyzer, FiniteSetTheorems, SequenceTheorems, TLAPS

-----------------------------------------------------------------------------
(* Who works on which run.                                                 *)

\* One worker changes, and keeps its type.
LEMMA WorkerSet ==
  ASSUME NEW w \in Workers, NEW r \in Worker,
         worker \in [Workers -> Worker],
         worker' = [worker EXCEPT ![w] = r]
  PROVE  /\ worker' \in [Workers -> Worker]
         /\ worker'[w] = r
         /\ \A v \in Workers : v # w => worker'[v] = worker[v]
OBVIOUS

LEMMA IdleWorker == Idle \in Worker
BY DEF Idle, Worker

\* The steps of one attempt leave the run with the thread that has it.
LEMMA AttemptRuns ==
  ASSUME RunInv, NEW w \in Workers, NEW r \in Worker,
         worker' = [worker EXCEPT ![w] = r],
         Busy(w), r.pc # "idle", r.i = worker[w].i,
         UNCHANGED <<phase, next, logged>>
  PROVE  RunInv'
<1> USE DEF RunInv, RunTypeOK
<1>1. /\ worker' \in [Workers -> Worker]
      /\ worker'[w] = r
      /\ \A v \in Workers : v # w => worker'[v] = worker[v]
  BY WorkerSet
<1>2. \A v \in Workers : /\ Busy(v)' <=> Busy(v)
                         /\ worker'[v].i = worker[v].i
  BY <1>1 DEF Busy
<1>3. RunsShared => RunsShared'
  BY <1>2 DEF RunsShared
<1> QED
  BY <1>1, <1>3 DEF NoneLogged, AllLogged

\* Outside the injection loop it does not matter who has which run.
LEMMA BaselineRunsInv ==
  ASSUME RunInv, NEW w \in Workers, NEW r \in Worker,
         worker' = [worker EXCEPT ![w] = r],
         phase = "baseline", next' \in Nat, UNCHANGED <<phase, logged>>
  PROVE  RunInv'
BY WorkerSet DEF RunInv, RunTypeOK, NoneLogged

LEMMA TakeRuns ==
  ASSUME RunInv, NEW w \in Workers, TakeIteration(w)
  PROVE  RunInv'
<1> USE CampaignAssumption DEF RunInv, RunTypeOK
<1> DEFINE r == [Idle EXCEPT !.pc = "send", !.i = next]
<1>1. r \in Worker /\ r.pc = "send" /\ r.i = next
  BY DEF Idle, Worker
<1>2. /\ worker' = [worker EXCEPT ![w] = r]
      /\ next' = next + 1
      /\ ~Busy(w)
      /\ UNCHANGED <<phase, logged>>
  BY DEF TakeIteration, Advanced, Busy
<1>3. /\ worker' \in [Workers -> Worker]
      /\ worker'[w] = r
      /\ \A v \in Workers : v # w => worker'[v] = worker[v]
  BY <1>1, <1>2, WorkerSet
<1>4. CASE phase = "baseline"
  BY <1>2, <1>3, <1>4 DEF NoneLogged
<1>5. CASE phase = "inject"
  <2>1. next < Runs /\ next \in Iterations /\ RunsShared
    BY <1>5 DEF TakeIteration, LoopEnd, Iterations
  <2>2. ~logged[next].injected
    BY <2>1 DEF RunsShared
  <2>3. Busy(w)' /\ worker'[w].i = next
    BY <1>1, <1>3 DEF Busy
  <2>4. \A v \in Workers : v # w => /\ Busy(v)' <=> Busy(v)
                                    /\ worker'[v].i = worker[v].i
    BY <1>3 DEF Busy
  <2>5. \A v \in Workers : worker[v].i \in Nat
    BY DEF Worker
  <2>6. \A v \in Workers : Busy(v)' =>
          /\ worker'[v].i < next'
          /\ ~logged'[worker'[v].i].injected
          /\ \A u \in Workers : Busy(u)' /\ u # v =>
                  worker'[u].i # worker'[v].i
    BY <1>2, <2>1, <2>2, <2>3, <2>4, <2>5 DEF RunsShared
  <2>7. \A i \in Iterations :
          IF i < next'
          THEN \/ logged'[i].injected
               \/ \E v \in Workers : Busy(v)' /\ worker'[v].i = i
          ELSE ~logged'[i].injected
    <3> TAKE i \in Iterations
    <3>1. CASE i = next
      BY <1>2, <2>3, <3>1 DEF Iterations
    <3>2. CASE i < next
      <4>1. \/ logged[i].injected
            \/ \E v \in Workers : Busy(v) /\ worker[v].i = i
        BY <2>1, <3>2 DEF RunsShared
      <4>2. \A v \in Workers : Busy(v) => v # w
        BY <1>2
      <4> QED
        BY <1>2, <2>4, <3>2, <4>1, <4>2 DEF Iterations
    <3>3. CASE i > next
      <4>1. ~logged[i].injected
        BY <2>1, <3>3 DEF RunsShared, Iterations
      <4> QED
        BY <1>2, <3>3, <4>1 DEF Iterations
    <3> QED
      BY <3>1, <3>2, <3>3 DEF Iterations
  <2> QED
    BY <1>2, <1>3, <1>5, <2>1, <2>6, <2>7 DEF RunsShared
<1> QED
  BY <1>4, <1>5 DEF TakeIteration

\* A run that is reported is nobody else's: its thread had it alone.
LEMMA ReceiveRuns ==
  ASSUME RunInv, NEW w \in Workers, ReceiveInjection(w)
  PROVE  RunInv'
<1> USE DEF RunInv, RunTypeOK
<1> DEFINE i == worker[w].i
<1>1. Busy(w) /\ phase = "inject" /\ RunsShared /\ UNCHANGED <<phase, next>>
  BY DEF ReceiveInjection, Answered, Busy
<1>2. worker[w] \in Worker /\ i \in Nat /\ next \in Nat /\ i < next
  BY <1>1 DEF Worker, RunsShared
<1>3. i \in Iterations
  BY <1>1, <1>2, CampaignAssumption DEF RunsShared, Iterations
<1>4. CASE /\ worker' = [worker EXCEPT ![w].pc = "send"]
           /\ UNCHANGED logged
  <2>1. [worker[w] EXCEPT !.pc = "send"] \in Worker
    BY <1>2 DEF Worker
  <2>2. worker' = [worker EXCEPT ![w] = [worker[w] EXCEPT !.pc = "send"]]
    BY <1>4
  <2>3. /\ [worker[w] EXCEPT !.pc = "send"].pc # "idle"
        /\ [worker[w] EXCEPT !.pc = "send"].i = i
    BY <1>2 DEF Worker
  <2> QED
    BY <1>1, <1>4, <2>1, <2>2, <2>3, AttemptRuns
<1>5. ASSUME NEW v \in Verdicts, v.injected,
             logged' = [logged EXCEPT ![i] = v],
             worker' = [worker EXCEPT ![w] = Idle]
      PROVE  RunInv'
  <2>1. /\ worker' \in [Workers -> Worker]
        /\ worker'[w] = Idle
        /\ \A u \in Workers : u # w => worker'[u] = worker[u]
    BY <1>5, IdleWorker, WorkerSet
  <2>2. ~Busy(w)' /\ \A u \in Workers : u # w =>
            (Busy(u)' <=> Busy(u)) /\ worker'[u].i = worker[u].i
    BY <2>1 DEF Busy, Idle
  <2>3. /\ logged' \in [Iterations -> Verdicts]
        /\ logged'[i].injected
        /\ \A j \in Iterations : j # i => logged'[j] = logged[j]
    BY <1>3, <1>5
  <2>4. \A u \in Workers : Busy(u) /\ u # w =>
            worker[u].i # i /\ worker[u].i \in Iterations
    <3>1. \A u \in Workers : worker[u].i \in Nat
      BY DEF Worker
    <3> QED
      BY <1>1, <1>2, <3>1, CampaignAssumption DEF RunsShared, Iterations
  <2>5. \A u \in Workers : Busy(u)' =>
          /\ worker'[u].i < next'
          /\ ~logged'[worker'[u].i].injected
          /\ \A x \in Workers : Busy(x)' /\ x # u =>
                  worker'[x].i # worker'[u].i
    BY <1>1, <2>2, <2>3, <2>4 DEF RunsShared
  <2>6. \A j \in Iterations :
          IF j < next'
          THEN \/ logged'[j].injected
               \/ \E u \in Workers : Busy(u)' /\ worker'[u].i = j
          ELSE ~logged'[j].injected
    <3> TAKE j \in Iterations
    <3>1. CASE j = i
      BY <1>1, <1>2, <2>3, <3>1
    <3>2. CASE j # i
      <4>1. logged'[j] = logged[j]
        BY <2>3, <3>2
      <4>2. IF j < next
            THEN \/ logged[j].injected
                 \/ \E u \in Workers : Busy(u) /\ worker[u].i = j
            ELSE ~logged[j].injected
        BY <1>1 DEF RunsShared
      <4>3. \A u \in Workers : Busy(u) /\ worker[u].i = j => u # w
        BY <3>2
      <4> QED
        BY <1>1, <2>2, <4>1, <4>2, <4>3
    <3> QED
      BY <3>1, <3>2
  <2> QED
    BY <1>1, <2>1, <2>3, <2>5, <2>6 DEF RunsShared
<1> QED
  BY <1>4, <1>5 DEF ReceiveInjection, Answers, FaultInjected

LEMMA RunStep == RunInv /\ [CampaignNext]_vars => RunInv'
<1> SUFFICES ASSUME RunInv, [CampaignNext]_vars PROVE RunInv'
  OBVIOUS
<1> USE CampaignAssumption
<1>1. ASSUME NEW w \in Workers, Send(w) \/ SendFails(w) \/ Kill(w)
      PROVE  RunInv'
  <2>1. worker[w] \in Worker
    BY DEF RunInv, RunTypeOK
  <2>2. CASE Send(w)
    <3>1. PICK d \in Durations \cup {NeverEnds} :
            worker' = [worker EXCEPT ![w].pc = "poll", ![w].lasts = d,
                                     ![w].killed = FALSE]
      BY <2>2 DEF Send
    <3> DEFINE r == [worker[w] EXCEPT !.pc = "poll", !.lasts = d,
                                      !.killed = FALSE]
    <3>2. r \in Worker /\ r.pc = "poll" /\ r.i = worker[w].i
      BY <2>1 DEF Worker
    <3>3. worker' = [worker EXCEPT ![w] = r]
      BY <3>1 DEF RunInv, RunTypeOK
    <3> QED
      BY <2>2, <3>2, <3>3, AttemptRuns DEF Send, Busy, files
  <2>3. CASE SendFails(w)
    <3>1. CASE phase = "baseline"
      BY <2>3, <3>1, IdleWorker, BaselineRunsInv
         DEF SendFails, RunInv, RunTypeOK
    <3>2. CASE phase # "baseline"
      BY <2>3, <3>2 DEF SendFails, RunInv, RunTypeOK, RunsShared, NoneLogged,
                        AllLogged, Busy
    <3> QED
      BY <3>1, <3>2
  <2>4. CASE Kill(w)
    <3> DEFINE r == [worker[w] EXCEPT !.killed = TRUE]
    <3>1. r \in Worker /\ r.pc = "poll" /\ r.i = worker[w].i
      BY <2>1, <2>4 DEF Worker, Kill
    <3>2. worker' = [worker EXCEPT ![w] = r]
      BY <2>4 DEF Kill
    <3> QED
      BY <2>4, <3>1, <3>2, AttemptRuns DEF Kill, Busy
  <2> QED
    BY <1>1, <2>2, <2>3, <2>4
<1>2. ASSUME NEW w \in Workers, ReceiveBaseline(w)
      PROVE  RunInv'
  BY <1>2, IdleWorker, BaselineRunsInv DEF ReceiveBaseline, RunInv, RunTypeOK
<1>3. CASE EndBaseline
  <2>1. /\ \A w \in Workers : ~Busy(w)
        /\ NoneLogged
        /\ phase' \in {"failed", "inject"}
        /\ phase' = "inject" => next' = 0
        /\ UNCHANGED <<worker, logged>>
    BY <1>3 DEF EndBaseline, LoopOver, Busy, RunInv
  <2>2. next' \in Nat
    BY <1>3 DEF EndBaseline, RunInv, RunTypeOK
  <2> QED
    BY <2>1, <2>2 DEF RunInv, RunTypeOK, RunsShared, Phases, Iterations, Busy,
                      NoneLogged
<1>4. CASE EndInjection
  <2>1. AllLogged
    BY <1>4 DEF EndInjection, LoopOver, LoopEnd, RunInv, RunsShared, Busy,
                Iterations, AllLogged
  <2> QED
    BY <1>4, <2>1 DEF EndInjection, RunInv, RunTypeOK, Phases, AllLogged
<1>5. CASE AnalyzeRun \/ EndAnalysis
  BY <1>5 DEF AnalyzeRun, EndAnalysis, RunInv, RunTypeOK, Phases, AllLogged
<1>6. CASE Finished \/ UNCHANGED vars
  BY <1>6 DEF Finished, vars, RunInv, RunTypeOK, NoneLogged, AllLogged,
              RunsShared, Busy
<1> QED
  BY <1>1, <1>2, <1>3, <1>4, <1>5, <1>6, TakeRuns, ReceiveRuns
     DEF CampaignNext, RunnerNext

LEMMA RunAlways == CampaignSafe => []RunInv
<1>1. CampaignInit => RunInv
  BY IdleWorker DEF CampaignInit, RunInv, RunTypeOK, Phases, NoneLogged, NoLog,
                    Verdicts
<1> QED
  BY <1>1, RunStep, PTL DEF CampaignSafe

\* Once the log of a run is written, no thread of the team works on that run
\* any more (fij_run.cpp:289): neither the log nor the files change.
THEOREM SettledRuns == CampaignSafe => LoggedRunsSettled
<1>1. RunInv /\ [CampaignNext]_vars => [LoggedKept]_vars
  <2> SUFFICES ASSUME RunInv, CampaignNext, NEW i \in Iterations,
                      logged[i].injected
               PROVE  output'[i] = output[i] /\ logged'[i] = logged[i]
    BY DEF LoggedKept
  <2>1. CASE \E w \in Workers : ReceiveInjection(w)
    <3>1. PICK w \in Workers : ReceiveInjection(w)
      BY <2>1
    <3>2. worker[w].i # i
      BY <3>1 DEF RunInv, RunsShared, ReceiveInjection, Answered, Busy
    <3>3. \E new, v : /\ output' = [output EXCEPT ![worker[w].i] = new]
                      /\ logged' = [logged EXCEPT ![worker[w].i] = v]
                         \/ logged' = logged
      BY <3>1 DEF ReceiveInjection
    <3> QED
      BY <3>2, <3>3 DEF RunInv, RunTypeOK
  <2>2. CASE UNCHANGED <<output, logged>>
    BY <2>2
  <2> QED
    BY <2>1, <2>2 DEF CampaignNext, RunnerNext, TakeIteration, Send, SendFails,
          Kill, ReceiveBaseline, EndBaseline, EndInjection, AnalyzeRun,
          EndAnalysis, Finished, files, vars
<1> QED
  BY <1>1, RunAlways, PTL DEF CampaignSafe, LoggedRunsSettled

-----------------------------------------------------------------------------
(* What the analysis counts.                                               *)

\* One more run of class c and place p, counted in every way.
LEMMA CountedOnce ==
  ASSUME StatsInv, NEW c \in Classes, NEW p \in Places,
         stats' = Counted(stats, c, p)
  PROVE  /\ stats' \in [total : Nat, count : [Classes -> Nat],
                        split : [Classes -> [Places -> Nat]]]
         /\ stats'.total = stats.total + 1
         /\ stats'.count["BENIGN"] + stats'.count["HANG"]
                + stats'.count["CRASH"] + stats'.count["SDC"] = stats'.total
         /\ \A d \in Classes : stats'.count[d] =
                stats'.split[d]["Register"] + stats'.split[d]["Memory"]
<1> USE DEF Classes, Places
<1> DEFINE cnt == [stats.count EXCEPT ![c] = stats.count[c] + 1]
<1> DEFINE row == [stats.split[c] EXCEPT ![p] = stats.split[c][p] + 1]
<1> DEFINE spl == [stats.split EXCEPT ![c] = row]
<1>1. /\ stats.total \in Nat
      /\ stats.count \in [Classes -> Nat]
      /\ stats.split \in [Classes -> [Places -> Nat]]
  BY DEF StatsInv
<1>2. stats' = [total |-> stats.total + 1, count |-> cnt, split |-> spl]
  BY DEF Counted, StatsInv
<1>3. cnt \in [Classes -> Nat] /\ \A d \in Classes :
        cnt[d] = IF d = c THEN stats.count[d] + 1 ELSE stats.count[d]
  BY <1>1
<1>4. row \in [Places -> Nat] /\ \A q \in Places :
        row[q] = IF q = p THEN stats.split[c][q] + 1 ELSE stats.split[c][q]
  BY <1>1
<1>5. spl \in [Classes -> [Places -> Nat]] /\ \A d \in Classes :
        spl[d] = IF d = c THEN row ELSE stats.split[d]
  BY <1>1, <1>4
<1>6. \A d \in Classes : /\ stats.count[d] \in Nat
                         /\ stats.split[d]["Register"] \in Nat
                         /\ stats.split[d]["Memory"] \in Nat
  BY <1>1
<1>7. cnt["BENIGN"] + cnt["HANG"] + cnt["CRASH"] + cnt["SDC"]
        = stats.total + 1
  BY <1>3, <1>6 DEF StatsInv
<1>8. row["Register"] + row["Memory"] = stats.count[c] + 1
  BY <1>4, <1>6 DEF StatsInv
<1>9. \A d \in Classes : cnt[d] = spl[d]["Register"] + spl[d]["Memory"]
  <2> TAKE d \in Classes
  <2>1. CASE d = c
    BY <1>3, <1>5, <1>8, <2>1
  <2>2. CASE d # c
    BY <1>3, <1>5, <2>2 DEF StatsInv
  <2> QED
    BY <2>1, <2>2
<1> HIDE DEF cnt, row, spl
<1> QED
  BY <1>1, <1>2, <1>3, <1>5, <1>7, <1>9

LEMMA StatsStep == RunInv /\ StatsInv /\ [CampaignNext]_vars => StatsInv'
<1> SUFFICES ASSUME RunInv, StatsInv, [CampaignNext]_vars PROVE StatsInv'
  OBVIOUS
<1>1. CASE AnalyzeRun
  <2>1. next \in Iterations /\ next \in Nat /\ next' = next + 1
    BY <1>1, CampaignAssumption
       DEF AnalyzeRun, RunInv, RunTypeOK, Iterations
  <2>2. stats' = Counted(stats, Class(next), Place(next))
    BY <1>1, <2>1 DEF AnalyzeRun, RunInv, AllLogged
  <2>3. Class(next) \in Classes /\ Place(next) \in Places
    <3>1. logged[next] \in Verdicts
      BY <2>1 DEF RunInv, RunTypeOK
    <3> QED
      BY <3>1 DEF Class, Place, Classes, Places, Verdicts
  <2>4. phase = "analyze" /\ phase' = phase /\ next < Runs /\ Runs \in Nat
    BY <1>1, CampaignAssumption DEF AnalyzeRun
  <2>5. stats'.total = next' /\ next' <= Runs
    BY <2>1, <2>2, <2>3, <2>4, CountedOnce DEF StatsInv
  <2> QED
    BY <2>2, <2>3, <2>4, <2>5, CountedOnce DEF StatsInv
<1>2. CASE UNCHANGED stats /\ ~AnalyzeRun
  <2>1. \/ UNCHANGED <<phase, next>>
        \/ phase \in {"baseline", "inject"} /\ phase' = phase
        \/ phase \in {"baseline", "inject"} /\ phase' \in {"inject", "failed"}
        \/ /\ phase = "inject" /\ phase' = "analyze" /\ next' = 0
        \/ /\ phase = "analyze" /\ phase' = "done" /\ next = Runs
    BY <1>2 DEF CampaignNext, RunnerNext, TakeIteration, Send, SendFails, Kill,
          ReceiveBaseline, ReceiveInjection, EndBaseline, EndInjection,
          EndAnalysis, Finished, vars
  <2> QED
    BY <1>2, <2>1, CampaignAssumption DEF StatsInv
<1>3. AnalyzeRun \/ UNCHANGED stats
  BY DEF CampaignNext, RunnerNext, TakeIteration, Send, SendFails, Kill,
         ReceiveBaseline, ReceiveInjection, EndBaseline, EndInjection,
         EndAnalysis, Finished, vars
<1> QED
  BY <1>1, <1>2, <1>3

\* Every run that was asked for is counted, in one class and in one place,
\* although the analysis passes over a run whose log does not say that a
\* fault was injected (campaign_analyzer.cpp:176): there is none.
THEOREM SummaryComplete == CampaignSafe => []SummaryAddsUp
<1>1. CampaignInit => StatsInv
  BY DEF CampaignInit, StatsInv, NoStats, Classes, Places
<1>2. StatsInv => SummaryAddsUp
  BY DEF StatsInv, SummaryAddsUp
<1> QED
  BY <1>1, <1>2, StatsStep, RunAlways, PTL DEF CampaignSafe
-----------------------------------------------------------------------------
(* The delay.                                                              *)

Times == Seq([warm : BOOLEAN, time : Durations])

\* The entries that count are entries of the baseline.
LEMMA AveragedEntries ==
  ASSUME baseline \in Times
  PROVE  /\ Averaged \in Times
         /\ Len(baseline) \in Nat
         /\ Len(Averaged) = IF 3 <= Len(baseline) THEN Len(baseline) - 2 ELSE 0
         /\ Averaged = << >> <=> Len(Averaged) = 0
         /\ DOMAIN Averaged = 1 .. Len(Averaged)
         /\ \A n \in DOMAIN Averaged : Averaged[n].time \in Durations
         /\ \A n \in DOMAIN Averaged : n + 2 \in DOMAIN baseline
                                       /\ Averaged[n] = baseline[n + 2]
<1> DEFINE Entry == [warm : BOOLEAN, time : Durations]
<1>1. /\ baseline \in Seq(Entry) /\ Len(baseline) \in Nat
      /\ DOMAIN baseline = 1 .. Len(baseline)
      /\ \A i \in 1 .. Len(baseline) : baseline[i] \in Entry
  <2>1. baseline \in Seq(Entry)
    BY DEF Times
  <2> HIDE DEF Entry
  <2> QED
    BY <2>1
<1> HIDE DEF Entry
<1>2. /\ Averaged \in Seq(Entry)
      /\ Len(Averaged) = IF 3 <= Len(baseline) THEN Len(baseline) - 2 ELSE 0
      /\ \A i \in 1 .. (Len(baseline) - 2) : Averaged[i] = baseline[i + 2]
  <2>1. \A i \in 3 .. Len(baseline) : baseline[i] \in Entry
    BY <1>1
  <2> QED
    <3> DEFINE m == Len(baseline)
    <3>1. /\ SubSeq(baseline, 3, m) \in Seq(Entry)
          /\ Len(SubSeq(baseline, 3, m)) = IF 3 <= m THEN m - 3 + 1 ELSE 0
          /\ \A i \in 1 .. (m - 3 + 1) :
                SubSeq(baseline, 3, m)[i] = baseline[3 + i - 1]
      BY <1>1, <2>1, SubSeqProperties
    <3>2. m - 3 + 1 = m - 2 /\ \A i \in 1 .. (m - 2) : 3 + i - 1 = i + 2
      BY <1>1
    <3> QED
      BY <3>1, <3>2 DEF Averaged
<1>3. Len(baseline) \in Nat
  BY <1>1
<1>4. /\ Averaged = << >> <=> Len(Averaged) = 0
      /\ DOMAIN Averaged = 1 .. Len(Averaged)
      /\ \A n \in DOMAIN Averaged : Averaged[n] \in Entry
  <2> QED
    BY <1>2
<1>5. ASSUME NEW n \in DOMAIN Averaged
      PROVE  n + 2 \in DOMAIN baseline /\ Averaged[n] = baseline[n + 2]
  <2>1. n \in 1 .. (Len(baseline) - 2)
    <3>1. n \in 1 .. Len(Averaged)
      BY <1>4, <1>5
    <3>2. CASE 3 <= Len(baseline)
      BY <1>2, <3>1, <3>2
    <3>3. CASE ~(3 <= Len(baseline))
      BY <1>2, <3>1, <3>3
    <3> QED
      BY <3>2, <3>3
  <2>2. n + 2 \in 1 .. Len(baseline)
    BY <1>1, <2>1
  <2> QED
    BY <1>1, <1>2, <2>1, <2>2
<1> QED
  BY <1>2, <1>3, <1>4, <1>5 DEF Times, Entry

\* The numbers from 1 to m.
LEMMA FirstNumbers ==
  ASSUME NEW m \in Nat
  PROVE  IsFiniteSet(1 .. m) /\ Cardinality(1 .. m) = m
<1>1. 1 \in Int /\ m \in Int
  OBVIOUS
<1>2. /\ IsFiniteSet(1 .. m)
      /\ Cardinality(1 .. m) = IF 1 > m THEN 0 ELSE m - 1 + 1
  BY <1>1, FS_Interval
<1> QED
  BY <1>2

\* The milliseconds of n entries that take at least lo and at most hi ms.
LEMMA TotalBounds ==
  ASSUME baseline \in Times, NEW lo \in Nat, NEW hi \in Nat,
         \A n \in DOMAIN Averaged : /\ lo <= Averaged[n].time
                                    /\ Averaged[n].time <= hi
  PROVE  /\ TotalTime \in Nat
         /\ Len(Averaged) * lo <= TotalTime
         /\ TotalTime <= Len(Averaged) * hi
<1> DEFINE D == DOMAIN Averaged
           all == UNION {Milliseconds(n) : n \in D}
<1>1. /\ D = 1 .. Len(Averaged) /\ Len(Averaged) \in Nat
      /\ \A n \in D : Averaged[n].time \in Nat
  <2>1. Averaged \in Times /\ D = 1 .. Len(Averaged)
        /\ \A n \in D : Averaged[n].time \in Durations
    BY AveragedEntries
  <2>2. Len(Averaged) \in Nat
    BY <2>1, LenProperties DEF Times
  <2> QED
    BY <2>1, <2>2, CampaignAssumption
<1>2. IsFiniteSet(D) /\ Cardinality(D) = Len(Averaged)
  <2> HIDE DEF D
  <2> QED
    BY <1>1, FirstNumbers
<1>3. ASSUME NEW m \in Nat PROVE IsFiniteSet(1 .. m) /\ Cardinality(1 .. m) = m
  BY FirstNumbers
<1>4. ASSUME NEW m \in Nat
      PROVE  /\ IsFiniteSet(D \X (1 .. m))
             /\ Cardinality(D \X (1 .. m)) = Len(Averaged) * m
  <2>1. /\ IsFiniteSet(D \X (1 .. m))
        /\ Cardinality(D \X (1 .. m)) = Cardinality(D) * Cardinality(1 .. m)
    BY <1>2, <1>3, FS_Product
  <2> QED
    BY <1>2, <1>3, <2>1
<1>5. Cardinality(D \X (1 .. lo)) = Len(Averaged) * lo
  BY <1>4
<1> HIDE DEF all
<1>6. all \subseteq D \X (1 .. hi)
  BY <1>1 DEF all, Milliseconds
<1>7. D \X (1 .. lo) \subseteq all
  BY <1>1 DEF all, Milliseconds
<1>8. IsFiniteSet(all) /\ Cardinality(all) <= Len(Averaged) * hi
  <2>1. all \in SUBSET (D \X (1 .. hi))
    BY <1>6
  <2>2. IsFiniteSet(all) /\ Cardinality(all) <= Cardinality(D \X (1 .. hi))
    BY <1>4, <2>1, FS_Subset
  <2> QED
    BY <1>4, <2>2
<1>9. Len(Averaged) * lo <= Cardinality(all)
  BY <1>5, <1>7, <1>8, FS_Subset
<1>10. TotalTime = Cardinality(all) /\ Cardinality(all) \in Nat
  BY <1>8, FS_CardinalityType DEF TotalTime, all
<1> QED
  BY <1>8, <1>9, <1>10

LEMMA Quotient ==
  ASSUME NEW a \in Nat, NEW b \in Nat \ {0}
  PROVE  /\ a \div b \in Nat
         /\ b * (a \div b) <= a
         /\ a < b * ((a \div b) + 1)
<1>1. a \div b \in Nat
  OBVIOUS
<1>2. b * (a \div b) <= a
  OBVIOUS
<1>3. a < b * ((a \div b) + 1)
  OBVIOUS
<1> QED
  BY <1>1, <1>2, <1>3

LEMMA Products ==
  ASSUME NEW b \in Nat \ {0}, NEW x \in Int, NEW y \in Int
  PROVE  /\ b * x \in Int
         /\ x < y => b * x < b * y
         /\ x <= y => b * x <= b * y
         /\ b * (2 * x) = (2 * b) * x
         /\ 2 * (b * x) = (2 * b) * x
OBVIOUS

\* Rounding keeps between what the times lie between.
LEMMA Rounded ==
  ASSUME NEW n \in Nat \ {0}, NEW sum \in Nat, NEW lo \in Nat, NEW hi \in Nat,
         n * lo <= sum, sum <= n * hi
  PROVE  /\ (2 * sum + n) \div (2 * n) \in Nat
         /\ lo <= (2 * sum + n) \div (2 * n)
         /\ (2 * sum + n) \div (2 * n) <= hi
<1> DEFINE a == 2 * sum + n
           b == 2 * n
           q == a \div b
<1>1. a \in Nat /\ b \in Nat \ {0}
  OBVIOUS
<1>2. q \in Nat /\ b * q <= a /\ a < b * (q + 1)
  <2> HIDE DEF a, b
  <2> QED
    BY <1>1, Quotient
<1>3. b * lo <= 2 * sum /\ 2 * sum <= b * hi
  BY Products
<1>4. a = 2 * sum + n /\ n \in Nat /\ n > 0 /\ n < b
  OBVIOUS
<1> HIDE DEF a, b, q
<1>5. ASSUME q < lo PROVE FALSE
  <2>1. b * (q + 1) <= b * lo
    BY <1>1, <1>2, <1>5, Products
  <2>2. b * (q + 1) \in Int /\ b * lo \in Int
    BY <1>1, <1>2, Products
  <2> QED
    BY <1>1, <1>2, <1>3, <1>4, <2>1, <2>2
<1>6. ASSUME hi < q PROVE FALSE
  <2>1. b * (hi + 1) <= b * q
    BY <1>1, <1>2, <1>6, Products
  <2>2. b * (hi + 1) = b * hi + b /\ b * hi \in Int /\ b * q \in Int
    BY <1>1, <1>2
  <2> QED
    BY <1>1, <1>2, <1>3, <1>4, <2>1, <2>2
<1>7. q \in Nat /\ lo <= q /\ q <= hi
  BY <1>2, <1>5, <1>6
<1> QED
  BY <1>7 DEF q, a, b

LEMMA AverageBounds ==
  ASSUME baseline \in Times, 3 <= Len(baseline),
         NEW lo \in Nat, NEW hi \in Nat,
         \A n \in DOMAIN Averaged : /\ lo <= Averaged[n].time
                                    /\ Averaged[n].time <= hi
  PROVE  AverageDelay \in Nat /\ lo <= AverageDelay /\ AverageDelay <= hi
<1>1. Len(Averaged) \in Nat \ {0} /\ Averaged # << >>
  BY AveragedEntries
<1>2. /\ TotalTime \in Nat
      /\ Len(Averaged) * lo <= TotalTime
      /\ TotalTime <= Len(Averaged) * hi
  BY TotalBounds
<1>3. AverageDelay
        = (2 * TotalTime + Len(Averaged)) \div (2 * Len(Averaged))
  BY <1>1 DEF AverageDelay
<1> QED
  BY <1>1, <1>2, <1>3, Rounded

\* However long the times are, there are finitely many milliseconds.
LEMMA AverageType ==
  ASSUME baseline \in Times
  PROVE  AverageDelay \in Nat
<1> DEFINE D == DOMAIN Averaged
           parts == {Milliseconds(n) : n \in D}
           part == [n \in D |-> Milliseconds(n)]
<1>1. /\ D = 1 .. Len(Averaged) /\ Len(Averaged) \in Nat
      /\ \A n \in D : Averaged[n].time \in Nat
      /\ Averaged = << >> <=> Len(Averaged) = 0
  <2>1. Averaged \in Times /\ D = 1 .. Len(Averaged)
        /\ \A n \in D : Averaged[n].time \in Durations
    BY AveragedEntries
  <2>2. Len(Averaged) \in Nat
    BY <2>1, LenProperties DEF Times
  <2> QED
    BY <2>1, <2>2, CampaignAssumption, AveragedEntries
<1>2. IsFiniteSet(D)
  <2> HIDE DEF D
  <2> QED
    BY <1>1, FirstNumbers
<1>3. part \in Surjection(D, parts)
  BY DEF Surjection
<1>4. IsFiniteSet(parts)
  <2> HIDE DEF D, parts, part
  <2> QED
    BY <1>2, <1>3, FS_Surjection
<1>5. ASSUME NEW n \in D PROVE IsFiniteSet(Milliseconds(n))
  <2> DEFINE m == Averaged[n].time
  <2>1. IsFiniteSet(1 .. m)
    <3>1. m \in Nat
      BY <1>1
    <3> HIDE DEF m
    <3> QED
      BY <3>1, FirstNumbers
  <2>2. IsFiniteSet({n})
    BY FS_Singleton
  <2> QED
    BY <2>1, <2>2, FS_Product DEF Milliseconds
<1>6. IsFiniteSet(UNION parts)
  <2>1. \A T \in parts : IsFiniteSet(T)
    BY <1>5
  <2> HIDE DEF parts
  <2> QED
    BY <1>4, <2>1, FS_UNION
<1>7. TotalTime \in Nat
  BY <1>6, FS_CardinalityType DEF TotalTime
<1>8. CASE Averaged = << >>
  BY <1>8 DEF AverageDelay
<1>9. CASE Averaged # << >>
  <2>1. Len(Averaged) \in Nat \ {0}
    BY <1>1, <1>9
  <2> DEFINE a == 2 * TotalTime + Len(Averaged)
             b == 2 * Len(Averaged)
  <2>2. a \in Nat /\ b \in Nat \ {0}
    BY <1>7, <2>1
  <2>3. AverageDelay = a \div b
    BY <1>9 DEF AverageDelay
  <2> HIDE DEF a, b
  <2> QED
    BY <2>2, <2>3, Quotient
<1> QED
  BY <1>8, <1>9

LEMMA IntLimit == MaxInt \in Nat
BY SMT DEF MaxInt

\* What one thread does to its own run.
LEMMA TimeWorker ==
  ASSUME TimeInv, RunTypeOK, NEW w \in Workers, NEW r \in Worker,
         worker' = [worker EXCEPT ![w] = r],
         r.pc = "idle" => r = Idle,
         phase \in {"baseline", "failed"} =>
            ~r.killed /\ (r.pc = "poll" => r.lasts \in Durations),
         r.killed => r.lasts = NeverEnds \/ r.lasts >= Tenfold,
         UNCHANGED <<phase, maxDelay>>,
         baseline' \in Times,
         phase = "baseline" \/ baseline' = baseline
  PROVE  TimeInv'
<1>1. /\ worker'[w] = r
      /\ \A v \in Workers : v # w => worker'[v] = worker[v]
  BY WorkerSet DEF RunTypeOK
<1>2. /\ Tenfold' = Tenfold
      /\ baseline' = baseline => AverageDelay' = AverageDelay
  BY DEF Tenfold, AverageDelay, TotalTime, Milliseconds, Averaged
<1> QED
  BY <1>1, <1>2 DEF TimeInv, Times, Busy

LEMMA TimeStep == TimeInv /\ RunInv /\ [CampaignNext]_vars => TimeInv'
<1> SUFFICES ASSUME TimeInv, RunInv, [CampaignNext]_vars PROVE TimeInv'
  OBVIOUS
<1>1. RunTypeOK /\ worker \in [Workers -> Worker] /\ baseline \in Times
  BY DEF RunInv, RunTypeOK, TimeInv, Times
<1>2. ASSUME NEW w \in Workers, TakeIteration(w) PROVE TimeInv'
  <2> DEFINE r == [Idle EXCEPT !.pc = "send", !.i = next]
  <2>1. r \in Worker /\ r.pc = "send" /\ ~r.killed
    BY <1>1 DEF Idle, Worker, RunTypeOK
  <2> QED
    BY <1>1, <1>2, <2>1, TimeWorker DEF TakeIteration
<1>3. ASSUME NEW w \in Workers, Send(w) PROVE TimeInv'
  <2>1. PICK d \in Durations \cup (IF phase = "inject" THEN {NeverEnds}
                                   ELSE {}) :
          worker' = [worker EXCEPT ![w].pc = "poll", ![w].lasts = d,
                                   ![w].killed = FALSE]
    BY <1>3 DEF Send
  <2> DEFINE r == [worker[w] EXCEPT !.pc = "poll", !.lasts = d,
                                    !.killed = FALSE]
  <2>2. r \in Worker /\ r.pc = "poll" /\ r.lasts = d /\ ~r.killed
    BY <1>1 DEF Worker
  <2>3. worker' = [worker EXCEPT ![w] = r]
    BY <1>1, <2>1
  <2>4. phase \in {"baseline", "failed"} => d \in Durations
    BY <2>1
  <2> HIDE DEF r
  <2> QED
    BY <1>1, <1>3, <2>2, <2>3, <2>4, TimeWorker DEF Send, files
<1>4. ASSUME NEW w \in Workers, SendFails(w) PROVE TimeInv'
  <2>1. CASE phase = "baseline"
    BY <1>1, <1>4, <2>1, IdleWorker, TimeWorker DEF SendFails, Idle
  <2>2. CASE phase # "baseline"
    <3>1. UNCHANGED <<phase, worker, baseline, maxDelay>>
      BY <1>4, <2>2 DEF SendFails
    <3> QED
      BY <3>1 DEF TimeInv, Busy, Tenfold, AverageDelay, TotalTime,
                  Milliseconds, Averaged
  <2> QED
    BY <2>1, <2>2
<1>5. ASSUME NEW w \in Workers, Kill(w) PROVE TimeInv'
  <2> DEFINE r == [worker[w] EXCEPT !.killed = TRUE]
  <2>1. worker[w] \in Worker /\ phase = "inject" /\ worker[w].pc = "poll"
        /\ (worker[w].lasts = NeverEnds \/ worker[w].lasts >= Tenfold)
    BY <1>1, <1>5 DEF Kill, Overdue, LongerThanTenfold
  <2>2. r \in Worker /\ r.pc = "poll" /\ r.lasts = worker[w].lasts
    BY <2>1 DEF Worker
  <2>3. worker' = [worker EXCEPT ![w] = r]
    BY <1>5 DEF Kill
  <2> HIDE DEF r
  <2> QED
    BY <1>1, <1>5, <2>1, <2>2, <2>3, TimeWorker DEF Kill
<1>6. ASSUME NEW w \in Workers, ReceiveBaseline(w) PROVE TimeInv'
  <2> DEFINE e == [warm |-> worker[w].i < 2, time |-> worker[w].lasts]
  <2>1. phase = "baseline" /\ worker[w].lasts \in Durations
    BY <1>6 DEF ReceiveBaseline, Answered, TimeInv
  <2>2. e \in [warm : BOOLEAN, time : Durations]
    BY <2>1
  <2>3. baseline' \in Times
    <3> HIDE DEF e
    <3>1. baseline' = Append(baseline, e)
      BY <1>6 DEF ReceiveBaseline, e
    <3> QED
      BY <1>1, <2>2, <3>1 DEF Times
  <2> QED
    BY <1>1, <1>6, <2>1, <2>3, IdleWorker, TimeWorker
       DEF ReceiveBaseline, Idle
<1>7. ASSUME NEW w \in Workers, ReceiveInjection(w) PROVE TimeInv'
  <2>1. phase = "inject" /\ worker[w] \in Worker
        /\ UNCHANGED <<phase, maxDelay, baseline>>
    BY <1>1, <1>7 DEF ReceiveInjection
  <2>2. CASE worker' = [worker EXCEPT ![w] = Idle]
    BY <1>1, <2>1, <2>2, IdleWorker, TimeWorker DEF Idle
  <2>3. CASE worker' = [worker EXCEPT ![w].pc = "send"]
    <3> DEFINE r == [worker[w] EXCEPT !.pc = "send"]
    <3>1. r \in Worker /\ r.pc = "send" /\ r.lasts = worker[w].lasts
          /\ r.killed = worker[w].killed
      BY <2>1 DEF Worker
    <3>2. worker' = [worker EXCEPT ![w] = r]
      BY <2>3
    <3>3. worker[w].killed => worker[w].lasts = NeverEnds
                              \/ worker[w].lasts >= Tenfold
      BY DEF TimeInv
    <3> HIDE DEF r
    <3> QED
      BY <1>1, <2>1, <3>1, <3>2, <3>3, TimeWorker
  <2> QED
    BY <1>7, <2>2, <2>3 DEF ReceiveInjection
<1>8. CASE EndBaseline
  <2>1. /\ \A w \in Workers : ~Busy(w) /\ worker[w] = Idle
        /\ UNCHANGED <<worker, baseline>>
        /\ phase' \in {"failed", "inject"}
    BY <1>8 DEF EndBaseline, LoopOver, TimeInv, Busy
  <2>2. \A w \in Workers : worker'[w] = Idle /\ ~worker'[w].killed
                           /\ worker'[w].pc = "idle"
    <3>1. ~Idle.killed /\ Idle.pc = "idle"
      BY DEF Idle
    <3>2. \A w \in Workers : worker'[w] = Idle
      BY <2>1
    <3> QED
      BY <3>1, <3>2
  <2>3. maxDelay' \in Nat
        /\ (phase' = "inject" /\ Len(baseline) > 2 =>
                maxDelay' = IF AverageDelay <= 0 THEN 1 ELSE AverageDelay)
    <3>1. AverageDelay \in Nat /\ MaxInt \in Nat /\ Len(baseline) \in Nat
      BY <1>1, AverageType, AveragedEntries, IntLimit
    <3>2. CASE UNCHANGED maxDelay /\ phase' = "failed"
      BY <3>2 DEF TimeInv
    <3>3. CASE /\ phase' = "inject"
               /\ \E avg \in IF Len(baseline) = 2 THEN NotANumber
                             ELSE {AverageDelay} :
                    maxDelay' = IF avg <= 0 THEN 1 ELSE avg
      <4> DEFINE k == Len(baseline)
                 d == AverageDelay
      <4>1. k \in Nat /\ d \in Nat
        BY <3>1
      <4>2. PICK avg : /\ avg \in IF k = 2 THEN NotANumber ELSE {d}
                       /\ maxDelay' = IF avg <= 0 THEN 1 ELSE avg
        BY <3>3
      <4> HIDE DEF k, d
      <4>3. avg \in Int /\ (k > 2 => avg = d)
        <5>1. CASE k = 2
          <6> HIDE DEF MaxInt
          <6> QED
            BY <3>1, <4>2, <5>1 DEF NotANumber
        <5>2. CASE k # 2
          BY <4>1, <4>2, <5>2
        <5> QED
          BY <5>1, <5>2
      <4>4. maxDelay' \in Nat
            /\ (k > 2 => maxDelay' = IF d <= 0 THEN 1 ELSE d)
        BY <4>1, <4>2, <4>3
      <4> QED
        BY <4>4 DEF k, d
    <3> QED
      BY <1>8, <3>2, <3>3 DEF EndBaseline
  <2>4. AverageDelay' = AverageDelay
    BY <2>1 DEF AverageDelay, TotalTime, Milliseconds, Averaged
  <2> QED
    BY <1>1, <2>1, <2>2, <2>3, <2>4 DEF TimeInv, Times
<1>9. CASE \/ EndInjection \/ AnalyzeRun \/ EndAnalysis \/ Finished
           \/ UNCHANGED vars
  <2>1. UNCHANGED <<worker, baseline, maxDelay>>
    BY <1>9 DEF EndInjection, AnalyzeRun, EndAnalysis, Finished, vars
  <2>2. \/ phase' = phase
        \/ phase = "inject" /\ phase' = "analyze"
        \/ phase = "analyze" /\ phase' = "done"
    BY <1>9 DEF EndInjection, AnalyzeRun, EndAnalysis, Finished, vars
  <2>3. AverageDelay' = AverageDelay /\ Tenfold' = Tenfold
    BY <2>1 DEF AverageDelay, TotalTime, Milliseconds, Averaged, Tenfold
  <2> QED
    BY <2>1, <2>2, <2>3 DEF TimeInv, Busy
<1> QED
  BY <1>2, <1>3, <1>4, <1>5, <1>6, <1>7, <1>8, <1>9
     DEF CampaignNext, RunnerNext

LEMMA TimeAlways == CampaignSafe => []TimeInv
<1>1. CampaignInit => TimeInv
  BY DEF CampaignInit, TimeInv, Idle, Busy
<1> QED
  BY <1>1, TimeStep, RunAlways, PTL DEF CampaignSafe

\* If no target takes so long that ten times its time overflows the int of
\* the deadline (fij_ioctls.cpp:109), a target that ends by itself is killed
\* only if it takes longer than some fault-free run did.
THEOREM SlowAreKilled ==
  ASSUME \A d \in Durations : 10 * d <= MaxInt
  PROVE  CampaignSafe => []KillsOnlySlow
<1>1. TimeInv /\ RunInv => KillsOnlySlow
  <2> SUFFICES ASSUME TimeInv, RunInv, NEW w \in Workers, worker[w].killed,
                      worker[w].lasts # NeverEnds, Len(baseline) > 2,
                      \A n \in DOMAIN baseline :
                            ~(worker[w].lasts > baseline[n].time)
               PROVE  FALSE
    BY DEF KillsOnlySlow
  <2> DEFINE t == worker[w].lasts
             hi == MaxInt - 1
  <2>1. baseline \in Times /\ 3 <= Len(baseline)
    <3>1. baseline \in Times
      BY DEF TimeInv, Times
    <3>2. Len(baseline) \in Nat
      BY <3>1, AveragedEntries
    <3> QED
      BY <3>1, <3>2
  <2>2. t \in Durations /\ t \in Nat \ {0}
    BY CampaignAssumption DEF RunInv, RunTypeOK, Worker
  <2>3. hi \in Nat /\ \A d \in Durations : d \in Nat /\ d <= hi
    <3>1. \A d \in Durations : d \in Nat \ {0} /\ 10 * d <= MaxInt
      BY CampaignAssumption
    <3>2. MaxInt \in Nat \ {0}
      BY <2>2, <3>1, IntLimit
    <3> QED
      BY <3>1, <3>2
  <2>4. \A n \in DOMAIN Averaged : /\ t <= Averaged[n].time
                                   /\ Averaged[n].time <= hi
    <3> TAKE n \in DOMAIN Averaged
    <3>1. n + 2 \in DOMAIN baseline /\ Averaged[n] = baseline[n + 2]
          /\ Averaged[n].time \in Durations
      BY <2>1, AveragedEntries
    <3> QED
      BY <2>2, <2>3, <3>1
  <2>5. AverageDelay \in Nat /\ t <= AverageDelay /\ AverageDelay <= hi
    <3> HIDE DEF t, hi
    <3> QED
      BY <2>1, <2>2, <2>3, <2>4, AverageBounds
  <2>6. phase \notin {"baseline", "failed"}
    BY DEF TimeInv
  <2>7. maxDelay = AverageDelay
    BY <2>2, <2>5, <2>6 DEF TimeInv
  <2>8. maxDelay # MaxInt /\ t >= Tenfold
    BY <2>5, <2>7, IntLimit DEF TimeInv
  <2> QED
    BY <2>2, <2>5, <2>7, <2>8 DEF Tenfold
<1> QED
  BY <1>1, TimeAlways, RunAlways, PTL

-----------------------------------------------------------------------------
(* The files of the runs, and the classes they are counted in.             *)

LEMMA FilesStep == FilesInv /\ RunInv /\ [CampaignNext]_vars => FilesInv'
<1> SUFFICES ASSUME FilesInv, RunInv, [CampaignNext]_vars PROVE FilesInv'
  OBVIOUS
<1>1. ASSUME NEW w \in Workers, ReceiveInjection(w) PROVE FilesInv'
  <2> DEFINE i == worker[w].i
  <2>1. /\ i \in Iterations /\ ~logged[i].injected
        /\ logged \in [Iterations -> Verdicts]
    <3>1. RunsShared /\ Busy(w) /\ worker[w] \in Worker
      BY <1>1 DEF ReceiveInjection, Answered, Busy, RunInv, RunTypeOK
    <3>2. i \in Nat
      BY <3>1 DEF Worker
    <3> QED
      BY <3>1, <3>2, CampaignAssumption
         DEF RunsShared, RunInv, RunTypeOK, Iterations
  <2> HIDE DEF i
  <2>2. PICK v \in Verdicts, new \in Outputs :
          /\ output' = [output EXCEPT ![i] = Overwritten(@, new)]
          /\ IF v.injected
             THEN /\ logged' = [logged EXCEPT ![i] = v]
                  /\ wrote' = [wrote EXCEPT ![i] = IF v.ok THEN new ELSE @]
             ELSE UNCHANGED <<logged, wrote>>
    BY <1>1 DEF ReceiveInjection, Answers, FaultInjected, i
  <2>3. golden' = golden
    BY <1>1 DEF ReceiveInjection
  <2>4. wrote[i] = "none" /\ output[i] \in Outputs
    BY <2>1 DEF FilesInv
  <2>5. /\ output' \in [Iterations -> Outputs]
        /\ output'[i] = IF new = "none" THEN output[i] ELSE new
        /\ \A j \in Iterations : j # i => output'[j] = output[j]
    BY <2>1, <2>2, <2>4 DEF FilesInv, Overwritten
  <2>6. /\ wrote' \in [Iterations -> Outputs]
        /\ wrote'[i] = IF v.injected /\ v.ok THEN new ELSE "none"
        /\ logged'[i].injected = v.injected
        /\ \A j \in Iterations : j # i => wrote'[j] = wrote[j]
                                          /\ logged'[j] = logged[j]
    BY <2>1, <2>2, <2>4 DEF FilesInv, Verdicts
  <2> QED
    BY <2>3, <2>5, <2>6 DEF FilesInv
<1>2. ASSUME NEW w \in Workers, SendFails(w) \/ ReceiveBaseline(w)
      PROVE  FilesInv'
  <2>1. UNCHANGED <<output, wrote, logged>> /\ golden' \in References
    BY <1>2 DEF SendFails, ReceiveBaseline, FilesInv, References
  <2> QED
    BY <2>1 DEF FilesInv
<1>3. CASE UNCHANGED <<files, logged>>
  BY <1>3 DEF FilesInv, files
<1> QED
  BY <1>1, <1>2, <1>3 DEF CampaignNext, RunnerNext, TakeIteration, Send, Kill,
        EndBaseline, EndInjection, AnalyzeRun, EndAnalysis, Finished, vars

LEMMA FilesAlways == CampaignSafe => []FilesInv
<1>1. CampaignInit => FilesInv
  BY DEF CampaignInit, FilesInv, Outputs, References
<1> QED
  BY <1>1, FilesStep, RunAlways, PTL DEF CampaignSafe

LEMMA StatsAlways == CampaignSafe => []StatsInv
<1>1. CampaignInit => StatsInv
  BY DEF CampaignInit, StatsInv, NoStats, Classes, Places
<1> QED
  BY <1>1, StatsStep, RunAlways, PTL DEF CampaignSafe

LEMMA ClassFinite ==
  ASSUME NEW c
  PROVE  IsFiniteSet(OfClass(c))
<1>1. IsFiniteSet(Iterations)
  BY CampaignAssumption, FS_Interval DEF Iterations
<1>2. OfClass(c) \in SUBSET Iterations
  BY DEF OfClass
<1> QED
  BY <1>1, <1>2, FS_Subset

\* The analysis counts one more run, in its class.
LEMMA CountRun ==
  ASSUME RunInv, StatsInv, AnalyzeRun,
         \A c \in Classes : stats.count[c] = Cardinality(OfClass(c)),
         NEW c \in Classes
  PROVE  stats'.count[c] = Cardinality(OfClass(c)')
<1> DEFINE k == Class(next)
<1>1. /\ next \in Iterations /\ next' = next + 1 /\ next \in Nat
      /\ UNCHANGED <<logged, output, golden>>
  BY CampaignAssumption DEF AnalyzeRun, RunInv, RunTypeOK, Iterations, files
<1>2. stats' = Counted(stats, k, Place(next))
  BY <1>1 DEF AnalyzeRun, RunInv, AllLogged
<1>3. k \in Classes
  <2>1. logged[next] \in Verdicts
    BY <1>1 DEF RunInv, RunTypeOK
  <2> QED
    BY <2>1 DEF Class, Classes, Verdicts
<1>4. \A i \in Iterations : Class(i)' = Class(i)
  BY <1>1 DEF Class, Mismatch
<1>5. OfClass(c)' = IF c = k THEN OfClass(c) \cup {next} ELSE OfClass(c)
  BY <1>1, <1>4 DEF OfClass, Iterations
<1>6. next \notin OfClass(c)
  BY <1>1 DEF OfClass
<1>7. stats'.count[c] = IF c = k THEN stats.count[c] + 1 ELSE stats.count[c]
  <2> HIDE DEF k
  <2> QED
    BY <1>2, <1>3 DEF Counted, StatsInv
<1>8. IsFiniteSet(OfClass(c))
  BY ClassFinite
<1> DEFINE S == OfClass(c)
<1>9. Cardinality(S \cup {next}) = Cardinality(S) + 1
  <2> HIDE DEF S
  <2>1. IsFiniteSet(S) /\ next \notin S
    BY <1>6, <1>8 DEF S
  <2> QED
    BY <2>1, FS_AddElement
<1> HIDE DEF k
<1> QED
  BY <1>5, <1>7, <1>9

LEMMA NothingCounted ==
  ASSUME NEW a \in Nat, NEW b \in Nat, NEW c \in Nat, NEW d \in Nat,
         a + b + c + d = 0
  PROVE  a = 0 /\ b = 0 /\ c = 0 /\ d = 0
OBVIOUS

LEMMA CountStep ==
  CountInv /\ StatsInv /\ RunInv /\ [CampaignNext]_vars => CountInv'
<1> SUFFICES ASSUME CountInv, StatsInv, RunInv, [CampaignNext]_vars
             PROVE  CountInv'
  OBVIOUS
<1>1. CASE AnalyzeRun
  BY <1>1, CountRun DEF CountInv, AnalyzeRun
<1>2. CASE EndInjection
  <2>1. phase' = "analyze" /\ next' = 0 /\ stats' = stats /\ stats.total = 0
    BY <1>2 DEF EndInjection, StatsInv
  <2>2. \A c \in Classes : stats.count[c] = 0
    <3> DEFINE n == stats.count
    <3>1. n \in [Classes -> Nat]
          /\ n["BENIGN"] + n["HANG"] + n["CRASH"] + n["SDC"] = 0
      BY <2>1 DEF StatsInv
    <3> HIDE DEF n
    <3>2. n["BENIGN"] \in Nat /\ n["HANG"] \in Nat /\ n["CRASH"] \in Nat
          /\ n["SDC"] \in Nat
      BY <3>1 DEF Classes
    <3>3. n["BENIGN"] = 0 /\ n["HANG"] = 0 /\ n["CRASH"] = 0 /\ n["SDC"] = 0
      BY <3>1, <3>2, NothingCounted
    <3> QED
      BY <3>3 DEF n, Classes
  <2>3. \A c : OfClass(c)' = {}
    BY <2>1 DEF OfClass, Iterations
  <2> QED
    BY <2>1, <2>2, <2>3, FS_EmptySet DEF CountInv
<1>3. CASE /\ UNCHANGED <<next, stats, logged, output, golden>>
           /\ phase' = phase \/ (phase = "analyze" /\ next = Runs)
  <2>1. \A c : OfClass(c)' = OfClass(c)
    BY <1>3 DEF OfClass, Class, Mismatch
  <2> QED
    BY <1>3, <2>1 DEF CountInv
<1>4. CASE phase' \notin {"analyze", "done"}
  BY <1>4 DEF CountInv
<1>5. ASSUME NEW w \in Workers, Send(w) \/ SendFails(w) PROVE CountInv'
  BY <1>3, <1>4, <1>5 DEF Send, SendFails, files
<1>6. ASSUME NEW w \in Workers,
             \/ TakeIteration(w) \/ Kill(w)
             \/ ReceiveBaseline(w) \/ ReceiveInjection(w)
      PROVE  CountInv'
  BY <1>4, <1>6 DEF TakeIteration, Kill, Overdue, ReceiveBaseline,
                    ReceiveInjection
<1>7. CASE EndBaseline
  BY <1>4, <1>7 DEF EndBaseline
<1>8. CASE EndAnalysis \/ Finished \/ UNCHANGED vars
  BY <1>3, <1>8 DEF EndAnalysis, Finished, vars, files
<1> QED
  BY <1>1, <1>2, <1>5, <1>6, <1>7, <1>8 DEF CampaignNext, RunnerNext

LEMMA CountAlways == CampaignSafe => []CountInv
<1>1. CampaignInit => CountInv
  BY DEF CampaignInit, CountInv
<1> QED
  BY <1>1, CountStep, StatsAlways, RunAlways, PTL DEF CampaignSafe

\* Every variable of the campaign has its type; in the injection loop the
\* index of a thread is that of a run that was asked for (fij_run.cpp:289),
\* and the deadline is a number whatever the average of the times is.
THEOREM CampaignTypes == CampaignSafe => []CampaignTypeOK
<1>1. RunInv /\ TimeInv /\ FilesInv /\ StatsInv => CampaignTypeOK
  <2> SUFFICES ASSUME RunInv, TimeInv, FilesInv, StatsInv
               PROVE  CampaignTypeOK
    OBVIOUS
  <2>1. ASSUME phase = "inject", NEW w \in Workers
        PROVE  worker[w].i \in Iterations
    <3>1. worker[w].i \in Nat
      BY DEF RunInv, RunTypeOK, Worker
    <3>2. CASE Busy(w)
      BY <2>1, <3>1, <3>2, CampaignAssumption
         DEF RunInv, RunTypeOK, RunsShared, Iterations
    <3>3. CASE ~Busy(w)
      BY <3>3, CampaignAssumption DEF TimeInv, Idle, Iterations
    <3> QED
      BY <3>2, <3>3
  <2>2. /\ baseline \in Seq([warm : BOOLEAN, time : Durations])
        /\ maxDelay \in Nat
    BY DEF TimeInv
  <2> QED
    BY <2>1, <2>2
       DEF RunInv, RunTypeOK, FilesInv, StatsInv, CampaignTypeOK
<1> QED
  BY <1>1, RunAlways, TimeAlways, FilesAlways, StatsAlways, PTL

\* A run that exits with 0 and writes files that are not the golden ones is
\* counted as a silent corruption, one that writes the golden ones as benign
\* (campaign_analyzer.cpp:210), although attempts that were repeated have
\* written the same directory before.
THEOREM CorruptionIsSeen == CampaignSafe => []CorruptionSeen
<1>1. RunInv /\ FilesInv /\ CountInv => CorruptionSeen
  <2> SUFFICES ASSUME RunInv, FilesInv, CountInv, phase = "done",
                      golden = "golden"
               PROVE  /\ stats.count["SDC"] >= Cardinality(Ending("wrong"))
                      /\ stats.count["BENIGN"] >= Cardinality(Ending("golden"))
    BY DEF CorruptionSeen
  <2>1. next = Runs /\ \A i \in Iterations : i < next
    BY CampaignAssumption DEF CountInv, Iterations
  <2>2. Ending("wrong") \in SUBSET OfClass("SDC")
    BY <2>1 DEF Ending, OfClass, Class, Mismatch, FilesInv
  <2>3. Ending("golden") \in SUBSET OfClass("BENIGN")
    BY <2>1 DEF Ending, OfClass, Class, Mismatch, FilesInv
  <2>4. /\ stats.count["SDC"] = Cardinality(OfClass("SDC"))
        /\ stats.count["BENIGN"] = Cardinality(OfClass("BENIGN"))
    BY DEF CountInv, Classes
  <2>5. ASSUME NEW c, NEW S \in SUBSET OfClass(c)
        PROVE  Cardinality(OfClass(c)) >= Cardinality(S)
    <3> DEFINE T == OfClass(c)
    <3>1. IsFiniteSet(T)
      BY ClassFinite
    <3>2. /\ Cardinality(S) <= Cardinality(T)
          /\ Cardinality(S) \in Nat /\ Cardinality(T) \in Nat
      <4> HIDE DEF T
      <4> QED
        BY <2>5, <3>1, FS_Subset, FS_CardinalityType DEF T
    <3> QED
      BY <3>2
  <2> QED
    BY <2>2, <2>3, <2>4, <2>5
<1> QED
  BY <1>1, RunAlways, FilesAlways, CountAlways, PTL
=============================================================================
