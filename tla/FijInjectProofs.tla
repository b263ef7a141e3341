--------------------------- MODULE FijInjectProofs ---------------------------
(***************************************************************************)
(* What an injection guarantees on every tree of processes, with any       *)
(* number of threads, forks and exits, and for all parameters.             *)
(***************************************************************************)
EXTENDS FijInject, TLAPS

-----------------------------------------------------------------------------
(* The array of targets.                                                   *)

\* The numbers that the bound rests on.
RoomInv ==
    /\ count \in Nat
    /\ capacity \in Nat
    /\ targets \in Seq(Pids)
    /\ Fits

LEMMA RoomStep == RoomInv /\ [Next]_vars => RoomInv'
<1> SUFFICES ASSUME RoomInv, [Next]_vars PROVE RoomInv'
  OBVIOUS
<1> USE DEF RoomInv, Fits
<1>1. CASE Resolve
  BY <1>1 DEF Resolve, Goes
<1>2. CASE Count
  BY <1>2 DEF Count
<1>3. CASE Counted
  BY <1>3 DEF Counted, Goes
<1>4. CASE Size
  <2>1. CASE capacity' = (IF capacity < Total THEN Total ELSE capacity)
             /\ targets' = <<Root>>
    <3>1. Root \in Pids
      BY TreeAssumption DEF Root, Pids
    <3>2. targets' \in Seq(Pids) /\ Len(targets') = 1
      BY <2>1, <3>1
    <3>3. capacity' \in Nat /\ capacity' >= 1
      BY <2>1 DEF Total
    <3> QED
      BY <1>4, <3>2, <3>3 DEF Size
  <2>2. CASE pc' = "done" /\ UNCHANGED <<capacity, targets>>
    BY <1>4, <2>2 DEF Size
  <2> QED
    BY <1>4, <2>1, <2>2 DEF Size, Goes
<1>5. CASE Collect
  <2>1. Len(targets) < capacity
    BY <1>5 DEF Collect, Room
  <2>2. CASE \E c \in Pids : targets' = Append(targets, c)
    BY <1>5, <2>1, <2>2 DEF Collect
  <2>3. CASE UNCHANGED targets
    BY <1>5, <2>1, <2>3 DEF Collect
  <2> QED
    BY <1>5, <2>2, <2>3 DEF Collect
<1>6. CASE Collected
  BY <1>6 DEF Collected, Goes
<1>7. CASE \/ ChooseProcess \/ CountThreads \/ GrabThread \/ GroupStop
           \/ FindLeader \/ NextThread \/ WaitStopped \/ FlipRegister
           \/ FlipMemory \/ Continue
  <2>1. WalkUnchanged
    BY <1>7 DEF ChooseProcess, CountThreads, GrabThread, GroupStop,
                FindLeader, NextThread, WaitStopped, FlipRegister,
                FlipMemory, Continue
  <2>2. pc' # "collect"
    BY <1>7 DEF ChooseProcess, CountThreads, GrabThread, GroupStop,
                FindLeader, NextThread, WaitStopped, FlipRegister,
                FlipMemory, Continue, Fails, Flipped, AfterThread, Goes
  <2> QED
    BY <2>1, <2>2 DEF WalkUnchanged
<1>8. CASE TreeChanges
  BY <1>8 DEF TreeChanges
<1>9. CASE MonitorEnds \/ Rest \/ UNCHANGED vars
  BY <1>9 DEF MonitorEnds, Rest, vars, collectVars
<1> QED
  BY <1>1, <1>2, <1>3, <1>4, <1>5, <1>6, <1>7, <1>8, <1>9
     DEF Next, InjectNext, CollectNext

LEMMA RoomAlways == InjectSafe => []RoomInv
<1>1. InjectInit => RoomInv
  BY KeptAssumption DEF InjectInit, CollectInit, RoomInv, Fits
<1> QED
  BY <1>1, RoomStep, PTL DEF InjectSafe

\* What is collected fits the array, however the tree grows between the two
\* passes of fij_collect_descendants (processes.c:79, :102).
THEOREM CollectedFits == InjectSafe => []Fits
<1>1. RoomInv => Fits
  BY DEF RoomInv
<1> QED
  BY <1>1, RoomAlways, PTL

-----------------------------------------------------------------------------
(* The flips.                                                              *)

\* Steps that neither draw nor flip leave what was hit alone; the steps of
\* the walk stay before the draw or end the injection.
LEMMA WalkHits ==
  ASSUME HitInv, CollectNext, UNCHANGED injectVars
  PROVE  HitInv'
<1> USE DEF HitInv, HitTypeOK, Unhit, injectVars, FlippedOnce
<1>1. pc \in CollectPcs /\ pc' \in CollectPcs \cup {"choose", "done"}
  BY DEF CollectNext, Resolve, Count, Counted, Size, Collect, Collected,
         CollectPcs, Goes
<1>2. ToCome' = {}
  BY <1>1 DEF ToCome, CollectPcs
<1> QED
  BY <1>1, <1>2

\* Whatever is read from the array is a number a process may have.
LEMMA DrawnProcess ==
  ASSUME RoomInv, ChooseProcess
  PROVE  tgid' \in Procs
<1>1. PICK i \in Int : i >= 0 /\ tgid' \in Entry(i)
  <2>1. params' \in Params
    BY ParamAssumption DEF ChooseProcess
  <2>2. params'.nprocess \in Int
    BY <2>1 DEF Params
  <2> QED
    BY <2>2 DEF ChooseProcess, Accepted, RoomInv
<1>2. CASE i < Len(targets)
  <2>1. i + 1 \in 1 .. Len(targets) /\ targets \in Seq(Pids)
    BY <1>1, <1>2 DEF RoomInv
  <2>2. targets[i + 1] \in Pids
    BY <2>1
  <2> QED
    BY <1>1, <1>2, <2>2, TreeAssumption DEF Entry, Pids, Procs
<1>3. CASE ~(i < Len(targets))
  BY <1>1, <1>3 DEF Entry
<1> QED
  BY <1>2, <1>3

\* Every step of the injection itself keeps the invariant.
LEMMA InjectHits ==
  ASSUME HitInv, RoomInv,
         \/ ChooseProcess \/ CountThreads \/ GrabThread
         \/ GroupStop \/ FindLeader \/ NextThread
         \/ WaitStopped \/ FlipRegister \/ FlipMemory \/ Continue
  PROVE  HitInv'
<1> USE DEF HitInv, HitTypeOK, Unhit, FlippedOnce, Goes
<1>1. CASE ChooseProcess
  <2>1. Unhit(tgid) /\ pc = "choose"
    BY <1>1 DEF ChooseProcess
  <2>2. \A p \in Procs : Unhit(p)
    BY <2>1
  <2>3. tgid' \in Procs
    BY <1>1, DrawnProcess
  <2> QED
    BY <1>1, <2>2, <2>3 DEF ChooseProcess, ToCome, CollectPcs
<1>2. CASE CountThreads \/ GroupStop
  BY <1>2 DEF CountThreads, GroupStop, injectVars, ToCome, CollectPcs
<1>3. CASE GrabThread
  <2>1. Nth(Eligible(tgid), pick) \subseteq 0 .. MaxThread
    BY TreeAssumption DEF Nth, Eligible, Threads
  <2>2. cur' \in 0 .. MaxThread
    BY <1>3, <2>1 DEF GrabThread
  <2> QED
    BY <1>3, <2>2 DEF GrabThread, ToCome, CollectPcs
<1>4. CASE FindLeader
  BY <1>4, TreeAssumption DEF FindLeader, ToCome, CollectPcs
<1>5. CASE NextThread
  <2>1. cur' \in 0 .. MaxThread /\ pc' \in {"cont", "wait"}
        /\ (pc' = "wait" => cur' > cur)
    BY <1>5, TreeAssumption
       DEF NextThread, Following, Listed, Eligible, Threads, Main
  <2> QED
    BY <1>5, <2>1 DEF NextThread, ToCome, CollectPcs, Threads
<1>6. CASE WaitStopped
  BY <1>6 DEF WaitStopped, Fails, AfterThread, ToCome, CollectPcs, Threads
<1>7. CASE FlipRegister
  <2>1. CASE UNCHANGED <<did_mem, regHits, memHits>>
    BY <1>7, <2>1 DEF FlipRegister, Fails, Flipped, AfterThread, ToCome,
                      CollectPcs, Threads
  <2>2. CASE /\ regHits' = [regHits EXCEPT ![tgid][cur] = @ + 1]
             /\ UNCHANGED <<did_mem, memHits>>
    <3>1. pc = "flip" /\ pc' \in {"next", "cont"} /\ UNCHANGED <<tgid, cur>>
      BY <1>7 DEF FlipRegister, Fails, Flipped, AfterThread
    <3>2. regHits' \in [Procs -> [Threads -> Nat]]
      <4> DEFINE one == [regHits[tgid] EXCEPT ![cur] = regHits[tgid][cur] + 1]
      <4>1. one \in [Threads -> Nat]
        <5>1. regHits[tgid] \in [Threads -> Nat]
          OBVIOUS
        <5> HIDE DEF HitInv, HitTypeOK, FlippedOnce, Unhit
        <5>2. CASE cur \in Threads
          BY <5>1, <5>2
        <5>3. CASE cur \notin Threads
          BY <5>1, <5>3
        <5> QED
          BY <5>2, <5>3
      <4>2. regHits' = [regHits EXCEPT ![tgid] = one]
        BY <2>2
      <4> QED
        BY <4>1, <4>2
    <3>3. \A p \in Procs, t \in Threads :
             regHits'[p][t] = IF p = tgid /\ t = cur THEN regHits[p][t] + 1
                              ELSE regHits[p][t]
      BY <2>2
    <3>4. cur \in Threads => regHits[tgid][cur] = 0
      BY <3>1 DEF ToCome, Threads
    <3>5. \A t \in ToCome' : t \in ToCome /\ t # cur
      BY <3>1 DEF ToCome, Threads
    <3> QED
      BY <2>2, <3>1, <3>2, <3>3, <3>4, <3>5 DEF CollectPcs, ToCome
  <2> QED
    BY <1>7, <2>1, <2>2 DEF FlipRegister, Fails
<1>8. CASE FlipMemory
  <2>1. pc = "flip" /\ pc' \in {"next", "cont"}
        /\ UNCHANGED <<tgid, cur, regHits>>
    BY <1>8 DEF FlipMemory, Fails, Flipped, AfterThread
  <2>2. \A t \in ToCome' : t \in ToCome
    BY <2>1 DEF ToCome, Threads
  <2>3. CASE UNCHANGED <<did_mem, memHits>>
    BY <2>1, <2>2, <2>3 DEF CollectPcs
  <2>4. CASE /\ ~did_mem
             /\ memHits' = [memHits EXCEPT ![tgid] = @ + 1]
             /\ did_mem' = TRUE
    <3>1. memHits[tgid] = 0
      BY <2>4
    <3> QED
      BY <2>1, <2>2, <2>4, <3>1 DEF CollectPcs
  <2> QED
    BY <1>8, <2>3, <2>4 DEF FlipMemory, Fails, Remembers
<1>9. CASE Continue
  BY <1>9 DEF Continue, injectVars, ToCome, CollectPcs
<1> QED
  BY <1>1, <1>2, <1>3, <1>4, <1>5, <1>6, <1>7, <1>8, <1>9

LEMMA HitStep == HitInv /\ RoomInv /\ [Next]_vars => HitInv'
<1> SUFFICES ASSUME HitInv, RoomInv, [Next]_vars PROVE HitInv'
  OBVIOUS
<1>1. CASE InjectNext
  BY <1>1, WalkHits, InjectHits DEF InjectNext
<1>2. CASE UNCHANGED <<pc, injectVars>>
  BY <1>2 DEF HitInv, HitTypeOK, Unhit, FlippedOnce, ToCome, injectVars
<1> QED
  BY <1>1, <1>2 DEF Next, TreeChanges, MonitorEnds, Rest, vars, collectVars

LEMMA HitAlways == InjectSafe => []HitInv
<1>1. InjectInit => HitInv
  BY TreeAssumption
     DEF InjectInit, CollectInit, HitInv, HitTypeOK, Unhit, FlippedOnce,
         ToCome, Procs, Outside
<1> QED
  BY <1>1, HitStep, RoomAlways, PTL DEF InjectSafe

\* One injection flips at most one bit of a thread's registers and one of a
\* process's memory, although the loop of all_threads (bitflip_ops.c:239)
\* draws for every thread anew.
THEOREM FlippedAtMostOnce == InjectSafe => []FlippedOnce
<1>1. HitInv => FlippedOnce
  BY DEF HitInv
<1> QED
  BY <1>1, HitAlways, PTL

-----------------------------------------------------------------------------
(* The stop.                                                               *)

\* What a step of the tree does to one thread of one process keeps the types
\* of the tree.
LEMMA ThreadSet ==
  ASSUME NEW p \in Procs, NEW t \in Threads, NEW s \in ThreadStates,
         thread \in [Procs -> [Threads -> ThreadStates]],
         thread' = [thread EXCEPT ![p][t] = s]
  PROVE  /\ thread' \in [Procs -> [Threads -> ThreadStates]]
         /\ \A q \in Procs, u \in Threads :
                thread'[q][u] = IF q = p /\ u = t THEN s ELSE thread[q][u]
<1>1. [thread[p] EXCEPT ![t] = s] \in [Threads -> ThreadStates]
  OBVIOUS
<1>2. thread' = [thread EXCEPT ![p] = [thread[p] EXCEPT ![t] = s]]
  OBVIOUS
<1> QED
  BY <1>1, <1>2

LEMMA SmallFacts ==
  /\ Root \in Pids /\ Pids \subseteq Procs /\ Main \in Threads
  /\ Outside \in Procs
  /\ {"none", "runs", "stopped", "ended"} = ThreadStates
BY TreeAssumption DEF Root, Pids, Procs, Main, Threads, Outside, ThreadStates

\* The tree changes: a fork inherits no stop, a thread stops only where one
\* is pending, and an exit leaves none behind.
LEMMA TreeStops ==
  ASSUME StopInv, TreeNext, UNCHANGED <<pc, tgid>>
  PROVE  StopInv'
<1> USE SmallFacts
<1> USE DEF StopInv, TreeTypeOK, UnbornRest, ReapedRest, Unstopped, Halting,
            Alive, Eligible, Born
<1>1. CASE \E p \in Pids : Fork(p)
  <2>1. PICK p \in Pids, c \in Pids :
          /\ ~Born(c)
          /\ thread' = [thread EXCEPT ![c][Main] = "runs"]
          /\ parent' = [parent EXCEPT ![c] = p]
          /\ origin' = [origin EXCEPT ![c] = p]
          /\ Event
          /\ UNCHANGED <<stopping, reaped>>
    BY <1>1 DEF Fork
  <2>2. /\ thread' \in [Procs -> [Threads -> ThreadStates]]
        /\ \A q \in Procs, u \in Threads :
              thread'[q][u] = IF q = c /\ u = Main THEN "runs"
                              ELSE thread[q][u]
    BY <2>1, ThreadSet
  <2>3. TreeTypeOK'
    BY <2>1, <2>2, TreeAssumption DEF Event
  <2>4. c \notin reaped /\ Unstopped(c)
    BY <2>1
  <2>5. \A q \in Procs : q # c => thread'[q] = thread[q]
    BY <2>1
  <2>6. UnbornRest'
    BY <2>1, <2>2, <2>5
  <2>7. ReapedRest'
    BY <2>1, <2>4, <2>5
  <2>8. Unstopped(c)'
    BY <2>1, <2>2, <2>4
  <2>9. \A q \in Procs : Alive(q)' =>
            Unstopped(q)' \/ (Halting' /\ q = tgid')
    BY <2>1, <2>5, <2>8
  <2> QED
    BY <2>3, <2>6, <2>7, <2>9
<1>2. CASE \E p \in Pids : NewThread(p)
  <2>1. PICK p \in Pids, u \in Threads :
          /\ Alive(p)
          /\ thread[p][u] = "none"
          /\ thread' = [thread EXCEPT ![p][u] = "runs"]
          /\ Event
          /\ UNCHANGED <<parent, origin, stopping, reaped>>
    BY <1>2 DEF NewThread
  <2>2. /\ thread' \in [Procs -> [Threads -> ThreadStates]]
        /\ \A q \in Procs, t \in Threads :
              thread'[q][t] = IF q = p /\ t = u THEN "runs" ELSE thread[q][t]
    BY <2>1, ThreadSet
  <2>3. TreeTypeOK'
    BY <2>1, <2>2, TreeAssumption DEF Event
  <2>4. p \notin reaped /\ Born(p)
    BY <2>1
  <2>5. \A q \in Procs : q # p => thread'[q] = thread[q]
    BY <2>1
  <2>6. Born(p)'
    BY <2>2, <2>4
  <2>7. UnbornRest' /\ ReapedRest'
    BY <2>1, <2>4, <2>5, <2>6
  <2>8. Unstopped(p) => Unstopped(p)'
    BY <2>1, <2>2
  <2>9. \A q \in Procs : Alive(q)' =>
            Unstopped(q)' \/ (Halting' /\ q = tgid')
    BY <2>1, <2>5, <2>8
  <2> QED
    BY <2>3, <2>7, <2>9
<1>3. ASSUME NEW p \in Pids, NEW T \in SUBSET Threads, Alive(p), End(p, T)
      PROVE  StopInv'
  <2> DEFINE ends == [t \in Threads |-> IF t \in T /\ thread[p][t] # "none"
                                        THEN "ended" ELSE thread[p][t]]
  <2>1. thread' = [thread EXCEPT ![p] = ends]
    BY <1>3 DEF End
  <2>2. ends \in [Threads -> ThreadStates]
    OBVIOUS
  <2>3. /\ thread' \in [Procs -> [Threads -> ThreadStates]]
        /\ \A q \in Procs : q # p => thread'[q] = thread[q]
        /\ \A t \in Threads :
              thread'[p][t] = IF t \in T /\ thread[p][t] # "none"
                              THEN "ended" ELSE thread[p][t]
    BY <2>1, <2>2
  <2>4. TreeTypeOK'
    BY <1>3, <2>3, TreeAssumption DEF End, Event
  <2>5. Born(p) /\ stopping' = stopping
    BY <1>3 DEF End
  <2>6. \A q \in Procs : /\ Born(q)' <=> Born(q)
                         /\ Alive(q)' => Alive(q)
                         /\ Unstopped(q) => Unstopped(q)'
    <3>1. TAKE q \in Procs
    <3>2. CASE q = p
      BY <2>3, <2>5, <3>2
    <3>3. CASE q # p
      BY <2>3, <2>5, <3>3
    <3> QED
      BY <3>2, <3>3
  <2>7. ReapedRest'
    <3>1. CASE reaped' = reaped
      BY <2>6, <3>1
    <3>2. CASE reaped' = reaped \cup {p} /\ Eligible(p) \subseteq T
      <4>1. ~Alive(p)'
        BY <2>3, <3>2
      <4> QED
        BY <2>5, <2>6, <3>2, <4>1
    <3> QED
      BY <1>3, <3>1, <3>2 DEF End
  <2>8. UnbornRest'
    <3>1. TAKE q \in Procs
    <3>2. q = p => Born(q)'
      BY <2>5, <2>6
    <3>3. q # p => thread'[q] = thread[q]
      BY <2>3
    <3> QED
      BY <2>5, <2>6, <3>2, <3>3
  <2>9. \A q \in Procs : Alive(q)' =>
            Unstopped(q)' \/ (Halting' /\ q = tgid')
    BY <2>6
  <2> QED
    BY <2>4, <2>7, <2>8, <2>9
<1>4. CASE \E p \in Pids : ThreadEnds(p)
  <2>1. PICK p \in Pids, t \in Threads : thread[p][t] = "runs" /\ End(p, {t})
    BY <1>4 DEF ThreadEnds
  <2> QED
    BY <1>3, <2>1
<1>5. CASE \E p \in Pids : ProcessEnds(p)
  BY <1>3, <1>5 DEF ProcessEnds
<1>6. CASE \E p \in Pids : Reap(p)
  BY <1>6 DEF Reap, Found
<1>7. CASE \E p \in Procs : ThreadStops(p)
  <2>1. PICK p \in Procs, t \in Threads :
          /\ p \in stopping
          /\ thread[p][t] = "runs"
          /\ thread' = [thread EXCEPT ![p][t] = "stopped"]
          /\ UNCHANGED <<parent, origin, stopping, reaped, events>>
    BY <1>7 DEF ThreadStops
  <2>2. /\ thread' \in [Procs -> [Threads -> ThreadStates]]
        /\ \A q \in Procs, u \in Threads :
              thread'[q][u] = IF q = p /\ u = t THEN "stopped"
                              ELSE thread[q][u]
    BY <2>1, ThreadSet
  <2>3. Halting /\ p = tgid
    BY <2>1
  <2>4. p \notin reaped
    BY <2>1
  <2>5. TreeTypeOK'
    BY <2>1, <2>2
  <2>6. \A q \in Procs : q # p => thread'[q] = thread[q]
    BY <2>1
  <2>7. Born(p) /\ Born(p)'
    BY <2>1, <2>2
  <2>8. UnbornRest' /\ ReapedRest'
    BY <2>1, <2>4, <2>6, <2>7
  <2>9. \A q \in Procs : Alive(q)' =>
            Unstopped(q)' \/ (Halting' /\ q = tgid')
    BY <2>1, <2>3, <2>6
  <2> QED
    BY <2>5, <2>8, <2>9
<1> QED
  BY <1>1, <1>2, <1>4, <1>5, <1>6, <1>7 DEF TreeNext

\* A SIGCONT makes the stopped threads of one process run again.
LEMMA SigcontTree ==
  ASSUME NEW p \in Procs, TreeTypeOK, Sigcont(p)
  PROVE  /\ TreeTypeOK'
         /\ Unstopped(p)'
         /\ \A q \in Procs : q # p => thread'[q] = thread[q]
         /\ \A q \in Procs : Born(q)' = Born(q)
         /\ \A q \in Procs : Alive(q)' => Alive(q)
         /\ \A q \in Procs, t \in Threads : thread[q][t] = "none"
                => thread'[q][t] = "none"
<1> USE SmallFacts DEF TreeTypeOK, Unstopped, Born, Alive, Eligible
<1> DEFINE goes_on == [t \in Threads |-> IF thread[p][t] = "stopped"
                                         THEN "runs" ELSE thread[p][t]]
<1>1. thread' = [thread EXCEPT ![p] = goes_on]
  BY DEF Sigcont
<1>2. goes_on \in [Threads -> ThreadStates]
  OBVIOUS
<1>3. /\ thread' \in [Procs -> [Threads -> ThreadStates]]
      /\ \A q \in Procs : q # p => thread'[q] = thread[q]
      /\ \A t \in Threads :
            thread'[p][t] = IF thread[p][t] = "stopped" THEN "runs"
                            ELSE thread[p][t]
  BY <1>1, <1>2
<1>4. TreeTypeOK'
  BY <1>3 DEF Sigcont
<1>5. Unstopped(p)'
  BY <1>3 DEF Sigcont
<1>6. \A t \in Threads : thread'[p][t] \in {"runs", "stopped"}
        => thread[p][t] \in {"runs", "stopped"}
  BY <1>3
<1>7. \A q \in Procs : Born(q)' = Born(q)
  BY <1>3
<1>8. \A q \in Procs : Alive(q)' => Alive(q)
  <2>1. TAKE q \in Procs
  <2>2. CASE q = p
    BY <1>6, <2>2
  <2>3. CASE q # p
    BY <1>3, <2>3
  <2> QED
    BY <2>2, <2>3
<1>9. \A q \in Procs, t \in Threads : thread[q][t] = "none"
        => thread'[q][t] = "none"
  BY <1>3
<1> QED
  BY <1>3, <1>4, <1>5, <1>7, <1>8, <1>9

\* The injection stops the process it has drawn, and leaves the part of the
\* code between the two signals only when it has resumed it or when it is
\* found no more.
LEMMA InjectStops ==
  ASSUME StopInv, RoomInv,
         \/ ChooseProcess \/ CountThreads \/ GrabThread
         \/ GroupStop \/ FindLeader \/ NextThread
         \/ WaitStopped \/ FlipRegister \/ FlipMemory \/ Continue
  PROVE  StopInv'
<1> USE SmallFacts
<1> USE DEF StopInv, TreeTypeOK, UnbornRest, ReapedRest, Unstopped, Halting,
            Alive, Eligible, Born, Goes, treeVars
<1>1. CASE ChooseProcess
  <2>1. tgid' \in Procs
    BY <1>1, DrawnProcess
  <2> QED
    BY <1>1, <2>1 DEF ChooseProcess
<1>2. CASE CountThreads \/ GrabThread
  BY <1>2 DEF CountThreads, GrabThread
<1>3. CASE GroupStop
  <2>1. CASE ~Found(tgid)
    BY <1>3, <2>1 DEF GroupStop, injectVars
  <2>2. CASE Found(tgid)
    <3>1. Born(tgid) /\ Sigstop(tgid) /\ Halting' /\ tgid' = tgid
      BY <1>3, <2>2 DEF GroupStop, Found, injectVars
    <3> QED
      BY <1>3, <3>1 DEF Sigstop, GroupStop
  <2> QED
    BY <2>1, <2>2
<1>4. CASE FindLeader
  <2>1. ~Found(tgid) => ~Alive(tgid)
    BY DEF Found
  <2> QED
    BY <1>4, <2>1 DEF FindLeader
<1>5. CASE NextThread
  BY <1>5 DEF NextThread
<1>6. CASE WaitStopped \/ FlipRegister \/ FlipMemory
  <2>1. Halting /\ Halting' /\ UNCHANGED <<treeVars, tgid>>
    BY <1>6 DEF WaitStopped, FlipRegister, FlipMemory, Fails, Flipped,
                AfterThread
  <2> QED
    BY <2>1
<1>7. CASE Continue
  <2>1. /\ Sigcont(tgid) /\ Halting /\ tgid' = tgid
        /\ TreeTypeOK /\ tgid \in Procs /\ UnbornRest /\ ReapedRest
        /\ \A q \in Procs : Alive(q) => Unstopped(q) \/ q = tgid
    BY <1>7 DEF Continue, Always, injectVars
  <2>2. /\ stopping' = stopping \ {tgid} /\ reaped' = reaped
        /\ reaped \subseteq Procs
    BY <2>1 DEF Sigcont
  <2> HIDE SmallFacts
  <2> HIDE DEF StopInv, TreeTypeOK, Born, Alive, Eligible, Halting,
               UnbornRest, ReapedRest, Unstopped
  <2>3. TreeTypeOK' /\ Unstopped(tgid)'
    BY <2>1, SigcontTree
  <2>4. \A q \in Procs : q # tgid => thread'[q] = thread[q]
    BY <2>1, SigcontTree
  <2>5. \A q \in Procs : Born(q)' = Born(q)
    BY <2>1, SigcontTree
  <2>6. \A q \in Procs : Alive(q)' => Alive(q)
    BY <2>1, SigcontTree
  <2>7. \A q \in Procs, t \in Threads : thread[q][t] = "none"
            => thread'[q][t] = "none"
    BY <2>1, SigcontTree
  <2>8. ASSUME NEW q \in Procs, q # tgid, Unstopped(q)
        PROVE  Unstopped(q)'
    <3>1. q \notin stopping' /\ thread'[q] = thread[q]
      BY <2>2, <2>4, <2>8 DEF Unstopped
    <3> QED
      BY <2>8, <3>1 DEF Unstopped
  <2>9. UnbornRest'
    BY <2>1, <2>2, <2>5, <2>7 DEF UnbornRest
  <2>10. ReapedRest'
    BY <2>1, <2>2, <2>5, <2>6 DEF ReapedRest
  <2>11. \A q \in Procs : Alive(q)' => Unstopped(q)'
    BY <2>1, <2>3, <2>6, <2>8
  <2> QED
    BY <2>1, <2>3, <2>9, <2>10, <2>11 DEF StopInv
<1> HIDE DEF StopInv, TreeTypeOK, UnbornRest, ReapedRest, Goes, treeVars
<1> QED
  BY <1>1, <1>2, <1>3, <1>4, <1>5, <1>6, <1>7

LEMMA StopStep == StopInv /\ RoomInv /\ [Next]_vars => StopInv'
<1> SUFFICES ASSUME StopInv, RoomInv, [Next]_vars PROVE StopInv'
  OBVIOUS
<1>1. CASE TreeChanges
  BY <1>1, TreeStops DEF TreeChanges, injectVars
<1>2. CASE CollectNext /\ UNCHANGED <<treeVars, injectVars, alive>>
  <2>1. ~Halting
    BY <1>2 DEF Halting, CollectNext, Resolve, Count, Counted, Size, Collect,
                Collected
  <2> QED
    BY <1>2, <2>1
       DEF StopInv, TreeTypeOK, UnbornRest, ReapedRest, Unstopped, Alive,
           Eligible, Born, treeVars, injectVars
<1>3. CASE \/ ChooseProcess \/ CountThreads \/ GrabThread
           \/ GroupStop \/ FindLeader \/ NextThread
           \/ WaitStopped \/ FlipRegister \/ FlipMemory \/ Continue
  BY <1>3, InjectStops
<1>4. CASE UNCHANGED <<pc, treeVars, injectVars>>
  BY <1>4 DEF StopInv, TreeTypeOK, UnbornRest, ReapedRest, Unstopped, Alive,
              Halting, Eligible, Born, treeVars, injectVars
<1>5. MonitorEnds \/ Rest \/ UNCHANGED vars =>
        UNCHANGED <<pc, treeVars, injectVars>>
  BY DEF MonitorEnds, Rest, vars, collectVars
<1> QED
  BY <1>1, <1>2, <1>3, <1>4, <1>5 DEF Next, InjectNext

LEMMA InitStops == InjectInit => StopInv
<1> SUFFICES ASSUME InjectInit PROVE StopInv
  OBVIOUS
<1> USE SmallFacts DEF InjectInit
<1>1. PICK n \in Pids, k \in [Pids -> Threads] :
        thread = [p \in Procs |-> [t \in Threads |->
                     IF p = Outside /\ t = Main THEN "runs"
                     ELSE IF p \in 1 .. n /\ t <= k[p] THEN "runs"
                     ELSE "none"]]
  BY DEF TreeInit
<1>2. /\ thread \in [Procs -> [Threads -> ThreadStates]]
      /\ \A p \in Procs, t \in Threads : thread[p][t] # "stopped"
  BY <1>1
<1>3. TreeTypeOK
  BY <1>2, TreeAssumption DEF TreeInit, TreeTypeOK
<1>4. ASSUME NEW p \in Procs, ~Born(p), NEW t \in Threads
      PROVE  thread[p][t] = "none"
  <2>1. p \in Pids
    BY <1>1, <1>4 DEF Born, Outside, Pids, Procs
  <2>2. k[p] \in Nat /\ Main <= k[p]
    BY <2>1 DEF Threads, Main
  <2>3. p \notin 1 .. n
    BY <1>1, <1>4, <2>1, <2>2 DEF Born
  <2> QED
    BY <1>1, <2>1, <2>3 DEF Pids, Outside
<1> QED
  BY <1>2, <1>3, <1>4
     DEF TreeInit, StopInv, UnbornRest, ReapedRest, Unstopped

LEMMA StopAlways == InjectSafe => []StopInv
BY InitStops, StopStep, RoomAlways, PTL DEF InjectSafe

\* Whatever fails between the SIGSTOP and the SIGCONT (bitflip_ops.c:334,
\* :356), an injection that is over leaves no process stopped.
THEOREM AllResumed == InjectSafe => []StoppedAreResumed
<1>1. StopInv => StoppedAreResumed
  BY DEF StopInv, StoppedAreResumed, Halting, Over, Unstopped
<1> QED
  BY <1>1, StopAlways, PTL

-----------------------------------------------------------------------------
(* The values of the variables and the references.                         *)

\* The walk keeps to the children it is reading.
LEMMA WalkStep == WalkKnown /\ [Next]_vars => WalkKnown'
<1> SUFFICES ASSUME WalkKnown, [Next]_vars PROVE WalkKnown'
  OBVIOUS
<1> USE SmallFacts DEF WalkKnown
<1> DEFINE Moved == path' \in Seq(Pids) /\ last' \in Procs
<1>1. ASSUME NEW c \in Pids, Enter(c) PROVE Moved
  BY <1>1 DEF Enter, Outside
<1>2. ASSUME Leave PROVE Moved
  <2>1. path # <<>> /\ path \in Seq(Pids)
    BY <1>2 DEF Leave
  <2>2. Here \in Pids
    BY <2>1 DEF Here
  <2> QED
    BY <1>2, <2>1, <2>2 DEF Leave, FromNext
<1>3. <<Root>> \in Seq(Pids) /\ 0 \in Procs /\ Reachable \subseteq Pids
  BY DEF Outside, Reachable
<1>4. CASE Resolve
  BY <1>3, <1>4 DEF Resolve
<1>5. CASE Count \/ Collect
  BY <1>1, <1>2, <1>5 DEF Count, Collect
<1>6. CASE Counted \/ Size \/ Collected
  BY <1>3, <1>6 DEF Counted, Size, Collected
<1>7. CASE TreeChanges
  BY <1>7 DEF TreeChanges
<1>8. CASE UNCHANGED <<path, last, steady, grown>>
  BY <1>8
<1>9. \/ ChooseProcess \/ CountThreads \/ GrabThread \/ GroupStop
      \/ FindLeader \/ NextThread \/ WaitStopped \/ FlipRegister
      \/ FlipMemory \/ Continue
      => UNCHANGED <<path, last, steady, grown>>
  BY DEF ChooseProcess, CountThreads, GrabThread, GroupStop, FindLeader,
         NextThread, WaitStopped, FlipRegister, FlipMemory, Continue,
         WalkUnchanged
<1>10. MonitorEnds \/ Rest \/ UNCHANGED vars
       => UNCHANGED <<path, last, steady, grown>>
  BY DEF MonitorEnds, Rest, vars, collectVars
<1> QED
  BY <1>4, <1>5, <1>6, <1>7, <1>8, <1>9, <1>10
     DEF Next, InjectNext, CollectNext

LEMMA DrawStep == DrawKnown /\ [Next]_vars => DrawKnown'
<1> SUFFICES ASSUME DrawKnown, [Next]_vars PROVE DrawKnown'
  OBVIOUS
<1> USE DEF DrawKnown
<1>1. CASE ChooseProcess
  BY <1>1, ParamAssumption DEF ChooseProcess
<1>2. CASE CountThreads
  <2>1. pick' \in Nat
    BY <1>2 DEF CountThreads
  <2> QED
    BY <1>2, <2>1 DEF CountThreads
<1>3. CASE WaitStopped \/ FlipRegister \/ FlipMemory
  <2>1. ASSUME NEW what \in {"reg", "mem"}, Flipped(what)
        PROVE  /\ result' \in [fault_injected : BOOLEAN,
                                flip : {"none", "reg", "mem"}]
               /\ first_err' = first_err
    BY <2>1 DEF Flipped, Reports, Params
  <2>2. UNCHANGED <<params, pick, alive>>
    BY <1>3 DEF WaitStopped, FlipRegister, FlipMemory
  <2>3. \/ Fails \/ Flipped("reg") \/ Flipped("mem")
        \/ UNCHANGED <<first_err, result>>
    BY <1>3 DEF WaitStopped, FlipRegister, FlipMemory
  <2> QED
    BY <2>1, <2>2, <2>3 DEF Fails, Failed
<1>4. CASE UNCHANGED <<params, pick, first_err, result, alive>>
  BY <1>4
<1>5. CASE MonitorEnds
  BY <1>5 DEF MonitorEnds, injectVars
<1>6. \/ CollectNext /\ UNCHANGED <<treeVars, injectVars, alive>>
      \/ GrabThread \/ GroupStop \/ FindLeader \/ NextThread
      \/ Continue \/ TreeChanges \/ Rest \/ UNCHANGED vars
      => UNCHANGED <<params, pick, first_err, result, alive>>
  BY DEF GrabThread, GroupStop, FindLeader, NextThread, Continue,
         TreeChanges, Rest, vars, injectVars
<1> QED
  BY <1>1, <1>2, <1>3, <1>4, <1>5, <1>6 DEF Next, InjectNext

\* The steps of the injection, and where each of them leads.
LEMMA WayStep == DrawKnown /\ WayKnown /\ [Next]_vars => WayKnown'
<1> SUFFICES ASSUME DrawKnown, WayKnown, [Next]_vars PROVE WayKnown'
  OBVIOUS
<1> USE DEF WayKnown, CollectPcs, InjectPcs, Goes
<1>1. CASE CollectNext /\ UNCHANGED <<treeVars, injectVars, alive>>
  <2>1. pc' \in {"resolve", "count", "size", "collect", "choose", "done"}
    BY <1>1 DEF CollectNext, Resolve, Count, Counted, Size, Collect, Collected
  <2> QED
    BY <2>1
<1>2. CASE ChooseProcess
  <2>1. params'.all \in BOOLEAN
    BY <1>2, ParamAssumption DEF ChooseProcess, Params
  <2>2. pc' = IF params'.all THEN "stop" ELSE "pick"
    BY <1>2 DEF ChooseProcess
  <2> QED
    BY <2>1, <2>2
<1>3. CASE CountThreads
  BY <1>3 DEF CountThreads
<1>4. CASE GrabThread
  BY <1>4 DEF GrabThread, Nth, Eligible
<1>5. CASE GroupStop
  BY <1>5 DEF GroupStop, injectVars
<1>6. CASE FindLeader
  BY <1>6 DEF FindLeader
<1>7. CASE NextThread
  <2>1. Following \subseteq Threads
    BY SmallFacts DEF Following, Listed, Eligible
  <2> QED
    BY <1>7, <2>1 DEF NextThread
<1>8. CASE WaitStopped \/ FlipRegister \/ FlipMemory
  <2>1. pc \in {"wait", "flip"}
        /\ (pc' = "flip" \/ pc' = IF params.all THEN "next" ELSE "cont")
    BY <1>8
       DEF WaitStopped, FlipRegister, FlipMemory, Fails, Flipped, AfterThread
  <2>2. UNCHANGED <<params, cur>>
    BY <1>8 DEF WaitStopped, FlipRegister, FlipMemory
  <2> QED
    BY <2>1, <2>2
<1>9. CASE Continue
  BY <1>9 DEF Continue, injectVars
<1>10. CASE UNCHANGED <<pc, params, cur>>
  BY <1>10
<1>11. TreeChanges \/ MonitorEnds \/ Rest \/ UNCHANGED vars
       => UNCHANGED <<pc, params, cur>>
  BY DEF TreeChanges, MonitorEnds, Rest, vars, injectVars, collectVars
<1> QED
  BY <1>1, <1>2, <1>3, <1>4, <1>5, <1>6, <1>7, <1>8, <1>9, <1>10, <1>11
     DEF Next, InjectNext

\* What each step takes it puts again.
LEMMA RefsStep ==
  DrawKnown /\ WayKnown /\ RefsKnown /\ [Next]_vars => RefsKnown'
<1> SUFFICES ASSUME DrawKnown, WayKnown, RefsKnown, [Next]_vars
             PROVE  RefsKnown'
  OBVIOUS
<1>1. /\ refs = [root |-> refs.root, leader |-> refs.leader,
                 thread |-> refs.thread]
      /\ refs.root \in Nat /\ refs.leader \in Nat /\ refs.thread \in Nat
  BY DEF RefsKnown, Refs
<1>2. params.all \in BOOLEAN
  BY DEF DrawKnown, Params
<1> DEFINE Now(r, l, t) == refs' = [root |-> r, leader |-> l, thread |-> t]
<1> USE DEF CollectPcs, InjectPcs, Goes
<1>3. CASE CollectNext /\ UNCHANGED <<treeVars, injectVars, alive>>
  <2>1. params' = params
    BY <1>3 DEF injectVars
  <2>2. CASE Resolve
    <3>1. \/ pc' = "count" /\ Now(1, 0, 0)
          \/ pc' = "done" /\ Now(0, 0, 0)
      BY <1>1, <2>2 DEF Resolve, RefsKnown
    <3> QED
      BY <3>1 DEF RefsKnown, Refs
  <2>3. CASE Count \/ Counted \/ Collect
    <3>1. /\ {pc, pc'} \subseteq {"count", "size", "collect"}
          /\ refs' = refs
      BY <2>3 DEF Count, Counted, Collect
    <3> QED
      BY <2>1, <3>1 DEF RefsKnown
  <2>4. CASE Size \/ Collected
    <3>1. \/ pc' = "collect" /\ Now(1, 0, 0)
          \/ pc' \in {"done", "choose"} /\ Now(0, 0, 0)
      BY <1>1, <2>4 DEF Size, Collected, RefsKnown, RootPut
    <3> QED
      BY <3>1 DEF RefsKnown, Refs
  <2> QED
    BY <1>3, <2>2, <2>3, <2>4 DEF CollectNext
<1>4. CASE ChooseProcess
  <2>1. pc = "choose" /\ pc' \in {"stop", "pick"} /\ refs' = refs
        /\ (pc' = "stop" => params'.all)
    BY <1>4, ParamAssumption DEF ChooseProcess, Params
  <2> QED
    BY <1>1, <2>1 DEF RefsKnown
<1>5. CASE CountThreads
  <2>1. pc = "pick" /\ pc' \in {"grab", "done"} /\ params' = params
        /\ (Now(0, 1, 0) \/ Now(0, 0, 0))
    BY <1>1, <1>5 DEF CountThreads, RefsKnown
  <2>2. ~params.all
    BY <2>1 DEF WayKnown
  <2> QED
    BY <2>1, <2>2 DEF RefsKnown, Refs
<1>6. CASE GrabThread
  <2>1. pc = "grab" /\ ~params.all /\ params' = params
    BY <1>6 DEF GrabThread, WayKnown
  <2>2. \/ pc' = "done" /\ Now(0, refs.leader, 0)
        \/ pc' = "stop" /\ Now(0, refs.leader, 1)
    BY <1>1, <1>6, <2>1 DEF GrabThread, RefsKnown
  <2>3. refs.leader <= 1
    BY <2>1 DEF RefsKnown
  <2> QED
    BY <1>1, <2>1, <2>2, <2>3 DEF RefsKnown, Refs
<1>7. CASE GroupStop
  <2>1. pc = "stop" /\ params' = params
    BY <1>7 DEF GroupStop, injectVars
  <2>2. \/ pc' = (IF params.all THEN "leader" ELSE "wait") /\ refs' = refs
        \/ pc' = "done" /\ Now(0, refs.leader, 0)
    BY <1>1, <1>7, <2>1 DEF GroupStop, RefsKnown, ThreadPut
  <2>3. refs.leader <= 1
    BY <1>2, <2>1 DEF RefsKnown
  <2> QED
    BY <1>1, <1>2, <2>1, <2>2, <2>3 DEF RefsKnown, Refs
<1>8. CASE FindLeader
  <2>1. pc = "leader" /\ params.all /\ params' = params
    BY <1>8 DEF FindLeader, WayKnown
  <2>2. \/ pc' = "next" /\ Now(0, 2, 0)
        \/ pc' = "oops" /\ Now(0, 0, 0)
    BY <1>1, <1>8, <2>1 DEF FindLeader, TwoGets, RefsKnown
  <2> QED
    BY <2>1, <2>2 DEF RefsKnown, Refs
<1>9. CASE NextThread \/ WaitStopped \/ FlipRegister \/ FlipMemory
  <2>1. /\ pc \in {"next", "wait", "flip"} /\ (pc = "next" => params.all)
        /\ refs' = refs /\ params' = params
    BY <1>9 DEF NextThread, WaitStopped, FlipRegister, FlipMemory, WayKnown
  <2>2. /\ pc' \in {"next", "wait", "flip", "cont"}
        /\ pc' = "next" => params.all
    BY <1>9 DEF NextThread, WaitStopped, FlipRegister, FlipMemory, Fails,
                Flipped, AfterThread
  <2> QED
    BY <1>2, <2>1, <2>2 DEF RefsKnown
<1>10. CASE Continue
  <2>1. pc = "cont" /\ pc' = "done" /\ params' = params
    BY <1>10 DEF Continue, injectVars
  <2>2. IF params.all THEN Now(0, 1, 0) ELSE Now(0, refs.leader, 0)
    BY <1>1, <1>2, <1>10, <2>1 DEF Continue, ThreadPut, RefsKnown
  <2>3. ~params.all => refs.leader <= 1
    BY DEF RefsKnown
  <2> QED
    BY <1>1, <1>2, <2>1, <2>2, <2>3 DEF RefsKnown, Refs
<1>11. CASE UNCHANGED <<pc, params, refs>>
  BY <1>11 DEF RefsKnown
<1>12. TreeChanges \/ MonitorEnds \/ Rest \/ UNCHANGED vars
       => UNCHANGED <<pc, params, refs>>
  BY DEF TreeChanges, MonitorEnds, Rest, vars, injectVars, collectVars
<1> QED
  BY <1>3, <1>4, <1>5, <1>6, <1>7, <1>8, <1>9, <1>10, <1>11, <1>12
     DEF Next, InjectNext

LEMMA InitSteps == InjectInit => StepInv
<1> SUFFICES ASSUME InjectInit PROVE StepInv
  OBVIOUS
<1>1. NoParams \in Params
  BY DEF NoParams, Params
<1>2. <<>> \in Seq(Pids) /\ NoRefs \in Refs
  BY DEF NoRefs, Refs
<1>3. WalkKnown
  BY <1>2, SmallFacts DEF InjectInit, CollectInit, WalkKnown, Outside
<1>4. DrawKnown
  BY <1>1 DEF InjectInit, DrawKnown
<1>5. WayKnown
  BY DEF InjectInit, CollectInit, WayKnown, CollectPcs
<1>6. RefsKnown
  BY <1>2 DEF InjectInit, CollectInit, RefsKnown, NoRefs, NoParams
<1> QED
  BY <1>3, <1>4, <1>5, <1>6 DEF StepInv

LEMMA StepAlways == InjectSafe => []StepInv
<1>1. StepInv /\ [Next]_vars => StepInv'
  BY WalkStep, DrawStep, WayStep, RefsStep DEF StepInv
<1> QED
  BY <1>1, InitSteps, PTL DEF InjectSafe

\* The variables of an injection keep to their values: no reference is put
\* that was not taken (bitflip_ops.c:281, :358), and the walk stays on the
\* processes there are.
THEOREM InjectTypes == InjectSafe => []InjectTypeOK
<1>1. WalkKnown /\ RefsKnown /\ RoomInv => CollectTypeOK
  BY DEF WalkKnown, RefsKnown, RoomInv, CollectTypeOK
<1>2. StopInv => TreeTypeOK
  BY DEF StopInv
<1>3. HitInv => HitTypeOK
  BY DEF HitInv
<1>4. TreeTypeOK /\ CollectTypeOK /\ HitTypeOK /\ DrawKnown /\ WayKnown
      => InjectTypeOK
  BY DEF HitTypeOK, DrawKnown, WayKnown, InjectTypeOK
<1>5. StepInv /\ RoomInv /\ StopInv /\ HitInv => InjectTypeOK
  BY <1>1, <1>2, <1>3, <1>4 DEF StepInv
<1> QED
  BY <1>5, StepAlways, RoomAlways, StopAlways, HitAlways, PTL

\* An injection that is over holds no reference to the root or the thread,
\* whichever way it took, and at most one to the main thread.
THEOREM ReferencesArePut == InjectSafe => []RefsSettled
<1>1. StepInv => RefsSettled
  BY DEF StepInv, RefsKnown, RefsSettled
<1> QED
  BY <1>1, StepAlways, PTL
-----------------------------------------------------------------------------
(* What all_threads flips.                                                 *)

\* What the tree does to a process that is being halted: its threads stop or
\* end, and it gets no other.
LEMMA TreeHolds ==
  ASSUME TreeTypeOK, TreeNext, NEW p \in Procs, Born(p),
         p \in stopping \/ ~Alive(p)
  PROVE  \A t \in Threads :
            /\ thread'[p][t] = "none" <=> thread[p][t] = "none"
            /\ thread'[p][t] \in {"runs", "stopped"}
                    => thread[p][t] \in {"runs", "stopped"}
            /\ thread[p][t] \in {"stopped", "ended"}
                    => thread'[p][t] \in {"stopped", "ended"}
<1> USE SmallFacts DEF TreeTypeOK
<1> DEFINE Holds(u, v) ==
      /\ v = "none" <=> u = "none"
      /\ v \in {"runs", "stopped"} => u \in {"runs", "stopped"}
      /\ u \in {"stopped", "ended"} => v \in {"stopped", "ended"}
<1> SUFFICES ASSUME NEW t \in Threads PROVE Holds(thread[p][t], thread'[p][t])
  OBVIOUS
<1>1. CASE \E q \in Pids : Fork(q)
  <2>1. PICK c \in Pids : ~Born(c)
                          /\ thread' = [thread EXCEPT ![c][Main] = "runs"]
    BY <1>1 DEF Fork
  <2>2. c # p
    BY <2>1
  <2> QED
    BY <2>1, <2>2, ThreadSet
<1>2. CASE \E q \in Pids : NewThread(q)
  <2>1. PICK q \in Pids, u \in Threads :
          /\ Alive(q) /\ q \notin stopping
          /\ thread' = [thread EXCEPT ![q][u] = "runs"]
    BY <1>2 DEF NewThread, Alive, Eligible
  <2>2. q # p
    BY <2>1
  <2> QED
    BY <2>1, <2>2, ThreadSet
<1>3. ASSUME NEW q \in Pids, NEW T \in SUBSET Threads, End(q, T)
      PROVE  Holds(thread[p][t], thread'[p][t])
  <2>1. thread'[p][t] = IF p = q /\ t \in T /\ thread[p][t] # "none"
                        THEN "ended" ELSE thread[p][t]
    BY <1>3 DEF End
  <2> QED
    BY <2>1
<1>4. CASE \E q \in Pids : ThreadEnds(q) \/ ProcessEnds(q)
  BY <1>3, <1>4 DEF ThreadEnds, ProcessEnds
<1>5. CASE \E q \in Pids : Reap(q)
  BY <1>5 DEF Reap
<1>6. CASE \E q \in Procs : ThreadStops(q)
  <2>1. PICK q \in Procs, u \in Threads :
          /\ thread[q][u] = "runs"
          /\ thread' = [thread EXCEPT ![q][u] = "stopped"]
    BY <1>6 DEF ThreadStops
  <2>2. thread'[p][t] = IF p = q /\ t = u THEN "stopped" ELSE thread[p][t]
    BY <2>1, ThreadSet
  <2> QED
    BY <2>1, <2>2
<1> QED
  BY <1>1, <1>2, <1>4, <1>5, <1>6 DEF TreeNext

LEMMA TreeKeepsHold ==
  ASSUME HoldInv, StopInv, WayKnown, TreeChanges
  PROVE  HoldInv'
<1> USE DEF HoldInv
<1>1. UNCHANGED <<pc, params, tgid, cur, did_mem, first_err, regHits,
                  memHits>> /\ TreeNext
  BY DEF TreeChanges, injectVars
<1>2. TreeTypeOK /\ tgid \in Procs
  BY DEF StopInv
<1> DEFINE hold == Born(tgid) /\ (tgid \in stopping \/ ~Alive(tgid))
<1>3. hold => \A t \in Threads :
            /\ thread'[tgid][t] = "none" <=> thread[tgid][t] = "none"
            /\ thread'[tgid][t] \in {"runs", "stopped"}
                    => thread[tgid][t] \in {"runs", "stopped"}
            /\ thread[tgid][t] \in {"stopped", "ended"}
                    => thread'[tgid][t] \in {"stopped", "ended"}
  BY <1>1, <1>2, TreeHolds
<1>4. Halting => hold
  BY DEF Held
<1>5. stopping' = stopping
  BY <1>1 DEF TreeNext, Fork, NewThread, ThreadEnds, ProcessEnds, End, Reap,
              ThreadStops
<1>6. Held'
  BY <1>1, <1>3, <1>4, <1>5, SmallFacts
     DEF Held, Halting, Born, Alive, Eligible
<1>7. HitsStopped'
  <2>1. pc = "flip" => Halting /\ cur \in Threads
    BY DEF Halting, WayKnown
  <2> QED
    BY <1>1, <1>3, <1>4, <2>1 DEF HitsStopped
<1>8. LoopKnown'
  <2>1. Halting => Eligible(tgid)' \subseteq Eligible(tgid)
    BY <1>1, <1>3, <1>4 DEF Eligible
  <2>2. ToCome' = ToCome
    BY <1>1 DEF ToCome
  <2> QED
    BY <1>1, <2>1, <2>2 DEF LoopKnown, Halting
<1> QED
  BY <1>6, <1>7, <1>8

\* What the injection does: it stops the process before it walks over the
\* threads, and goes past none that it has not flipped.
LEMMA InjectHolds ==
  ASSUME HoldInv, StepInv, StopInv, HitInv, HitInv', InjectNext
  PROVE  HoldInv'
<1> USE SmallFacts DEF HoldInv, Goes
<1>1. params.all \in BOOLEAN /\ tgid \in Procs /\ cur \in 0 .. MaxThread
  BY DEF StepInv, DrawKnown, Params, HitInv, HitTypeOK
<1> DEFINE early == CollectPcs \cup {"choose", "pick", "grab", "stop"}
<1>2. ASSUME pc \in early PROVE ~did_mem
  BY <1>2 DEF LoopKnown, HitInv, HitTypeOK, Unhit, CollectPcs
<1>3. ASSUME pc \in early, pc' \in early \cup {"done"}, did_mem' = did_mem
      PROVE  HoldInv'
  <2>1. ~did_mem' /\ pc' \notin {"leader", "next", "wait", "flip", "cont"}
    BY <1>2, <1>3 DEF CollectPcs
  <2> QED
    BY <2>1 DEF Held, HitsStopped, LoopKnown, Halting
<1>4. CASE CollectNext /\ UNCHANGED <<treeVars, injectVars, alive>>
  <2>1. pc \in early /\ pc' \in early \cup {"done"} /\ did_mem' = did_mem
    BY <1>4 DEF CollectNext, Resolve, Count, Counted, Size, Collect, Collected,
                CollectPcs, injectVars
  <2> QED
    BY <1>3, <2>1
<1>5. CASE ChooseProcess \/ CountThreads \/ GrabThread
  <2>1. pc \in early /\ pc' \in early \cup {"done"} /\ did_mem' = did_mem
    BY <1>5 DEF ChooseProcess, CountThreads, GrabThread
  <2> QED
    BY <1>3, <2>1
<1>6. CASE GroupStop
  <2>1. pc = "stop" /\ UNCHANGED <<tgid, did_mem, memHits, params>>
    BY <1>6 DEF GroupStop, injectVars
  <2>2. CASE ~Found(tgid)
    BY <1>3, <1>6, <2>1, <2>2 DEF GroupStop
  <2>3. CASE Found(tgid)
    <3>1. /\ Born(tgid) /\ Sigstop(tgid)
          /\ pc' = IF params.all THEN "leader" ELSE "wait"
      BY <1>6, <2>3 DEF GroupStop, Found
    <3>2. thread' = thread /\ (tgid \in stopping' \/ ~Alive(tgid))
      BY <3>1 DEF Sigstop
    <3>3. Held'
      BY <2>1, <3>1, <3>2 DEF Held, Born, Alive, Eligible
    <3>4. ~did_mem'
      BY <1>2, <2>1
    <3>5. pc' \notin {"flip", "next", "cont"} /\ (pc' = "wait" => ~params'.all)
      BY <1>1, <2>1, <3>1
    <3> QED
      BY <3>3, <3>4, <3>5 DEF HitsStopped, LoopKnown
  <2> QED
    BY <2>2, <2>3
<1>7. ASSUME UNCHANGED <<treeVars, tgid>>, pc \in {"leader", "next", "wait",
                                                   "flip"}
      PROVE  Held'
  BY <1>7 DEF Held, Halting, Born, Alive, Eligible, treeVars
<1>8. CASE FindLeader
  <2>1. /\ pc = "leader" /\ pc' \in {"next", "oops"} /\ cur' = 0
        /\ UNCHANGED <<treeVars, tgid, did_mem, regHits, memHits, params,
                       first_err>>
    BY <1>8 DEF FindLeader
  <2>2. pc' = "next" => Threads \subseteq ToCome'
    BY <2>1 DEF ToCome, Threads
  <2>3. Eligible(tgid)' \subseteq Threads
    BY DEF Eligible
  <2> QED
    BY <1>7, <2>1, <2>2, <2>3 DEF HitsStopped, LoopKnown
<1>9. CASE NextThread
  <2>1. /\ pc = "next"
        /\ UNCHANGED <<treeVars, tgid, did_mem, regHits, memHits, params,
                       first_err>>
    BY <1>9 DEF NextThread
  <2>2. Eligible(tgid)' = Eligible(tgid) /\ Eligible(tgid) \subseteq Threads
    BY <2>1 DEF Eligible, treeVars
  <2>3. ASSUME NEW t \in Eligible(tgid), t \notin ToCome'
        PROVE  t \notin ToCome
    <3>1. t > cur => t \in Following
      BY DEF Following, Listed
    <3>2. t \in Threads /\ t \in Nat /\ cur \in Nat
      BY <1>1, <2>2 DEF Threads
    <3>3. CASE Following = {}
      BY <2>1, <3>1, <3>2, <3>3 DEF ToCome
    <3>4. CASE Following # {}
      <4>1. pc' = "wait" /\ \A u \in Following : cur' <= u
        BY <1>9, <3>4 DEF NextThread
      <4>2. ~(t >= cur')
        BY <2>3, <3>2, <4>1 DEF ToCome
      <4>3. cur' \in Nat
        BY <1>9, <3>4 DEF NextThread, Following, Listed, Eligible, Threads
      <4> QED
        BY <2>1, <3>1, <3>2, <4>1, <4>2, <4>3 DEF ToCome
    <3> QED
      BY <3>3, <3>4
  <2>4. pc' \in {"wait", "cont"}
    BY <1>9 DEF NextThread
  <2>5. LoopKnown'
    BY <2>1, <2>2, <2>3 DEF LoopKnown
  <2> QED
    BY <1>7, <2>1, <2>4, <2>5 DEF HitsStopped
<1>10. CASE WaitStopped
  <2>1. /\ pc = "wait"
        /\ UNCHANGED <<treeVars, tgid, cur, did_mem, regHits, memHits, params>>
    BY <1>10 DEF WaitStopped, Fails
  <2>2. Held'
    BY <1>7, <2>1
  <2>3. CASE StoppedInTime(thread[tgid][cur]) /\ pc' = "flip"
             /\ first_err' = first_err
    <3>1. ToCome' = ToCome /\ Eligible(tgid)' = Eligible(tgid)
      BY <2>1, <2>3 DEF ToCome, Eligible, treeVars
    <3> QED
      BY <2>1, <2>2, <2>3, <3>1
         DEF HitsStopped, LoopKnown, StoppedInTime, treeVars
  <2>4. CASE Fails
    BY <2>1, <2>2, <2>4
       DEF Fails, Failed, AfterThread, HitsStopped, LoopKnown
  <2> QED
    BY <1>10, <2>3, <2>4 DEF WaitStopped
<1>11. CASE FlipRegister \/ FlipMemory
  <2>1. /\ pc = "flip" /\ UNCHANGED <<treeVars, tgid, cur, params>>
        /\ pc' = IF params.all THEN "next" ELSE "cont"
    BY <1>11 DEF FlipRegister, FlipMemory, Fails, Flipped, AfterThread
  <2>2. Held' /\ HitsStopped'
    BY <1>1, <1>7, <2>1 DEF HitsStopped
  <2>3. CASE Fails
    BY <1>11, <2>1, <2>2, <2>3
       DEF Fails, Failed, LoopKnown
  <2>4. CASE did_mem' /\ memHits'[tgid] = 1
    BY <2>1, <2>2, <2>4 DEF LoopKnown
  <2>5. CASE FlipRegister /\ ~Fails
    <3>1. /\ regHits' = [regHits EXCEPT ![tgid][cur] = @ + 1]
          /\ UNCHANGED <<did_mem, memHits, first_err>>
      BY <2>5 DEF FlipRegister, Flipped
    <3>2. cur \in Threads /\ regHits[tgid][cur] = 0
      <4>1. cur \in Threads /\ cur >= cur
        BY <1>1, <2>1 DEF StepInv, WayKnown
      <4>2. cur \in ToCome
        BY <2>1, <4>1 DEF ToCome
      <4> QED
        BY <4>1, <4>2 DEF HitInv
    <3>3. regHits'[tgid][cur] = 1
          /\ \A t \in Threads \ {cur} : regHits'[tgid][t] = regHits[tgid][t]
      BY <1>1, <3>1, <3>2 DEF HitInv, HitTypeOK
    <3>4. Eligible(tgid)' = Eligible(tgid) /\ Eligible(tgid) \subseteq Threads
      BY <2>1 DEF Eligible, treeVars
    <3>5. ASSUME NEW t \in Threads, t # cur, params.all, t \notin ToCome'
          PROVE  t \notin ToCome
      BY <1>1, <2>1, <3>5 DEF ToCome, Threads
    <3> QED
      BY <2>1, <2>2, <3>1, <3>3, <3>4, <3>5 DEF LoopKnown
  <2>6. CASE FlipMemory /\ ~Fails
    <3>1. CASE did_mem
      <4>1. did_mem' /\ memHits'[tgid] = 1
        BY <2>6, <3>1 DEF FlipMemory, LoopKnown
      <4> QED
        BY <2>4, <4>1
    <3>2. CASE ~did_mem
      <4>1. /\ memHits' = [memHits EXCEPT ![tgid] = @ + 1]
            /\ did_mem'
        BY <2>6, <3>2 DEF FlipMemory, Remembers
      <4>2. memHits[tgid] = 0
        BY <1>1, <3>2 DEF HitInv, HitTypeOK
      <4>3. memHits'[tgid] = 1
        BY <1>1, <4>1, <4>2 DEF HitInv, HitTypeOK
      <4> QED
        BY <2>4, <4>1, <4>3
    <3> QED
      BY <3>1, <3>2
  <2> QED
    BY <1>11, <2>3, <2>5, <2>6
<1>12. CASE Continue
  <2>1. pc' = "done" /\ UNCHANGED <<tgid, did_mem, memHits>>
    BY <1>12 DEF Continue, injectVars
  <2> QED
    BY <2>1 DEF Held, Halting, HitsStopped, LoopKnown
<1> QED
  BY <1>4, <1>5, <1>6, <1>8, <1>9, <1>10, <1>11, <1>12 DEF InjectNext

LEMMA HoldStep ==
  HoldInv /\ StepInv /\ StopInv /\ HitInv /\ RoomInv /\ [Next]_vars
  => HoldInv'
<1> SUFFICES ASSUME HoldInv, StepInv, StopInv, HitInv, RoomInv, [Next]_vars
             PROVE  HoldInv'
  OBVIOUS
<1>1. CASE InjectNext
  BY <1>1, InjectHolds, HitStep
<1>2. CASE TreeChanges
  BY <1>2, TreeKeepsHold DEF StepInv
<1>3. CASE UNCHANGED <<pc, treeVars, injectVars>>
  BY <1>3 DEF HoldInv, Held, Halting, HitsStopped, LoopKnown, ToCome, Born,
              Alive, Eligible, treeVars, injectVars
<1>4. MonitorEnds \/ Rest \/ UNCHANGED vars
      => UNCHANGED <<pc, treeVars, injectVars>>
  BY DEF MonitorEnds, Rest, vars, collectVars
<1> QED
  BY <1>1, <1>2, <1>3, <1>4 DEF Next

LEMMA HoldAlways == InjectSafe => []HoldInv
<1>1. InjectInit => HoldInv
  BY DEF InjectInit, CollectInit, HoldInv, Held, Halting, HitsStopped,
         LoopKnown
<1> QED
  BY <1>1, HoldStep, StepAlways, StopAlways, HitAlways, RoomAlways, PTL
     DEF InjectSafe

\* The registers of a thread are flipped while it is stopped or, after a
\* SIGKILL, ended (bitflip_ops.c:341): nothing in the tree makes it run again
\* before the SIGCONT.
THEOREM FlipsTheHalted == InjectSafe => []HitsStopped
<1>1. HoldInv => HitsStopped
  BY DEF HoldInv
<1> QED
  BY <1>1, HoldAlways, PTL

\* The loop of all_threads (bitflip_ops.c:239) passes over no thread that is
\* still there unless it reports an error.
THEOREM MissesNoThread == InjectSafe => []AllThreadsHit
<1>1. HoldInv => AllThreadsHit
  BY DEF HoldInv, LoopKnown, AllThreadsHit, ToCome
<1> QED
  BY <1>1, HoldAlways, PTL
-----------------------------------------------------------------------------
(* What is reported.                                                       *)

\* What is not hit, and what a flip hits.
LEMMA StruckFacts ==
  ASSUME HitTypeOK
  PROVE  /\ Unhit(tgid) <=> Struck(tgid) = {}
         /\ \A p \in Procs : Unhit(p) => Struck(p) = {}
         /\ Memory \notin Threads
<1>1. ASSUME NEW p \in Procs PROVE Unhit(p) <=> Struck(p) = {}
  <2>1. memHits[p] \in Nat /\ \A t \in Threads : regHits[p][t] \in Nat
    BY DEF HitTypeOK
  <2>2. ASSUME Unhit(p) PROVE Struck(p) = {}
    BY <2>2 DEF Unhit, Struck
  <2>3. ASSUME Struck(p) = {} PROVE Unhit(p)
    <3>1. ~(memHits[p] > 0) /\ \A t \in Threads : ~(regHits[p][t] > 0)
      BY <2>3 DEF Struck
    <3> QED
      BY <2>1, <3>1 DEF Unhit
  <2> QED
    BY <2>2, <2>3
<1>2. Memory \notin Threads
  BY DEF Memory, Threads
<1> QED
  BY <1>1, <1>2 DEF HitTypeOK

LEMMA SingleStep ==
  SingleInv /\ StepInv /\ HitInv /\ HitInv' /\ [Next]_vars => SingleInv'
<1> SUFFICES ASSUME SingleInv, StepInv, HitInv, HitInv', [Next]_vars
             PROVE  SingleInv'
  OBVIOUS
<1> USE DEF Goes
<1>1. params.all \in BOOLEAN /\ tgid \in Procs /\ HitTypeOK
  BY DEF StepInv, DrawKnown, Params, HitInv, HitTypeOK
<1>2. ASSUME UNCHANGED <<params, tgid, result, regHits, memHits>>,
             pc' = pc \/ (pc = "cont" /\ pc' = "done")
      PROVE  SingleInv'
  <2>1. Told' = Told /\ (Struck(tgid) = {})' = (Struck(tgid) = {})
    BY <1>2 DEF Told, Struck
  <2> QED
    BY <1>2, <2>1 DEF SingleInv, CollectPcs
<1>3. ASSUME UNCHANGED <<params, tgid, result, regHits, memHits>>,
             pc \notin {"cont", "done"},
             pc' \in CollectPcs \cup {"choose"}
                => pc \in CollectPcs \cup {"choose"}
      PROVE  SingleInv'
  <2>1. Told' = Told /\ (Struck(tgid) = {})' = (Struck(tgid) = {})
    BY <1>3 DEF Told, Struck
  <2>2. Struck(tgid) = {} /\ ~result.fault_injected => Told
    BY DEF Told
  <2> QED
    BY <1>3, <2>1, <2>2 DEF SingleInv
<1>4. CASE CollectNext /\ UNCHANGED <<treeVars, injectVars, alive>>
  <2>1. pc \in CollectPcs
    BY <1>4 DEF CollectNext, Resolve, Count, Counted, Size, Collect, Collected,
                CollectPcs
  <2> QED
    BY <1>3, <1>4, <2>1 DEF injectVars, CollectPcs
<1>5. CASE ChooseProcess
  <2>1. pc = "choose" /\ pc' \in {"stop", "pick"} /\ result' = result
    BY <1>5 DEF ChooseProcess
  <2>2. Unhit(tgid)'
    BY <2>1 DEF HitInv
  <2>3. (Struck(tgid) = {})'
    BY <2>2 DEF Unhit, Struck
  <2>4. pc' \notin CollectPcs \cup {"choose", "cont", "done"}
    BY <2>1 DEF CollectPcs
  <2> QED
    BY <2>1, <2>3, <2>4 DEF SingleInv
<1>6. CASE CountThreads \/ GrabThread \/ GroupStop
  <2>1. /\ pc \in {"pick", "grab", "stop"}
        /\ pc' \in {"grab", "stop", "leader", "wait", "done"}
        /\ UNCHANGED <<params, tgid, result, regHits, memHits>>
    BY <1>6 DEF CountThreads, GrabThread, GroupStop, injectVars
  <2> QED
    BY <1>3, <2>1 DEF CollectPcs
<1>7. CASE FindLeader \/ NextThread \/ WaitStopped
  <2>1. /\ pc \in {"leader", "next", "wait"}
        /\ pc' \in {"next", "oops", "wait", "flip", "cont"}
        /\ UNCHANGED <<params, tgid, result, regHits, memHits>>
    BY <1>7 DEF FindLeader, NextThread, WaitStopped, Fails, AfterThread
  <2> QED
    BY <1>3, <2>1 DEF CollectPcs
<1>8. CASE FlipRegister \/ FlipMemory
  <2>1. /\ pc = "flip" /\ UNCHANGED <<params, tgid, cur>>
        /\ pc' = IF params.all THEN "next" ELSE "cont"
    BY <1>8 DEF FlipRegister, FlipMemory, Fails, Flipped, AfterThread
  <2>2. CASE params.all
    BY <2>1, <2>2 DEF SingleInv, CollectPcs
  <2>3. CASE UNCHANGED <<result, regHits, memHits>>
    BY <1>1, <1>3, <2>1, <2>3 DEF CollectPcs
  <2>4. ASSUME ~params.all,
               \/ Struck(tgid)' = {Memory} /\ Flipped("mem")
               \/ Flipped("reg") /\ \E t \in Threads : Struck(tgid)' = {t}
        PROVE  SingleInv'
    <3>1. result' = [fault_injected |-> TRUE, flip |-> "mem"]
          \/ result' = [fault_injected |-> TRUE, flip |-> "reg"]
      BY <1>1, <2>4 DEF Flipped, Reports, StepInv, DrawKnown
    <3>2. Told'
      BY <2>4, <3>1 DEF Flipped, Told
    <3> QED
      BY <2>1, <2>4, <3>2 DEF SingleInv, CollectPcs
  <2>5. ~params.all => Unhit(tgid)
    BY <1>1, <2>1, StruckFacts DEF SingleInv
  <2>6. CASE ~params.all /\ FlipRegister /\ Flipped("reg")
             /\ regHits' = [regHits EXCEPT ![tgid][cur] = @ + 1]
             /\ memHits' = memHits
    <3>1. cur \in Threads
      BY <2>1 DEF StepInv, WayKnown
    <3>2. \A t \in Threads : regHits'[tgid][t] = IF t = cur THEN 1 ELSE 0
      BY <1>1, <2>5, <2>6, <3>1 DEF HitTypeOK, Unhit
    <3>3. memHits'[tgid] = 0
      BY <2>5, <2>6 DEF Unhit
    <3>4. Struck(tgid)' = {cur}
      BY <2>1, <3>1, <3>2, <3>3 DEF Struck
    <3> QED
      BY <2>4, <2>6, <3>1, <3>4
  <2>7. CASE ~params.all /\ FlipMemory /\ Flipped("mem")
             /\ memHits' = [memHits EXCEPT ![tgid] = @ + 1]
             /\ regHits' = regHits
    <3>1. memHits'[tgid] = 1 /\ \A t \in Threads : regHits'[tgid][t] = 0
      BY <1>1, <2>5, <2>7 DEF HitTypeOK, Unhit
    <3>2. Struck(tgid)' = {Memory}
      BY <2>1, <3>1 DEF Struck, Memory
    <3> QED
      BY <2>4, <2>7, <3>2
  <2> QED
    BY <1>1, <1>8, <2>2, <2>3, <2>6, <2>7 DEF FlipRegister, FlipMemory, Fails
<1>9. CASE Continue
  BY <1>2, <1>9 DEF Continue, injectVars
<1>10. TreeChanges \/ MonitorEnds \/ Rest \/ UNCHANGED vars
       => UNCHANGED <<pc, injectVars>>
  BY DEF TreeChanges, MonitorEnds, Rest, vars, collectVars
<1>11. CASE UNCHANGED <<pc, injectVars>>
  BY <1>2, <1>11 DEF injectVars
<1> QED
  BY <1>4, <1>5, <1>6, <1>7, <1>8, <1>9, <1>10, <1>11 DEF Next, InjectNext

LEMMA SingleAlways == InjectSafe => []SingleInv
<1>1. InjectInit => SingleInv
  BY SmallFacts
     DEF InjectInit, CollectInit, SingleInv, Struck, NoParams, CollectPcs
<1>2. SingleInv /\ StepInv /\ HitInv /\ RoomInv /\ [Next]_vars => SingleInv'
  BY HitStep, SingleStep
<1> QED
  BY <1>1, <1>2, StepAlways, HitAlways, RoomAlways, PTL DEF InjectSafe

\* The result names the only process that was hit, and an injection into one
\* thread says truly whether it flipped a bit and whether it was of memory
\* (bitflip_ops.c:352).
THEOREM ResultIsTrue == InjectSafe => []ResultTrue
<1>1. HitInv => \A p \in Procs : Struck(p) # {} => p = tgid
  BY StruckFacts DEF HitInv
<1>2. SingleInv /\ HitInv => ResultTrue
  BY <1>1 DEF SingleInv, ResultTrue
<1> QED
  BY <1>2, SingleAlways, HitAlways, PTL
=============================================================================
