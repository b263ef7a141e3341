--------------------------- MODULE FijCollectProofs ---------------------------
(***************************************************************************)
(* What fij_collect_descendants collects, however the tree of processes    *)
(* changes between its two walks and during each of them.                  *)
(***************************************************************************)
EXTENDS FijInjectProofs, FiniteSetTheorems

-----------------------------------------------------------------------------
(* The tree.                                                               *)

\* What a step of the tree that forks no process does to the processes: none
\* comes, none that ended or was reaped comes back, and a child is lost.
Ages ==
    /\ \A p \in Procs : Born(p)' <=> Born(p)
    /\ \A p \in Procs : MainEnded(p) => MainEnded(p)'
    /\ origin' = origin
    /\ parent' \in [Pids -> Procs]
    /\ \A p \in Pids : parent'[p] \in {parent[p], Outside}
    /\ reaped \subseteq reaped'

\* And one that forks.
Forks ==
    \E p, c \in Pids :
        /\ Born(p) /\ ~Born(c)
        /\ \A d \in 1 .. (c - 1) : Born(d)
        /\ \A q \in Procs : Born(q)' <=> Born(q) \/ q = c
        /\ \A q \in Procs : MainEnded(q) => MainEnded(q)'
        /\ parent' = [parent EXCEPT ![c] = p]
        /\ origin' = [origin EXCEPT ![c] = p]
        /\ reaped' = reaped

LEMMA TreeSteps ==
  ASSUME StopInv, TreeNext
  PROVE  Ages \/ Forks
<1>1. /\ TreeTypeOK /\ thread \in [Procs -> [Threads -> ThreadStates]]
      /\ UnbornRest
  BY DEF StopInv, TreeTypeOK
<1> USE SmallFacts
<1>2. ASSUME NEW p \in Pids, Fork(p)
      PROVE  Forks
  <2>1. PICK c \in Pids :
            /\ ~Born(c)
            /\ \A d \in 1 .. (c - 1) : Born(d)
            /\ thread' = [thread EXCEPT ![c][Main] = "runs"]
            /\ parent' = [parent EXCEPT ![c] = p]
            /\ origin' = [origin EXCEPT ![c] = p]
    BY <1>2 DEF Fork
  <2>2. \A q \in Procs : thread'[q][Main] = IF q = c THEN "runs"
                                            ELSE thread[q][Main]
    BY <1>1, <2>1, ThreadSet
  <2>3. Born(p) /\ reaped' = reaped
    BY <1>2 DEF Fork, Born
  <2>4. \A q \in Procs : /\ Born(q)' <=> Born(q) \/ q = c
                         /\ MainEnded(q) => MainEnded(q)'
    BY <2>1, <2>2 DEF Born, MainEnded
  <2> QED
    BY <2>1, <2>3, <2>4 DEF Forks
<1>3. ASSUME NEW p \in Procs, NEW u \in Threads, NEW s \in ThreadStates,
             thread' = [thread EXCEPT ![p][u] = s],
             \/ thread[p][u] = "runs" /\ s = "stopped"
             \/ thread[p][u] = "none" /\ Born(p) /\ s = "runs",
             UNCHANGED <<parent, origin, reaped>>
      PROVE  Ages
  <2>1. \A q \in Procs, t \in Threads :
            thread'[q][t] = IF q = p /\ t = u THEN s ELSE thread[q][t]
    BY <1>1, <1>3, ThreadSet
  <2>2. \A q \in Procs : /\ Born(q)' <=> Born(q)
                         /\ MainEnded(q) => MainEnded(q)'
    BY <1>3, <2>1 DEF Born, MainEnded
  <2> QED
    BY <1>1, <1>3, <2>2 DEF Ages, TreeTypeOK
<1>4. ASSUME NEW p \in Pids, NewThread(p)
      PROVE  Ages
  <2>1. PICK t \in Threads : thread[p][t] = "runs"
    BY <1>4 DEF NewThread
  <2>2. Born(p)
    BY <1>1, <2>1 DEF UnbornRest
  <2>3. PICK u \in Threads : /\ thread[p][u] = "none"
                             /\ thread' = [thread EXCEPT ![p][u] = "runs"]
    BY <1>4 DEF NewThread
  <2> QED
    BY <1>3, <1>4, <2>2, <2>3 DEF NewThread
<1>5. ASSUME NEW p \in Procs, ThreadStops(p)
      PROVE  Ages
  <2>1. PICK u \in Threads : /\ thread[p][u] = "runs"
                             /\ thread' = [thread EXCEPT ![p][u] = "stopped"]
    BY <1>5 DEF ThreadStops
  <2> QED
    BY <1>3, <1>5, <2>1 DEF ThreadStops
<1>6. ASSUME NEW p \in Pids, NEW T \in SUBSET Threads, End(p, T)
      PROVE  Ages
  <2>1. \A q \in Procs : thread'[q][Main] =
            IF q = p /\ Main \in T /\ thread[q][Main] # "none" THEN "ended"
            ELSE thread[q][Main]
    BY <1>1, <1>6 DEF End
  <2>2. \A q \in Procs : /\ Born(q)' <=> Born(q)
                         /\ MainEnded(q) => MainEnded(q)'
    BY <2>1 DEF Born, MainEnded
  <2>3. /\ parent' \in [Pids -> Procs]
        /\ \A c \in Pids : parent'[c] \in {parent[c], Outside}
    BY <1>1, <1>6 DEF End, TreeTypeOK
  <2>4. origin' = origin /\ reaped \subseteq reaped'
    BY <1>6 DEF End
  <2> QED
    BY <2>2, <2>3, <2>4 DEF Ages
<1>7. ASSUME NEW p \in Pids, Reap(p)
      PROVE  Ages
  BY <1>1, <1>7 DEF Reap, Ages, TreeTypeOK, Born, MainEnded
<1> QED
  BY <1>2, <1>4, <1>5, <1>6, <1>7 DEF TreeNext, ThreadEnds, ProcessEnds

\* Of the processes there are, none is unborn again, moves to another list,
\* or comes back to it.
LEMMA TreeLasts ==
  ASSUME StopInv, TreeNext
  PROVE  /\ \A p \in Procs : Born(p) => Born(p)'
         /\ \A p \in Pids : Born(p) =>
                /\ origin'[p] = origin[p]
                /\ parent'[p] \in {parent[p], Outside}
         /\ \A p, c \in Pids :
                Born(c) /\ c \in Children(p)' => c \in Children(p)
<1>1. CASE Ages
  BY <1>1, SmallFacts DEF Ages, Children, Found, Outside, Pids
<1>2. CASE Forks
  <2>1. /\ parent \in [Pids -> Procs] /\ origin \in [Pids -> Procs]
    BY DEF StopInv, TreeTypeOK
  <2> QED
    BY <1>2, <2>1, SmallFacts DEF Forks, Children, Found, Outside, Pids
<1> QED
  BY <1>1, <1>2, TreeSteps

LEMMA TreeKnownStep ==
  ASSUME StopInv, TreeKnown, TreeNext
  PROVE  TreeKnown'
<1>1. /\ parent \in [Pids -> Procs] /\ origin \in [Pids -> Procs]
  BY DEF StopInv, TreeTypeOK
<1>2. Pids \subseteq Nat /\ Pids \subseteq Procs /\ Root \in Pids /\ Outside \in Procs
  BY SmallFacts DEF Pids
<1>3. CASE Ages
  BY <1>1, <1>2, <1>3 DEF Ages, TreeKnown
<1>4. CASE Forks
  <2>1. PICK p, c \in Pids :
        /\ Born(p) /\ ~Born(c)
        /\ \A d \in 1 .. (c - 1) : Born(d)
        /\ \A q \in Procs : Born(q)' <=> Born(q) \/ q = c
        /\ parent' = [parent EXCEPT ![c] = p]
        /\ origin' = [origin EXCEPT ![c] = p]
    BY <1>4 DEF Forks
  <2>2. p < c
    BY <1>2, <2>1 DEF TreeKnown
  <2>3. Born(Outside)' /\ Born(Root)' /\ c # Root
    BY <1>2, <2>1 DEF TreeKnown
  <2>4. ASSUME NEW q \in Pids, NEW r \in Pids, Born(q)', r < q
        PROVE  Born(r)'
    <3>1. q = c => r \in 1 .. (c - 1)
      BY <2>4, <1>2 DEF Pids
    <3> QED
      BY <1>2, <2>1, <2>4, <3>1 DEF TreeKnown
  <2>5. ASSUME NEW q \in Pids
        PROVE  /\ origin'[q] # Outside => Born(q)' /\ origin'[q] < q
               /\ parent'[q] \in {origin'[q], Outside}
    BY <1>1, <1>2, <2>1, <2>2 DEF TreeKnown
  <2>6. origin'[Root] = Outside
    BY <1>1, <1>2, <2>1, <2>3 DEF TreeKnown
  <2> QED
    BY <2>3, <2>4, <2>5, <2>6 DEF TreeKnown
<1> QED
  BY <1>3, <1>4, TreeSteps

\* A process is a forebear of itself, and the forebears of the one that
\* forked it are its own.
LEMMA LineFacts ==
  /\ \A p \in Pids : p \in Line(p)
  /\ \A p, q \in Pids : origin[p] = q => Line(q) \subseteq Line(p)
<1>1. \A p, q \in Pids, S \in SUBSET Pids :
        origin[p] = q /\ p \in S /\ Ancestral(S) => q \in S
  BY DEF Ancestral, Outside, Pids
<1> QED
  BY <1>1 DEF Line

\* A fork gives no process that is there another forebear.
LEMMA LineLasts ==
  ASSUME StopInv, TreeKnown, TreeNext, NEW p \in Pids, Born(p),
         NEW q \in Line(p)
  PROVE  q \in Line(p)'
<1> SUFFICES ASSUME NEW S \in SUBSET Pids, p \in S, Ancestral(S)'
             PROVE  q \in S
  BY DEF Line
<1> DEFINE U == {r \in S : Born(r)}
<1>1. p \in U /\ U \in SUBSET Pids
  OBVIOUS
<1>2. ASSUME NEW r \in U, origin[r] # Outside
      PROVE  origin[r] \in U
  <2>1. origin'[r] = origin[r]
    BY TreeLasts
  <2>2. origin[r] \in S
    BY <1>2, <2>1 DEF Ancestral
  <2>3. origin[r] \in Pids /\ origin[r] < r
    BY <1>2, <2>2 DEF TreeKnown
  <2> QED
    BY <2>2, <2>3 DEF TreeKnown
<1>3. Ancestral(U)
  BY <1>2 DEF Ancestral
<1> QED
  BY <1>1, <1>3 DEF Line

\* What can be reached is the least set that is enclosed, and reached from a
\* parent.
ReachableLeast ==
  /\ Enclosed(Reachable) /\ Reachable \subseteq Pids
  /\ \A S \in SUBSET Pids : Enclosed(S) => Reachable \subseteq S
  /\ \A p \in Reachable :
        p # Root => parent[p] \in Reachable /\ p \in Children(parent[p])

LEMMA ReachableFacts == ReachableLeast
<1>1. Enclosed(Reachable)
  <2>1. Root \in Reachable
    BY SmallFacts DEF Reachable, Enclosed
  <2>2. ASSUME NEW p \in Reachable, NEW c \in Children(p)
        PROVE  c \in Reachable
    <3>1. c \in Pids
      BY DEF Children
    <3>2. ASSUME NEW S \in SUBSET Pids, Enclosed(S)
          PROVE  c \in S
      BY <3>2 DEF Reachable, Enclosed
    <3> QED
      BY <3>1, <3>2 DEF Reachable
  <2> QED
    BY <2>1, <2>2 DEF Enclosed
<1>2. Reachable \subseteq Pids
  BY DEF Reachable
<1>3. \A S \in SUBSET Pids : Enclosed(S) => Reachable \subseteq S
  BY DEF Reachable
<1>4. ASSUME NEW p \in Reachable, p # Root
      PROVE  parent[p] \in Reachable /\ p \in Children(parent[p])
  <2>1. PICK q \in Reachable : p \in Children(q)
    <3> SUFFICES ASSUME \A q \in Reachable : p \notin Children(q)
                 PROVE  FALSE
      OBVIOUS
    <3>1. Enclosed(Reachable \ {p})
      BY <1>1, <1>4 DEF Enclosed
    <3> QED
      BY <1>2, <1>3, <3>1
  <2> QED
    BY <2>1 DEF Children
<1> QED
  BY <1>1, <1>2, <1>3, <1>4 DEF ReachableLeast

LEMMA ReachableNext == ReachableLeast'
  BY ReachableFacts, PTL

\* What was steady stays the child of its parent as long as it is reachable.
LEMMA SteadyStep ==
  ASSUME StopInv, TreeKnown, SteadyInv, TreeChanges
  PROVE  /\ SteadyInv'
         /\ \A p \in steady' : Born(p) /\ parent'[p] = parent[p]
<1>1. TreeNext /\ steady' = steady \cap Reachable'
  BY DEF TreeChanges
<1>2. \A p \in steady : p \in Pids /\ Born(p)
  <2>1. \A p \in steady : p \in Reachable /\ p \in Pids
    BY ReachableFacts DEF SteadyInv, ReachableLeast
  <2>2. \A p \in steady : p # Root => p \in Children(parent[p])
    BY <2>1, ReachableFacts DEF ReachableLeast
  <2> QED
    BY <2>1, <2>2 DEF TreeKnown, Children, Found
<1>3. ASSUME NEW p \in steady'
      PROVE  /\ parent'[p] = parent[p]
             /\ p # Root => parent'[p] \in steady'
  <2>1. p \in steady /\ p \in Pids /\ Born(p) /\ p \in Reachable'
    BY <1>1, <1>2
  <2>3. parent'[p] \in {parent[p], Outside}
    BY <1>1, <2>1, TreeLasts
  <2>4. CASE p = Root
    BY <2>1, <2>3, <2>4 DEF TreeKnown
  <2>5. CASE p # Root
    <3>1. parent'[p] \in Reachable' /\ parent'[p] \in Pids
      BY <2>1, <2>5, ReachableNext DEF ReachableLeast
    <3>2. parent'[p] = parent[p]
      BY <2>3, <3>1 DEF Pids, Outside
    <3>3. parent[p] \in steady
      BY <2>1, <2>5 DEF SteadyInv
    <3> QED
      BY <1>1, <3>1, <3>2, <3>3
  <2> QED
    BY <2>4, <2>5
<1> QED
  BY <1>1, <1>2, <1>3 DEF SteadyInv

-----------------------------------------------------------------------------
(* The walk.                                                               *)

\* What entering the child c does to the calls and what they have passed.
Enters(c) ==
    /\ Len(path) \in Nat /\ Len(path) > 0 /\ Here \in Pids
    /\ path' \in Seq(Pids) /\ Len(path') = Len(path) + 1
    /\ \A k \in 1 .. Len(path) : path'[k] = path[k]
    /\ path'[Len(path) + 1] = c
    /\ c \in Children(Here) /\ last < c
    /\ \A d \in Children(Here) : d <= last \/ c <= d
    /\ \A k \in 1 .. Len(path) :
            Passed(k)' = IF k < Len(path) THEN Passed(k) ELSE c
    /\ Passed(Len(path) + 1)' = 0
    /\ Passed(Len(path)) = last

LEMMA EnterPath ==
  ASSUME path \in Seq(Pids), last \in Procs, NEW c \in Pids, Enter(c)
  PROVE  Enters(c)
<1>1. /\ Len(path) \in Nat /\ Len(path) > 0 /\ Here \in Pids
  BY DEF Enter, Here
<1>2. /\ path' = Append(path, c) /\ last' = 0
      /\ c \in Ahead /\ \A d \in Ahead : c <= d
  BY DEF Enter
<1>3. /\ path' \in Seq(Pids) /\ Len(path') = Len(path) + 1
      /\ \A k \in 1 .. Len(path) : path'[k] = path[k]
      /\ path'[Len(path) + 1] = c
  BY <1>2
<1>4. /\ c \in Children(Here) /\ last < c
      /\ \A d \in Children(Here) : d <= last \/ c <= d
  <2>1. Children(Here) \subseteq Nat /\ last \in Nat
    BY DEF Children, Pids, Procs
  <2> QED
    BY <1>2, <2>1 DEF Ahead
<1>5. /\ \A k \in 1 .. Len(path) :
            Passed(k)' = IF k < Len(path) THEN Passed(k) ELSE c
      /\ Passed(Len(path) + 1)' = 0
      /\ Passed(Len(path)) = last
  BY <1>1, <1>2, <1>3 DEF Passed
<1> QED
  BY <1>1, <1>3, <1>4, <1>5 DEF Enters

\* And what leaving a process does.
Leaves ==
    /\ Len(path) \in Nat /\ Len(path) > 0 /\ Here \in Pids
    /\ path' \in Seq(Pids) /\ Len(path') = Len(path) - 1
    /\ \A k \in 1 .. (Len(path) - 1) :
            path'[k] = path[k] /\ Passed(k)' = Passed(k)
    /\ \A d \in Children(Here) : d <= last
    /\ Passed(Len(path)) = last

LEMMA LeavePath ==
  ASSUME path \in Seq(Pids), last \in Procs, Leave
  PROVE  Leaves
<1>1. /\ Len(path) \in Nat /\ Len(path) > 0 /\ Here \in Pids
  BY DEF Leave, Here
<1>2. /\ path' = SubSeq(path, 1, Len(path) - 1)
      /\ last' = Here /\ Ahead = {}
  BY DEF Leave, FromNext
<1>3. /\ path' \in Seq(Pids) /\ Len(path') = Len(path) - 1
      /\ \A k \in 1 .. (Len(path) - 1) : path'[k] = path[k]
  <2> DEFINE n == Len(path) - 1
  <2>1. n \in Nat /\ n <= Len(path) /\ path' = SubSeq(path, 1, n)
    BY <1>1, <1>2
  <2>2. \A k \in 1 .. n : path[k] \in Pids
    BY <1>1
  <2> HIDE DEF n
  <2>3. /\ SubSeq(path, 1, n) \in Seq(Pids) /\ Len(SubSeq(path, 1, n)) = n
        /\ \A k \in 1 .. n : SubSeq(path, 1, n)[k] = path[k]
    BY <2>1, <2>2, SMT
  <2> QED
    BY <2>1, <2>3 DEF n
<1>4. \A d \in Children(Here) : d <= last
  <2>1. Children(Here) \subseteq Nat /\ last \in Nat
    BY DEF Children, Pids, Procs
  <2> QED
    BY <1>2, <2>1 DEF Ahead
<1>5. ASSUME NEW k \in 1 .. (Len(path) - 1)
      PROVE  Passed(k)' = Passed(k)
  BY <1>1, <1>2, <1>3 DEF Passed, Here
<1>6. Passed(Len(path)) = last
  BY <1>1 DEF Passed
<1> QED
  BY <1>1, <1>3, <1>4, <1>5, <1>6 DEF Leaves

Offspring == [Pids -> SUBSET Pids]

\* The walk starts at the root.
LEMMA StartCovers ==
  ASSUME NEW kids \in Offspring, path' = <<Root>>, last' = 0
  PROVE  Covers({Root}, kids)'
<1>1. Len(path') = 1 /\ path'[1] = Root /\ Passed(1)' = 0
  BY DEF Passed
<1>2. \A c \in kids[Root] : ~(c <= 0)
  BY SmallFacts DEF Offspring, Pids
<1> QED
  BY <1>1, <1>2 DEF Covers

LEMMA EnterCovers ==
  ASSUME NEW S \in SUBSET Pids, NEW kids \in Offspring, Covers(S, kids),
         NEW c \in Pids, Enters(c), kids[Here] \subseteq Children(Here),
         last \in Procs
  PROVE  Covers(S \cup {c}, kids)'
<1>1. Here = path[Len(path)]
  BY DEF Here
<1>2. ASSUME NEW k \in 1 .. Len(path')
      PROVE  /\ path'[k] \in S \cup {c}
             /\ \A d \in kids[path'[k]] : d <= Passed(k)' => d \in S \cup {c}
  <2>1. CASE k < Len(path)
    BY <2>1 DEF Enters, Covers
  <2>2. CASE k = Len(path)
    <3>1. path'[k] = Here /\ Passed(k)' = c /\ Here \in S
      BY <1>1, <2>2 DEF Enters, Covers
    <3>2. ASSUME NEW d \in kids[Here], d <= c
          PROVE  d \in S \cup {c}
      <4>1. d <= last \/ c <= d
        BY <3>2 DEF Enters
      <4>2. d <= last => d \in S
        BY <1>1, <2>2 DEF Enters, Covers
      <4>3. d \in Nat /\ c \in Nat
        BY DEF Enters, Offspring, Pids
      <4>4. d <= last \/ d = c
        BY <3>2, <4>1, <4>3
      <4> QED
        BY <4>2, <4>4
    <3> QED
      BY <3>1, <3>2
  <2>3. CASE k = Len(path) + 1
    <3>1. path'[k] = c /\ Passed(k)' = 0
      BY <2>3 DEF Enters, Passed
    <3>2. \A d \in kids[c] : ~(d <= 0)
      BY DEF Offspring, Pids
    <3> QED
      BY <3>1, <3>2
  <2> QED
    BY <2>1, <2>2, <2>3 DEF Enters
<1>3. ASSUME NEW p \in S \cup {c},
             ~(\E k \in 1 .. Len(path') : path'[k] = p)
      PROVE  kids[p] \subseteq S \cup {c}
  <2>1. p # c /\ ~(\E k \in 1 .. Len(path) : path[k] = p)
    BY <1>3 DEF Enters
  <2> QED
    BY <2>1 DEF Covers
<1> QED
  BY <1>2, <1>3 DEF Covers

LEMMA LeaveCovers ==
  ASSUME NEW S \in SUBSET Pids, NEW kids \in Offspring, Covers(S, kids),
         Leaves, kids[Here] \subseteq Children(Here)
  PROVE  Covers(S, kids)'
<1>1. Here = path[Len(path)]
  BY DEF Here
<1>2. \A k \in 1 .. Len(path') :
        /\ path'[k] \in S
        /\ \A d \in kids[path'[k]] : d <= Passed(k)' => d \in S
  BY DEF Leaves, Covers
<1>3. kids[Here] \subseteq S
  <2>1. \A d \in kids[Here] : d <= Passed(Len(path))
    BY DEF Leaves
  <2> QED
    BY <1>1, <2>1 DEF Leaves, Covers
<1>4. ASSUME NEW p \in S, ~(\E k \in 1 .. Len(path') : path'[k] = p), p # Here
      PROVE  kids[p] \subseteq S
  <2>1. ~(\E k \in 1 .. Len(path) : path[k] = p)
    BY <1>1, <1>4 DEF Leaves
  <2> QED
    BY <2>1 DEF Covers
<1> QED
  BY <1>2, <1>3, <1>4 DEF Covers

\* Where kids are lost nothing more is left out.
LEMMA FewerCovers ==
  ASSUME NEW S, NEW kids, NEW fewer, Covers(S, kids),
         \A p \in S : fewer[p] \subseteq kids[p], UNCHANGED <<path, last>>
  PROVE  Covers(S, fewer)'
  BY DEF Covers, Passed

\* At its end the walk has been to all kids.
LEMMA WalkEnds ==
  ASSUME NEW S, NEW kids, Covers(S, kids), path = <<>>
  PROVE  \A p \in S : kids[p] \subseteq S
  BY DEF Covers

-----------------------------------------------------------------------------
(* The steps after the collection.                                         *)

Drawing ==
    \/ ChooseProcess \/ CountThreads \/ GrabThread \/ GroupStop \/ FindLeader
    \/ NextThread \/ WaitStopped \/ FlipRegister \/ FlipMemory \/ Continue

\* The signals of the injection change the threads, but neither what was
\* collected nor who is whose child.
AsCollected ==
    /\ UNCHANGED <<parent, origin, reaped, path, last, count, capacity,
                   targets, steady, grown>>
    /\ pc' \notin CollectPcs \cup {"choose"}
    /\ \A p \in Procs : /\ Born(p)' <=> Born(p)
                        /\ MainEnded(p)' <=> MainEnded(p)

LEMMA LaterStep ==
  ASSUME StopInv, Drawing
  PROVE  AsCollected
<1> USE SmallFacts
<1>1. /\ WalkUnchanged
      /\ pc' \notin CollectPcs \cup {"choose"}
  BY DEF Drawing, ChooseProcess, CountThreads, GrabThread, GroupStop,
         FindLeader, NextThread, WaitStopped, FlipRegister, FlipMemory,
         Continue, Fails, Flipped, AfterThread, Goes, CollectPcs
<1>2. CASE UNCHANGED <<parent, origin, reaped, thread>>
  BY <1>1, <1>2 DEF AsCollected, WalkUnchanged, Born, MainEnded
<1>3. CASE Sigcont(tgid)
  <2>1. thread \in [Procs -> [Threads -> ThreadStates]] /\ tgid \in Procs
    BY DEF StopInv, TreeTypeOK
  <2>2. \A q \in Procs : thread'[q][Main] =
            IF q = tgid /\ thread[q][Main] = "stopped" THEN "runs"
            ELSE thread[q][Main]
    BY <1>3, <2>1 DEF Sigcont
  <2>3. \A q \in Procs : /\ Born(q)' <=> Born(q)
                         /\ MainEnded(q)' <=> MainEnded(q)
    BY <2>2 DEF Born, MainEnded
  <2> QED
    BY <1>1, <1>3, <2>3 DEF AsCollected, WalkUnchanged, Sigcont
<1> QED
  BY <1>2, <1>3
     DEF Drawing, ChooseProcess, CountThreads, GrabThread, GroupStop,
         FindLeader, NextThread, WaitStopped, FlipRegister, FlipMemory,
         Continue, Always, Sigstop, treeVars

\* What is not reading, collecting or drawing changes nothing here.
LEMMA OtherSteps ==
  ASSUME [Next]_vars
  PROVE  \/ CollectNext /\ UNCHANGED treeVars
         \/ Drawing
         \/ TreeChanges
         \/ UNCHANGED <<treeVars, collectVars>>
BY DEF Next, InjectNext, Drawing, MonitorEnds, Rest, vars

-----------------------------------------------------------------------------
(* The calls of the walk.                                                  *)

\* A process the walk enters was forked by the one it was reading.
LEMMA EnteredChild ==
  ASSUME TreeKnown, NEW c \in Pids, Enters(c)
  PROVE  /\ Here \in Pids /\ Here = path[Len(path)]
         /\ Born(c) /\ parent[c] = Here /\ origin[c] = Here /\ Here < c
<1>1. Here \in Pids /\ Here = path[Len(path)] /\ c \in Children(Here)
  BY DEF Enters, Here
<1> QED
  BY <1>1 DEF Children, Found, TreeKnown, Pids, Outside

LEMMA WayStart ==
  ASSUME TreeKnown, UNCHANGED treeVars, path' = <<Root>>
  PROVE  WayDown'
<1>1. Len(path') = 1 /\ path'[1] = Root /\ Root \in Nat /\ Root \in Pids
  BY SmallFacts DEF Root
<1>2. Born(Root)'
  BY DEF TreeKnown, Born, treeVars
<1>3. (Root \in Line(Root))'
  BY <1>1 DEF Line
<1> QED
  BY <1>1, <1>2, <1>3 DEF WayDown

LEMMA WayEnter ==
  ASSUME TreeKnown, WayDown, Walking, path \in Seq(Pids),
         NEW c \in Pids, Enters(c), UNCHANGED <<treeVars, pc>>
  PROVE  WayDown'
<1>1. /\ Here \in Pids /\ Here = path[Len(path)]
      /\ Born(c) /\ origin[c] = Here /\ Here < c
  BY EnteredChild
<1>2. \A k \in 1 .. Len(path) : path[k] \in Line(c) /\ path[k] < c
  <2>1. Line(Here) \subseteq Line(c)
    BY <1>1, LineFacts
  <2>2. TAKE k \in 1 .. Len(path)
  <2>3. path[k] \in Line(Here)
    BY <1>1 DEF WayDown, Enters
  <2>4. path[k] \in Nat /\ Here \in Nat /\ c \in Nat
    <3>1. path[k] \in Pids
      OBVIOUS
    <3> QED
      BY <1>1, <3>1 DEF Pids
  <2>5. k < Len(path) => path[k] < Here
    BY <1>1 DEF WayDown, Enters
  <2> QED
    BY <1>1, <2>1, <2>3, <2>4, <2>5
<1>3. c \in Line(c)
  BY LineFacts
<1>4. UNCHANGED <<thread, origin>>
  BY DEF treeVars
<1> SUFFICES ASSUME NEW k \in 1 .. Len(path')
             PROVE  /\ Born(path'[k])
                    /\ IF k = 1 THEN path'[k] = Root
                       ELSE origin[path'[k]] = path'[k - 1]
                    /\ \A m \in k .. Len(path') : path'[k] \in Line(path'[m])
                    /\ \A m \in (k + 1) .. Len(path') : path'[k] < path'[m]
  BY <1>4 DEF WayDown, Born, Line, Ancestral
<1>5. CASE k \in 1 .. Len(path)
  <2>1. path'[k] = path[k]
    BY <1>5 DEF Enters
  <2>2. k # 1 => path'[k - 1] = path[k - 1]
    BY <1>5 DEF Enters
  <2>3. ASSUME NEW m \in k .. Len(path')
        PROVE  path'[k] \in Line(path'[m]) /\ (k < m => path'[k] < path'[m])
    <3>1. CASE m = Len(path) + 1
      BY <1>2, <1>5, <2>1, <3>1 DEF Enters
    <3>2. CASE m \in k .. Len(path)
      BY <1>5, <2>1, <3>2 DEF Enters, WayDown
    <3> QED
      BY <3>1, <3>2 DEF Enters
  <2> QED
    BY <1>5, <2>1, <2>2, <2>3 DEF WayDown
<1>6. CASE k = Len(path) + 1
  <2>1. path'[k] = c /\ k # 1 /\ path'[k - 1] = Here
    BY <1>1, <1>6 DEF Enters
  <2> QED
    BY <1>1, <1>3, <1>6, <2>1 DEF Enters
<1> QED
  BY <1>5, <1>6 DEF Enters

LEMMA WayLeave ==
  ASSUME WayDown, Walking, Leaves, UNCHANGED <<treeVars, pc>>
  PROVE  WayDown'
<1>1. UNCHANGED <<thread, origin>>
  BY DEF treeVars
<1> SUFFICES ASSUME NEW k \in 1 .. Len(path')
             PROVE  /\ Born(path'[k])
                    /\ IF k = 1 THEN path'[k] = Root
                       ELSE origin[path'[k]] = path'[k - 1]
                    /\ \A m \in k .. Len(path') : path'[k] \in Line(path'[m])
                    /\ \A m \in (k + 1) .. Len(path') : path'[k] < path'[m]
  BY <1>1 DEF WayDown, Born, Line, Ancestral
<1>2. \A m \in 1 .. Len(path') : m \in 1 .. Len(path) /\ path'[m] = path[m]
  BY DEF Leaves
<1>3. /\ Born(path[k])
      /\ IF k = 1 THEN path[k] = Root ELSE origin[path[k]] = path[k - 1]
      /\ \A m \in k .. Len(path) : path[k] \in Line(path[m])
      /\ \A m \in (k + 1) .. Len(path) : path[k] < path[m]
  BY <1>2 DEF WayDown
<1>4. path'[k] = path[k] /\ (k # 1 => path'[k - 1] = path[k - 1])
  <2>1. k # 1 => k - 1 \in 1 .. Len(path')
    BY DEF Leaves
  <2> QED
    BY <1>2, <2>1
<1>5. ASSUME NEW m \in k .. Len(path')
      PROVE  path'[k] \in Line(path'[m]) /\ (k < m => path'[k] < path'[m])
  <2>1. m \in k .. Len(path) /\ m \in 1 .. Len(path')
    BY <1>2 DEF Leaves
  <2>2. path'[m] = path[m] /\ (k < m => m \in (k + 1) .. Len(path))
    BY <1>2, <2>1 DEF Leaves
  <2> QED
    BY <1>3, <1>4, <2>1, <2>2
<1> QED
  BY <1>3, <1>4, <1>5 DEF Leaves

LEMMA WayTree ==
  ASSUME StopInv, TreeKnown, WayDown, path \in Seq(Pids), TreeNext,
         UNCHANGED <<path, pc>>
  PROVE  WayDown'
<1> SUFFICES ASSUME Walking, NEW k \in 1 .. Len(path)
             PROVE  /\ Born(path[k])'
                    /\ IF k = 1 THEN path[k] = Root
                       ELSE origin'[path[k]] = path[k - 1]
                    /\ \A m \in k .. Len(path) : (path[k] \in Line(path[m]))'
                    /\ \A m \in (k + 1) .. Len(path) : path[k] < path[m]
  BY DEF WayDown, Walking
<1>1. \A m \in 1 .. Len(path) : path[m] \in Pids /\ Born(path[m])
  BY DEF WayDown
<1>2. Born(path[k])' /\ origin'[path[k]] = origin[path[k]]
  <2>1. PICK p \in Pids : p = path[k]
    BY <1>1
  <2>2. Born(p)' /\ origin'[p] = origin[p]
    BY <1>1, <2>1, TreeLasts, SmallFacts
  <2> QED
    BY <2>1, <2>2 DEF Born
<1>3. ASSUME NEW m \in k .. Len(path)
      PROVE  (path[k] \in Line(path[m]))'
  <2>1. PICK p \in Pids, q \in Pids : p = path[m] /\ q = path[k]
    BY <1>1
  <2>2. Born(p) /\ q \in Line(p)
    BY <1>1, <2>1 DEF WayDown
  <2>3. q \in Line(p)'
    BY <2>2, LineLasts
  <2> QED
    BY <2>1, <2>3 DEF Line, Ancestral
<1> QED
  BY <1>2, <1>3 DEF WayDown

-----------------------------------------------------------------------------
(* The order of the targets.                                               *)

LEMMA GatheredFinite ==
  ASSUME targets \in Seq(Pids)
  PROVE  Gathered \subseteq Pids /\ IsFiniteSet(Gathered)
<1>1. Gathered \subseteq Pids
  BY DEF Gathered
<1>2. IsFiniteSet(Pids)
  BY FS_Interval, TreeAssumption DEF Pids
<1> QED
  BY <1>1, <1>2, FS_Subset

LEMMA OrderStart ==
  ASSUME TreeKnown, UNCHANGED treeVars,
         path' = <<Root>>, targets' = <<Root>>
  PROVE  InOrder'
<1>1. /\ Len(path') = 1 /\ path'[1] = Root
      /\ Len(targets') = 1 /\ targets'[1] = Root /\ Root \in Pids
  BY SmallFacts
<1>2. UNCHANGED <<thread, origin>>
  BY DEF treeVars
<1>3. Gathered' = {Root}
  BY <1>1 DEF Gathered
<1>4. Cardinality(Gathered') = Len(targets')
  BY <1>1, <1>3, FS_Singleton
<1>5. Preorder'
  BY <1>1 DEF Preorder
<1>6. (Root \in Line(Root))'
  BY <1>1 DEF Line
<1>7. Born(Root)' /\ origin'[Root] = Outside /\ Root # Outside
  BY <1>2, SmallFacts DEF TreeKnown, Born, Outside, Pids
<1> QED
  BY <1>1, <1>4, <1>5, <1>6, <1>7 DEF InOrder, Gathered

\* What the walk enters is new among the targets, and so are its children.
LEMMA EnteredIsNew ==
  ASSUME TreeKnown, InOrder, pc = "collect", RoomInv, WalkKnown,
         NEW c \in Pids, Enters(c)
  PROVE  \A i \in 1 .. Len(targets) :
            /\ targets[i] # c
            /\ origin[targets[i]] # c
            /\ origin[targets[i]] = Here => targets[i] < c
<1>1. /\ Here \in Pids /\ Here = path[Len(path)] /\ origin[c] = Here
  BY EnteredChild
<1>2. \A i \in 1 .. Len(targets) :
        origin[targets[i]] = Here => targets[i] <= last
  BY <1>1 DEF InOrder, Enters
<1>3. \A i \in 1 .. Len(targets) : targets[i] \in Nat
  <2>1. \A i \in 1 .. Len(targets) : targets[i] \in Pids
    BY DEF RoomInv
  <2> QED
    BY <2>1 DEF Pids
<1>4. last < c /\ last \in Nat /\ c \in Nat
  BY DEF Enters, Pids, Procs, WalkKnown
<1>5. \A i \in 1 .. Len(targets) : targets[i] # c
  BY <1>1, <1>2, <1>4
<1>6. ASSUME NEW i \in 1 .. Len(targets), origin[targets[i]] = c
      PROVE  FALSE
  <2>1. CASE i = 1
    BY <1>6, <2>1 DEF InOrder, TreeKnown, Pids, Outside
  <2>2. CASE i # 1
    <3>1. i \in 2 .. Len(targets)
      BY <2>2
    <3>2. PICK j \in 1 .. (i - 1) : targets[j] = origin[targets[i]]
      BY <3>1 DEF InOrder, Preorder
    <3> QED
      BY <1>5, <1>6, <3>2
  <2> QED
    BY <2>1, <2>2
<1> QED
  BY <1>2, <1>3, <1>4, <1>5, <1>6

\* What appending c does to the targets.
Adds(c) ==
    /\ Len(targets) \in Nat /\ Len(targets') = Len(targets) + 1
    /\ \A i \in 1 .. Len(targets) : targets'[i] = targets[i]
    /\ targets'[Len(targets) + 1] = c

LEMMA AddTarget ==
  ASSUME targets \in Seq(Pids), NEW c \in Pids, targets' = Append(targets, c)
  PROVE  Adds(c)
BY DEF Adds

LEMMA OrderEnter ==
  ASSUME TreeKnown, WayDown, InOrder, RoomInv, WalkKnown, pc = "collect",
         NEW c \in Pids, Enters(c), Adds(c), UNCHANGED <<treeVars, pc>>
  PROVE  InOrder'
<1> DEFINE N == Len(targets)
<1>1. /\ Here \in Pids /\ Here = path[Len(path)]
      /\ Born(c) /\ origin[c] = Here /\ Here < c /\ Here \in Nat /\ c \in Nat
  BY EnteredChild DEF Pids
<1>2. Line(Here) \subseteq Line(c) /\ c \in Line(c)
  BY <1>1, LineFacts
<1>3. PICK j0 \in 1 .. N :
        targets[j0] = Here /\ \A i \in j0 .. N : Here \in Line(targets[i])
  BY <1>1 DEF InOrder, Enters
<1>4. \A i \in 1 .. N : /\ targets[i] # c
                        /\ origin[targets[i]] # c
                        /\ origin[targets[i]] = Here => targets[i] < c
  BY EnteredIsNew
<1>5. /\ N \in Nat /\ Len(targets') = N + 1
      /\ \A i \in 1 .. N : targets'[i] = targets[i]
      /\ targets'[N + 1] = c
  BY DEF Adds
<1>6. UNCHANGED <<thread, origin>>
  BY DEF treeVars
<1>7. Preorder'
  <2> SUFFICES ASSUME NEW i \in 2 .. (N + 1)
               PROVE  \E j \in 1 .. (i - 1) :
                        /\ targets'[j] = origin[targets'[i]]
                        /\ \A k \in (j + 1) .. (i - 1) :
                             /\ targets'[j] \in Line(targets'[k])
                             /\ origin[targets'[k]] = targets'[j] =>
                                  targets'[k] < targets'[i]
    BY <1>5, <1>6 DEF Preorder, Line, Ancestral
  <2>1. CASE i \in 2 .. N
    <3>1. PICK j \in 1 .. (i - 1) :
            /\ targets[j] = origin[targets[i]]
            /\ \A k \in (j + 1) .. (i - 1) :
                 /\ targets[j] \in Line(targets[k])
                 /\ origin[targets[k]] = targets[j] =>
                      targets[k] < targets[i]
      BY <2>1 DEF InOrder, Preorder
    <3>2. \A k \in 1 .. i : targets'[k] = targets[k]
      BY <1>5, <2>1
    <3> QED
      BY <3>1, <3>2
  <2>2. CASE i = N + 1
    <3>1. j0 \in 1 .. (i - 1) /\ targets'[j0] = Here /\ targets'[i] = c
      BY <1>3, <1>5, <2>2
    <3>2. \A k \in (j0 + 1) .. (i - 1) :
            /\ k \in j0 .. N /\ k \in 1 .. N /\ targets'[k] = targets[k]
      BY <1>5, <2>2
    <3> QED
      BY <1>1, <1>3, <1>4, <3>1, <3>2
  <2> QED
    BY <1>5, <2>1, <2>2
<1>8. Cardinality(Gathered') = Len(targets')
  <2>1. Gathered' = Gathered \cup {c}
    BY <1>5 DEF Gathered
  <2>2. c \notin Gathered
    BY <1>4 DEF Gathered
  <2>3. IsFiniteSet(Gathered)
    BY GatheredFinite DEF RoomInv
  <2> QED
    BY <1>5, <2>1, <2>2, <2>3, FS_AddElement DEF InOrder
<1>9. ASSUME NEW k \in 1 .. Len(path')
      PROVE  /\ \E j \in 1 .. (N + 1) :
                  /\ targets'[j] = path'[k]
                  /\ \A i \in j .. (N + 1) : path'[k] \in Line(targets'[i])
             /\ \A i \in 1 .. (N + 1) :
                  origin[targets'[i]] = path'[k] => targets'[i] <= Passed(k)'
  <2>1. CASE k \in 1 .. Len(path)
    <3>1. path'[k] = path[k]
      BY <2>1 DEF Enters
    <3>2. PICK j \in 1 .. N :
            /\ targets[j] = path[k]
            /\ \A i \in j .. N : path[k] \in Line(targets[i])
      BY <2>1 DEF InOrder
    <3>3. path[k] \in Line(c)
      BY <1>1, <1>2, <2>1 DEF WayDown, Walking, Enters
    <3>4. ASSUME NEW i \in j .. (N + 1)
          PROVE  path'[k] \in Line(targets'[i])
      <4>1. CASE i \in j .. N
        BY <1>5, <3>1, <3>2, <4>1
      <4>2. CASE i = N + 1
        BY <1>5, <3>1, <3>3, <4>2
      <4> QED
        BY <1>5, <4>1, <4>2
    <3>5. ASSUME NEW i \in 1 .. (N + 1), origin[targets'[i]] = path'[k]
          PROVE  targets'[i] <= Passed(k)'
      <4>1. CASE i \in 1 .. N /\ k < Len(path)
        BY <1>5, <2>1, <3>1, <3>5, <4>1 DEF InOrder, Enters
      <4>2. CASE i \in 1 .. N /\ k = Len(path)
        <5>1. targets'[i] = targets[i] /\ origin[targets[i]] = Here
          BY <1>1, <1>5, <3>1, <3>5, <4>2
        <5>2. Passed(k)' = c
          BY <2>1, <4>2 DEF Enters
        <5>3. targets[i] \in Nat
          <6>1. targets[i] \in Pids
            BY <4>2 DEF RoomInv
          <6> QED
            BY <6>1 DEF Pids
        <5> QED
          BY <1>1, <1>4, <4>2, <5>1, <5>2, <5>3
      <4>3. CASE i = N + 1
        <5>1. path[k] = Here /\ targets'[i] = c
          BY <1>1, <1>5, <3>1, <3>5, <4>3
        <5>2. k = Len(path)
          <6> SUFFICES ASSUME k < Len(path) PROVE FALSE
            BY <2>1 DEF Enters
          <6>1. path[k] < path[Len(path)]
            BY <2>1 DEF WayDown, Walking, Enters
          <6> QED
            BY <1>1, <5>1, <6>1
        <5>3. Passed(k)' = c
          BY <2>1, <5>2 DEF Enters
        <5> QED
          BY <1>1, <5>1, <5>3
      <4> QED
        BY <2>1, <4>1, <4>2, <4>3 DEF Enters
    <3> QED
      BY <1>5, <3>1, <3>2, <3>4, <3>5
  <2>2. CASE k = Len(path) + 1
    <3>1. path'[k] = c
      BY <2>2 DEF Enters
    <3>2. \A i \in (N + 1) .. (N + 1) : c \in Line(targets'[i])
      BY <1>2, <1>5
    <3>3. ASSUME NEW i \in 1 .. (N + 1)
          PROVE  origin[targets'[i]] # c
      <4>1. CASE i \in 1 .. N
        BY <1>4, <1>5, <4>1
      <4>2. CASE i = N + 1
        BY <1>1, <1>5, <4>2
      <4> QED
        BY <1>5, <4>1, <4>2
    <3> QED
      BY <1>5, <3>1, <3>2, <3>3
  <2> QED
    BY <2>1, <2>2 DEF Enters
<1>10. /\ \A i \in 1 .. (N + 1) : Born(targets'[i])
       /\ targets'[1] = Root
  BY <1>1, <1>3, <1>5 DEF InOrder
<1>11. (pc = "collect" => \A k \in 1 .. Len(path) :
          /\ \E j \in 1 .. Len(targets) :
              /\ targets[j] = path[k]
              /\ \A i \in j .. Len(targets) : path[k] \in Line(targets[i])
          /\ \A i \in 1 .. Len(targets) :
              origin[targets[i]] = path[k] => targets[i] <= Passed(k))'
  BY <1>5, <1>6, <1>9 DEF Line, Ancestral
<1> QED
  BY <1>5, <1>6, <1>7, <1>8, <1>10, <1>11 DEF InOrder, Born, Gathered

LEMMA OrderStays ==
  ASSUME Preorder, UNCHANGED <<origin, targets>>
  PROVE  Preorder'
<1> SUFFICES ASSUME NEW i \in 2 .. Len(targets)
             PROVE  \E j \in 1 .. (i - 1) :
                      /\ targets[j] = origin[targets[i]]
                      /\ \A k \in (j + 1) .. (i - 1) :
                           /\ targets[j] \in Line(targets[k])
                           /\ origin[targets[k]] = targets[j] =>
                                targets[k] < targets[i]
  BY DEF Preorder, Line, Ancestral
<1> QED
  BY DEF Preorder

LEMMA OrderLeave ==
  ASSUME InOrder, pc = "collect", Leaves, UNCHANGED <<treeVars, pc, targets>>
  PROVE  InOrder'
<1>1. UNCHANGED <<thread, origin>>
  BY DEF treeVars
<1>2. Preorder' /\ Gathered' = Gathered
  BY <1>1, OrderStays DEF InOrder, Gathered
<1>3. ASSUME NEW k \in 1 .. Len(path')
      PROVE  /\ \E j \in 1 .. Len(targets) :
                  /\ targets[j] = path'[k]
                  /\ \A i \in j .. Len(targets) : path'[k] \in Line(targets[i])
             /\ \A i \in 1 .. Len(targets) :
                  origin[targets[i]] = path'[k] => targets[i] <= Passed(k)'
  <2>1. k \in 1 .. Len(path) /\ k \in 1 .. (Len(path) - 1)
    BY DEF Leaves
  <2>2. path'[k] = path[k] /\ Passed(k)' = Passed(k)
    BY <2>1 DEF Leaves
  <2>3. /\ \E j \in 1 .. Len(targets) :
              /\ targets[j] = path[k]
              /\ \A i \in j .. Len(targets) : path[k] \in Line(targets[i])
        /\ \A i \in 1 .. Len(targets) :
              origin[targets[i]] = path[k] => targets[i] <= Passed(k)
    BY <2>1 DEF InOrder
  <2> QED
    BY <2>2, <2>3
<1>4. (pc = "collect" => \A k \in 1 .. Len(path) :
          /\ \E j \in 1 .. Len(targets) :
              /\ targets[j] = path[k]
              /\ \A i \in j .. Len(targets) : path[k] \in Line(targets[i])
          /\ \A i \in 1 .. Len(targets) :
              origin[targets[i]] = path[k] => targets[i] <= Passed(k))'
  BY <1>1, <1>3 DEF Line, Ancestral
<1> QED
  BY <1>1, <1>2, <1>4 DEF InOrder, Born

\* Neither a fork nor an exit changes whom the targets come from.
LEMMA OrderTree ==
  ASSUME StopInv, TreeKnown, InOrder, RoomInv, TreeNext,
         UNCHANGED <<targets, path, last, pc>>
  PROVE  InOrder'
<1>1. ASSUME NEW i \in 1 .. Len(targets)
      PROVE  /\ Born(targets[i])' /\ origin'[targets[i]] = origin[targets[i]]
             /\ \A q \in Line(targets[i]) : (q \in Line(targets[i]))'
  <2>1. PICK p \in Pids : p = targets[i]
    BY DEF RoomInv
  <2>2. Born(p)
    BY <2>1 DEF InOrder
  <2>3. /\ Born(p)' /\ origin'[p] = origin[p]
        /\ \A q \in Line(p) : q \in Line(p)'
    BY <2>2, TreeLasts, LineLasts, SmallFacts
  <2> QED
    BY <2>1, <2>3 DEF Born, Line, Ancestral
<1>2. Preorder'
  <2> SUFFICES ASSUME NEW i \in 2 .. Len(targets)
               PROVE  \E j \in 1 .. (i - 1) :
                        /\ targets[j] = origin'[targets[i]]
                        /\ \A k \in (j + 1) .. (i - 1) :
                             /\ (targets[j] \in Line(targets[k]))'
                             /\ origin'[targets[k]] = targets[j] =>
                                  targets[k] < targets[i]
    BY DEF Preorder
  <2>1. PICK j \in 1 .. (i - 1) :
          /\ targets[j] = origin[targets[i]]
          /\ \A k \in (j + 1) .. (i - 1) :
               /\ targets[j] \in Line(targets[k])
               /\ origin[targets[k]] = targets[j] => targets[k] < targets[i]
    BY DEF InOrder, Preorder
  <2>2. ASSUME NEW k \in (j + 1) .. (i - 1)
        PROVE  /\ (targets[j] \in Line(targets[k]))'
               /\ origin'[targets[k]] = targets[j] => targets[k] < targets[i]
    <3>1. k \in 1 .. Len(targets)
      BY DEF RoomInv
    <3>2. targets[j] \in Line(targets[k])
      BY <2>1
    <3>3. (targets[j] \in Line(targets[k]))'
      <4>1. PICK q : q = targets[j]
        OBVIOUS
      <4>2. (q \in Line(targets[k]))'
        BY <1>1, <3>1, <3>2, <4>1
      <4> QED
        BY <4>1, <4>2
    <3> QED
      BY <1>1, <2>1, <3>1, <3>3
  <2> QED
    BY <1>1, <2>1, <2>2
<1>3. ASSUME pc = "collect", NEW k \in 1 .. Len(path)
      PROVE  /\ \E j \in 1 .. Len(targets) :
                  /\ targets[j] = path[k]
                  /\ \A i \in j .. Len(targets) :
                        (path[k] \in Line(targets[i]))'
             /\ \A i \in 1 .. Len(targets) :
                  origin'[targets[i]] = path[k] => targets[i] <= Passed(k)
  <2>1. /\ \E j \in 1 .. Len(targets) :
              /\ targets[j] = path[k]
              /\ \A i \in j .. Len(targets) : path[k] \in Line(targets[i])
        /\ \A i \in 1 .. Len(targets) :
              origin[targets[i]] = path[k] => targets[i] <= Passed(k)
    BY <1>3 DEF InOrder
  <2>2. PICK j \in 1 .. Len(targets) :
              /\ targets[j] = path[k]
              /\ \A i \in j .. Len(targets) : path[k] \in Line(targets[i])
    BY <2>1
  <2>3. ASSUME NEW i \in j .. Len(targets)
        PROVE  (path[k] \in Line(targets[i]))'
    <3>1. i \in 1 .. Len(targets) /\ path[k] \in Line(targets[i])
      BY <2>2, <2>3
    <3>2. PICK q : q = path[k]
      OBVIOUS
    <3>3. (q \in Line(targets[i]))'
      BY <1>1, <3>1, <3>2
    <3> QED
      BY <3>2, <3>3
  <2> QED
    BY <1>1, <2>1, <2>2, <2>3
<1>4. (pc = "collect" => \A k \in 1 .. Len(path) :
          /\ \E j \in 1 .. Len(targets) :
              /\ targets[j] = path[k]
              /\ \A i \in j .. Len(targets) : path[k] \in Line(targets[i])
          /\ \A i \in 1 .. Len(targets) :
              origin[targets[i]] = path[k] => targets[i] <= Passed(k))'
  BY <1>3 DEF Passed
<1>5. /\ \A i \in 1 .. Len(targets) : Born(targets[i])'
      /\ Gathered' = Gathered
  BY <1>1 DEF Gathered
<1> QED
  BY <1>2, <1>4, <1>5 DEF InOrder

\* What is not walked any more stays as it is.
LEMMA OrderKeeps ==
  ASSUME InOrder, RoomInv, UNCHANGED <<origin, targets>>, pc' # "collect",
         \A p \in Procs : Born(p)' <=> Born(p)
  PROVE  InOrder'
<1>1. Preorder' /\ Gathered' = Gathered
  BY OrderStays DEF InOrder, Gathered
<1>2. ASSUME NEW i \in 1 .. Len(targets)
      PROVE  Born(targets[i])'
  <2>1. PICK p \in Pids : p = targets[i]
    BY DEF RoomInv
  <2>2. Born(p)'
    BY <2>1, SmallFacts DEF InOrder
  <2> QED
    BY <2>1, <2>2 DEF Born
<1> QED
  BY <1>1, <1>2 DEF InOrder

-----------------------------------------------------------------------------
(* Every step keeps the tree, the walk and the order.                      *)

OrderInv == TreeKnown /\ WayDown /\ InOrder /\ SteadyInv

LEMMA ReachableStays ==
  ASSUME UNCHANGED <<parent, reaped>>,
         \A p \in Procs : /\ Born(p)' <=> Born(p)
                          /\ MainEnded(p)' <=> MainEnded(p)
  PROVE  Reachable' = Reachable
<1>1. \A p \in Pids : Children(p)' = Children(p)
  BY SmallFacts DEF Children, Found
<1>2. \A S \in SUBSET Pids : Enclosed(S)' <=> Enclosed(S)
  BY <1>1 DEF Enclosed
<1>3. Reachable \subseteq Reachable'
  BY <1>2, ReachableFacts, ReachableNext DEF ReachableLeast
<1>4. Reachable' \subseteq Reachable
  BY <1>2, ReachableFacts, ReachableNext DEF ReachableLeast
<1> QED
  BY <1>3, <1>4

LEMMA OrderLater ==
  ASSUME OrderInv, StopInv, RoomInv, AsCollected
  PROVE  OrderInv'
<1> USE DEF OrderInv
<1>1. TreeKnown'
  BY SmallFacts DEF AsCollected, TreeKnown
<1>2. WayDown'
  BY DEF AsCollected, WayDown, Walking, CollectPcs
<1>3. InOrder'
  BY OrderKeeps DEF AsCollected, CollectPcs
<1>4. SteadyInv'
  BY ReachableStays DEF AsCollected, SteadyInv
<1> QED
  BY <1>1, <1>2, <1>3, <1>4

LEMMA OrderCollects ==
  ASSUME OrderInv, RoomInv, WalkKnown, CollectNext, UNCHANGED treeVars
  PROVE  OrderInv'
<1> USE DEF OrderInv
<1>1. UNCHANGED <<parent, origin, thread, reaped>>
  BY DEF treeVars
<1>2. \A p \in Procs : /\ Born(p)' <=> Born(p)
                       /\ MainEnded(p)' <=> MainEnded(p)
  BY <1>1 DEF Born, MainEnded
<1>3. TreeKnown'
  BY <1>1 DEF TreeKnown, Born
<1>4. Reachable' = Reachable
  BY <1>1, <1>2, ReachableStays
<1>5. SteadyInv'
  <2>1. CASE steady' = steady
    BY <1>1, <1>4, <2>1 DEF SteadyInv
  <2>2. CASE steady' = Reachable
    BY <1>1, <1>4, <2>2, ReachableFacts DEF SteadyInv, ReachableLeast
  <2> QED
    BY <2>1, <2>2
       DEF CollectNext, Resolve, Count, Counted, Size, Collect, Collected
<1>6. path \in Seq(Pids) /\ last \in Procs /\ targets \in Seq(Pids)
  BY DEF WalkKnown, RoomInv
<1>7. CASE Resolve \/ Counted \/ Collected
  <2>1. pc' # "collect" /\ targets' = targets
    BY <1>7 DEF Resolve, Counted, Collected, Goes
  <2>2. InOrder'
    BY <1>1, <1>2, <2>1, OrderKeeps
  <2>3. WayDown'
    <3>1. CASE path' = <<Root>>
      BY <3>1, WayStart
    <3>2. CASE pc' \notin {"count", "collect"}
      BY <3>2 DEF WayDown, Walking
    <3> QED
      BY <1>7, <3>1, <3>2 DEF Resolve, Counted, Collected, Goes
  <2> QED
    BY <1>3, <1>5, <2>2, <2>3
<1>8. CASE Size
  <2>1. CASE targets' = <<Root>> /\ path' = <<Root>>
    BY <1>3, <1>5, <2>1, WayStart, OrderStart
  <2>2. CASE pc' = "done" /\ targets' = targets
    <3>1. InOrder'
      BY <1>1, <1>2, <2>2, OrderKeeps
    <3>2. WayDown'
      BY <2>2 DEF WayDown, Walking
    <3> QED
      BY <1>3, <1>5, <3>1, <3>2
  <2> QED
    BY <1>8, <2>1, <2>2 DEF Size, Goes
<1>9. CASE Count
  <2>1. Walking /\ pc' = pc /\ pc' = "count" /\ targets' = targets
    BY <1>9 DEF Count, Walking
  <2>2. InOrder'
    BY <1>1, <1>2, <2>1, OrderKeeps
  <2>3. WayDown'
    <3>1. ASSUME NEW c \in Pids, Enter(c)
          PROVE  WayDown'
      <4>1. Enters(c)
        BY <1>6, <3>1, EnterPath
      <4> QED
        BY <2>1, <4>1, <1>6, WayEnter
    <3>2. CASE Leave
      BY <1>6, <2>1, <3>2, LeavePath, WayLeave
    <3> QED
      BY <1>9, <3>1, <3>2 DEF Count
  <2> QED
    BY <1>3, <1>5, <2>2, <2>3
<1>10. CASE Collect
  <2>1. Walking /\ pc' = pc /\ pc = "collect"
    BY <1>10 DEF Collect, Walking
  <2>2. ASSUME NEW c \in Pids, Enter(c), targets' = Append(targets, c)
        PROVE  WayDown' /\ InOrder'
    <3>1. Enters(c) /\ Adds(c)
      BY <1>6, <2>2, EnterPath, AddTarget
    <3>2. WayDown'
      BY <1>6, <2>1, <3>1, WayEnter
    <3>3. InOrder'
      BY <2>1, <3>1, OrderEnter
    <3> QED
      BY <3>2, <3>3
  <2>3. CASE Leave /\ targets' = targets
    <3>1. Leaves
      BY <1>6, <2>3, LeavePath
    <3> QED
      BY <1>3, <1>5, <2>1, <2>3, <3>1, WayLeave, OrderLeave
  <2> QED
    BY <1>3, <1>5, <1>10, <2>2, <2>3 DEF Collect
<1> QED
  BY <1>7, <1>8, <1>9, <1>10 DEF CollectNext

LEMMA OrderStep ==
  OrderInv /\ StopInv /\ RoomInv /\ WalkKnown /\ [Next]_vars => OrderInv'
<1> SUFFICES ASSUME OrderInv, StopInv, RoomInv, WalkKnown, [Next]_vars
             PROVE  OrderInv'
  OBVIOUS
<1>1. CASE CollectNext /\ UNCHANGED treeVars
  BY <1>1, OrderCollects
<1>2. CASE Drawing
  BY <1>2, LaterStep, OrderLater
<1>3. CASE TreeChanges
  <2>1. TreeNext /\ UNCHANGED <<pc, path, last, targets>>
    BY <1>3 DEF TreeChanges
  <2>2. TreeKnown'
    BY <2>1, TreeKnownStep DEF OrderInv
  <2>3. WayDown'
    BY <2>1, WayTree DEF OrderInv, WalkKnown
  <2>4. InOrder'
    BY <2>1, OrderTree DEF OrderInv
  <2>5. SteadyInv'
    BY <1>3, SteadyStep DEF OrderInv
  <2> QED
    BY <2>2, <2>3, <2>4, <2>5 DEF OrderInv
<1>4. CASE UNCHANGED <<treeVars, collectVars>>
  <2>1. UNCHANGED <<parent, origin, thread, reaped, pc, path, last, targets,
                    steady>>
    BY <1>4 DEF treeVars, collectVars
  <2>2. TreeKnown'
    BY <2>1 DEF OrderInv, TreeKnown, Born
  <2>3. WayDown'
    BY <2>1 DEF OrderInv, WayDown, Walking, Born, Line, Ancestral
  <2>4. InOrder'
    <3>1. Preorder' /\ Gathered' = Gathered
      BY <2>1, OrderStays DEF OrderInv, InOrder, Gathered
    <3>2. \A i \in 1 .. Len(targets) : Born(targets[i])'
      BY <2>1 DEF OrderInv, InOrder, Born
    <3>3. (pc = "collect" => \A k \in 1 .. Len(path) :
            /\ \E j \in 1 .. Len(targets) :
                /\ targets[j] = path[k]
                /\ \A i \in j .. Len(targets) : path[k] \in Line(targets[i])
            /\ \A i \in 1 .. Len(targets) :
                origin[targets[i]] = path[k] => targets[i] <= Passed(k))'
      BY <2>1 DEF OrderInv, InOrder, Line, Ancestral, Passed
    <3> QED
      BY <2>1, <3>1, <3>2, <3>3 DEF OrderInv, InOrder
  <2>5. SteadyInv'
    <3>1. Reachable' = Reachable
      BY <2>1, ReachableStays DEF Born, MainEnded
    <3> QED
      BY <2>1, <3>1 DEF OrderInv, SteadyInv
  <2> QED
    BY <2>2, <2>3, <2>4, <2>5 DEF OrderInv
<1> QED
  BY <1>1, <1>2, <1>3, <1>4, OtherSteps

LEMMA InitOrder == InjectInit => OrderInv
<1> SUFFICES ASSUME InjectInit PROVE OrderInv
  OBVIOUS
<1> USE SmallFacts DEF InjectInit
<1>1. PICK n \in Pids, k \in [Pids -> Threads] :
        /\ origin \in [Pids -> Procs]
        /\ \A c \in Pids : IF c \in 2 .. n THEN origin[c] \in 1 .. (c - 1)
                           ELSE origin[c] = Outside
        /\ thread = [p \in Procs |-> [t \in Threads |->
                        IF p = Outside /\ t = Main THEN "runs"
                        ELSE IF p \in 1 .. n /\ t <= k[p] THEN "runs"
                        ELSE "none"]]
  BY DEF TreeInit
<1>2. \A p \in Pids : Main <= k[p]
  BY <1>1 DEF Threads, Main
<1>3. Born(Outside) /\ \A p \in Pids : Born(p) <=> p \in 1 .. n
  <2>1. Born(Outside)
    BY <1>1 DEF Born
  <2>2. ASSUME NEW p \in Pids
        PROVE  Born(p) <=> p \in 1 .. n
    <3>1. p # Outside
      BY DEF Outside, Pids
    <3> QED
      BY <1>1, <1>2, <3>1 DEF Born
  <2> QED
    BY <2>1, <2>2
<1>4. n \in Nat /\ 1 <= n
  BY DEF Pids
<1>5. parent = origin
  BY DEF TreeInit
<1>6. TreeKnown
  BY <1>1, <1>3, <1>4, <1>5 DEF TreeKnown, Pids, Root, Outside
<1>7. /\ pc = "resolve" /\ path = <<>> /\ targets = <<>> /\ steady = {}
  BY DEF CollectInit
<1>8. WayDown /\ SteadyInv
  BY <1>7 DEF WayDown, Walking, SteadyInv
<1>9. Len(targets) = 0 /\ Gathered = {}
  BY <1>7 DEF Gathered
<1>10. InOrder
  BY <1>7, <1>9, FS_EmptySet DEF InOrder, Preorder
<1> QED
  BY <1>6, <1>8, <1>10 DEF OrderInv

LEMMA OrderAlways == InjectSafe => []OrderInv
<1>1. StepInv => WalkKnown
  BY DEF StepInv
<1> QED
  BY <1>1, InitOrder, OrderStep, StopAlways, RoomAlways, StepAlways, PTL
     DEF InjectSafe

\* Whatever forks and exits while fij_collect_descendants_recursive walks
\* (processes.c:31), the targets are in the order that fij.h documents for
\* nprocess, and none is there twice.
THEOREM TargetsInOrder == InjectSafe => []Preorder
<1>1. OrderInv => Preorder
  BY DEF OrderInv, InOrder
<1> QED
  BY <1>1, OrderAlways, PTL

-----------------------------------------------------------------------------
(* What the walks have been to.                                            *)

LEMMA KidsFacts ==
  ASSUME TreeKnown, SteadyInv
  PROVE  /\ AllKids \in Offspring /\ \A p \in Pids : AllKids[p] = Children(p)
         /\ SteadyKids \in Offspring
         /\ \A p \in Pids : SteadyKids[p] \subseteq Children(p)
<1>1. AllKids \in Offspring /\ \A p \in Pids : AllKids[p] = Children(p)
  BY DEF AllKids, Offspring, Children
<1>2. steady \subseteq Reachable /\ Reachable \subseteq Pids
  BY ReachableFacts DEF SteadyInv, ReachableLeast
<1>3. ASSUME NEW p \in Pids, NEW c \in steady, parent[c] = p
      PROVE  c \in Children(p)
  <2>1. c # Root
    <3>1. parent[Root] = Outside
      BY SmallFacts DEF TreeKnown
    <3> QED
      BY <1>3, <3>1 DEF Pids, Outside
  <2> QED
    BY <1>2, <1>3, <2>1, ReachableFacts DEF ReachableLeast
<1> QED
  BY <1>1, <1>2, <1>3 DEF SteadyKids, Offspring

\* The kids are the same when no process changes.
LEMMA KidsStay ==
  ASSUME UNCHANGED treeVars
  PROVE  /\ AllKids' = AllKids
         /\ steady' = steady => SteadyKids' = SteadyKids
         /\ \A p \in Pids : Children(p)' = Children(p)
         /\ Reachable' = Reachable
         /\ \A S \in SUBSET Pids : Enclosed(S)' <=> Enclosed(S)
<1>1. UNCHANGED <<parent, thread, reaped>>
  BY DEF treeVars
<1>2. \A p \in Procs : /\ Born(p)' <=> Born(p)
                       /\ MainEnded(p)' <=> MainEnded(p)
  BY <1>1 DEF Born, MainEnded
<1>3. \A p \in Pids : Children(p)' = Children(p)
  BY <1>1, <1>2, SmallFacts DEF Children, Found
<1> QED
  BY <1>1, <1>2, <1>3, ReachableStays DEF AllKids, SteadyKids, Enclosed

LEMMA CoversStay ==
  ASSUME NEW S, NEW kids, Covers(S, kids), UNCHANGED <<path, last>>
  PROVE  Covers(S, kids)'
BY FewerCovers

\* A process the walk has been to, and one it enters.
LEMMA CoverSet ==
  ASSUME NEW S \in SUBSET Pids, NEW c \in Pids
  PROVE  /\ IsFiniteSet(S) /\ Cardinality(S) \in Nat
         /\ S \cup {c} \in SUBSET Pids
         /\ Cardinality(S \cup {c}) <= Cardinality(S) + 1
<1>1. IsFiniteSet(Pids)
  BY FS_Interval, TreeAssumption DEF Pids
<1>2. IsFiniteSet(S)
  BY <1>1, FS_Subset
<1>3. Cardinality(S) \in Nat
  BY <1>2, FS_CardinalityType
<1>4. Cardinality(S \cup {c}) \in {Cardinality(S), Cardinality(S) + 1}
  BY <1>2, FS_AddElement
<1> QED
  BY <1>2, <1>3, <1>4

LEMMA CountStarts ==
  ASSUME TreeKnown, SteadyInv, RoomInv, UNCHANGED treeVars,
         path' = <<Root>>, last' = 0, count' = count
  PROVE  CountCovers'
<1>1. Covers({Root}, AllKids)'
  <2>1. PICK kids \in Offspring : kids = AllKids
    BY KidsFacts
  <2>2. Covers({Root}, kids)'
    BY StartCovers
  <2>3. kids = AllKids'
    BY <2>1, KidsStay
  <2> QED
    BY <2>2, <2>3 DEF Covers
<1>2. Cardinality({Root}) <= Total' /\ {Root} \in SUBSET Pids
  <2>1. Cardinality({Root}) = 1
    BY FS_Singleton
  <2>2. Total' = count + 1 /\ count \in Nat
    BY DEF Total, RoomInv
  <2> QED
    BY <2>1, <2>2, SmallFacts
<1> QED
  BY <1>1, <1>2 DEF CountCovers

LEMMA CountGoesOn ==
  ASSUME CountCovers, TreeKnown, SteadyInv, WalkKnown, RoomInv, Count,
         UNCHANGED treeVars
  PROVE  CountCovers'
<1> SUFFICES ASSUME ~grown
             PROVE  \E S \in SUBSET Pids :
                      /\ Root \in S
                      /\ Covers(S, AllKids)'
                      /\ Cardinality(S) <= Total'
  BY DEF CountCovers, Count
<1>1. PICK S \in SUBSET Pids :
        Root \in S /\ Covers(S, AllKids) /\ Cardinality(S) <= Total
  BY DEF CountCovers, Count
<1>2. PICK kids \in Offspring : kids = AllKids
  BY KidsFacts
<1>3. \A p \in Pids : kids[p] \subseteq Children(p)
  BY <1>2, KidsFacts
<1>4. kids = AllKids' /\ Covers(S, kids)
  BY <1>1, <1>2, KidsStay
<1>5. path \in Seq(Pids) /\ last \in Procs
  BY DEF WalkKnown
<1>6. ASSUME NEW c \in Pids, Enter(c), count' = count + 1
      PROVE  /\ Covers(S \cup {c}, AllKids)'
             /\ Cardinality(S \cup {c}) <= Total'
             /\ S \cup {c} \in SUBSET Pids
  <2>1. Enters(c)
    BY <1>5, <1>6, EnterPath
  <2>2. Here \in Pids
    BY <2>1 DEF Enters
  <2>3. Covers(S \cup {c}, kids)'
    BY <1>3, <1>4, <1>5, <2>1, <2>2, EnterCovers
  <2>4. Covers(S \cup {c}, AllKids)'
    BY <1>4, <2>3 DEF Covers
  <2>5. Cardinality(S) \in Nat /\ Cardinality(S \cup {c}) <= Cardinality(S) + 1
        /\ S \cup {c} \in SUBSET Pids /\ Cardinality(S \cup {c}) \in Nat
    <3>1. S \cup {c} \in SUBSET Pids
      BY CoverSet
    <3> QED
      BY <3>1, CoverSet
  <2>6. Total' = Total + 1 /\ Total \in Nat
    BY <1>6 DEF Total, RoomInv
  <2>7. Cardinality(S \cup {c}) <= Total'
    BY <1>1, <2>5, <2>6
  <2> QED
    BY <2>4, <2>5, <2>7
<1>7. ASSUME Leave, count' = count
      PROVE  Covers(S, AllKids)' /\ Total' = Total
  <2>1. Leaves
    BY <1>5, <1>7, LeavePath
  <2>2. Here \in Pids
    BY <2>1 DEF Leaves
  <2>3. Covers(S, kids)'
    BY <1>3, <1>4, <2>1, <2>2, LeaveCovers
  <2>4. Covers(S, AllKids)'
    BY <1>4, <2>3 DEF Covers
  <2>5. Total' = Total
    BY <1>7 DEF Total
  <2> QED
    BY <2>4, <2>5
<1>8. CASE \E c \in Pids : Enter(c) /\ count' = count + 1
  <2>1. PICK c \in Pids : Enter(c) /\ count' = count + 1
    BY <1>8
  <2>2. Root \in S \cup {c}
    BY <1>1
  <2> QED
    BY <1>6, <2>1, <2>2
<1>9. CASE Leave /\ count' = count
  BY <1>1, <1>7, <1>9
<1> QED
  BY <1>8, <1>9 DEF Count

\* Once the count is over there is room for all it has been to.
LEMMA SpaceStarts ==
  ASSUME CountCovers, pc = "size", path = <<>>, UNCHANGED <<treeVars, grown>>,
         targets' = <<Root>>, RoomInv,
         capacity' = IF capacity < Total THEN Total ELSE capacity
  PROVE  SpaceCovers'
<1> SUFFICES ASSUME ~grown
             PROVE  \E S \in SUBSET Pids :
                      /\ Enclosed(S)' /\ Gathered' \subseteq S
                      /\ Cardinality(S) <= capacity'
  BY DEF SpaceCovers
<1>1. PICK S \in SUBSET Pids :
        Root \in S /\ Covers(S, AllKids) /\ Cardinality(S) <= Total
  BY DEF CountCovers
<1>2. \A p \in S : AllKids[p] \subseteq S
  BY <1>1, WalkEnds
<1>3. Enclosed(S)
  BY <1>1, <1>2 DEF Enclosed, AllKids
<1>4. Enclosed(S)'
  BY <1>3, KidsStay
<1>5. Gathered' \subseteq S
  BY <1>1 DEF Gathered
<1>6. Cardinality(S) <= capacity'
  <2>1. Cardinality(S) \in Nat
    BY CoverSet, SmallFacts
  <2> QED
    BY <1>1, <2>1 DEF RoomInv, Total
<1> QED
  BY <1>4, <1>5, <1>6

LEMMA SpaceGoesOn ==
  ASSUME SpaceCovers, CollectCovers, RoomInv, WalkKnown, Collect,
         UNCHANGED treeVars
  PROVE  SpaceCovers'
<1> SUFFICES ASSUME ~grown
             PROVE  \E S \in SUBSET Pids :
                      /\ Enclosed(S)' /\ Gathered' \subseteq S
                      /\ Cardinality(S) <= capacity'
  BY DEF SpaceCovers, Collect
<1>1. PICK S \in SUBSET Pids :
        Enclosed(S) /\ Gathered \subseteq S /\ Cardinality(S) <= capacity
  BY DEF SpaceCovers, Collect
<1>2. Enclosed(S)' /\ capacity' = capacity
  BY <1>1, KidsStay DEF Collect
<1>3. ASSUME NEW c \in Pids, Enter(c), targets' = Append(targets, c)
      PROVE  Gathered' \subseteq S
  <2>1. Enters(c) /\ Adds(c)
    BY <1>3, EnterPath, AddTarget DEF WalkKnown, RoomInv
  <2>2. c \in Children(Here) /\ Len(path) \in 1 .. Len(path)
    BY <2>1 DEF Enters
  <2>3. Here \in Gathered
    BY <2>2 DEF CollectCovers, Covers, Here, Collect
  <2>4. c \in S
    BY <1>1, <2>2, <2>3 DEF Enclosed
  <2>5. Gathered' = Gathered \cup {c}
    BY <2>1 DEF Adds, Gathered
  <2> QED
    BY <1>1, <2>4, <2>5
<1>4. CASE targets' = targets
  BY <1>1, <1>2, <1>4 DEF Gathered
<1> QED
  BY <1>1, <1>2, <1>3, <1>4 DEF Collect

LEMMA CollectStarts ==
  ASSUME TreeKnown, SteadyInv, UNCHANGED <<treeVars, steady>>,
         path' = <<Root>>, last' = 0, targets' = <<Root>>
  PROVE  CollectCovers'
<1>1. Gathered' = {Root}
  BY DEF Gathered
<1>2. Covers({Root}, SteadyKids)'
  <2>1. PICK kids \in Offspring : kids = SteadyKids
    BY KidsFacts
  <2>2. Covers({Root}, kids)'
    BY StartCovers
  <2>3. kids = SteadyKids'
    BY <2>1, KidsStay
  <2> QED
    BY <2>2, <2>3 DEF Covers
<1> QED
  BY <1>1, <1>2 DEF CollectCovers, Covers

LEMMA CollectGoesOn ==
  ASSUME CollectCovers, TreeKnown, SteadyInv, WalkKnown, RoomInv, Collect,
         UNCHANGED treeVars
  PROVE  CollectCovers'
<1>1. PICK kids \in Offspring : kids = SteadyKids
  BY KidsFacts
<1>2. \A p \in Pids : kids[p] \subseteq Children(p)
  BY <1>1, KidsFacts
<1>3. kids = SteadyKids'
  BY <1>1, KidsStay DEF Collect
<1>4. PICK S \in SUBSET Pids : S = Gathered
  BY GatheredFinite DEF RoomInv
<1>5. Root \in S /\ Covers(S, kids)
  BY <1>1, <1>4 DEF CollectCovers, Collect
<1>6. path \in Seq(Pids) /\ last \in Procs
  BY DEF WalkKnown
<1>7. ASSUME NEW c \in Pids, Enter(c), targets' = Append(targets, c)
      PROVE  Root \in Gathered' /\ Covers(Gathered, SteadyKids)'
  <2>1. Enters(c) /\ Adds(c)
    BY <1>6, <1>7, EnterPath, AddTarget DEF RoomInv
  <2>2. Here \in Pids
    BY <2>1 DEF Enters
  <2>3. Covers(S \cup {c}, kids)'
    BY <1>2, <1>5, <1>6, <2>1, <2>2, EnterCovers
  <2>4. Gathered' = S \cup {c}
    BY <1>4, <2>1 DEF Adds, Gathered
  <2> QED
    BY <1>3, <1>5, <2>3, <2>4 DEF Covers
<1>8. ASSUME Leave, targets' = targets
      PROVE  Root \in Gathered' /\ Covers(Gathered, SteadyKids)'
  <2>1. Leaves
    BY <1>6, <1>8, LeavePath
  <2>2. Here \in Pids
    BY <2>1 DEF Leaves
  <2>3. Covers(S, kids)'
    BY <1>2, <1>5, <2>1, <2>2, LeaveCovers
  <2>4. Gathered' = S
    BY <1>4, <1>8 DEF Gathered
  <2> QED
    BY <1>3, <1>5, <2>3, <2>4 DEF Covers
<1> QED
  BY <1>7, <1>8 DEF CollectCovers, Collect

\* When all calls have returned the targets are all that was steady; when
\* there is no more room, either they are all there were, or others were
\* forked.
LEMMA CollectEnds ==
  ASSUME TreeKnown, InOrder, SteadyInv, RoomInv, SpaceCovers, CollectCovers,
         Collected
  PROVE  \/ steady \subseteq Gathered
         \/ grown /\ Len(targets) = capacity
<1>1. /\ Root \in Gathered /\ Covers(Gathered, SteadyKids)
      /\ pc = "collect" /\ Gathered \subseteq Pids
  BY GatheredFinite DEF CollectCovers, Collected, RoomInv
<1>2. /\ steady \subseteq Reachable
      /\ \A S \in SUBSET Pids : Enclosed(S) => Reachable \subseteq S
  BY ReachableFacts DEF SteadyInv, ReachableLeast
<1>3. CASE path = <<>>
  <2> DEFINE E == Gathered \cup (Pids \ steady)
  <2>1. \A p \in Gathered : SteadyKids[p] \subseteq Gathered
    BY <1>1, <1>3, WalkEnds
  <2>2. ASSUME NEW p \in E, NEW c \in Children(p)
        PROVE  c \in E
    <3>1. c \in Pids /\ parent[c] = p /\ p \in Pids
      BY <1>1 DEF Children
    <3>2. CASE c \notin steady
      BY <3>1, <3>2
    <3>3. CASE c \in steady /\ p \in Gathered
      BY <2>1, <3>1, <3>3 DEF SteadyKids
    <3>4. CASE c \in steady /\ p \notin Gathered
      BY <1>1, <3>1, <3>4 DEF SteadyInv
    <3> QED
      BY <3>2, <3>3, <3>4
  <2>3. Enclosed(E) /\ E \in SUBSET Pids
    BY <1>1, <2>2 DEF Enclosed
  <2> QED
    BY <1>2, <2>3
<1>4. CASE ~Room
  <2>1. Len(targets) = capacity
    BY <1>1, <1>4 DEF Room, RoomInv, Fits
  <2>2. CASE grown
    BY <2>1, <2>2
  <2>3. CASE ~grown
    <3>1. PICK S \in SUBSET Pids :
            Enclosed(S) /\ Gathered \subseteq S /\ Cardinality(S) <= capacity
      BY <1>1, <2>3 DEF SpaceCovers
    <3>2. Cardinality(Gathered) = capacity /\ capacity \in Nat
      BY <2>1 DEF InOrder, RoomInv
    <3>3. IsFiniteSet(S) /\ Cardinality(S) \in Nat
      BY CoverSet, SmallFacts
    <3>4. /\ Cardinality(Gathered) <= Cardinality(S)
          /\ Cardinality(S) = Cardinality(Gathered) => S = Gathered
      BY <3>1, <3>3, FS_Subset
    <3>5. Cardinality(S) = capacity
      BY <3>1, <3>2, <3>3, <3>4
    <3> QED
      BY <1>2, <3>1, <3>2, <3>4, <3>5
  <2> QED
    BY <2>2, <2>3
<1> QED
  BY <1>3, <1>4 DEF Collected

\* Forks apart, the tree only loses children; what is steady loses none.
LEMMA CoverTree ==
  ASSUME CoverInv, OrderInv, StopInv, RoomInv, TreeChanges
  PROVE  CoverInv'
<1>1. /\ TreeNext /\ UNCHANGED <<pc, path, last, count, capacity, targets>>
      /\ steady' = steady \cap Reachable' /\ (grown => grown')
  BY DEF TreeChanges
<1>2. TreeKnown /\ SteadyInv /\ TreeKnown' /\ SteadyInv'
  <2>1. TreeKnown /\ SteadyInv
    BY DEF OrderInv
  <2> QED
    BY <1>1, <2>1, TreeKnownStep, SteadyStep
<1>3. ASSUME ~grown', pc # "resolve"
      PROVE  \A p \in Pids : Children(p)' \subseteq Children(p)
  <2>1. \A c \in Pids : Born(c)' => Born(c)
    BY <1>3 DEF TreeChanges
  <2>2. ASSUME NEW p \in Pids, NEW c \in Children(p)'
        PROVE  c \in Children(p)
    <3>1. c \in Pids /\ Born(c)'
      BY <2>2 DEF Children, Found
    <3> QED
      BY <1>1, <2>1, <2>2, <3>1, TreeLasts
  <2> QED
    BY <2>2
<1>4. CountCovers'
  <2> SUFFICES ASSUME pc \in {"count", "size"}, ~grown'
               PROVE  \E S \in SUBSET Pids :
                        /\ Root \in S /\ Covers(S, AllKids)'
                        /\ Cardinality(S) <= Total'
    BY <1>1 DEF CountCovers
  <2>1. PICK S \in SUBSET Pids :
          Root \in S /\ Covers(S, AllKids) /\ Cardinality(S) <= Total
    BY <1>1 DEF CoverInv, CountCovers
  <2>2. PICK kids, fewer : kids = AllKids /\ fewer = AllKids'
    OBVIOUS
  <2>3. \A p \in S : fewer[p] \subseteq kids[p]
    BY <1>3, <2>2 DEF AllKids
  <2>4. Covers(S, kids)
    BY <2>1, <2>2
  <2>5. Covers(S, fewer)'
    BY <1>1, <2>3, <2>4, FewerCovers
  <2>6. Covers(S, AllKids)' /\ Total' = Total
    BY <1>1, <2>2, <2>5 DEF Covers, Total
  <2> QED
    BY <2>1, <2>6
<1>5. SpaceCovers'
  <2> SUFFICES ASSUME pc = "collect", ~grown'
               PROVE  \E S \in SUBSET Pids :
                        /\ Enclosed(S)' /\ Gathered \subseteq S
                        /\ Cardinality(S) <= capacity
    BY <1>1 DEF SpaceCovers, Gathered
  <2>1. PICK S \in SUBSET Pids :
          Enclosed(S) /\ Gathered \subseteq S /\ Cardinality(S) <= capacity
    BY <1>1 DEF CoverInv, SpaceCovers
  <2>2. Enclosed(S)'
    BY <1>3, <2>1 DEF Enclosed
  <2> QED
    BY <2>1, <2>2
<1>6. CollectCovers'
  <2> SUFFICES ASSUME pc = "collect"
               PROVE  Root \in Gathered /\ Covers(Gathered, SteadyKids)'
    BY <1>1 DEF CollectCovers, Gathered
  <2>1. PICK S \in SUBSET Pids : S = Gathered
    BY GatheredFinite DEF RoomInv
  <2>2. PICK kids, fewer : kids = SteadyKids /\ fewer = SteadyKids'
    OBVIOUS
  <2>3. Root \in S /\ Covers(S, kids)
    BY <2>1, <2>2 DEF CoverInv, CollectCovers
  <2>4. \A p \in S : fewer[p] \subseteq kids[p]
    <3>1. \A c \in steady' : parent'[c] = parent[c] /\ c \in steady
      BY <1>1, <1>2, SteadyStep
    <3> QED
      BY <2>2, <3>1 DEF SteadyKids
  <2>5. Covers(S, fewer)'
    BY <1>1, <2>3, <2>4, FewerCovers
  <2>6. Gathered' = S
    BY <1>1, <2>1 DEF Gathered
  <2> QED
    BY <2>1, <2>2, <2>3, <2>5, <2>6 DEF Covers
<1>7. CollectsAll'
  BY <1>1 DEF CoverInv, CollectsAll
<1> QED
  BY <1>1, <1>4, <1>5, <1>6, <1>7 DEF CoverInv

LEMMA CoverCollects ==
  ASSUME CoverInv, OrderInv, RoomInv, WalkKnown, CollectNext,
         UNCHANGED treeVars
  PROVE  CoverInv'
<1>1. TreeKnown /\ SteadyInv /\ InOrder /\ TreeKnown' /\ SteadyInv'
  BY OrderCollects DEF OrderInv
<1>2. CountCovers /\ SpaceCovers /\ CollectCovers
      /\ (pc = "size" => path = <<>>) /\ CollectsAll
  BY DEF CoverInv
<1>3. CASE Resolve
  <2>1. CASE pc' = "count" /\ path' = <<Root>> /\ last' = 0 /\ count' = count
    <3>1. CountCovers'
      BY <1>1, <2>1, CountStarts
    <3> QED
      BY <2>1, <3>1 DEF CoverInv, SpaceCovers, CollectCovers, CollectsAll
  <2>2. CASE pc' = "done"
    BY <2>2 DEF CoverInv, CountCovers, SpaceCovers, CollectCovers, CollectsAll
  <2> QED
    BY <1>3, <2>1, <2>2 DEF Resolve, Goes
<1>4. CASE Count
  <2>1. CountCovers' /\ pc' = "count"
    BY <1>1, <1>2, <1>4, CountGoesOn DEF Count
  <2> QED
    BY <2>1 DEF CoverInv, SpaceCovers, CollectCovers, CollectsAll
<1>5. CASE Counted
  <2>1. /\ pc = "count" /\ pc' = "size" /\ path = <<>>
        /\ UNCHANGED <<path, last, count, grown>>
    BY <1>5 DEF Counted, Goes
  <2>2. CountCovers'
    <3> SUFFICES ASSUME ~grown
                 PROVE  \E S \in SUBSET Pids :
                          /\ Root \in S /\ Covers(S, AllKids)'
                          /\ Cardinality(S) <= Total'
      BY <2>1 DEF CountCovers
    <3>1. PICK S \in SUBSET Pids :
            Root \in S /\ Covers(S, AllKids) /\ Cardinality(S) <= Total
      BY <1>2, <2>1 DEF CountCovers
    <3>2. PICK kids : kids = AllKids /\ kids = AllKids'
      BY KidsStay
    <3>3. Covers(S, kids)
      BY <3>1, <3>2
    <3>4. Covers(S, kids)'
      BY <2>1, <3>3, CoversStay
    <3>5. Covers(S, AllKids)' /\ Total' = Total
      BY <2>1, <3>2, <3>4 DEF Covers, Total
    <3> QED
      BY <3>1, <3>5
  <2> QED
    BY <2>1, <2>2 DEF CoverInv, SpaceCovers, CollectCovers, CollectsAll
<1>6. CASE Size
  <2>1. pc = "size" /\ path = <<>> /\ UNCHANGED <<count, steady, grown>>
    BY <1>2, <1>6 DEF Size
  <2>2. CASE /\ capacity' = IF capacity < Total THEN Total ELSE capacity
             /\ targets' = <<Root>> /\ path' = <<Root>> /\ last' = 0
             /\ pc' = "collect"
    <3>1. SpaceCovers'
      BY <1>2, <2>1, <2>2, SpaceStarts
    <3>2. CollectCovers'
      BY <1>1, <2>1, <2>2, CollectStarts
    <3> QED
      BY <2>2, <3>1, <3>2 DEF CoverInv, CountCovers, CollectsAll
  <2>3. CASE pc' = "done"
    BY <2>3 DEF CoverInv, CountCovers, SpaceCovers, CollectCovers, CollectsAll
  <2> QED
    BY <1>6, <2>2, <2>3 DEF Size, Goes
<1>7. CASE Collect
  <2>1. SpaceCovers' /\ CollectCovers' /\ pc' = "collect"
    BY <1>1, <1>2, <1>7, SpaceGoesOn, CollectGoesOn DEF Collect
  <2> QED
    BY <2>1 DEF CoverInv, CountCovers, CollectsAll
<1>8. CASE Collected
  <2>1. \/ steady \subseteq Gathered
        \/ grown /\ Len(targets) = capacity
    BY <1>1, <1>2, <1>8, CollectEnds
  <2>2. pc' = "choose" /\ UNCHANGED <<targets, capacity, steady, grown>>
    BY <1>8 DEF Collected, Goes
  <2>3. CollectsAll'
    BY <2>1, <2>2 DEF CollectsAll, Gathered
  <2> QED
    BY <2>2, <2>3 DEF CoverInv, CountCovers, SpaceCovers, CollectCovers
<1> QED
  BY <1>3, <1>4, <1>5, <1>6, <1>7, <1>8 DEF CollectNext

\* What is neither a step of the walk nor of the tree keeps what it covers.
LEMMA CoverKeeps ==
  ASSUME CoverInv, UNCHANGED <<treeVars, collectVars>>
  PROVE  CoverInv'
<1>1. /\ UNCHANGED <<pc, path, last, count, capacity, targets, steady, grown>>
      /\ Total' = Total /\ Gathered' = Gathered
  BY DEF collectVars, Total, Gathered
<1>2. ASSUME NEW S, NEW kids, Covers(S, kids)
      PROVE  Covers(S, kids)'
  BY <1>1, <1>2, CoversStay
<1>3. CountCovers'
  <2> SUFFICES ASSUME pc \in {"count", "size"}, ~grown
               PROVE  \E S \in SUBSET Pids :
                        /\ Root \in S /\ Covers(S, AllKids)'
                        /\ Cardinality(S) <= Total
    BY <1>1 DEF CountCovers
  <2>1. PICK S \in SUBSET Pids :
          Root \in S /\ Covers(S, AllKids) /\ Cardinality(S) <= Total
    BY DEF CoverInv, CountCovers
  <2>2. PICK kids : kids = AllKids /\ kids = AllKids'
    BY KidsStay
  <2>3. Covers(S, kids)'
    BY <1>2, <2>1, <2>2
  <2>4. Covers(S, AllKids)'
    BY <2>2, <2>3 DEF Covers
  <2> QED
    BY <2>1, <2>4
<1>4. SpaceCovers'
  BY <1>1, KidsStay DEF CoverInv, SpaceCovers
<1>5. CollectCovers'
  <2>1. PICK S, kids :
          S = Gathered /\ kids = SteadyKids /\ kids = SteadyKids'
    BY <1>1, KidsStay
  <2>2. pc = "collect" => Covers(S, kids)'
    BY <1>2, <2>1 DEF CoverInv, CollectCovers
  <2> QED
    BY <1>1, <2>1, <2>2 DEF CoverInv, CollectCovers, Covers
<1> QED
  BY <1>1, <1>3, <1>4, <1>5 DEF CoverInv, CollectsAll

LEMMA CoverStep ==
  CoverInv /\ OrderInv /\ StopInv /\ RoomInv /\ WalkKnown /\ [Next]_vars
    => CoverInv'
<1> SUFFICES ASSUME CoverInv, OrderInv, StopInv, RoomInv, WalkKnown,
                    [Next]_vars
             PROVE  CoverInv'
  OBVIOUS
<1>1. CASE CollectNext /\ UNCHANGED treeVars
  BY <1>1, CoverCollects
<1>2. CASE Drawing
  <2>1. pc' \notin CollectPcs \cup {"choose"}
    BY <1>2, LaterStep DEF AsCollected
  <2> QED
    BY <2>1 DEF CoverInv, CountCovers, SpaceCovers, CollectCovers,
                CollectsAll, CollectPcs
<1>3. CASE TreeChanges
  BY <1>3, CoverTree
<1>4. CASE UNCHANGED <<treeVars, collectVars>>
  BY <1>4, CoverKeeps
<1> QED
  BY <1>1, <1>2, <1>3, <1>4, OtherSteps

LEMMA CoverAlways == InjectSafe => []CoverInv
<1>1. InjectInit => CoverInv
  BY DEF InjectInit, CollectInit, CoverInv, CountCovers, SpaceCovers,
         CollectCovers, CollectsAll
<1>2. StepInv => WalkKnown
  BY DEF StepInv
<1> QED
  BY <1>1, <1>2, CoverStep, OrderAlways, StopAlways, RoomAlways, StepAlways,
     PTL DEF InjectSafe

\* fij_collect_descendants (processes.c:79) misses no process that could be
\* reached from the root all the time, however the tree shrinks and grows
\* between its two walks and during them, unless others were forked in
\* between and the array is full.
THEOREM NoneIsMissed == InjectSafe => []CollectsAll
<1>1. CoverInv => CollectsAll
  BY DEF CoverInv
<1> QED
  BY <1>1, CoverAlways, PTL
=============================================================================
