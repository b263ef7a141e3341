------------------------------ MODULE FijInject ------------------------------
(***************************************************************************)
(* fij_stop_flip_resume_one_random of core/bitflip_ops.c on a tree of      *)
(* processes with several threads: the process and the thread are drawn,   *)
(* the process is stopped, one thread (or, with all_threads, each of them) *)
(* or its memory is flipped, and the process is resumed.  Meanwhile the    *)
(* tree changes and the monitor thread may ask the injection to stop.      *)
(*                                                                         *)
(* SEND_MSG has resumed the target before; FijModule has the race with it. *)
(***************************************************************************)
EXTENDS FijCollect, Integers, FiniteSets

CONSTANT ParamSet  \* the parameters the client may send

\* nprocess is -1 and nthread is 0 when the field is absent (or has one of
\* the values that the code treats as absent).  place is what a flip may
\* hit: "reg" with a target_reg (which only_mem does not override), "mem"
\* with only_mem and no register, "any" when the weight decides.
Params == [nprocess : Int, nthread : Nat, all : BOOLEAN,
           place : {"reg", "mem", "any"}]

ASSUME ParamAssumption == ParamSet \subseteq Params

VARIABLES
    params,   \* ctx->exec.params, first read when the process is drawn
    tgid,     \* result.target_tgid
    pick,     \* the index of the thread among the eligible ones, from 0
    cur,      \* the thread the injection works on
    did_mem,  \* all_threads: the memory has been flipped
    first_err,\* all_threads: a thread failed
    result,   \* fault_injected and memory_flip of ctx->exec.result
    alive,    \* ctx->target_alive, which the monitor thread clears
    regHits,  \* history: how often a register of each thread was flipped
    memHits   \* history: and a bit of each process's memory

injectVars == <<params, tgid, pick, cur, did_mem, first_err, result,
                regHits, memHits>>

vars == <<treeVars, collectVars, injectVars, alive>>

InjectPcs == {"choose", "pick", "grab", "stop", "leader", "next", "wait",
              "flip", "cont", "done", "oops"}

\* The values the variables range over; no reference count falls below 0.
InjectTypeOK ==
    /\ TreeTypeOK
    /\ CollectTypeOK
    /\ pc \in CollectPcs \cup InjectPcs
    /\ params \in Params
    /\ tgid \in Procs
    /\ pick \in Nat
    /\ cur \in 0 .. MaxThread
    /\ did_mem \in BOOLEAN
    /\ first_err \in BOOLEAN
    /\ result \in [fault_injected : BOOLEAN, flip : {"none", "reg", "mem"}]
    /\ alive \in BOOLEAN
    /\ regHits \in [Procs -> [Threads -> Nat]]
    /\ memHits \in [Procs -> Nat]

NoParams == [nprocess |-> -1, nthread |-> 0, all |-> FALSE, place |-> "any"]

InjectInit ==
    /\ TreeInit
    /\ CollectInit
    /\ params = NoParams
    /\ tgid = Outside
    /\ pick = 0
    /\ cur = 0
    /\ did_mem = FALSE
    /\ first_err = FALSE
    /\ result = [fault_injected |-> FALSE, flip |-> "none"]
    /\ alive = TRUE
    /\ regHits = [p \in Procs |-> [t \in Threads |-> 0]]
    /\ memHits = [p \in Procs |-> 0]

WalkUnchanged ==
    UNCHANGED <<path, last, count, capacity, targets, steady, grown>>

-----------------------------------------------------------------------------
\* The test of nprocess lets the number of targets itself pass.
Accepted(i) == 0 <= i /\ i <= Len(targets)

\* What ctx->targets[i] reads: past the targets collected, a pid of an
\* earlier run or whatever lies after the array.
Entry(i) == IF i < Len(targets) THEN {targets[i + 1]} ELSE Procs

ChooseProcess ==
    /\ pc = "choose"
    /\ params' \in ParamSet
    /\ \E i \in IF Accepted(params'.nprocess) THEN {params'.nprocess}
                ELSE 0 .. (Len(targets) - 1) :
            tgid' \in Entry(i)
    /\ Goes(IF params'.all THEN "stop" ELSE "pick")
    /\ UNCHANGED <<treeVars, pick, cur, did_mem, first_err, result, alive,
                   regHits, memHits, refs>>
    /\ WalkUnchanged

\* The pickers count the threads: a random one of them, or the one asked
\* for if it exists.  They reference the main thread twice and put it once.
CountThreads ==
    /\ pc = "pick"
    /\ refs' = IF Found(tgid) THEN [refs EXCEPT !.leader = @ + 1] ELSE refs
    /\ LET n == Cardinality(Eligible(tgid))
       IN \/ /\ Found(tgid)
             /\ pick' \in IF params.nthread = 0 THEN 0 .. (n - 1)
                          ELSE {params.nthread - 1} \cap 0 .. (n - 1)
             /\ Goes("grab")
          \/ /\ ~Found(tgid) \/ n = 0 \/ params.nthread > n
             /\ Goes("done")
             /\ UNCHANGED pick
    /\ UNCHANGED <<treeVars, params, tgid, cur, did_mem, first_err, result,
                   alive, regHits, memHits>>
    /\ WalkUnchanged

Nth(T, i) == {t \in T : Cardinality({u \in T : u < t}) = i}

\* They walk over the threads again to take it; it may have ended.
GrabThread ==
    /\ pc = "grab"
    /\ LET chosen == Nth(Eligible(tgid), pick)
       IN IF chosen = {} THEN Goes("done") /\ UNCHANGED <<cur, refs>>
          ELSE /\ cur' \in chosen
               /\ refs' = [refs EXCEPT !.thread = 1]
               /\ Goes("stop")
    /\ UNCHANGED <<treeVars, params, tgid, pick, did_mem, first_err, result,
                   alive, regHits, memHits>>
    /\ WalkUnchanged

\* put_task_struct of the chosen thread, on every path that has one.  A bug:
\* the error path forgets it.
ThreadKept == refs
ThreadPut == [refs EXCEPT !.thread = 0]

GroupStop ==
    /\ pc = "stop"
    /\ IF Found(tgid)
       THEN /\ Sigstop(tgid)
            /\ Goes(IF params.all THEN "leader" ELSE "wait")
            /\ UNCHANGED refs
       ELSE /\ Goes("done")
            /\ refs' = ThreadPut
            /\ UNCHANGED treeVars
    /\ UNCHANGED <<injectVars, alive>>
    /\ WalkUnchanged

-----------------------------------------------------------------------------
\* all_threads: the main thread is looked up again and referenced twice; the
\* loop follows it even if it is NULL.  A bug: a put without a get.
NoGet == 0
TwoGets == 2

FindLeader ==
    /\ pc = "leader"
    /\ IF Found(tgid)
       THEN /\ refs' = [refs EXCEPT !.leader = @ + TwoGets]
            /\ Goes("next")
       ELSE Goes("oops") /\ UNCHANGED refs
    /\ cur' = 0
    /\ UNCHANGED <<treeVars, params, tgid, pick, did_mem, first_err, result,
                   alive, regHits, memHits>>
    /\ WalkUnchanged

\* Threads on the list: an ended main thread stays as long as its process.
Listed(p) == Eligible(p) \cup {t \in {Main} : Found(p)}

Following == {t \in Listed(tgid) : t > cur}

NextThread ==
    /\ pc = "next"
    /\ IF Following = {} THEN Goes("cont") /\ UNCHANGED cur
       ELSE /\ cur' \in Following /\ \A t \in Following : cur' <= t
            /\ Goes("wait")
    /\ UNCHANGED <<treeVars, refs, params, tgid, pick, did_mem, first_err,
                   result, alive, regHits, memHits>>
    /\ WalkUnchanged

\* After a thread the loop goes on; a single thread was the last one.
AfterThread == IF params.all THEN "next" ELSE "cont"

\* A bug: the error is lost.
Lost == first_err
Failed == TRUE

Fails ==
    /\ first_err' = Failed
    /\ Goes(AfterThread)
    /\ UNCHANGED <<did_mem, result, regHits, memHits>>

\* fij_wait_task_stopped.  A bug: its error is ignored.
IgnoresWait(s) == TRUE
StoppedInTime(s) == s = "stopped"

\* The thread ended, the injection is asked to stop, or 100 ms are over.  A
\* bug: there is no timeout.
NoTimeout(s) == s = "ended"
GivesUp(s) == s # "stopped"

WaitStopped ==
    /\ pc = "wait"
    /\ LET s == thread[tgid][cur]
       IN \/ /\ StoppedInTime(s)
             /\ Goes("flip")
             /\ UNCHANGED <<did_mem, first_err, result, regHits, memHits>>
          \/ GivesUp(s) /\ Fails
    /\ UNCHANGED <<treeVars, refs, params, tgid, pick, cur, alive>>
    /\ WalkUnchanged

\* A bug: the loop does not remember the flip of the memory.
Forgets == FALSE
Remembers == TRUE

\* Only the injection into one thread reports.  A bug: neither does.
ReportsNothing == FALSE
Reports == ~params.all

Flipped(what) ==
    /\ result' = [fault_injected |-> result.fault_injected \/ Reports,
                  flip |-> what]
    /\ Goes(AfterThread)
    /\ UNCHANGED first_err

\* A register of the thread as it was saved when it entered the kernel.
FlipRegister ==
    /\ pc = "flip" /\ params.place \in {"reg", "any"}
    /\ \/ /\ regHits' = [regHits EXCEPT ![tgid][cur] = @ + 1]
          /\ Flipped("reg")
          /\ UNCHANGED <<did_mem, memHits>>
       \/ Fails  \* no such register or bit
    /\ UNCHANGED <<treeVars, refs, params, tgid, pick, cur, alive>>
    /\ WalkUnchanged

\* The memory of the process, once however many threads it has.
FlipMemory ==
    /\ pc = "flip" /\ params.place \in {"mem", "any"}
    /\ \/ /\ ~did_mem /\ Alive(tgid) /\ alive
          /\ memHits' = [memHits EXCEPT ![tgid] = @ + 1]
          /\ did_mem' = Remembers
          /\ Flipped("mem")
          /\ UNCHANGED regHits
       \/ ~did_mem /\ Fails  \* gone, doomed, busy or not accessible
       \/ /\ did_mem
          /\ Goes(AfterThread)
          /\ UNCHANGED <<did_mem, first_err, result, regHits, memHits>>
    /\ UNCHANGED <<treeVars, refs, params, tgid, pick, cur, alive>>
    /\ WalkUnchanged

\* fij_send_cont.  A bug: only after a flip.
OnlyAfterFlip == result.flip # "none"
Always == TRUE

Continue ==
    /\ pc = "cont"
    /\ IF Always THEN Sigcont(tgid) ELSE UNCHANGED treeVars
    /\ refs' = IF params.all THEN [refs EXCEPT !.leader = @ - 1] ELSE ThreadPut
    /\ Goes("done")
    /\ UNCHANGED <<injectVars, alive>>
    /\ WalkUnchanged

-----------------------------------------------------------------------------
InjectNext ==
    \/ CollectNext /\ UNCHANGED <<treeVars, injectVars, alive>>
    \/ ChooseProcess \/ CountThreads \/ GrabThread \/ GroupStop \/ FindLeader
    \/ NextThread \/ WaitStopped \/ FlipRegister \/ FlipMemory \/ Continue

TreeChanges ==
    /\ TreeNext
    /\ steady' = steady \cap Reachable'
    /\ grown' = (\/ grown
                 \/ /\ pc # "resolve"
                    /\ \E p \in Pids : ~Born(p) /\ Born(p)')
    /\ UNCHANGED <<pc, path, last, count, capacity, targets, refs, injectVars,
                   alive>>

\* The target ended or KILL_TARGET was called: the monitor thread clears
\* target_alive.  It then asks the injection to stop, which the wait for a
\* stop takes notice of; its timeout covers that.
MonitorEnds ==
    /\ alive
    /\ alive' = FALSE
    /\ UNCHANGED <<treeVars, collectVars, injectVars>>

Over == pc \in {"done", "oops"}

Rest == Over /\ UNCHANGED vars

Next == InjectNext \/ TreeChanges \/ MonitorEnds \/ Rest

InjectSafe == InjectInit /\ [][Next]_vars

\* The scheduler runs the bitflip thread.
InjectSpec == InjectSafe /\ WF_vars(InjectNext)

-----------------------------------------------------------------------------
(* Safety.                                                                 *)

\* What is collected fits the array, although the tree may have grown since
\* it was counted (the two passes of fij_collect_descendants).
Fits == pc = "collect" => Len(targets) <= capacity

\* The forebears of a process, itself included: what contains it and every
\* process that forked one of its members.
Ancestral(S) == \A p \in S : origin[p] # Outside => origin[p] \in S
Line(p) == {q \in Pids : \A S \in SUBSET Pids :
                             p \in S /\ Ancestral(S) => q \in S}

\* The targets are in the order that fij.h documents for nprocess, root,
\* first child, its children, ..., and none is there twice, whatever forks
\* or exits during the walk: each was forked by one before it, only
\* descendants of that one lie between, and siblings come in the order of
\* their birth.
Preorder ==
    \A i \in 2 .. Len(targets) :
        \E j \in 1 .. (i - 1) :
            /\ targets[j] = origin[targets[i]]
            /\ \A k \in (j + 1) .. (i - 1) :
                    /\ targets[j] \in Line(targets[k])
                    /\ origin[targets[k]] = targets[j] =>
                            targets[k] < targets[i]

\* A process that could be reached during both passes is collected, unless
\* others that were forked in between have filled the array.
CollectsAll ==
    pc = "choose" =>
        \/ \A p \in steady : \E i \in 1 .. Len(targets) : targets[i] = p
        \/ grown /\ Len(targets) = capacity

\* A register is flipped while its thread is stopped or, after a SIGKILL,
\* ended: the wait of fij_wait_task_stopped, the other threads and the
\* processes around do not undo the stop.
HitsStopped == pc = "flip" => thread[tgid][cur] \in {"stopped", "ended"}

\* One injection flips at most one register bit of each thread and at most
\* one bit of memory, although all_threads draws for each thread anew.
FlippedOnce ==
    \A p \in Procs : /\ memHits[p] <= 1
                      /\ \A t \in Threads : regHits[p][t] <= 1

\* all_threads without an error has flipped every thread that is still
\* there, or the memory they share, before it resumes them.
AllThreadsHit ==
    pc = "cont" /\ params.all /\ ~first_err =>
        \A t \in Eligible(tgid) : regHits[tgid][t] = 1 \/ memHits[tgid] = 1

\* Where bits of a process were flipped: in threads, and 0 is its memory.
Memory == 0
Struck(p) == {t \in Threads : regHits[p][t] > 0}
                \cup {m \in {Memory} : memHits[p] > 0}

\* What the result says of them.
Told ==
    IF ~result.fault_injected THEN Struck(tgid) = {}
    ELSE IF result.flip = "mem" THEN Struck(tgid) = {Memory}
    ELSE \E t \in Threads : Struck(tgid) = {t}

\* The result names the process that was hit and no other was; a single
\* injection says exactly whether it flipped a bit, and where, and it flips
\* none but that one.
ResultTrue ==
    /\ \A p \in Procs : Struck(p) # {} => p = tgid
    /\ pc = "done" /\ ~params.all => Told

\* Whatever failed in between, an injection that is over has left no thread
\* of any process stopped and no stop pending.
StoppedAreResumed ==
    Over => \A p \in Procs : Alive(p) =>
                /\ p \notin stopping
                /\ \A t \in Threads : thread[p][t] # "stopped"

\* On every path the references to the root and the thread are put; that to
\* the main thread is put but once, so that one is lost at most.
RefsSettled ==
    pc = "done" => /\ refs.root = 0 /\ refs.thread = 0
                   /\ refs.leader <= 1

\* The process that is stopped and flipped is one of those collected, as
\* fij.h has it: nprocess is an index into the array of targets.
HitsTree ==
    pc \in {"pick", "grab", "stop", "leader", "next", "wait", "flip", "cont"}
        => \E i \in 1 .. Len(targets) : targets[i] = tgid

-----------------------------------------------------------------------------
(* Inductive invariants: what the stop and the flips rest on.              *)

\* A pid that nobody has yet, and one that is found no more, are at rest.
UnbornRest ==
    \A p \in Procs : ~Born(p) =>
        p \notin stopping /\ \A t \in Threads : thread[p][t] = "none"
ReapedRest == \A p \in reaped : Born(p) /\ ~Alive(p)

Unstopped(p) ==
    p \notin stopping /\ \A t \in Threads : thread[p][t] # "stopped"

\* From the SIGSTOP to the SIGCONT.
Halting == pc \in {"leader", "next", "wait", "flip", "cont"}

\* Only the process the injection has drawn is stopped, and only then.
StopInv ==
    /\ TreeTypeOK
    /\ tgid \in Procs
    /\ UnbornRest
    /\ ReapedRest
    /\ \A p \in Procs : Alive(p) => Unstopped(p) \/ (Halting /\ p = tgid)

HitTypeOK ==
    /\ tgid \in Procs
    /\ cur \in 0 .. MaxThread
    /\ did_mem \in BOOLEAN
    /\ regHits \in [Procs -> [Threads -> Nat]]
    /\ memHits \in [Procs -> Nat]

Unhit(p) == memHits[p] = 0 /\ \A t \in Threads : regHits[p][t] = 0

\* The registers of the threads the loop has still to come to.
ToCome == {t \in Threads : CASE pc = "next" -> t > cur
                             [] pc \in {"wait", "flip"} -> t >= cur
                             [] OTHER -> FALSE}

\* Only the process drawn is hit, the threads to come are not yet, and
\* did_mem remembers the flip of the memory.
HitInv ==
    /\ HitTypeOK
    /\ \A p \in Procs \ {tgid} : Unhit(p)
    /\ pc \in CollectPcs \cup {"choose", "pick", "grab", "stop", "leader"} =>
            Unhit(tgid)
    /\ \A t \in ToCome : regHits[tgid][t] = 0
    /\ memHits[tgid] > 0 => did_mem
    /\ FlippedOnce

\* The walk stays on the processes there are.
WalkKnown ==
    /\ path \in Seq(Pids)
    /\ last \in Procs
    /\ steady \subseteq Pids
    /\ grown \in BOOLEAN

\* What is drawn and reported.
DrawKnown ==
    /\ params \in Params
    /\ pick \in Nat
    /\ first_err \in BOOLEAN
    /\ result \in [fault_injected : BOOLEAN, flip : {"none", "reg", "mem"}]
    /\ alive \in BOOLEAN

\* Which steps are those of all_threads and which those of one thread.
WayKnown ==
    /\ pc \in CollectPcs \cup InjectPcs
    /\ pc \in {"pick", "grab"} => ~params.all
    /\ pc \in {"leader", "next"} => params.all
    /\ pc \in {"wait", "flip"} \/ (pc = "stop" /\ ~params.all) =>
            cur \in Threads

\* Who holds which reference when.
RefsKnown ==
    /\ refs \in Refs
    /\ refs.root = IF pc \in {"count", "size", "collect"} THEN 1 ELSE 0
    /\ refs.thread = IF pc \in {"stop", "wait", "flip", "cont"} /\ ~params.all
                     THEN 1 ELSE 0
    /\ pc \in CollectPcs \cup {"choose", "pick"} => refs.leader = 0
    /\ params.all /\ pc \in {"stop", "leader"} => refs.leader = 0
    /\ params.all /\ pc \in {"next", "wait", "flip", "cont"} =>
            refs.leader = 2
    /\ ~params.all \/ pc = "done" => refs.leader <= 1

StepInv == WalkKnown /\ DrawKnown /\ WayKnown /\ RefsKnown

\* What is being halted forks no more, so that it has all its threads.
Held == Halting => Born(tgid) /\ (tgid \in stopping \/ ~Alive(tgid))

\* all_threads without an error has passed no thread over.
LoopKnown ==
    /\ pc \in {"next", "wait", "flip", "cont"} /\ params.all /\ ~first_err =>
            \A t \in Eligible(tgid) \ ToCome :
                regHits[tgid][t] = 1 \/ memHits[tgid] = 1
    /\ did_mem => memHits[tgid] = 1

HoldInv == Held /\ HitsStopped /\ LoopKnown

\* A single injection has flipped nothing before it flips.
SingleInv ==
    /\ pc \in CollectPcs \cup {"choose"} => ~result.fault_injected
    /\ ~params.all =>
            IF pc \in {"cont", "done"} THEN Told
            ELSE Struck(tgid) = {} /\ ~result.fault_injected

-----------------------------------------------------------------------------
(* Inductive invariants: what the order of the targets and their           *)
(* completeness rest on.                                                   *)

\* A process is forked by one with a smaller number, all the smaller numbers
\* are given out, and it is on the list of the one that forked it or lost.
TreeKnown ==
    /\ Born(Outside) /\ Born(Root) /\ origin[Root] = Outside
    /\ \A p, q \in Pids : Born(p) /\ q < p => Born(q)
    /\ \A p \in Pids : origin[p] # Outside => Born(p) /\ origin[p] < p
    /\ \A p \in Pids : parent[p] \in {origin[p], Outside}

Walking == pc \in {"count", "collect"}

\* The calls of the walk, from the root down to Here.
WayDown ==
    Walking => \A k \in 1 .. Len(path) :
        /\ Born(path[k])
        /\ IF k = 1 THEN path[k] = Root ELSE origin[path[k]] = path[k - 1]
        /\ \A m \in k .. Len(path) : path[k] \in Line(path[m])
        /\ \A m \in (k + 1) .. Len(path) : path[k] < path[m]

\* The child that the k-th call looked at last.
Passed(k) == IF k < Len(path) THEN path[k + 1] ELSE last

Gathered == {targets[i] : i \in 1 .. Len(targets)}

\* What is gathered since a call was made comes from the process the call is
\* about, and of that one's own children none it has not looked at.
InOrder ==
    /\ Preorder
    /\ \A i \in 1 .. Len(targets) : Born(targets[i])
    /\ Cardinality(Gathered) = Len(targets)
    /\ targets # <<>> => targets[1] = Root
    /\ pc = "collect" => \A k \in 1 .. Len(path) :
        /\ \E j \in 1 .. Len(targets) :
            /\ targets[j] = path[k]
            /\ \A i \in j .. Len(targets) : path[k] \in Line(targets[i])
        /\ \A i \in 1 .. Len(targets) :
            origin[targets[i]] = path[k] => targets[i] <= Passed(k)

\* What was reachable all the time is, and so are its forebears.
SteadyInv ==
    /\ steady \subseteq Reachable
    /\ \A p \in steady : p = Root \/ parent[p] \in steady

\* A walk that has been to S has left out none of kids[p]: not of a process
\* it has done with, and none before the child it is at of one it has not.
Covers(S, kids) ==
    /\ \A k \in 1 .. Len(path) :
        /\ path[k] \in S
        /\ \A c \in kids[path[k]] : c <= Passed(k) => c \in S
    /\ \A p \in S : \/ kids[p] \subseteq S
                     \/ \E k \in 1 .. Len(path) : path[k] = p

AllKids == [p \in Pids |-> Children(p)]
SteadyKids == [p \in Pids |-> {c \in steady : parent[c] = p}]

\* The first walk has been to as many processes as it counts.
CountCovers ==
    pc \in {"count", "size"} /\ ~grown =>
        \E S \in SUBSET Pids :
            Root \in S /\ Covers(S, AllKids) /\ Cardinality(S) <= Total

\* The second finds none but those, for which there is room, unless others
\* are forked.
SpaceCovers ==
    pc = "collect" /\ ~grown =>
        \E S \in SUBSET Pids :
            Enclosed(S) /\ Gathered \subseteq S /\ Cardinality(S) <= capacity

\* It passes over none that is reachable all the time.
CollectCovers ==
    pc = "collect" => Root \in Gathered /\ Covers(Gathered, SteadyKids)

CoverInv ==
    /\ CountCovers /\ SpaceCovers /\ CollectCovers
    /\ pc = "size" => path = <<>>
    /\ CollectsAll

GatherInv == TreeKnown /\ WayDown /\ InOrder /\ SteadyInv /\ CoverInv

-----------------------------------------------------------------------------
(* Liveness.                                                               *)

\* The injection ends, whatever the tree and the threads do.
InjectionEnds == <>Over
=============================================================================
