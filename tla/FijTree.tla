------------------------------- MODULE FijTree -------------------------------
(***************************************************************************)
(* The processes an injection walks over, as the driver meets them: who    *)
(* is whose child, which threads a process has, and what they do while the *)
(* driver looks at them.  The kernel is not in the repository; it is       *)
(* modelled from the way core/processes.c, util.c and bitflip_ops.c use    *)
(* it.                                                                     *)
(*                                                                         *)
(* Pids are given out in order and not used again, so that the list of a   *)
(* task's children, which grows at its tail, is in the order of the pids.  *)
(* task_struct->children is a list of one thread; the driver reads the     *)
(* main thread's.  Here it is the main thread that forks; the children of  *)
(* a main thread that ended are given to a thread or a process whose list  *)
(* the driver does not read, which is Outside.                             *)
(***************************************************************************)
EXTENDS Naturals

CONSTANTS
    MaxPid,     \* the processes of the tree are numbered up to it
    MaxThread,  \* threads a process creates in its life
    MaxEvents   \* bound: forks, new threads and exits in one behaviour

ASSUME TreeAssumption ==
    /\ MaxPid \in Nat \ {0}
    /\ MaxThread \in Nat \ {0}
    /\ MaxEvents \in Nat

Outside == 0
Root == 1
Pids == 1 .. MaxPid
Procs == 0 .. MaxPid

Main == 1
Threads == 1 .. MaxThread
ThreadStates == {"none", "runs", "stopped", "ended"}

VARIABLES
    parent,    \* whose list of children the process is on
    origin,    \* history: the process that forked it
    thread,    \* the state of every thread of every process
    stopping,  \* processes with a stop that SIGCONT has not undone
    reaped,    \* processes that are found no more
    events     \* how many of the MaxEvents are used up

treeVars == <<parent, origin, thread, stopping, reaped, events>>

TreeTypeOK ==
    /\ parent \in [Pids -> Procs]
    /\ origin \in [Pids -> Procs]
    /\ thread \in [Procs -> [Threads -> ThreadStates]]
    /\ stopping \subseteq Procs
    /\ reaped \subseteq Pids
    /\ events \in 0 .. MaxEvents

Born(p) == thread[p][Main] # "none"

\* Threads with a user address space, which the pickers call eligible.
Eligible(p) == {t \in Threads : thread[p][t] \in {"runs", "stopped"}}

Alive(p) == Eligible(p) # {}

\* pid_task(find_vpid(p), PIDTYPE_TGID): a zombie is found, too.
Found(p) == Born(p) /\ p \notin reaped

\* exit_state of the main thread's task, which stands for the process in the
\* lists of children.
MainEnded(p) == thread[p][Main] = "ended"

\* What a walk over the children of p does not skip.
Children(p) ==
    {c \in Pids : parent[c] = p /\ Found(c) /\ ~MainEnded(c)}

\* What contains the root and every child of its members.
Enclosed(S) == Root \in S /\ \A p \in S : Children(p) \subseteq S

\* What a walk from the root reaches while nothing changes.
Reachable == {p \in Pids : \A S \in SUBSET Pids : Enclosed(S) => p \in S}

\* Any tree with any number of threads.
TreeInit ==
    /\ \E n \in Pids, k \in [Pids -> Threads] :
        /\ origin \in [Pids -> Procs]
        /\ \A c \in Pids : IF c \in 2 .. n THEN origin[c] \in 1 .. (c - 1)
                           ELSE origin[c] = Outside
        /\ \A c \in (n + 1) .. MaxPid : k[c] = 1
        /\ thread = [p \in Procs |-> [t \in Threads |->
                        IF p = Outside /\ t = Main THEN "runs"
                        ELSE IF p \in 1 .. n /\ t <= k[p] THEN "runs"
                        ELSE "none"]]
    /\ parent = origin
    /\ stopping = {}
    /\ reaped = {}
    /\ events = 0

Event == events < MaxEvents /\ events' = events + 1

\* A fork or a new thread is refused, and tried again, while a signal is
\* pending.
Fork(p) ==
    /\ thread[p][Main] = "runs" /\ p \notin stopping
    /\ \E c \in Pids :
        /\ ~Born(c)
        /\ \A d \in 1 .. (c - 1) : Born(d)
        /\ thread' = [thread EXCEPT ![c][Main] = "runs"]
        /\ parent' = [parent EXCEPT ![c] = p]
        /\ origin' = [origin EXCEPT ![c] = p]
    /\ Event
    /\ UNCHANGED <<stopping, reaped>>

NewThread(p) ==
    /\ \E t \in Threads : thread[p][t] = "runs"
    /\ p \notin stopping
    /\ \E u \in Threads :
        /\ thread[p][u] = "none"
        /\ \A t \in 1 .. (u - 1) : thread[p][t] # "none"
        /\ thread' = [thread EXCEPT ![p][u] = "runs"]
    /\ Event
    /\ UNCHANGED <<parent, origin, stopping, reaped>>

\* The threads in T end.  The root is a child of the user-mode helper and is
\* reaped as it dies; the others wait for their parent.
End(p, T) ==
    /\ thread' = [thread EXCEPT ![p] = [t \in Threads |->
                     IF t \in T /\ @[t] # "none" THEN "ended" ELSE @[t]]]
    /\ parent' = [c \in Pids |-> IF Main \in T /\ parent[c] = p THEN Outside
                                 ELSE parent[c]]
    /\ reaped' = IF p = Root /\ Eligible(p) \subseteq T
                 THEN reaped \cup {p} ELSE reaped
    /\ Event
    /\ UNCHANGED <<origin, stopping>>

ThreadEnds(p) == \E t \in Threads : thread[p][t] = "runs" /\ End(p, {t})

\* exit_group, or a SIGKILL, which ends stopped threads, too.
ProcessEnds(p) == Alive(p) /\ End(p, Threads)

Reap(p) ==
    /\ Found(p) /\ ~Alive(p)
    /\ \E t \in Threads : thread[parent[p]][t] = "runs"
    /\ reaped' = reaped \cup {p}
    /\ UNCHANGED <<parent, origin, thread, stopping, events>>

\* A thread takes notice of the stop.
ThreadStops(p) ==
    /\ p \in stopping
    /\ \E t \in Threads :
        /\ thread[p][t] = "runs"
        /\ thread' = [thread EXCEPT ![p][t] = "stopped"]
    /\ UNCHANGED <<parent, origin, stopping, reaped, events>>

TreeNext ==
    \/ \E p \in Pids : \/ Fork(p) \/ NewThread(p) \/ ThreadEnds(p)
                       \/ ProcessEnds(p) \/ Reap(p)
    \/ \E p \in Procs : ThreadStops(p)

\* send_sig(SIGSTOP) and send_sig(SIGCONT) to a process.
Sigstop(p) ==
    /\ stopping' = IF Alive(p) THEN stopping \cup {p} ELSE stopping
    /\ UNCHANGED <<parent, origin, thread, reaped, events>>

Sigcont(p) ==
    /\ stopping' = stopping \ {p}
    /\ thread' = [thread EXCEPT ![p] = [t \in Threads |->
                     IF @[t] = "stopped" THEN "runs" ELSE @[t]]]
    /\ UNCHANGED <<parent, origin, reaped, events>>
=============================================================================
