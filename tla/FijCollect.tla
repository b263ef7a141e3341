----------------------------- MODULE FijCollect -----------------------------
(***************************************************************************)
(* fij_collect_descendants of core/processes.c: count the descendants of   *)
(* the root, make room for them, and walk over them again to collect them, *)
(* while they fork and exit.                                               *)
(*                                                                         *)
(* The recursion over the lists of children is a path from the root, whose *)
(* end is the task whose children are being read, and the child that was   *)
(* looked at last.  The lists are taken to be what the code says they are, *)
(* protected by RCU: a reader who stands on an entry that is taken off     *)
(* goes on with the entries after it.                                      *)
(***************************************************************************)
EXTENDS FijTree, Sequences

CONSTANT Kept  \* the capacities an earlier run may have left in the context

ASSUME KeptAssumption == Kept \subseteq Nat

VARIABLES
    pc,        \* where the injection is
    path,      \* the calls of the walk, outermost first
    last,      \* the child the innermost call looked at last, 0 for none
    count,     \* descendants counted
    capacity,  \* ctx->capacity
    targets,   \* ctx->targets up to ctx->ntargets
    refs,      \* references the injection holds on task_structs
    steady,    \* history: processes that were reachable all the time
    grown      \* history: a process was forked since the walk began

collectVars == <<pc, path, last, count, capacity, targets, refs, steady,
                 grown>>

Refs == [root : Nat, leader : Nat, thread : Nat]
NoRefs == [root |-> 0, leader |-> 0, thread |-> 0]

CollectPcs == {"resolve", "count", "size", "collect"}

CollectTypeOK ==
    /\ path \in Seq(Pids)
    /\ last \in Procs
    /\ count \in Nat
    /\ capacity \in Nat
    /\ targets \in Seq(Pids)
    /\ refs \in Refs
    /\ steady \subseteq Pids
    /\ grown \in BOOLEAN

CollectInit ==
    /\ pc = "resolve"
    /\ path = <<>>
    /\ last = 0
    /\ count = 0
    /\ capacity \in Kept
    /\ targets = <<>>
    /\ refs = NoRefs
    /\ steady = {}
    /\ grown = FALSE

Goes(to) == pc' = to

\* The innermost task of the walk, and the children it has still to look at.
Here == path[Len(path)]
Ahead == {c \in Children(Here) : c > last}

\* Where the walk goes on in the parent of c.  A bug: at the first child again.
FromTheFirst(c) == 0
FromNext(c) == c

\* The walk enters the next child that it does not skip.
Enter(c) ==
    /\ path # <<>>
    /\ c \in Ahead /\ \A d \in Ahead : c <= d
    /\ path' = Append(path, c)
    /\ last' = 0

\* It has seen all children of Here and goes on after Here in its parent.
Leave ==
    /\ path # <<>> /\ Ahead = {}
    /\ path' = SubSeq(path, 1, Len(path) - 1)
    /\ last' = FromNext(Here)

\* The root is looked up and pinned.
Resolve ==
    /\ pc = "resolve"
    /\ IF Found(Root)
       THEN /\ refs' = [refs EXCEPT !.root = 1]
            /\ path' = <<Root>>
            /\ last' = 0
            /\ steady' = Reachable
            /\ Goes("count")
       ELSE /\ Goes("done")
            /\ UNCHANGED <<refs, path, last, steady>>
    /\ UNCHANGED <<count, capacity, targets, grown>>

Count ==
    /\ pc = "count"
    /\ \/ /\ \E c \in Pids : Enter(c)
          /\ count' = count + 1
       \/ Leave /\ UNCHANGED count
    /\ UNCHANGED <<pc, capacity, targets, refs, steady, grown>>

Counted ==
    /\ pc = "count" /\ path = <<>>
    /\ Goes("size")
    /\ UNCHANGED <<path, last, count, capacity, targets, refs, steady, grown>>

\* A bug: no room for the root.
DescendantsOnly == count
Total == count + 1

\* A bug: the root stays pinned when there is no memory.
RootPinned == refs
RootPut == [refs EXCEPT !.root = 0]

\* The array is replaced if it is too small.
Size ==
    /\ pc = "size"
    /\ \/ /\ capacity' = IF capacity < Total THEN Total ELSE capacity
          /\ targets' = <<Root>>
          /\ path' = <<Root>>
          /\ last' = 0
          /\ Goes("collect")
          /\ UNCHANGED refs
       \/ /\ capacity < Total  \* kmalloc fails
          /\ refs' = RootPut
          /\ Goes("done")
          /\ UNCHANGED <<path, last, capacity, targets>>
    /\ UNCHANGED <<count, steady, grown>>

\* A bug: the test comes one entry too late.
RoomForOneMore == Len(targets) <= capacity
Room == Len(targets) < capacity

Collect ==
    /\ pc = "collect" /\ Room
    /\ \/ \E c \in Pids : Enter(c) /\ targets' = Append(targets, c)
       \/ Leave /\ UNCHANGED targets
    /\ UNCHANGED <<pc, count, capacity, refs, steady, grown>>

\* Every list has been read, or the array is full: then no call appends or
\* recurses any more.
Collected ==
    /\ pc = "collect"
    /\ path = <<>> \/ ~Room
    /\ refs' = [refs EXCEPT !.root = 0]
    /\ Goes("choose")
    /\ UNCHANGED <<path, last, count, capacity, targets, steady, grown>>

CollectNext == Resolve \/ Count \/ Counted \/ Size \/ Collect \/ Collected
=============================================================================
