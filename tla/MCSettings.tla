----------------------------- MODULE MCSettings ------------------------------
(* Configuration files and architectures for the runs of FijDraw.          *)
EXTENDS FijDraw

Empty == <<>>
Only(key, v) == [k \in {key} |-> v]
Levels(key, values) == {Empty} \cup {Only(key, v) : v \in values}
Job(g, t, a) == [global |-> g, target |-> t, args |-> a]

\* One key on any of the three levels.
Each(key, values) ==
    {Job(g, t, a) : g, t, a \in Levels(key, values)}

MCFiles ==
    Each("reg", {"rax", "zero"}) \cup Each("bit", {-1, 2, 4})
    \cup Each("thread", {0, 2, 3}) \cup Each("weight_mem", {-2, 0, 4})
    \cup Each("only_mem", {0, 1}) \cup Each("min_delay_ms", {1, 7})
    \cup Each("runs", {0, 1})
    \cup {Job(Only("weight_mem", w), Only("only_mem", 1), Only("reg", r)) :
              w \in {1, 4}, r \in {"rax", "nosuch"}}
    \cup {Job(Only("min_delay_ms", d), Only("max_delay_ms", m), Only(k, 1)) :
              d, m \in {1, 7}, k \in {"pc", "all_threads", "no_injection"}}

MCWindow == {Job(Only("min_delay_ms", 1), Empty, Empty)}

\* One that saves all its registers, and one that has a register 0 which
\* reads as zero and is not saved.
MCArches ==
    {[names |-> [rax |-> 1, pc |-> 2, rip |-> 2], max |-> 3,
      mapped |-> {1, 2}],
     [names |-> [zero |-> 1, ra |-> 2, pc |-> 3], max |-> 4,
      mapped |-> {2, 3}]}

MCMeasured == {1, 6}
=============================================================================
