------------------------------ MODULE MCInject ------------------------------
(* Parameters for the runs of FijInject.                                   *)
EXTENDS FijInject

I(n, t, a, where) == [nprocess |-> n, nthread |-> t, all |-> a,
                      place |-> where]

MCOne == {I(-1, 0, FALSE, "any"), I(1, 2, FALSE, "any")}
MCAll == {I(-1, 0, TRUE, w) : w \in {"reg", "any"}}
MCParams == MCOne \cup MCAll
MCSecond == {I(1, 0, FALSE, "any")}
MCKept == {0, 2}
MCNone == {0}
=============================================================================
