----------------------------- MODULE MCCampaign ------------------------------
(* Values for the runs of FijAnalyzer: two threads, and target times whose *)
(* tenfold is and is not exceeded by another of them.                      *)
EXTENDS FijAnalyzer

MCWorkers == {"w1", "w2"}
MCDurations == {1, 15}
=============================================================================
