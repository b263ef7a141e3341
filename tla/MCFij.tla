-------------------------------- MODULE MCFij --------------------------------
(* Parameter sets for the runs of FijModule.                               *)
EXTENDS FijModule

P(det, none, all, log) == [ target_pc_present |-> det, no_injection |-> none,
                            all_threads |-> all, log_path |-> log ]

MCDet == {P(TRUE, FALSE, FALSE, TRUE)}
MCEvery == {P(d, n, a, l) : d, n, a, l \in BOOLEAN}
MCDetQuiet == {P(TRUE, n, FALSE, TRUE) : n \in BOOLEAN}
MCOne == {P(d, FALSE, FALSE, TRUE) : d \in BOOLEAN}
MCAll == {P(TRUE, FALSE, TRUE, TRUE)}
MCSend == {"SEND_MSG"}
MCBoth == {"SEND_MSG", "EXEC_AND_FAULT"}
MCNoFaults == {}
MCAllFaults == FaultKinds
=============================================================================
