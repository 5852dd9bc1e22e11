------------------------------- MODULE MCSpsc -------------------------------
(***************************************************************************)
(* Values of MaxFaults for the runs of Spsc, and the bound on all faults.  *)
(***************************************************************************)
EXTENDS Spsc

None == [k \in FaultKinds |-> 0]
Only(kinds) == [k \in FaultKinds |-> IF k \in kinds THEN 1 ELSE 0]

JaneFaults == [None EXCEPT !["jane"] = 2, !["corrupt"] = 1]
AnyFault == Only(FaultKinds)

\* Bound: the faults of all kinds in one behaviour.
MaxFaultsTogether == 4
FewFaults == FoldFunction(+, 0, faults) <= MaxFaultsTogether

FewSockets == Only({"files"})
OneKill == Only({"thor"})
OneChange == Only({"corrupt"})
OneDiskFault == Only({"disk"})
=============================================================================
