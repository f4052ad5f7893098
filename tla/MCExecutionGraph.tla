-------------------------- MODULE MCExecutionGraph --------------------------
EXTENDS ExecutionGraph, TLC

\* Two stages: a scan of two partitions and a final stage that reads it.
TwoStages == {"scan", "final"}
TwoInputs == [s \in TwoStages |-> IF s = "final" THEN {"scan"} ELSE {}]
TwoPartitions == [s \in TwoStages |-> 2]
WideScan == [TwoPartitions EXCEPT !["final"] = 1]
WideFinal == [TwoPartitions EXCEPT !["scan"] = 1]

\* A chain of three stages whose middle one has two partitions.
ThreeStages == {"scan", "middle", "final"}
ThreeInputs == [s \in ThreeStages |-> CASE s = "final" -> {"middle"}
                                        [] s = "middle" -> {"scan"}
                                        [] OTHER -> {}]
ThreePartitions == [s \in ThreeStages |-> IF s = "middle" THEN 2 ELSE 1]

\* A join of two scans.
JoinStages == {"left", "right", "final"}
JoinInputs == [s \in JoinStages |-> IF s = "final" THEN {"left", "right"} ELSE {}]
JoinPartitions == [s \in JoinStages |-> 1]

Symmetry == Permutations(Executors)

\* How often each fault may happen.
NoFaults == [k \in FaultKinds |-> 0]
TwoStageFaults == {[NoFaults EXCEPT !["fetch"] = 2, !["exec"] = 1],
                   [NoFaults EXCEPT !["fetch"] = 1, !["io"] = 2],
                   [NoFaults EXCEPT !["crash"] = 1, !["fetch"] = 1],
                   [NoFaults EXCEPT !["expiry"] = 1, !["io"] = 1]}
LossFaults == {[NoFaults EXCEPT !["crash"] = 1, !["expiry"] = 1]}
EndFaults == {[NoFaults EXCEPT !["crash"] = 2, !["fetch"] = 1]}
ExpiryOnce == {[NoFaults EXCEPT !["expiry"] = 1]}
FetchOnce == {[NoFaults EXCEPT !["fetch"] = 1]}
FetchTwice == {[NoFaults EXCEPT !["fetch"] = 2]}
FetchExpiry == {[NoFaults EXCEPT !["fetch"] = 1, !["expiry"] = 1]}
FetchExpiryTwice == {[NoFaults EXCEPT !["fetch"] = 1, !["expiry"] = 2]}
FetchTwiceExpiry == {[NoFaults EXCEPT !["fetch"] = 2, !["expiry"] = 1]}
=============================================================================
