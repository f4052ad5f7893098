-------------------------- MODULE MCExecutorServer --------------------------
EXTENDS ExecutorServer, TLC
DistinctKeys == [t \in Tasks |-> t]
=============================================================================
