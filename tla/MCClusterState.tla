--------------------------- MODULE MCClusterState ----------------------------
(****************************************************************************)
(* What the scheduler keeps in memory about the cluster besides the         *)
(* registry of executors, for TLC: the vcore budgets and the registry of    *)
(* cached DataFrames.  They share no state: a behaviour is one of `part`,   *)
(* and the other stays where it starts.                                     *)
(****************************************************************************)
EXTENDS CacheRegistry, TLC

CONSTANTS Parts, e1, e2, j1, j2, Collapse, MaxSlice, Policies, FaultSets

VARIABLES part, distribution, registered, available_vcores, jobs, launches,
          running, reports, failing, lost, process, faults

budget_vars == <<distribution, registered, available_vcores, jobs, launches,
                 running, reports, failing, lost, process, faults>>

\* One executor holds every cached output and one session owns every key, so
\* that every call meets every entry.
MCHeldBy == [j \in Jobs |-> Executors]
MCSessionOf == [k \in Keys |-> CHOOSE s \in Sessions : TRUE]

\* Two executors of different size, two jobs of two partitions.
MCVcores == (e1 :> 2) @@ (e2 :> 1)
MCPartitions == (j1 :> 2) @@ (j2 :> 2)

Budget == INSTANCE ClusterVcores WITH Executors <- {e1, e2}, Vcores <- MCVcores,
              Parts <- MCPartitions

MCInit ==
    /\ part \in Parts
    /\ Init
    /\ Budget!Init
    /\ part # "budget" => distribution = "Bias"

MCNext ==
    /\ UNCHANGED part
    /\ \/ part = "cache" /\ Next /\ UNCHANGED budget_vars
       \/ part = "budget" /\ Budget!Next /\ UNCHANGED vars

MCSpec == MCInit /\ [][MCNext]_<<part, vars, budget_vars>>

------------------------------------------------------------------------------
(* The properties of the cached DataFrames are those of CacheRegistry. *)

\* The vcores missing from an executor's budget are those of the tasks the graphs
\* count as running on it; no budget is negative, no partition is offered twice,
\* and an executor never drives more partitions at once than it has vcores.
VcoresAccounted == Budget!TypeOK /\ Budget!VcoresAccounted /\ Budget!LoadBounded

\* A task a graph counts as running is on its way to a status.
RunningTaskInFlight == Budget!RunningTaskInFlight

\* An executor on which nothing is bound, running or reporting has all its vcores.
IdleHasAllVcores == Budget!IdleHasAllVcores
==============================================================================
