------------------------------ MODULE JobStatus ------------------------------
(***************************************************************************)
(* What the scheduler promises about the recorded status of a job          *)
(* (scheduler/src/cluster/mod.rs, trait JobState): a job is accepted once, *)
(* is queued, then runs, then has one outcome, which stays until the       *)
(* record is removed.  Only a failure may be recorded again after that: a  *)
(* clean-up timer can remove the record before the job's abort saves it.   *)
(***************************************************************************)
CONSTANT Jobs

VARIABLE status

Statuses == {"None", "Queued", "Running", "Successful", "Failed", "Removed"}

Init == status = [j \in Jobs |-> "None"]

Move(j, from, to) ==
    /\ status[j] = from
    /\ status' = [status EXCEPT ![j] = to]

AcceptJob(j) == Move(j, "None", "Queued")
SubmitJob(j) == Move(j, "Queued", "Running")
FailUnscheduledJob(j) == Move(j, "Queued", "Failed")
SaveSuccess(j) == Move(j, "Running", "Successful")
SaveFailure(j) == Move(j, "Running", "Failed")
SaveFailureAgain(j) == Move(j, "Removed", "Failed")
RemoveJob(j) == Move(j, "Successful", "Removed") \/ Move(j, "Failed", "Removed")

Next ==
    \E j \in Jobs :
       \/ AcceptJob(j) \/ SubmitJob(j) \/ FailUnscheduledJob(j)
       \/ SaveSuccess(j) \/ SaveFailure(j) \/ SaveFailureAgain(j)
       \/ RemoveJob(j)

Spec == Init /\ [][Next]_status
=============================================================================
