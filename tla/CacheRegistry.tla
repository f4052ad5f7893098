--------------------------- MODULE CacheRegistry ----------------------------
(***************************************************************************)
(* The registry of materialized DataFrame::cache() results                 *)
(* (scheduler/src/state/cache_registry.rs, behind the CacheState trait).    *)
(* Every method may be called by any number of callers at once.  A method   *)
(* that holds the lock of one entry is one step; the two that scan the map  *)
(* visit and then remove one entry at a time.                               *)
(*                                                                         *)
(* A job stands for the output it produces; HeldBy gives the executors that *)
(* hold its partitions.                                                     *)
(***************************************************************************)
EXTENDS Integers

CONSTANTS
    Keys,       \* cache keys
    Jobs,       \* materialization jobs
    NoJob,      \* materializing_job of an absent entry
    Executors,
    HeldBy,     \* [Jobs -> SUBSET Executors]
    Sessions,
    SessionOf,  \* [Keys -> Sessions]
    Callers     \* callers of invalidate_executor and remove_session

ASSUME CacheAssumption ==
    /\ NoJob \notin Jobs
    /\ HeldBy \in [Jobs -> SUBSET Executors]
    /\ SessionOf \in [Keys -> Sessions]
    /\ Executors \intersect Sessions = {}
    /\ Sessions # {}

VARIABLES
    entry,      \* [Keys -> the state of the entry]
    materializing_job,  \* [Keys -> its job]
    claimed,    \* [Jobs -> SUBSET Keys], the key the job has claimed
    completed,  \* jobs that were answered Completed
    stale,      \* jobs that were answered Stale
    unpinned,   \* [Jobs -> Nat], how often its output was handed back
    at,         \* [Callers -> where its call is]
    target,     \* [Callers -> the executor or session of the call]
    left,       \* [Callers -> keys the scan has not visited]
    affected,   \* [Callers -> keys it has found]
    old         \* [Callers -> jobs live on its target when the call began]

registry == <<entry, materializing_job>>
answers == <<claimed, completed, stale>>
scan == <<at, target, left, affected, old>>
vars == <<entry, materializing_job, claimed, completed, stale, unpinned, at,
          target, left, affected, old>>

Is(k, state, j) == entry[k] = state /\ materializing_job[k] = j

Set(k, state, j) ==
    /\ entry' = [entry EXCEPT ![k] = state]
    /\ materializing_job' = [materializing_job EXCEPT ![k] = j]

\* lookup: the output a reader of the key is given.
Lookup(k) ==
    IF entry[k] = "materialized" THEN {materializing_job[k]} ELSE {}

\* pinned_stages: the outputs that job cleanup must keep.
PinnedStages == UNION {Lookup(k) : k \in Keys}

\* holds_executor for an executor, the session comparison for a session.
Affects(x, k) ==
    IF x \in Executors THEN \E j \in Lookup(k) : x \in HeldBy[j]
                       ELSE entry[k] # "absent" /\ SessionOf[k] = x

Init ==
    /\ entry = [k \in Keys |-> "absent"]
    /\ materializing_job = [k \in Keys |-> NoJob]
    /\ claimed = [j \in Jobs |-> {}]
    /\ completed = {}
    /\ stale = {}
    /\ unpinned = [j \in Jobs |-> 0]
    /\ at = [c \in Callers |-> "idle"]
    /\ target = [c \in Callers |-> CHOOSE x \in Executors \union Sessions : TRUE]
    /\ left = [c \in Callers |-> {}]
    /\ affected = [c \in Callers |-> {}]
    /\ old = [c \in Callers |-> {}]

-----------------------------------------------------------------------------
\* begin_materialization: only a vacant entry is claimed, the other answers
\* change nothing.  A job submits one materialization.
BeginMaterialization(j, k) ==
    /\ claimed[j] = {}
    /\ entry[k] = "absent"
    /\ Set(k, "pending", j)
    /\ claimed' = [claimed EXCEPT ![j] = {k}]
    /\ UNCHANGED <<completed, stale, unpinned, scan>>

Promote(j, k) ==
    /\ Set(k, "materialized", j)
    /\ completed' = completed \union {j}
    /\ UNCHANGED stale

AnswerStale(j) ==
    /\ stale' = stale \union {j}
    /\ UNCHANGED <<registry, completed>>

\* Mutant: the second delivery of a completion is answered Stale.
CompleteOnce(j, k) ==
    /\ k \in claimed[j]
    /\ \/ Is(k, "pending", j) /\ Promote(j, k)
       \/ ~Is(k, "pending", j) /\ AnswerStale(j)
    /\ UNCHANGED <<claimed, unpinned, scan>>

\* complete_materialization, delivered any number of times by a job that
\* claimed the key: it promotes the job's own claim, answers Completed again
\* while the job's entry is live, and Stale in every other case.
CompleteMaterialization(j, k) ==
    /\ k \in claimed[j]
    /\ \/ Is(k, "pending", j) /\ Promote(j, k)
       \/ Is(k, "materialized", j) /\ UNCHANGED <<registry, completed, stale>>
       \/ ~Is(k, "pending", j) /\ ~Is(k, "materialized", j) /\ AnswerStale(j)
    /\ UNCHANGED <<claimed, unpinned, scan>>

\* abort_materialization: only the job's own claim is dropped.
AbortMaterialization(j, k) ==
    /\ k \in claimed[j]
    /\ Is(k, "pending", j)
    /\ Set(k, "absent", NoJob)
    /\ UNCHANGED <<answers, unpinned, scan>>

\* An entry is removed; if it was materialized its output is handed to the
\* caller, who may unpin it.
Remove(k) ==
    /\ Set(k, "absent", NoJob)
    /\ unpinned' = [j \in Jobs |-> IF j \in Lookup(k) THEN unpinned[j] + 1
                                                      ELSE unpinned[j]]

Invalidate(k) ==
    /\ entry[k] # "absent"
    /\ Remove(k)
    /\ UNCHANGED <<answers, scan>>

-----------------------------------------------------------------------------
(* invalidate_executor and remove_session. *)

Begin(c, x) ==
    /\ at[c] = "idle"
    /\ at' = [at EXCEPT ![c] = "scanning"]
    /\ target' = [target EXCEPT ![c] = x]
    /\ left' = [left EXCEPT ![c] = Keys]
    /\ old' = [old EXCEPT ![c] =
                  UNION {Lookup(k) : k \in {l \in Keys : Affects(x, l)}}]
    /\ UNCHANGED <<registry, answers, unpinned, affected>>

\* Mutant: only the last affected entry is remembered.
VisitLast(c, k) ==
    /\ at[c] = "scanning"
    /\ k \in left[c]
    /\ left' = [left EXCEPT ![c] = @ \ {k}]
    /\ affected' = [affected EXCEPT ![c] = IF Affects(target[c], k) THEN {k} ELSE @]
    /\ UNCHANGED <<registry, answers, unpinned, at, target, old>>

\* The iterator visits the entries in its own order.
Visit(c, k) ==
    /\ at[c] = "scanning"
    /\ k \in left[c]
    /\ left' = [left EXCEPT ![c] = @ \ {k}]
    /\ affected' = [affected EXCEPT ![c] =
                       IF Affects(target[c], k) THEN @ \union {k} ELSE @]
    /\ UNCHANGED <<registry, answers, unpinned, at, target, old>>

Scanned(c) ==
    /\ at[c] = "scanning"
    /\ left[c] = {}
    /\ at' = [at EXCEPT ![c] = "removing"]
    /\ UNCHANGED <<registry, answers, unpinned, target, left, affected, old>>

\* Mutant: the entry that was found is removed whatever it is now.
RemoveFound(c, k) ==
    /\ at[c] = "removing"
    /\ k \in affected[c]
    /\ affected' = [affected EXCEPT ![c] = @ \ {k}]
    /\ Remove(k)
    /\ UNCHANGED <<answers, at, target, left, old>>

\* Mutant: the output of an entry that is gone is handed back all the same.
ReturnFound(c, k) ==
    /\ at[c] = "removing"
    /\ k \in affected[c]
    /\ affected' = [affected EXCEPT ![c] = @ \ {k}]
    /\ Set(k, "absent", NoJob)
    /\ unpinned' = [j \in Jobs |-> IF j \in old[c] THEN unpinned[j] + 1
                                                   ELSE unpinned[j]]
    /\ UNCHANGED <<answers, at, target, left, old>>

\* remove_if looks again under the entry's lock; the session's entries are
\* removed as they are.
RemoveAffected(c, k) ==
    /\ at[c] = "removing"
    /\ k \in affected[c]
    /\ affected' = [affected EXCEPT ![c] = @ \ {k}]
    /\ IF Affects(target[c], k) THEN Remove(k) ELSE UNCHANGED <<registry, unpinned>>
    /\ UNCHANGED <<answers, at, target, left, old>>

Return(c) ==
    /\ at[c] = "removing"
    /\ affected[c] = {}
    /\ at' = [at EXCEPT ![c] = "idle"]
    /\ old' = [old EXCEPT ![c] = {}]
    /\ UNCHANGED <<registry, answers, unpinned, target, left, affected>>

Next ==
    \/ \E j \in Jobs, k \in Keys :
         \/ BeginMaterialization(j, k)
         \/ CompleteMaterialization(j, k)
         \/ AbortMaterialization(j, k)
    \/ \E k \in Keys : Invalidate(k)
    \/ \E c \in Callers, x \in Executors \union Sessions : Begin(c, x)
    \/ \E c \in Callers, k \in Keys : Visit(c, k) \/ RemoveAffected(c, k)
    \/ \E c \in Callers : Scanned(c) \/ Return(c)

Spec == Init /\ [][Next]_vars

-----------------------------------------------------------------------------
(* Properties. *)

\* Every variable holds a value of its type; an entry has a job exactly when
\* it is present.
TypeOK ==
    /\ entry \in [Keys -> {"absent", "pending", "materialized"}]
    /\ materializing_job \in [Keys -> Jobs \union {NoJob}]
    /\ \A k \in Keys : materializing_job[k] = NoJob <=> entry[k] = "absent"
    /\ claimed \in [Jobs -> SUBSET Keys]
    /\ completed \subseteq Jobs
    /\ stale \subseteq Jobs
    /\ unpinned \in [Jobs -> Nat]
    /\ at \in [Callers -> {"idle", "scanning", "removing"}]
    /\ target \in [Callers -> Executors \union Sessions]
    /\ left \in [Callers -> SUBSET Keys]
    /\ affected \in [Callers -> SUBSET Keys]
    /\ old \in [Callers -> SUBSET Jobs]

\* Stale always means that the output may be deleted: no reader is given, and
\* no entry pins, the output of a job that was answered Stale, now or later.
StaleIsOrphan == stale \intersect PinnedStages = {}

\* Every output that was registered is pinned until it is handed back, and
\* handed back exactly once, however the removals race.
UnpinnedOnce ==
    \A j \in Jobs :
       unpinned[j] = IF j \in completed /\ j \notin PinnedStages THEN 1 ELSE 0

\* When invalidate_executor or remove_session returns, none of the outputs it
\* was called to remove is served any more.
InvalidatedBefore ==
    \A c \in Callers :
       (at[c] = "removing" /\ affected[c] = {}) => old[c] \intersect PinnedStages = {}

\* A claim is only ever dropped by its own job, by invalidate, or with its
\* session: losing an executor never drops a claim that was taken again.
ClaimsSurvive ==
    [][\A k \in Keys : \A c \in Callers :
         (entry[k] = "pending" /\ entry'[k] = "absent" /\ affected'[c] # affected[c])
            => target[c] \in Sessions]_vars
=============================================================================
