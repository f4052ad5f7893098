------------------------ MODULE CacheRegistryProofs -------------------------
(***************************************************************************)
(* The properties of CacheRegistry for every set of keys, jobs, executors,  *)
(* sessions and callers.                                                    *)
(*                                                                         *)
(* Claims says what an entry knows of its job: the job claimed that key and *)
(* no other, it was never answered Stale, and it was answered Completed     *)
(* exactly if the entry is materialized.  Scans says where a running scan   *)
(* stands: an output it was called to remove and that is still served is    *)
(* ahead of it or already found.                                            *)
(***************************************************************************)
EXTENDS CacheRegistry, TLAPS

OneClaim == \A j \in Jobs : \A k, l \in claimed[j] : k = l

Claims ==
    /\ OneClaim
    /\ \A j \in completed \union stale : claimed[j] # {}
    /\ \A k \in Keys : entry[k] # "absent" =>
         /\ k \in claimed[materializing_job[k]]
         /\ materializing_job[k] \notin stale
         /\ materializing_job[k] \in completed <=> entry[k] = "materialized"

\* A scan knows what it may have met, and has visited all before it removes.
ScanAt(c) ==
    /\ old[c] \subseteq completed
    /\ at[c] = "idle" => old[c] = {}
    /\ at[c] = "removing" => left[c] = {}

Found(c, k) ==
    (entry[k] = "materialized" /\ materializing_job[k] \in old[c])
       => k \in left[c] \union affected[c] /\ Affects(target[c], k)

Scans == \A c \in Callers : ScanAt(c) /\ \A k \in Keys : Found(c, k)

IInv == TypeOK /\ Claims /\ UnpinnedOnce /\ Scans

-----------------------------------------------------------------------------
\* What a reader of a key is given, and what is pinned.
ServedAre ==
    /\ \A k \in Keys, j \in Jobs : j \in Lookup(k) <=> Is(k, "materialized", j)
    /\ \A k \in Keys : Lookup(k) \subseteq Jobs
    /\ \A j \in Jobs : j \in PinnedStages <=> \E k \in Keys : Is(k, "materialized", j)

\* This is so in every state of the right types.
LEMMA Served == TypeOK => ServedAre
BY CacheAssumption DEF TypeOK, Lookup, PinnedStages, Is, ServedAre

\* An executor's loss affects only materialized entries; a materialized entry
\* is affected as its job and its key say.
AffectedAre ==
    \A k \in Keys, x \in Executors \union Sessions :
       /\ (x \in Executors /\ Affects(x, k)) => entry[k] = "materialized"
       /\ entry[k] = "materialized" =>
            (Affects(x, k) <=> IF x \in Executors
                               THEN x \in HeldBy[materializing_job[k]]
                               ELSE SessionOf[k] = x)

\* This is so in every state of the right types.
LEMMA Affected == TypeOK => AffectedAre
BY CacheAssumption DEF TypeOK, Affects, Lookup, AffectedAre

\* The invariant holds of an empty registry.
LEMMA InitHolds == Init => IInv
<1> SUFFICES ASSUME Init PROVE IInv
  OBVIOUS
<1>1. TypeOK BY CacheAssumption DEF Init, TypeOK
<1>2. Claims BY DEF Init, Claims, OneClaim
<1>3. UnpinnedOnce BY <1>1, Served DEF Init, UnpinnedOnce, Is, ServedAre
<1>4. Scans BY DEF Init, Scans, ScanAt, Found
<1> QED BY <1>1, <1>2, <1>3, <1>4 DEF IInv

-----------------------------------------------------------------------------
\* Every call keeps the types.
LEMMA TypeStep == TypeOK /\ [Next]_vars => TypeOK'
<1> SUFFICES ASSUME TypeOK, [Next]_vars PROVE TypeOK'
  OBVIOUS
<1> USE CacheAssumption DEF TypeOK
<1>1. ASSUME NEW j \in Jobs, NEW k \in Keys, BeginMaterialization(j, k) PROVE TypeOK'
  BY <1>1 DEF BeginMaterialization, Set, scan
<1>2. ASSUME NEW j \in Jobs, NEW k \in Keys, CompleteMaterialization(j, k) PROVE TypeOK'
  BY <1>2 DEF CompleteMaterialization, Promote, AnswerStale, Set, registry, scan
<1>3. ASSUME NEW j \in Jobs, NEW k \in Keys, AbortMaterialization(j, k) PROVE TypeOK'
  BY <1>3 DEF AbortMaterialization, Set, answers, scan
<1>4. ASSUME NEW k \in Keys, Invalidate(k) PROVE TypeOK'
  BY <1>4 DEF Invalidate, Remove, Set, answers, scan
<1>5. ASSUME NEW c \in Callers, NEW x \in Executors \union Sessions, Begin(c, x)
      PROVE TypeOK'
  BY <1>5 DEF Begin, Lookup, registry, answers
<1>6. ASSUME NEW c \in Callers, NEW k \in Keys, Visit(c, k) PROVE TypeOK'
  BY <1>6 DEF Visit, registry, answers
<1>7. ASSUME NEW c \in Callers, NEW k \in Keys, RemoveAffected(c, k) PROVE TypeOK'
  BY <1>7 DEF RemoveAffected, Remove, Set, registry, answers
<1>8. ASSUME NEW c \in Callers, Scanned(c) PROVE TypeOK'
  BY <1>8 DEF Scanned, registry, answers
<1>9. ASSUME NEW c \in Callers, Return(c) PROVE TypeOK'
  BY <1>9 DEF Return, registry, answers
<1>10. CASE UNCHANGED vars BY <1>10 DEF vars
<1> QED BY <1>1, <1>2, <1>3, <1>4, <1>5, <1>6, <1>7, <1>8, <1>9, <1>10 DEF Next

\* What a call may do to the registry: nothing, claim, promote, or remove.
Claimed(j, k) == BeginMaterialization(j, k)

Promoted(j, k) ==
    /\ k \in claimed[j]
    /\ Is(k, "pending", j)
    /\ Promote(j, k)
    /\ UNCHANGED <<claimed, unpinned, scan>>

Orphaned(j, k) ==
    /\ k \in claimed[j]
    /\ ~Is(k, "pending", j)
    /\ ~Is(k, "materialized", j)
    /\ AnswerStale(j)
    /\ UNCHANGED <<claimed, unpinned, scan>>

Dropped(k) ==
    /\ entry[k] # "absent"
    /\ Remove(k)
    /\ UNCHANGED <<answers, at, target, left, old>>
    /\ \A c \in Callers : affected[c] \ {k} \subseteq affected'[c]

Untouched == UNCHANGED <<registry, answers, unpinned>>

\* Every removal drops an entry that was present, or touches nothing.
LEMMA Removals ==
    ASSUME TypeOK, NEW k \in Keys
    PROVE  /\ \A j \in Jobs : AbortMaterialization(j, k) => Dropped(k)
           /\ Invalidate(k) => Dropped(k)
           /\ \A c \in Callers : RemoveAffected(c, k) => Dropped(k) \/ Untouched
<1>1. ASSUME NEW j \in Jobs, AbortMaterialization(j, k) PROVE Dropped(k)
  <2>1. Lookup(k) = {} BY <1>1 DEF AbortMaterialization, Is, Lookup
  <2>2. unpinned' = [i \in Jobs |-> IF i \in Lookup(k) THEN unpinned[i] + 1
                                                       ELSE unpinned[i]]
    BY <1>1, <2>1 DEF AbortMaterialization, TypeOK
  <2> QED BY <1>1, <2>2 DEF AbortMaterialization, Dropped, Remove, Is, answers, scan
<1>2. ASSUME Invalidate(k) PROVE Dropped(k)
  BY <1>2 DEF Invalidate, Dropped, answers, scan
<1>3. ASSUME NEW c \in Callers, RemoveAffected(c, k) PROVE Dropped(k) \/ Untouched
  <2>1. CASE Affects(target[c], k)
    <3>1. entry[k] # "absent" BY <2>1 DEF Affects, Lookup
    <3>2. \A d \in Callers : affected[d] \ {k} \subseteq affected'[d]
      BY <1>3 DEF RemoveAffected, TypeOK
    <3> QED BY <1>3, <2>1, <3>1, <3>2 DEF RemoveAffected, Dropped, answers
  <2>2. CASE ~Affects(target[c], k)
    BY <1>3, <2>2 DEF RemoveAffected, Untouched, answers
  <2> QED BY <2>1, <2>2
<1> QED BY <1>1, <1>2, <1>3

\* Every step has one of these effects on the registry and its answers.
LEMMA Effects ==
    TypeOK /\ [Next]_vars =>
       \/ \E j \in Jobs, k \in Keys :
            Claimed(j, k) \/ Promoted(j, k) \/ Orphaned(j, k)
       \/ \E k \in Keys : Dropped(k)
       \/ Untouched
<1> SUFFICES ASSUME TypeOK, [Next]_vars
             PROVE  \/ \E j \in Jobs, k \in Keys :
                         Claimed(j, k) \/ Promoted(j, k) \/ Orphaned(j, k)
                    \/ \E k \in Keys : Dropped(k)
                    \/ Untouched
  OBVIOUS
<1>1. ASSUME NEW j \in Jobs, NEW k \in Keys, CompleteMaterialization(j, k)
      PROVE  Promoted(j, k) \/ Orphaned(j, k) \/ Untouched
  BY <1>1 DEF CompleteMaterialization, Promoted, Orphaned, Untouched, answers
<1>2. CASE UNCHANGED vars BY <1>2 DEF vars, Untouched, registry, answers
<1> QED BY <1>1, <1>2, Removals
        DEF Next, Claimed, Begin, Visit, Scanned, Return, Untouched, registry, answers

-----------------------------------------------------------------------------
\* An entry's job has claimed that key only, and was answered as the entry
\* says, after every step.
LEMMA ClaimsStep == TypeOK /\ Claims /\ [Next]_vars => Claims'
<1> SUFFICES ASSUME TypeOK, Claims, [Next]_vars PROVE Claims'
  OBVIOUS
<1> USE CacheAssumption DEF TypeOK, Claims, OneClaim
<1>1. ASSUME NEW j \in Jobs, NEW k \in Keys, Claimed(j, k) PROVE Claims'
  <2>1. j \notin completed \union stale
    BY <1>1 DEF Claimed, BeginMaterialization
  <2> QED BY <1>1, <2>1 DEF Claimed, BeginMaterialization, Set
<1>2. ASSUME NEW j \in Jobs, NEW k \in Keys, Promoted(j, k) PROVE Claims'
  <2>1. \A l \in Keys : entry[l] # "absent" /\ materializing_job[l] = j => l = k
    BY <1>2 DEF Promoted
  <2> QED BY <1>2, <2>1 DEF Promoted, Promote, Set, Is
<1>3. ASSUME NEW j \in Jobs, NEW k \in Keys, Orphaned(j, k) PROVE Claims'
  <2>1. \A l \in Keys : entry[l] # "absent" => materializing_job[l] # j
    BY <1>3 DEF Orphaned, Is
  <2> QED BY <1>3, <2>1 DEF Orphaned, AnswerStale, registry
<1>4. ASSUME NEW k \in Keys, Dropped(k) PROVE Claims'
  BY <1>4 DEF Dropped, Remove, Set, answers
<1>5. CASE Untouched BY <1>5 DEF Untouched, registry, answers
<1> QED BY <1>1, <1>2, <1>3, <1>4, <1>5, Effects

\* An output stays pinned or has been handed back once, after every step.
LEMMA UnpinnedStep ==
    TypeOK /\ Claims /\ UnpinnedOnce /\ [Next]_vars => UnpinnedOnce'
<1> SUFFICES ASSUME TypeOK, Claims, UnpinnedOnce, [Next]_vars PROVE UnpinnedOnce'
  OBVIOUS
<1>0. TypeOK' BY TypeStep
<1>a. ServedAre BY Served
<1>b. ServedAre' BY <1>0, Served, PTL
<1>1. ASSUME NEW j \in Jobs, NEW k \in Keys, Claimed(j, k) PROVE UnpinnedOnce'
  <2>1. \A i \in Jobs : i \in PinnedStages' <=> i \in PinnedStages
    BY <1>1, <1>a, <1>b DEF Claimed, BeginMaterialization, Set, ServedAre, Is, TypeOK
  <2> QED BY <1>1, <2>1 DEF Claimed, BeginMaterialization, UnpinnedOnce
<1>2. ASSUME NEW j \in Jobs, NEW k \in Keys, Promoted(j, k) PROVE UnpinnedOnce'
  <2>1. j \notin completed BY <1>2 DEF Promoted, Is, Claims
  <2>2. \A i \in Jobs : i \in PinnedStages' <=> i \in PinnedStages \/ i = j
    BY <1>2, <1>a, <1>b DEF Promoted, Promote, Set, ServedAre, Is, TypeOK
  <2>3. unpinned' = unpinned /\ completed' = completed \union {j}
    BY <1>2 DEF Promoted, Promote
  <2> QED BY <2>1, <2>2, <2>3 DEF UnpinnedOnce
<1>3. ASSUME NEW j \in Jobs, NEW k \in Keys, Orphaned(j, k) PROVE UnpinnedOnce'
  <2>1. PinnedStages' = PinnedStages
    BY <1>3 DEF Orphaned, AnswerStale, registry, PinnedStages, Lookup
  <2> QED BY <1>3, <2>1 DEF Orphaned, AnswerStale, UnpinnedOnce
<1>4. ASSUME NEW k \in Keys, Dropped(k) PROVE UnpinnedOnce'
  <2>1. completed' = completed BY <1>4 DEF Dropped, answers
  <2>2. \A i \in Jobs : unpinned'[i] = IF i \in Lookup(k) THEN unpinned[i] + 1
                                                          ELSE unpinned[i]
    BY <1>4 DEF Dropped, Remove
  <2>3. \A i \in Jobs, l \in Keys :
           Is(l, "materialized", i)' <=> Is(l, "materialized", i) /\ l # k
    BY <1>4, CacheAssumption DEF Dropped, Remove, Set, Is, TypeOK
  <2>4. \A i \in Jobs : i \in Lookup(k) =>
           i \in completed /\ i \in PinnedStages /\ i \notin PinnedStages'
    <3> SUFFICES ASSUME NEW i \in Jobs, i \in Lookup(k)
                 PROVE  i \in completed /\ i \in PinnedStages /\ i \notin PinnedStages'
      OBVIOUS
    <3>1. Is(k, "materialized", i) BY <1>a DEF ServedAre
    <3>2. i \in completed BY <3>1 DEF Is, Claims
    <3>3. i \in PinnedStages BY <1>a, <3>1 DEF ServedAre
    <3>4. \A l \in Keys : Is(l, "materialized", i) => l = k
      BY <3>1 DEF Is, Claims, OneClaim
    <3>5. i \notin PinnedStages' BY <1>b, <2>3, <3>4 DEF ServedAre
    <3> QED BY <3>2, <3>3, <3>5
  <2>5. \A i \in Jobs : i \notin Lookup(k) => (i \in PinnedStages' <=> i \in PinnedStages)
    BY <1>a, <1>b, <2>3 DEF ServedAre
  <2> QED BY <2>1, <2>2, <2>4, <2>5 DEF UnpinnedOnce
<1>5. CASE Untouched
  <2>1. PinnedStages' = PinnedStages BY <1>5 DEF Untouched, registry, PinnedStages, Lookup
  <2> QED BY <1>5, <2>1 DEF Untouched, answers, UnpinnedOnce
<1> QED BY <1>1, <1>2, <1>3, <1>4, <1>5, Effects

-----------------------------------------------------------------------------
\* An entry that was served before stays found unless the scan loses it.
LEMMA FoundKept ==
    ASSUME TypeOK, NEW c \in Callers, NEW k \in Keys, Found(c, k),
           target'[c] = target[c], old'[c] = old[c],
           entry'[k] = "materialized" /\ materializing_job'[k] \in old[c] =>
              /\ entry[k] = "materialized"
              /\ materializing_job'[k] = materializing_job[k]
              /\ k \in left[c] \union affected[c] => k \in left'[c] \union affected'[c]
    PROVE  Found(c, k)'
<1> SUFFICES ASSUME entry'[k] = "materialized", materializing_job'[k] \in old[c]
             PROVE  k \in left'[c] \union affected'[c] /\ Affects(target[c], k)'
  BY DEF Found, Affects
<1>1. entry[k] = "materialized" /\ materializing_job'[k] = materializing_job[k]
  OBVIOUS
<1>2. k \in left[c] \union affected[c] /\ Affects(target[c], k) BY <1>1 DEF Found
<1>3. Lookup(k)' = Lookup(k) BY <1>1 DEF Lookup
<1>4. Affects(target[c], k)' BY <1>1, <1>2, <1>3 DEF Affects
<1> QED BY <1>1, <1>2, <1>4

\* A step that touches no scan, and serves after it only what was served
\* before or a job not answered before, keeps every scan on its way.
LEMMA ScansKept ==
    ASSUME TypeOK, Scans, UNCHANGED <<at, target, left, old>>,
           completed \subseteq completed',
           \A l \in Keys : entry'[l] = "materialized" =>
              /\ \/ entry[l] = "materialized" /\ materializing_job'[l] = materializing_job[l]
                 \/ materializing_job'[l] \notin completed
              /\ \A c \in Callers : l \in affected[c] => l \in affected'[c]
    PROVE  Scans'
<1> SUFFICES ASSUME NEW c \in Callers PROVE ScanAt(c)' /\ \A k \in Keys : Found(c, k)'
  BY DEF Scans
<1>1. ScanAt(c) BY DEF Scans
<1>2. ScanAt(c)' BY <1>1 DEF ScanAt
<1>3. ASSUME NEW k \in Keys PROVE Found(c, k)'
  <2>1. Found(c, k) BY DEF Scans
  <2>2. entry'[k] = "materialized" /\ materializing_job'[k] \in old[c] =>
           /\ entry[k] = "materialized"
           /\ materializing_job'[k] = materializing_job[k]
           /\ k \in affected[c] => k \in affected'[c]
    BY <1>1 DEF ScanAt
  <2> QED BY <2>1, <2>2, FoundKept
<1> QED BY <1>2, <1>3

\* Every running scan is on its way after every step.
LEMMA ScansStep == TypeOK /\ Claims /\ Scans /\ [Next]_vars => Scans'
<1> SUFFICES ASSUME TypeOK, Claims, Scans, [Next]_vars PROVE Scans'
  OBVIOUS
<1>0. TypeOK' BY TypeStep
<1>1. ASSUME NEW j \in Jobs, NEW k \in Keys, BeginMaterialization(j, k) PROVE Scans'
  <2>1. \A l \in Keys : entry'[l] = "materialized" =>
           entry[l] = "materialized" /\ materializing_job'[l] = materializing_job[l]
    BY <1>1 DEF BeginMaterialization, Set, TypeOK
  <2>2. UNCHANGED <<at, target, left, old, affected, completed>>
    BY <1>1 DEF BeginMaterialization, scan
  <2> QED BY <2>1, <2>2, ScansKept
<1>2. ASSUME NEW j \in Jobs, NEW k \in Keys, CompleteMaterialization(j, k) PROVE Scans'
  <2>1. Is(k, "pending", j) => j \notin completed BY DEF Is, Claims
  <2>2. UNCHANGED <<at, target, left, old, affected>>
    BY <1>2 DEF CompleteMaterialization, scan
  <2>3. completed \subseteq completed'
    BY <1>2 DEF CompleteMaterialization, Promote, AnswerStale
  <2>4. \A l \in Keys : entry'[l] = "materialized" =>
              \/ entry[l] = "materialized" /\ materializing_job'[l] = materializing_job[l]
              \/ materializing_job'[l] \notin completed
    BY <1>2, <2>1
       DEF CompleteMaterialization, Promote, AnswerStale, Set, registry, TypeOK
  <2> QED BY <2>2, <2>3, <2>4, ScansKept
<1>3. ASSUME NEW k \in Keys, Dropped(k) PROVE Scans'
  <2>1. UNCHANGED <<at, target, left, old, completed>>
    BY <1>3 DEF Dropped, answers
  <2>2. entry'[k] # "materialized" BY <1>3 DEF Dropped, Remove, Set, TypeOK
  <2>3. \A l \in Keys \ {k} : entry'[l] = "materialized" =>
           entry[l] = "materialized" /\ materializing_job'[l] = materializing_job[l]
    BY <1>3 DEF Dropped, Remove, Set, TypeOK
  <2>4. \A c \in Callers : affected[c] \ {k} \subseteq affected'[c] BY <1>3 DEF Dropped
  <2>5. \A l \in Keys : entry'[l] = "materialized" =>
           \A c \in Callers : l \in affected[c] => l \in affected'[c]
    BY <2>2, <2>4
  <2> QED BY <2>1, <2>2, <2>3, <2>5, ScansKept
<1>4. ASSUME NEW c \in Callers, NEW x \in Executors \union Sessions, Begin(c, x)
      PROVE Scans'
  <2> SUFFICES ASSUME NEW d \in Callers PROVE ScanAt(d)' /\ \A k \in Keys : Found(d, k)'
    BY DEF Scans
  <2>1. ScanAt(d) /\ \A k \in Keys : Found(d, k) BY DEF Scans
  <2>2. UNCHANGED <<entry, materializing_job, completed, affected>>
    BY <1>4 DEF Begin, registry, answers
  <2>3. CASE d # c
    <3>1. at'[d] = at[d] /\ target'[d] = target[d] /\ left'[d] = left[d] /\ old'[d] = old[d]
      BY <1>4, <2>3 DEF Begin, TypeOK
    <3>2. ScanAt(d)' BY <2>1, <2>2, <3>1 DEF ScanAt
    <3>3. \A k \in Keys : Found(d, k)' BY <2>1, <2>2, <3>1, FoundKept
    <3> QED BY <3>2, <3>3
  <2>4. CASE d = c
    <3>1. at'[c] = "scanning" /\ target'[c] = x /\ left'[c] = Keys
      BY <1>4 DEF Begin, TypeOK
    <3>2. old'[c] = UNION {Lookup(k) : k \in {l \in Keys : Affects(x, l)}}
      BY <1>4 DEF Begin, TypeOK
    <3>3. \A j \in old'[c] : \E k \in Keys : Affects(x, k) /\ Is(k, "materialized", j)
      BY <3>2 DEF Lookup, Is
    <3>4. old'[c] \subseteq completed BY <3>3 DEF Is, Claims
    <3>5. ScanAt(c)' BY <2>2, <3>1, <3>4 DEF ScanAt
    <3>6. ASSUME NEW k \in Keys, entry[k] = "materialized", materializing_job[k] \in old'[c]
          PROVE Affects(x, k)
      BY <3>3, <3>6 DEF Is, Claims, OneClaim, TypeOK
    <3>7. \A k \in Keys : Affects(x, k)' <=> Affects(x, k)
      BY <2>2 DEF Affects, Lookup
    <3>8. \A k \in Keys : Found(c, k)' BY <2>2, <3>1, <3>6, <3>7 DEF Found, Affects
    <3> QED BY <2>4, <3>5, <3>8
  <2> QED BY <2>3, <2>4
<1>5. ASSUME NEW c \in Callers, NEW k \in Keys, Visit(c, k) PROVE Scans'
  <2> SUFFICES ASSUME NEW d \in Callers PROVE ScanAt(d)' /\ \A l \in Keys : Found(d, l)'
    BY DEF Scans
  <2>1. ScanAt(d) /\ \A l \in Keys : Found(d, l) BY DEF Scans
  <2>2. UNCHANGED <<entry, materializing_job, completed, at, target, old>>
    BY <1>5 DEF Visit, registry, answers
  <2>3. left'[d] \subseteq left[d] BY <1>5 DEF Visit, TypeOK
  <2>4. ScanAt(d)' BY <2>1, <2>2, <2>3 DEF ScanAt
  <2>5. ASSUME NEW l \in Keys, entry[l] = "materialized",
               materializing_job[l] \in old[d], l \in left[d] \union affected[d]
        PROVE l \in left'[d] \union affected'[d]
    <3>1. Affects(target[d], l) BY <2>1, <2>5 DEF Found
    <3> QED BY <1>5, <2>5, <3>1 DEF Visit, TypeOK
  <2>6. \A l \in Keys : Found(d, l)' BY <2>1, <2>2, <2>5, FoundKept
  <2> QED BY <2>4, <2>6
<1>6. ASSUME NEW c \in Callers, NEW k \in Keys, RemoveAffected(c, k), Untouched
      PROVE Scans'
  \* The entry it found is no longer one it was called to remove.
  <2> SUFFICES ASSUME NEW d \in Callers PROVE ScanAt(d)' /\ \A l \in Keys : Found(d, l)'
    BY DEF Scans
  <2>1. ScanAt(d) /\ \A l \in Keys : Found(d, l) BY DEF Scans
  <2>2. UNCHANGED <<entry, materializing_job, completed, at, target, left, old>>
    BY <1>6 DEF RemoveAffected, Untouched, registry, answers
  <2>3. ScanAt(d)' BY <2>1, <2>2 DEF ScanAt
  <2>4. ~Affects(target[c], k)
    BY <1>6, CacheAssumption
       DEF RemoveAffected, Remove, Set, Untouched, registry, Affects, Lookup, TypeOK
  <2>5. ASSUME NEW l \in Keys, entry[l] = "materialized",
               materializing_job[l] \in old[d], l \in left[d] \union affected[d]
        PROVE l \in left'[d] \union affected'[d]
    <3>1. Affects(target[d], l) BY <2>1, <2>5 DEF Found
    <3> QED BY <1>6, <2>2, <2>4, <2>5, <3>1 DEF RemoveAffected, TypeOK
  <2>6. \A l \in Keys : Found(d, l)' BY <2>1, <2>2, <2>5, FoundKept
  <2> QED BY <2>3, <2>6
<1>7. ASSUME NEW c \in Callers, Scanned(c) PROVE Scans'
  <2> SUFFICES ASSUME NEW d \in Callers PROVE ScanAt(d)' /\ \A l \in Keys : Found(d, l)'
    BY DEF Scans
  <2>1. ScanAt(d) /\ \A l \in Keys : Found(d, l) BY DEF Scans
  <2>2. UNCHANGED <<entry, materializing_job, completed, target, left, affected, old>>
    BY <1>7 DEF Scanned, registry, answers
  <2>3. ScanAt(d)' BY <1>7, <2>1, <2>2 DEF Scanned, ScanAt, TypeOK
  <2>4. \A l \in Keys : Found(d, l)' BY <2>1, <2>2, FoundKept
  <2> QED BY <2>3, <2>4
<1>8. ASSUME NEW c \in Callers, Return(c) PROVE Scans'
  <2> SUFFICES ASSUME NEW d \in Callers PROVE ScanAt(d)' /\ \A l \in Keys : Found(d, l)'
    BY DEF Scans
  <2>1. ScanAt(d) /\ \A l \in Keys : Found(d, l) BY DEF Scans
  <2>2. UNCHANGED <<entry, materializing_job, completed, target, left, affected>>
    BY <1>8 DEF Return, registry, answers
  <2>3. old'[d] = old[d] \/ old'[d] = {} BY <1>8 DEF Return, TypeOK
  <2>4. ScanAt(d)' BY <1>8, <2>1, <2>2, <2>3 DEF Return, ScanAt, TypeOK
  <2>5. CASE old'[d] = old[d] BY <2>1, <2>2, <2>4, <2>5, FoundKept
  <2>6. CASE old'[d] = {} BY <2>4, <2>6 DEF Found
  <2> QED BY <2>3, <2>5, <2>6
<1>9. CASE UNCHANGED vars BY <1>9 DEF vars, Scans, ScanAt, Found, Affects, Lookup
<1> QED BY <1>1, <1>2, <1>3, <1>4, <1>5, <1>6, <1>7, <1>8, <1>9, Removals DEF Next

-----------------------------------------------------------------------------
\* The invariant holds in every reachable state.
THEOREM Invariance == Spec => []IInv
<1>1. IInv /\ [Next]_vars => IInv'
  BY TypeStep, ClaimsStep, UnpinnedStep, ScansStep DEF IInv
<1> QED BY <1>1, InitHolds, PTL DEF Spec

\* A job that was answered Stale is not served: complete_materialization may
\* tell its caller to delete the output.
THEOREM StaleMayBeDeleted == Spec => []StaleIsOrphan
<1>1. IInv => StaleIsOrphan
  BY Served DEF IInv, StaleIsOrphan, ServedAre, Claims, Is, TypeOK
<1> QED BY <1>1, Invariance, PTL

\* Every registered output is pinned until it is handed back, and is handed
\* back once.
THEOREM HandedBackOnce == Spec => []UnpinnedOnce
<1>1. IInv => UnpinnedOnce BY DEF IInv
<1> QED BY <1>1, Invariance, PTL

\* A removal that returns has removed all it was called for.
THEOREM RemovalIsComplete == Spec => []InvalidatedBefore
<1>1. IInv => InvalidatedBefore
  <2> SUFFICES ASSUME IInv, NEW c \in Callers, at[c] = "removing", affected[c] = {},
                      NEW j \in old[c], j \in PinnedStages
               PROVE  FALSE
    BY DEF InvalidatedBefore
  <2>1. j \in Jobs BY DEF IInv, TypeOK
  <2>2. PICK k \in Keys : Is(k, "materialized", j) BY <2>1, Served DEF IInv, ServedAre
  <2>3. Found(c, k) /\ left[c] = {} BY DEF IInv, Scans, ScanAt
  <2> QED BY <2>2, <2>3 DEF Found, Is
<1> QED BY <1>1, Invariance, PTL

\* invalidate_executor never drops a claim.
THEOREM ClaimsAreSafe == Spec => ClaimsSurvive
<1> DEFINE Step ==
      \A k \in Keys : \A c \in Callers :
        (entry[k] = "pending" /\ entry'[k] = "absent" /\ affected'[c] # affected[c])
           => target[c] \in Sessions
<1>1. IInv /\ [Next]_vars => [Step]_vars
  <2> SUFFICES ASSUME TypeOK, [Next]_vars, NEW k \in Keys, NEW c \in Callers,
                      entry[k] = "pending", entry'[k] = "absent",
                      affected'[c] # affected[c]
               PROVE  target[c] \in Sessions
    BY DEF IInv
  <2>1. ~(UNCHANGED entry) /\ ~(UNCHANGED affected) OBVIOUS
  <2>2. PICK d \in Callers, l \in Keys : RemoveAffected(d, l)
    BY <2>1 DEF Next, vars, BeginMaterialization, CompleteMaterialization,
                AbortMaterialization, Invalidate, Begin, Visit, Scanned, Return,
                registry, scan
  <2>3. d = c BY <2>2 DEF RemoveAffected, TypeOK
  <2>4. l = k /\ Affects(target[c], k)
    BY <2>2, <2>3 DEF RemoveAffected, Remove, Set, registry, TypeOK
  <2>5. target[c] \notin Executors BY <2>4 DEF Affects, Lookup
  <2> QED BY <2>5 DEF TypeOK
<1> QED BY <1>1, Invariance, PTL DEF Spec, ClaimsSurvive
=============================================================================
