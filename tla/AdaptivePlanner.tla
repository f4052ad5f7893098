--------------------------- MODULE AdaptivePlanner ---------------------------
(***************************************************************************)
(* The planner of adaptive query execution (state/aqe): the physical plan  *)
(* of a job is re-optimised each time a stage finishes, with the sizes the *)
(* finished stages measured.                                               *)
(*                                                                         *)
(* A plan is a tree of records.  An exchange names a slot: the stage id    *)
(* and the shuffle locations that the copies an optimiser makes of an      *)
(* ExchangeExec share through their Arcs.  Every join, repartition and     *)
(* aggregate is on one key column, and a row is its key, so that the       *)
(* content of a partition is a function from keys to numbers of rows.  A   *)
(* row is one byte.  Null-aware joins, range repartitions and the window   *)
(* rules are left out.                                                     *)
(***************************************************************************)
EXTENDS Integers, Sequences, SequencesExt

CONSTANTS
    Keys,
    target_partitions,
    broadcast_join_threshold_bytes,
    hash_join_max_build_partition_bytes,
    min_probe_ratio,               \* stage_build_side_min_probe_ratio
    max_estimate_multiple,         \* stage_build_side_max_estimate_multiple
    collect_left_threshold         \* DataFusion's own broadcast threshold

JoinTypes == {"Inner", "Left", "Right", "Full", "LeftSemi", "RightSemi",
              "LeftAnti", "RightAnti"}

\* Node constructors.  The statistics of a scan are those of its files.
Scan(t, stats) == [op |-> "scan", table |-> t, stats |-> stats]
Empty(n)       == [op |-> "empty", count |-> n]
Hash(in)       == [op |-> "repartition", in |-> in]
Coalesce(in)   == [op |-> "coalesce", in |-> in]
Padded(in)     == [op |-> "projection", in |-> in]
Aggregate(in)  == [op |-> "aggregate", in |-> in]
Join(jt, mode, proj, l, r) ==
    [op |-> "join", jt |-> jt, mode |-> mode, proj |-> proj, left |-> l, right |-> r]
Dynamic(jt, state, proj, l, r) ==
    [op |-> "dynamic", jt |-> jt, state |-> state, proj |-> proj, left |-> l, right |-> r]
Exchange(s, partitioning, broadcast, in) ==
    [op |-> "exchange", slot |-> s, partitioning |-> partitioning,
     broadcast |-> broadcast, in |-> in]
Root(s, in)    == [op |-> "root", slot |-> s, in |-> in]

Binary == {"join", "dynamic"}
Leaf   == {"scan", "empty"}
IsExchange(n) == n.op = "exchange"

\* The state the copies of an exchange share.  shuffle has the rows of each
\* location <<task, executor>> once shuffle_partitions is resolved.
NewSlot == [stage |-> -1, created |-> FALSE, shuffle |-> <<>>]
shuffle_created(slots, s) == slots[s].created

NoRows == [k \in Keys |-> 0]
Add(a, b) == [k \in Keys |-> a[k] + b[k]]
Total(rows) == SumFunction(rows)
AllRows(f) == FoldFunction(Add, NoRows, f)
Partition(k) == k % target_partitions
OfPartition(rows, p) == [k \in Keys |-> IF Partition(k) = p THEN rows[k] ELSE 0]

-----------------------------------------------------------------------------
(* What a plan says of itself.                                             *)

\* partition_count of a node's output partitioning.
RECURSIVE Count(_)
Count(n) ==
    CASE n.op \in {"scan", "repartition"} -> target_partitions
      [] n.op = "empty" -> n.count
      [] n.op = "coalesce" -> 1
      [] n.op = "exchange" /\ n.broadcast -> 1
      [] n.op = "exchange" /\ n.partitioning = "hash" -> target_partitions
      [] n.op = "dynamic" -> target_partitions
      [] n.op = "join" -> Count(n.right)
      [] OTHER -> Count(n.in)

Preserved(jt) ==
    CASE jt = "Inner" -> {"left", "right"}
      [] jt \in {"Left", "LeftSemi", "LeftAnti"} -> {"left"}
      [] jt \in {"Right", "RightSemi", "RightAnti"} -> {"right"}
      [] OTHER -> {}

\* The output is hash partitioned on the key.
RECURSIVE Hashed(_)
Hashed(n) ==
    CASE n.op = "repartition" -> TRUE
      [] n.op = "exchange" -> \/ ~n.broadcast /\ n.partitioning = "hash"
                              \/ ~n.broadcast /\ n.partitioning = "none" /\ Hashed(n.in)
      [] n.op \in {"projection", "aggregate", "root"} -> Hashed(n.in)
      [] n.op = "join" /\ n.mode = "CollectLeft" ->
            "right" \in Preserved(n.jt) /\ Hashed(n.right)
      [] n.op = "join" -> \E side \in Preserved(n.jt) : Hashed(n[side])
      [] OTHER -> FALSE

CoPartitioned(n) == Hashed(n) /\ Count(n) = target_partitions

Exact(b) == [precision |-> "exact", bytes |-> b]
Inexact(b) == [precision |-> "inexact", bytes |-> b]
Absent == [precision |-> "absent", bytes |-> 0]

\* Statistics of a subtree: measured below a resolved exchange, unknown below
\* an unresolved one, and discarded by joins and aggregates.
RECURSIVE Stats(_, _)
Stats(n, slots) ==
    CASE n.op = "scan" -> n.stats
      [] n.op = "empty" -> Exact(0)
      [] n.op = "exchange" /\ shuffle_created(slots, n.slot) ->
            Exact(Total(AllRows(slots[n.slot].shuffle)))
      [] n.op \in {"repartition", "coalesce", "projection"} -> Stats(n.in, slots)
      [] OTHER -> Absent

\* The rows the reader of a resolved exchange gets for its partition p.
Read(x, slots, p) ==
    LET shuffle == slots[x.slot].shuffle
    IN  CASE x.broadcast -> AllRows(shuffle)
          [] x.partitioning = "hash" -> OfPartition(AllRows(shuffle), p)
          [] OTHER -> AllRows(Restrict(shuffle, {l \in DOMAIN shuffle : l[1] = p}))

Known(stats) == stats.precision # "absent"
is_guaranteed_empty(n, slots) == Stats(n, slots) = Exact(0)
is_guaranteed_non_empty(n, slots) ==
    Stats(n, slots).precision = "exact" /\ Stats(n, slots).bytes > 0

-----------------------------------------------------------------------------
(* PropagateEmptyExecRule                                                  *)

EmptyOf(n) == Empty(Count(n))

JoinWithEmpty(n, slots) ==
    LET left_empty  == is_guaranteed_empty(n.left, slots)
        right_empty == is_guaranteed_empty(n.right, slots)
        no_projection == n.mode = "Sort" \/ ~n.proj
    IN  CASE n.jt \in {"Inner", "LeftSemi", "RightSemi"} /\ (left_empty \/ right_empty) ->
                EmptyOf(n)
          [] n.jt \in {"Left", "LeftAnti"} /\ left_empty -> EmptyOf(n)
          [] n.jt \in {"Right", "RightAnti"} /\ right_empty -> EmptyOf(n)
          [] n.jt = "Left" /\ right_empty /\ no_projection -> Padded(n.left)
          [] n.jt = "Right" /\ left_empty /\ no_projection -> Padded(n.right)
          [] n.jt = "LeftAnti" /\ right_empty /\ no_projection -> n.left
          [] n.jt = "RightAnti" /\ left_empty /\ no_projection -> n.right
          [] n.jt = "Full" /\ left_empty /\ right_empty -> EmptyOf(n)
          [] n.jt = "Full" /\ right_empty /\ no_projection
                /\ is_guaranteed_non_empty(n.left, slots) -> Padded(n.left)
          [] n.jt = "Full" /\ left_empty /\ no_projection
                /\ is_guaranteed_non_empty(n.right, slots) -> Padded(n.right)
          [] OTHER -> n

PropagateEmptyNode(n, slots) ==
    CASE n.op = "join" -> JoinWithEmpty(n, slots)
      [] n.op \in {"exchange", "projection", "aggregate", "repartition", "coalesce"}
            /\ n.in.op = "empty" -> EmptyOf(n)
      [] n.op = "exchange" /\ is_guaranteed_empty(n, slots) -> EmptyOf(n)
      [] OTHER -> n

\* transform_up: the children before the node.
RECURSIVE PropagateEmpty(_, _)
PropagateEmpty(n, slots) ==
    CASE n.op \in Leaf -> n
      [] n.op \in Binary ->
            PropagateEmptyNode([n EXCEPT !.left = PropagateEmpty(@, slots),
                                         !.right = PropagateEmpty(@, slots)], slots)
      [] OTHER -> PropagateEmptyNode([n EXCEPT !.in = PropagateEmpty(@, slots)], slots)

-----------------------------------------------------------------------------
(* SelectJoinRule.  A rule that plants exchanges returns the plan and the  *)
(* slots, <<n, slots>>.                                                    *)

\* Mutant: every join may broadcast its build side.
AlwaysSafe(jt) == jt \in JoinTypes

collect_left_broadcast_safe(jt) == jt \in {"Inner", "Right", "RightSemi", "RightAnti"}

\* JoinType::swap, DataFusion's.
swap(jt) ==
    CASE jt = "Left" -> "Right"         [] jt = "Right" -> "Left"
      [] jt = "LeftSemi" -> "RightSemi" [] jt = "RightSemi" -> "LeftSemi"
      [] jt = "LeftAnti" -> "RightAnti" [] jt = "RightAnti" -> "LeftAnti"
      [] OTHER -> jt

swap_inputs(j) == [j EXCEPT !.jt = swap(@), !.left = j.right, !.right = j.left]

supports_swap_join_order(j, slots) ==
    LET l == Stats(j.left, slots)
        r == Stats(j.right, slots)
    IN  Known(l) /\ Known(r) /\ l.bytes > r.bytes

Swapped(j, slots) == IF supports_swap_join_order(j, slots) THEN swap_inputs(j) ELSE j

\* Every exchange above is resolved, and no dynamic join is left.
RECURSIVE Settled(_, _)
Settled(n, slots) ==
    CASE n.op = "exchange" -> shuffle_created(slots, n.slot)
      [] n.op = "dynamic" -> FALSE
      [] n.op \in Leaf -> TRUE
      [] n.op = "join" -> Settled(n.left, slots) /\ Settled(n.right, slots)
      [] OTHER -> Settled(n.in, slots)

upstream_resolved(d, slots) == Settled(d.left, slots) /\ Settled(d.right, slots)

UnderThreshold(stats) ==
    /\ broadcast_join_threshold_bytes # 0
    /\ Known(stats) /\ stats.bytes # 0
    /\ stats.bytes < broadcast_join_threshold_bytes

inputs_already_partitioned(d) == CoPartitioned(d.left) /\ CoPartitioned(d.right)

requires_build_staging(build, probe, jt) ==
    /\ collect_left_broadcast_safe(jt)
    /\ broadcast_join_threshold_bytes # 0
    /\ build.precision = "inexact"
    /\ build.bytes >= broadcast_join_threshold_bytes
    /\ build.bytes <= broadcast_join_threshold_bytes * max_estimate_multiple
    /\ Known(probe)
    /\ probe.bytes >= build.bytes * min_probe_ratio

\* The largest partition the build side was measured at.
hash_build_fits(build, slots) ==
    \/ hash_join_max_build_partition_bytes = 0
    \/ ~IsExchange(build)
    \/ \A p \in 0..(Count(build) - 1) :
          Total(Read(build, slots, p)) <= hash_join_max_build_partition_bytes

\* What becomes of dynamic join d, whose sides are in the order of b.
JoinAction(d, b, build, probe, slots) ==
    LET ready == d.state = "Repartitioned" \/ inputs_already_partitioned(d)
    IN  CASE ready /\ hash_build_fits(b.left, slots) -> "Hash"
          [] ready -> "Sort"
          [] UnderThreshold(build) /\ collect_left_broadcast_safe(b.jt) -> "CollectLeft"
          [] /\ ~IsExchange(d.left) /\ ~IsExchange(d.right)
             /\ requires_build_staging(build, probe, b.jt) -> "StageBuildSide"
          [] OTHER -> "Repartition"

OrderedAction(d, b, slots) ==
    JoinAction(d, b, Stats(b.left, slots), Stats(b.right, slots), slots)

to_actual_join(d, slots) == OrderedAction(d, Swapped(d, slots), slots)

Plant(in, partitioning, broadcast, slots) ==
    <<Exchange(Len(slots) + 1, partitioning, broadcast, in), Append(slots, NewSlot)>>

ensure_exchange(n, slots) ==
    IF IsExchange(n) /\ n.partitioning = "hash"
    THEN <<n, slots>>
    ELSE Plant(n, "hash", FALSE, slots)

to_broadcast(x) == [x EXCEPT !.partitioning = "none", !.broadcast = TRUE]

\* The build side of a CollectLeft join, broadcast when both sides have
\* several partitions.
BroadcastBuildSide(j, slots) ==
    LET pays_off == Count(j.left) > 1 /\ Count(j.right) > 1
        planted  == IF IsExchange(j.left) THEN <<to_broadcast(j.left), slots>>
                    ELSE Plant(j.left, "none", TRUE, slots)
    IN  IF pays_off THEN <<[j EXCEPT !.left = planted[1]], planted[2]>> ELSE <<j, slots>>

Repartitioned(d, left, right) ==
    <<Dynamic(d.jt, "Repartitioned", d.proj, left[1], right[1]), right[2]>>
RepartitionRight(d, left) == Repartitioned(d, left, ensure_exchange(d.right, left[2]))

\* The build side of d, staged.
StageBuild(d, swaps, slots) ==
    LET staged == Plant(IF swaps THEN d.right ELSE d.left, "hash", FALSE, slots)
    IN  <<IF swaps THEN [d EXCEPT !.right = staged[1]] ELSE [d EXCEPT !.left = staged[1]],
          staged[2]>>

SelectJoinNode(d, action, slots) ==
    LET actual(mode) == Join(d.jt, mode, d.proj, d.left, d.right)
    IN  CASE action = "Hash" -> <<Swapped(actual("Partitioned"), slots), slots>>
          [] action = "Sort" -> <<actual("Sort"), slots>>
          [] action = "CollectLeft" ->
                BroadcastBuildSide(Swapped(actual("CollectLeft"), slots), slots)
          [] action = "StageBuildSide" ->
                StageBuild(d, supports_swap_join_order(d, slots), slots)
          [] OTHER -> RepartitionRight(d, ensure_exchange(d.left, slots))

\* transform_up, with the slots passed from child to child and to the node.
SelectHere(n, slots) ==
    IF n.op = "dynamic" /\ upstream_resolved(n, slots)
    THEN SelectJoinNode(n, to_actual_join(n, slots), slots)
    ELSE <<n, slots>>

Under(n, in) == <<[n EXCEPT !.in = in[1]], in[2]>>
WithSides(n, l, r) == [n EXCEPT !.left = l[1], !.right = r[1]]
SelectBoth(n, l, r) == SelectHere(WithSides(n, l, r), r[2])

RECURSIVE SelectJoin(_, _)
RECURSIVE SelectRight(_, _)
SelectRight(n, l) == SelectBoth(n, l, SelectJoin(n.right, l[2]))
SelectJoin(n, slots) ==
    CASE n.op \in Leaf -> <<n, slots>>
      [] n.op \in Binary -> SelectRight(n, SelectJoin(n.left, slots))
      [] OTHER -> Under(n, SelectJoin(n.in, slots))

-----------------------------------------------------------------------------
(* DataFusion's own rules, as far as the adaptive rules depend on them.    *)

CanCollect(stats) ==
    Known(stats) /\ stats.bytes # 0 /\ stats.bytes < collect_left_threshold

\* join_selection: the smaller side becomes the build side, and a join left
\* open (Auto) is broadcast when that side is small.
Collected(j, l, r, slots) ==
    [IF l = r THEN Swapped(j, slots) ELSE IF l THEN j ELSE swap_inputs(j) EXCEPT
        !.mode = IF l \/ r THEN "CollectLeft" ELSE "Partitioned"]

JoinSelectionNode(j, slots) ==
    CASE j.mode = "Sort" -> j
      [] j.mode = "Auto" ->
            Collected(j, CanCollect(Stats(j.left, slots)), CanCollect(Stats(j.right, slots)),
                      slots)
      [] OTHER -> Swapped(j, slots)

\* DemoteUnsafeBroadcastJoinRule, planted right behind join_selection.
Demote(j) ==
    IF j.mode = "CollectLeft" /\ ~collect_left_broadcast_safe(j.jt)
    THEN [j EXCEPT !.mode = "Partitioned"]
    ELSE j

RECURSIVE SelectSides(_, _)
SelectSides(n, slots) ==
    CASE n.op \in Leaf -> n
      [] n.op = "join" ->
            Demote(JoinSelectionNode(
                [n EXCEPT !.left = SelectSides(@, slots), !.right = SelectSides(@, slots)], slots))
      [] n.op \in Binary ->
            [n EXCEPT !.left = SelectSides(@, slots), !.right = SelectSides(@, slots)]
      [] OTHER -> [n EXCEPT !.in = SelectSides(@, slots)]

\* EnsureRequirements: what changes only the distribution is taken away, and
\* put back where an operator requires it.
RECURSIVE Bare(_)
Bare(n) == IF n.op \in {"repartition", "coalesce"} THEN Bare(n.in) ELSE n

HashOnTop(n) == IF CoPartitioned(n) THEN n ELSE Hash(n)
SingleOnTop(n) == IF Count(n) = 1 THEN n ELSE Coalesce(n)

RECURSIVE EnsureRequirements(_)
EnsureRequirements(n) ==
    LET child(c) == Bare(EnsureRequirements(c))
    IN  CASE n.op \in Leaf -> n
          [] n.op = "join" /\ n.mode = "CollectLeft" ->
                [n EXCEPT !.left = SingleOnTop(child(@)), !.right = child(@)]
          [] n.op = "join" ->
                [n EXCEPT !.left = HashOnTop(child(@)), !.right = HashOnTop(child(@))]
          [] n.op = "dynamic" ->
                [n EXCEPT !.left = EnsureRequirements(@), !.right = EnsureRequirements(@)]
          [] n.op = "aggregate" -> [n EXCEPT !.in = HashOnTop(child(@))]
          [] OTHER -> [n EXCEPT !.in = EnsureRequirements(@)]

-----------------------------------------------------------------------------
(* DistributedExchangeRule, the last of the chain.                         *)

\* nearest_exchange_status is not Unresolved.
RECURSIVE NearestResolved(_, _)
NearestResolved(n, slots) ==
    CASE n.op = "exchange" -> shuffle_created(slots, n.slot)
      [] n.op \in Leaf -> TRUE
      [] n.op \in Binary -> NearestResolved(n.left, slots) /\ NearestResolved(n.right, slots)
      [] OTHER -> NearestResolved(n.in, slots)

RECURSIVE is_inlinable_scan_pipeline(_)
is_inlinable_scan_pipeline(n) ==
    CASE n.op = "scan" -> /\ broadcast_join_threshold_bytes # 0
                          /\ n.stats.precision = "exact"
                          /\ n.stats.bytes <= broadcast_join_threshold_bytes
      [] n.op = "projection" -> is_inlinable_scan_pipeline(n.in)
      [] OTHER -> FALSE

DistributeNode(n, slots) ==
    LET planted(partitioning) == Plant(n.in, partitioning, FALSE, slots)
    IN  CASE /\ n.op = "coalesce" /\ ~IsExchange(n.in)
             /\ NearestResolved(n.in, slots) /\ ~is_inlinable_scan_pipeline(n.in) ->
                <<Coalesce(planted("none")[1]), planted("none")[2]>>
          [] n.op = "repartition" /\ NearestResolved(n.in, slots) -> planted("hash")
          [] OTHER -> <<n, slots>>

RECURSIVE Distribute(_, _)
RECURSIVE DistributeRight(_, _)
DistributeBoth(n, l, r) == <<WithSides(n, l, r), r[2]>>
DistributeRight(n, l) == DistributeBoth(n, l, Distribute(n.right, l[2]))
DistributeHere(n) == DistributeNode(n[1], n[2])
Distribute(n, slots) ==
    CASE n.op \in Leaf -> <<n, slots>>
      [] n.op \in Binary -> DistributeRight(n, Distribute(n.left, slots))
      [] OTHER -> DistributeHere(Under(n, Distribute(n.in, slots)))

UnderRoot(d) ==
    IF d[1].op = "root" THEN d ELSE <<Root(Len(d[2]) + 1, d[1]), Append(d[2], NewSlot)>>

DistributedExchange(n, slots) == UnderRoot(Distribute(n, slots))

\* default_optimizers
AfterSelection(selected) ==
    DistributedExchange(
        EnsureRequirements(SelectSides(selected[1], selected[2])), selected[2])

Optimize(n, slots) == AfterSelection(SelectJoin(PropagateEmpty(n, slots), slots))

-----------------------------------------------------------------------------
(* The stages of a plan.                                                   *)

\* find_runnable_exchanges: the unresolved exchanges with none below them,
\* from left to right.
RECURSIVE find_runnable_exchanges(_, _)
find_runnable_exchanges(n, slots) ==
    CASE n.op \in Leaf -> <<>>
      [] n.op = "exchange" /\ shuffle_created(slots, n.slot) -> <<>>
      [] n.op = "exchange" ->
            LET below == find_runnable_exchanges(n.in, slots)
            IN  IF below = <<>> THEN <<n>> ELSE below
      [] n.op \in Binary ->
            find_runnable_exchanges(n.left, slots) \o find_runnable_exchanges(n.right, slots)
      [] OTHER -> find_runnable_exchanges(n.in, slots)

\* A planner: its plan, the slots of its exchanges, the stages it waits for
\* and the locations their tasks have reported.
Replan(pl, optimized) == [pl EXCEPT !.plan = optimized[1], !.slots = optimized[2]]
replan_stages(pl) == Replan(pl, Optimize(pl.plan, pl.slots))

NewPlanner(query) ==
    replan_stages([plan |-> query, slots |-> <<>>, stage_id_generator |-> 0,
                   runnable_stage_cache |-> {}, runnable_stage_output |-> <<>>])

\* Gives a stage its id, and remembers it, unless it has one.
Identify(pl, n) ==
    LET id == pl.stage_id_generator
    IN  IF pl.slots[n.slot].stage # -1 THEN pl
        ELSE [pl EXCEPT !.slots[n.slot].stage = id,
                        !.runnable_stage_cache = @ \union {id},
                        !.runnable_stage_output = (id :> <<>>) @@ @,
                        !.stage_id_generator = id + 1]

\* The root is a stage of its own once no exchange is left to run.
RunnableStages(pl) ==
    LET exchanges == find_runnable_exchanges(pl.plan, pl.slots)
    IN  CASE exchanges # <<>> -> exchanges
          [] shuffle_created(pl.slots, pl.plan.slot) -> <<>>
          [] OTHER -> <<pl.plan>>

identify_runnable_stages(pl) == FoldLeft(Identify, pl, RunnableStages(pl))

update_exchange_locations(pl, id, locations) ==
    [pl EXCEPT !.runnable_stage_output[id] = locations @@ @]

remove_exchange_locations(pl, id, executor) ==
    IF id \notin DOMAIN pl.runnable_stage_output THEN pl
    ELSE [pl EXCEPT !.runnable_stage_output[id] =
            Restrict(@, {l \in DOMAIN @ : l[2] # executor})]

SlotOf(pl, id) == CHOOSE s \in DOMAIN pl.slots : pl.slots[s].stage = id

\* take_stage_output_partitions and resolve_stage_partitions
finalise_stage(pl, id) ==
    LET s == SlotOf(pl, id)
    IN  replan_stages([pl EXCEPT
            !.runnable_stage_cache = @ \ {id},
            !.slots[s].created = TRUE,
            !.slots[s].shuffle = pl.runnable_stage_output[id],
            !.runnable_stage_output =
                Restrict(@, DOMAIN @ \ {id})])

is_stage_active(pl, id) == id \in pl.runnable_stage_cache

cancel_stages(pl, runnable) == [pl EXCEPT !.runnable_stage_cache = @ \intersect runnable]
=============================================================================
