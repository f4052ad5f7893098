------------------------------ MODULE RangeWindow ------------------------------
(***************************************************************************)
(* A window function spread over range partitions, from the files of the    *)
(* range shuffle to its values.  A write stage sorts, cuts and reports; the *)
(* scheduler merges the reports, picks the cuts and routes every file to    *)
(* the partitions its value range reaches; a window stage reads the part of *)
(* each file its index says it needs, filters it to its range and computes. *)
(*                                                                          *)
(* A bounded RANGE frame ("halo", parallel_window.rs) widens what it reads  *)
(* by the frame and trims afterwards.  A frame that starts at the beginning *)
(* ("prefix", prefix_window.rs) computes per partition, publishes each      *)
(* partition's state and applies the merged states in a third stage.        *)
(*                                                                          *)
(* A row is its key and the window counts rows.  What a sketch answers is   *)
(* left open: cuts are any observed values in order.                        *)
(***************************************************************************)
EXTENDS Integers, Sequences, SequencesExt, FiniteSetsExt

CONSTANTS Windows       \* [kind, units, preceding, following, nulls_first, partitions,
                        \*  batch_size, tasks: the rows of each write task, losses]

VARIABLES window, written, runtime_stats, task_id, cuts, remapped,
          computed, window_state, prefixes, output, status, losses

vars == <<window, written, runtime_stats, task_id, cuts, remapped,
          computed, window_state, prefixes, output, status, losses>>

\* Keys are non-negative.
NULL == -1
Pending == <<"pending">>

Tasks == DOMAIN window.tasks
Rows == FlattenSeq(window.tasks)
ValuesOf(s) == ToSet(s) \ {NULL}
CountIf(s, Test(_)) == Len(SelectSeq(s, Test))

-----------------------------------------------------------------------------
(* The order of the column *)

Before(a, b) ==
    IF a = NULL \/ b = NULL
    THEN a # b /\ (IF window.nulls_first THEN a = NULL ELSE b = NULL)
    ELSE a < b

Merged(s) == SortSeq(s, Before)

\* Boundaries a sketch of rows s may name: none without a value to name.
CutsOf(s) ==
    IF ValuesOf(s) = {} THEN {<<>>}
    ELSE {c \in [1..window.partitions - 1 -> ValuesOf(s)]:
             \A i \in 1..window.partitions - 2: c[i] <= c[i + 1]}

\* split_batch_by_range: NULLs lie beyond every boundary, at their end of the order.
Bucket(key, c) == CountIf(c, LAMBDA b: ~Before(key, b)) + 1

-----------------------------------------------------------------------------
(* Writing: a task cuts its rows by its own sketch, and reports each file *)

Parts == 1..window.partitions

Init ==
    /\ window \in Windows
    /\ written = {} /\ runtime_stats = {} /\ task_id = 1
    /\ cuts = Pending /\ remapped = <<>>
    /\ computed = [k \in {} |-> <<>>] /\ window_state = {}
    /\ prefixes = Pending
    /\ output = [k \in {} |-> <<>>]
    /\ status = "write" /\ losses = window.losses

RangeStats(id, p, rows) ==
    [id |-> id, part |-> p, nulls |-> CountIf(rows, LAMBDA r: r = NULL),
     min |-> IF ValuesOf(rows) = {} THEN NULL ELSE Min(ValuesOf(rows)),
     max |-> IF ValuesOf(rows) = {} THEN NULL ELSE Max(ValuesOf(rows))]

WriteTask(t) ==
    /\ status = "write" /\ ~\E f \in written: f.task = t
    /\ \E c \in CutsOf(window.tasks[t]):
          LET Part(p) == SelectSeq(Merged(window.tasks[t]), LAMBDA r: Bucket(r, c) = p)
          IN  /\ written' = written \cup
                     {[id |-> task_id, task |-> t, part |-> p, rows |-> Part(p)]: p \in Parts}
              /\ runtime_stats' = runtime_stats \cup
                     {RangeStats(task_id, p, Part(p)): p \in Parts}
    /\ task_id' = task_id + 1
    /\ UNCHANGED <<window, cuts, remapped, computed, window_state, prefixes, output, status, losses>>

\* The executor of a finished task is lost while its stage runs: reset_task_info frees the
\* task's slots and drops what it reported, and a task with a new id runs it again.
LoseWriteTask(t) ==
    /\ status = "write" /\ losses > 0 /\ \E f \in written: f.task = t
    /\ losses' = losses - 1
    /\ written' = {f \in written: f.task # t}
    /\ runtime_stats' = {r \in runtime_stats: \A f \in written: f.task = t => f.id # r.id}
    /\ UNCHANGED <<window, task_id, cuts, remapped, computed, window_state, prefixes, output, status>>

-----------------------------------------------------------------------------
(* Routing: update_stage_progress on the write stage's completion *)

\* halo_from_bound; the prefix rule's filter has no halo.
HaloLo == IF window.kind = "halo" THEN window.preceding ELSE 0
HaloHi == IF window.kind = "halo" THEN window.following ELSE 0

\* Mutant: files are routed by the cuts alone.
ReachRaw(r, c) ==
    (CountIf(c, LAMBDA b: b <= r.min) + 1)..(CountIf(c, LAMBDA b: b <= r.max) + 1)

\* The partitions whose widened ranges a file's values reach.
Reach(r, c) ==
    (CountIf(c, LAMBDA b: b <= r.min - HaloHi) + 1)..(CountIf(c, LAMBDA b: b <= r.max + HaloLo) + 1)

NullPart(c) == IF window.nulls_first THEN 1 ELSE Len(c) + 1

\* The partitions a file is pushed to, once for each push.
Deliveries(f, c) ==
    LET r == CHOOSE s \in runtime_stats: s.id = f.id /\ s.part = f.part
        nulls == IF r.nulls > 0 THEN <<NullPart(c)>> ELSE <<>>
    IN  IF r.min = NULL THEN nulls
        ELSE SelectSeq(nulls, LAMBDA p: p \notin Reach(r, c)) \o SetToSeq(Reach(r, c))

HasStats(f) == \E s \in runtime_stats: s.id = f.id /\ s.part = f.part

cut_partitions(c) ==
    [k \in 1..Len(c) + 1 |->
        FlattenSeq(SetToSeq({[i \in 1..CountIf(Deliveries(f, c), LAMBDA p: p = k) |-> f]:
                                f \in written}))]

\* All rows NULL, or none at all, is the one case without cuts.  A file with rows that
\* nothing was reported for is refused.
FinishWriteStage ==
    /\ status = "write" /\ \A t \in Tasks: \E f \in written: f.task = t
    /\ IF \E f \in written: f.rows # <<>> /\ ~HasStats(f)
       THEN status' = "refused" /\ UNCHANGED <<cuts, remapped>>
       ELSE \E c \in CutsOf(Rows):
               /\ cuts' = c /\ remapped' = cut_partitions(c) /\ status' = "window"
    /\ UNCHANGED <<window, written, runtime_stats, task_id, computed, window_state,
                   prefixes, output, losses>>

-----------------------------------------------------------------------------
(* Reading: the index of a file, and the range filter above the reader *)

Partitions == 1..Len(cuts) + 1
LastPart == Len(cuts) + 1

\* The widened bounds of partition k, as a pair of sequences that are empty where unbounded.
Lo(k, halo) == IF k = 1 THEN <<>> ELSE <<cuts[k - 1] - halo>>
Hi(k, halo) == IF k = LastPart THEN <<>> ELSE <<cuts[k] + halo>>

Chunk(rows, i) ==
    SubSeq(rows, (window.batch_size * (i - 1)) + 1, Min({window.batch_size * i, Len(rows)}))

Batches(rows) ==
    [i \in 1..(Len(rows) + window.batch_size - 1) \div window.batch_size |-> Chunk(rows, i)]

\* The batches of a file that may hold a row of the range: from the last that starts at or
\* before it to the last that starts within it; the whole file when a first key is NULL.
select_record_batches(batches, lo, hi) ==
    LET first == [i \in DOMAIN batches |-> Head(batches[i])]
        from == IF lo = <<>> THEN {} ELSE {i \in DOMAIN first: first[i] <= lo[1]}
        start == IF from = {} THEN 1 ELSE Max(from)
        last == IF hi = <<>> THEN Len(first) ELSE CountIf(first, LAMBDA key: key < hi[1])
    IN  IF NULL \in ToSet(first) THEN batches ELSE SubSeq(batches, start, last)

\* RangeFilterExec: the unbounded end that the order puts NULLs at takes them.
InRange(key, k, halo_lo, halo_hi) ==
    IF key = NULL
    THEN IF window.nulls_first THEN Lo(k, halo_lo) = <<>> ELSE Hi(k, halo_hi) = <<>>
    ELSE /\ Lo(k, halo_lo) = <<>> \/ key >= Lo(k, halo_lo)[1]
         /\ Hi(k, halo_hi) = <<>> \/ key < Hi(k, halo_hi)[1]

Read(f, k) ==
    FlattenSeq(select_record_batches(Batches(f.rows), Lo(k, HaloLo), Hi(k, HaloHi)))

ReadPartition(k) ==
    SelectSeq(Merged(FlattenSeq([i \in DOMAIN remapped[k] |-> Read(remapped[k][i], k)])),
              LAMBDA key: InRange(key, k, HaloLo, HaloHi))

-----------------------------------------------------------------------------
(* The window stage, and the stage that applies the merged states *)

\* The peers a RANGE frame of a row covers, within rows s.
InFrame(key, s) ==
    CountIf(s, LAMBDA r: IF key = NULL \/ r = NULL THEN r = key
                         ELSE r >= key - window.preceding /\ r <= key + window.following)

\* BoundedWindowAggExec over the wide rows, then the narrow filter.
Narrowed(k, wide) ==
    LET own == SelectSeq(wide, LAMBDA key: InRange(key, k, 0, 0))
    IN  [i \in DOMAIN own |-> [key |-> own[i], value |-> InFrame(own[i], wide)]]

WindowTask(k) ==
    /\ status = "window" /\ k \notin DOMAIN computed
    /\ computed' = [j \in DOMAIN computed \cup {k} |->
                       IF j = k THEN ReadPartition(k) ELSE computed[j]]
    /\ window_state' = IF window.kind = "halo" THEN window_state
                       ELSE window_state \cup {[id |-> task_id, part |-> k, state |-> Len(ReadPartition(k))]}
    /\ task_id' = task_id + 1
    /\ UNCHANGED <<window, written, runtime_stats, cuts, remapped, prefixes, output, status, losses>>

LoseWindowTask(k) ==
    /\ status = "window" /\ losses > 0 /\ k \in DOMAIN computed
    /\ losses' = losses - 1
    /\ computed' = [j \in DOMAIN computed \ {k} |-> computed[j]]
    /\ window_state' = {s \in window_state: s.part # k}
    /\ UNCHANGED <<window, written, runtime_stats, task_id, cuts, remapped,
                   prefixes, output, status>>

\* What the rows before partition k amount to: its predecessor's carry and state.
prefix_merge_window_state ==
    LET Prefix[k \in Partitions] ==
            IF k = 1 THEN 0
            ELSE Prefix[k - 1] + MapThenSumSet(LAMBDA s: s.state, {s \in window_state: s.part = k - 1})
    IN  [k \in Partitions |-> Prefix[k]]

\* Two states for one partition are refused rather than counted twice.
FinishWindowStage ==
    /\ status = "window" /\ DOMAIN computed = Partitions
    /\ IF window.kind = "halo"
       THEN status' = "done" /\ prefixes' = prefixes
            /\ output' = [k \in Partitions |-> Narrowed(k, computed[k])]
       ELSE /\ output' = output
            /\ IF \E s, u \in window_state: s # u /\ s.part = u.part
               THEN status' = "refused" /\ prefixes' = prefixes
               ELSE status' = "apply" /\ prefixes' = prefix_merge_window_state
    /\ UNCHANGED <<window, written, runtime_stats, task_id, cuts, remapped, computed,
                   window_state, losses>>

\* AggregateApply replays a partition's rows through the accumulator, one by one.
ApplyTask(k) ==
    /\ status = "apply" /\ k \notin DOMAIN output
    /\ output' = [j \in DOMAIN output \cup {k} |->
           IF j = k THEN [i \in DOMAIN computed[k] |-> [key |-> computed[k][i], value |-> prefixes[k] + i]]
           ELSE output[j]]
    /\ status' = IF DOMAIN output \cup {k} = Partitions THEN "done" ELSE "apply"
    /\ UNCHANGED <<window, written, runtime_stats, task_id, cuts, remapped, computed,
                   window_state, prefixes, losses>>

Next ==
    \/ \E t \in Tasks: WriteTask(t)
    \/ \E t \in Tasks: LoseWriteTask(t)
    \/ FinishWriteStage
    \/ \E k \in Parts: k <= LastPart /\ WindowTask(k)
    \/ \E k \in Parts: LoseWindowTask(k)
    \/ FinishWindowStage
    \/ \E k \in Parts: k <= LastPart /\ ApplyTask(k)

Spec == Init /\ [][Next]_vars

-----------------------------------------------------------------------------
(* Properties *)

Answer == FlattenSeq([k \in Partitions |-> output[k]])

\* Every row of the table is in exactly one partition, and the partitions in order are in the
\* order of the column: no file is missed, read twice or cut short by routing, index or filter.
RowsOnce ==
    status = "done" => [i \in DOMAIN Answer |-> Answer[i].key] = Merged(Rows)

\* No partition is given the same file twice, where its rows would count twice.
FileOnce ==
    \A k \in DOMAIN remapped: IsInjective(remapped[k])

\* The scheduler never refuses the reports of a stage whose tasks all succeeded, whatever was
\* lost and run again on the way.
NeverRefused == status # "refused"

\* The window's values are the ones a single partition would compute: rows in the frame, or
\* for a ROWS frame from the start some numbering of the rows in order.
FrameCorrect ==
    status = "done" =>
        \A i \in DOMAIN Answer: LET x == Answer[i].key IN
            IF window.kind = "halo" THEN Answer[i].value = InFrame(x, Rows)
            ELSE IF window.units = "RANGE"
            THEN Answer[i].value = CountIf(Rows, LAMBDA r: ~Before(x, r))
            ELSE Answer[i].value = i
===============================================================================
