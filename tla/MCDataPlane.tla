----------------------------- MODULE MCDataPlane -----------------------------
(***************************************************************************)
(* The adaptive graph and the operators that move rows, side by side: a    *)
(* behaviour is one of the component that `part` names, and the variables  *)
(* of the others are not used.                                             *)
(***************************************************************************)
EXTENDS AdaptivePlanner

CONSTANTS Components,    \* the components to explore
          x1, x2    \* executors
CONSTANTS Executors, Scenarios, MaxBatch, MaxTaskFailures, MaxStageFailures  \* AdaptiveGraph
CONSTANTS Width, Shuffles, batch_size, memory_limit                      \* SortShuffle
CONSTANTS Reads, Addresses, retries                                      \* ShuffleFetch
CONSTANTS Columns, Sketches, KLL_K, MIN_LEVEL_WIDTH, PartitionCounts     \* SortKeySketch
CONSTANTS Repartitions, CHANNEL_CAPACITY                                 \* RangeRepartition
CONSTANTS Windows                                                        \* RangeWindow

VARIABLES part, channel, faults
VARIABLES query, graph, alive
VARIABLES shuffle, current, input, coordinator, answer, data, index, spill, dirs
VARIABLES read, fetch, waiting, local, consumer, delivered, failures
VARIABLES column, sketch, seen
VARIABLES op, cuts_cell, scatter, cursor, out, end
VARIABLES window, written, runtime_stats, task_id, cuts, remapped, computed,
          window_state, prefixes, output, status, losses

Query == INSTANCE AdaptiveGraph
Sort == INSTANCE SortShuffle
Fetch == INSTANCE ShuffleFetch
Sketch == INSTANCE SortKeySketch WITH k <- KLL_K
Repartition == INSTANCE RangeRepartition
Window == INSTANCE RangeWindow

query_vars == <<query, graph, alive>>
sort_vars == <<shuffle, current, input, coordinator, answer, data, index, spill, dirs>>
fetch_vars == <<read, fetch, waiting, local, consumer, delivered, failures>>
sketch_vars == <<column, sketch, seen>>
repartition_vars == <<op, cuts_cell, scatter, cursor, out, end>>
window_vars == <<window, written, runtime_stats, task_id, cuts, remapped, computed,
               window_state, prefixes, output, status, losses>>
mc_vars == <<part, query_vars, sort_vars, fetch_vars, sketch_vars, repartition_vars, window_vars,
             channel, faults>>

NoQuery ==
    query = 0 /\ graph = 0 /\ alive = 0
NoSort ==
    shuffle = 0 /\ current = 0 /\ input = 0 /\ coordinator = 0 /\ answer = 0 /\ data = 0 /\
    index = 0 /\ spill = 0 /\ dirs = 0
NoFetch ==
    read = 0 /\ fetch = 0 /\ waiting = 0 /\ local = 0 /\ consumer = 0 /\ delivered = 0 /\
    failures = 0
NoSketch ==
    column = 0 /\ sketch = 0 /\ seen = 0
NoRepartition ==
    op = 0 /\ cuts_cell = 0 /\ scatter = 0 /\ cursor = 0 /\ out = 0 /\ end = 0
NoWindow ==
    window = 0 /\ written = 0 /\ runtime_stats = 0 /\ task_id = 0 /\ cuts = 0 /\
    remapped = 0 /\ computed = 0 /\ window_state = 0 /\ prefixes = 0 /\ output = 0 /\
    status = 0 /\ losses = 0

MCInit ==
    /\ part \in Components
    /\ \/ part = "query" /\ Query!Init
          /\ NoSort /\ NoFetch /\ NoSketch /\ NoRepartition /\ NoWindow /\ channel = 0
       \/ part = "sort" /\ Sort!Init
          /\ NoQuery /\ NoFetch /\ NoSketch /\ NoRepartition /\ NoWindow /\ channel = 0
       \/ part = "fetch" /\ Fetch!Init
          /\ NoQuery /\ NoSort /\ NoSketch /\ NoRepartition /\ NoWindow /\ faults = 0
       \/ part = "sketch" /\ Sketch!Init
          /\ NoQuery /\ NoSort /\ NoFetch /\ NoRepartition /\ NoWindow /\ channel = 0 /\ faults = 0
       \/ part = "repartition" /\ Repartition!Init
          /\ NoQuery /\ NoSort /\ NoFetch /\ NoSketch /\ NoWindow
       \/ part = "window" /\ Window!Init
          /\ NoQuery /\ NoSort /\ NoFetch /\ NoSketch /\ NoRepartition /\ channel = 0 /\ faults = 0

MCNext ==
    \/ part = "query" /\ Query!Next
       /\ UNCHANGED <<part, sort_vars, fetch_vars, sketch_vars, repartition_vars, window_vars,
                      channel>>
    \/ part = "sort" /\ Sort!Next
       /\ UNCHANGED <<part, query_vars, fetch_vars, sketch_vars, repartition_vars,
                      window_vars, channel>>
    \/ part = "fetch" /\ Fetch!Next
       /\ UNCHANGED <<part, query_vars, sort_vars, sketch_vars, repartition_vars, window_vars,
                      faults>>
    \/ part = "sketch" /\ Sketch!Next
       /\ UNCHANGED <<part, query_vars, sort_vars, fetch_vars, repartition_vars, window_vars,
                      channel, faults>>
    \/ part = "repartition" /\ Repartition!Next
       /\ UNCHANGED <<part, query_vars, sort_vars, fetch_vars, sketch_vars, window_vars>>
    \/ part = "window" /\ Window!Next
       /\ UNCHANGED <<part, query_vars, sort_vars, fetch_vars, sketch_vars, repartition_vars,
                      channel, faults>>

MCSpec == MCInit /\ [][MCNext]_mc_vars

-----------------------------------------------------------------------------
(* Queries of one and two joins, over tables that are empty, small and large, with exact,   *)
(* inexact and missing statistics.                                                          *)

MCKeys == {0, 1}
Symmetry == Permutations(Executors)

\* Contents of a table: nothing, one row, three rows with a skew.
Rows0 == [k \in MCKeys |-> 0]
Rows1 == [k \in MCKeys |-> 1 - k]
Rows3 == [k \in MCKeys |-> 1 + k]
Contents == {Rows0, Rows1, Rows3}

Bytes(rows) == rows[0] + rows[1]
Estimate(rows) == Inexact(Bytes(rows) + 2)

\* What is known of the two sides of a join.
StatsOf(c) == {<<Exact(Bytes(c[1])), Exact(Bytes(c[2]))>>, <<Estimate(c[1]), Absent>>,
               <<Absent, Estimate(c[2])>>, <<Absent, Absent>>}

Calm(plan, tables) == [plan |-> plan, tables |-> tables, executors |-> {x1}, faults |-> {}]

\* One join of two scans: adaptive, or left to DataFusion, which shuffles the
\* empty side of a full join again and again while the other side runs.
OneJoin ==
    LET join(jt, s, c) ==
            {Dynamic(jt, "Initial", FALSE, Scan("l", s[1]), Scan("r", s[2]))} \union
            IF jt = "Full" /\ \E i \in 1..2 : Bytes(c[i]) = 0 THEN {}
            ELSE {Join(jt, "Auto", FALSE, Scan("l", s[1]), Scan("r", s[2]))}
        plans(c) == UNION {join(jt, s, c) : jt \in JoinTypes, s \in StatsOf(c)}
    IN  UNION {{Calm(plan, [l |-> c[1], r |-> c[2]]) : plan \in plans(c)} :
                c \in Contents \X Contents}

\* A join over a join, with a group-by above or below.
TwoJoins ==
    LET scan(t) == Scan(t, Absent)
        lower(jt) == Dynamic(jt, "Initial", FALSE, scan("l"), scan("r"))
        auto(jt)  == Join(jt, "Auto", FALSE, scan("l"), scan("r"))
        plans(jt1, jt2) ==
            {Dynamic(jt2, "Initial", FALSE, lower(jt1), scan("m")),
             Dynamic(jt2, "Initial", FALSE, scan("m"), Aggregate(lower(jt1))),
             Aggregate(Join(jt2, "Auto", FALSE, auto(jt1), scan("m")))}
    IN  {Calm(plan, [l |-> c, r |-> d, m |-> e]) :
            plan \in UNION {plans(jt1, jt2) : jt1 \in {"Inner", "Left", "RightAnti"},
                                                  jt2 \in {"Inner", "Right", "LeftAnti"}},
            c \in {Rows3}, d \in {Rows0, Rows1}, e \in {Rows3}}

\* What may go wrong while two executors run a join.
Faulty ==
    LET plans == {Dynamic("Inner", "Initial", FALSE, Scan("l", Absent), Scan("r", Absent)),
                  Join("Left", "Auto", FALSE, Scan("l", Exact(3)), Scan("r", Absent))}
    IN  {[plan |-> plan, tables |-> [l |-> Rows3, r |-> c], executors |-> Executors,
          faults |-> f] :
            plan \in plans, c \in {Rows0, Rows1},
            f \in {{"retry", "fatal"}, {"loss"}, {"fetch"}}}

MCScenarios == OneJoin \union TwoJoins \union Faulty

-----------------------------------------------------------------------------
(* Sort shuffles of two input partitions, the first of two batches, over hashes chosen so   *)
(* that partitions are hit twice, once and not at all.                                      *)

Row(n, h) == [id |-> n, hash |-> h]

\* Attempt 1 reads input partitions of two batches and of one; attempt 2 another slice.
Slices(h) ==
  << << << <<Row(1, h[1]), Row(2, h[2])>>, <<Row(3, h[3])>> >>, << <<Row(4, h[4])>> >> >>,
     << << <<Row(5, h[2])>> >> >> >>

Shuffle(n, h, f) == [partitions |-> n, slices |-> Slices(h), faults |-> f]

SomeHashes == {<<1, 3, 6, 1>>, <<3, 3, 3, 3>>, <<6, 1, 6, 3>>}

MCShuffles ==
  {Shuffle(n, h, {"pressure"}) : n \in {2, 3}, h \in [1 .. 4 -> {1, 6}]}
    \cup {Shuffle(n, h, {"pressure"}) : n \in {1, 5}, h \in {<<3, 7, 3, 7>>, <<7, 7, 3, 3>>}}
    \cup {Shuffle(n, h, {"pressure", f, "restart"}) :
             n \in {2, 3}, h \in SomeHashes, f \in {"stream", "io"}}
    \cup {Shuffle(2, h, {"pressure", "cancel"}) : h \in SomeHashes}

\* A task that is cancelled and started again.
MCCancelled == {Shuffle(2, h, {"cancel", "restart"}) : h \in SomeHashes}

-----------------------------------------------------------------------------
(* Reads of two blocks of one executor, an oversized one and a small one elsewhere.         *)

Blocks == <<[address |-> "x", size |-> 1], [address |-> "x", size |-> 5],
            [address |-> "y", size |-> 2], [address |-> "y", size |-> 0]>>

Reading(l, r, q, m, a, f, kinds) ==
  [local |-> l, remote |-> r, max_reqs |-> q, max_bytes |-> m, max_blocks_per_addr |-> a,
   failures |-> f, kinds |-> kinds]

MCReads ==
  {Reading(1, Blocks, q, m, a, 0, {}) : q \in {0, 2}, m \in {0, 3}, a \in {1, 2}}
  \cup {Reading(1, SubSeq(Blocks, 1, 3), 2, 2, 1, 1, {"transport"}),
         Reading(2, SubSeq(Blocks, 1, 2), 2, 2, 1, 2, {"transport", "decode"})}

-----------------------------------------------------------------------------
(* Columns of floats with both zeros, of signed and of unsigned integers, with nulls.       *)

MCColumns ==
    {[type |-> "float", descending |-> FALSE, nulls_first |-> FALSE, values |-> {0, 4, 7}, rows |-> 5],
     [type |-> "signed", descending |-> TRUE, nulls_first |-> TRUE, values |-> {1, 3, 4}, rows |-> 5],
     [type |-> "unsigned", descending |-> FALSE, nulls_first |-> TRUE, values |-> {0, 5}, rows |-> 6]}

-----------------------------------------------------------------------------
(* Repartitions of inputs that interleave, that arrive in any order, and that hold too few  *)
(* batches of one range to fill a channel and a cursor.                                     *)

Op(ordered, inputs, outputs, f, closes) ==
    [ordered |-> ordered, inputs |-> inputs, outputs |-> outputs, faults |-> f, closes |-> closes]

MCRepartitions ==
    {Op(FALSE, <<<<<<3, 1>>, <<2>>>>, <<<<2, 3>>, <<2>>>>>>, 2, 1, TRUE),
     Op(FALSE, <<<<<<1>>, <<1>>, <<1>>, <<1>>>>, <<<<2>>, <<2>>, <<2>>, <<2>>>>>>, 2, 0, FALSE),
     Op(TRUE, <<<<<<1, 2>>, <<3>>>>, <<<<2>>, <<3>>>>>>, 2, 1, TRUE),
     Op(TRUE, <<<<<<1>>, <<2, 3>>>>, <<<<1, 2>>, <<3>>>>>>, 3, 1, FALSE)}

\* Nearly disjoint sorted inputs of four batches a range.
MCDisjoint ==
    {Op(TRUE, <<<<<<1>>, <<1>>, <<1>>, <<1>>, <<3>>>>, <<<<2>>, <<2>>, <<2>>, <<2>>>>>>, 2, 0, FALSE)}

-----------------------------------------------------------------------------
(* Windows over ranges.                                                                     *)

\* RangeWindow's NULL.
Null == -1

Over(kind, units, p, f, nf, n, b, tasks, l) ==
    [kind |-> kind, units |-> units, preceding |-> p, following |-> f, nulls_first |-> nf,
     partitions |-> n, batch_size |-> b, tasks |-> tasks, losses |-> l]

\* No task's file holds a key twice in a row across two batches.
MCWindows ==
    {Over("halo", "RANGE", 1, 1, FALSE, 3, 2, <<<<1, 3, 5, Null>>, <<2, 3, Null>>>>, 1),
     Over("halo", "RANGE", 2, 0, FALSE, 2, 1, <<<<1, 2, 4>>, <<2, 6>>>>, 0),
     Over("halo", "RANGE", 0, 2, FALSE, 3, 2, <<<<Null>>, <<1, 2, 3, 5>>>>, 1),
     Over("halo", "RANGE", 1, 1, FALSE, 2, 2, <<<<Null>>, <<Null, Null>>>>, 0),
     Over("prefix", "ROWS", 0, 0, TRUE, 3, 2, <<<<1, 3, Null>>, <<1, 2, Null>>>>, 1),
     Over("prefix", "ROWS", 0, 0, FALSE, 2, 1, <<<<1, 3, 4>>, <<1, 4, Null>>>>, 1),
     Over("prefix", "RANGE", 0, 0, FALSE, 3, 1, <<<<1, 3>>, <<2, 4>>>>, 1)}

\* A key that fills more than one batch of a file.
MCRepeated == {Over("prefix", "ROWS", 0, 0, FALSE, 2, 1, <<<<1, 2, 2, 3>>>>, 0)}

\* Peers: a running count over equal keys.
MCPeers == {Over("prefix", "RANGE", 0, 0, FALSE, 2, 2, <<<<1, 2>>, <<2, 3>>>>, 0)}

-----------------------------------------------------------------------------
(* Properties. *)

\* The variables hold values of their types.
Types ==
    /\ part = "query" => Query!TypeOK
    /\ part = "sort" => Sort!TypeOK
    /\ part = "sketch" => Sketch!TypeOK

\* A job that succeeds has the rows of its query: none is lost or counted twice, whatever
\* plan the adaptive rules chose along the way, however the stages were superseded, and
\* whatever tasks ran again.
AnswerCorrect == part = "query" => Query!AnswerCorrect

\* Whoever waits has somebody to wait for.  A job that runs has a task to launch or to wait
\* for, of a stage that can be executed and whose end the planner accepts; a coordinator has
\* a write task; the fetch tasks, which take three kinds of permits one after the other, the
\* bounded channel and its reader never all wait for one another, nor do the scatter tasks
\* and the drains; and no report of a stage whose tasks all succeeded is refused.
NeverStuck ==
    /\ part = "query" => Query!NeverStuck /\ Query!RunnableIsActive /\ Query!StagesExecutable
    /\ part = "sort" => Sort!WaitsForSomeone
    /\ part = "fetch" => Fetch!NeverLocked
    /\ part = "repartition" => Repartition!NeverLocked
    /\ part = "window" => Window!NeverRefused

\* Once a sort shuffle's task has reported success, a reader of the file, from the disk or by
\* the block transport, finds in each output partition exactly the rows of the task's inputs
\* whose hash falls in it, each once, however they were split over batches and spills.
ReadsExact == part = "sort" => Sort!ReadsExact /\ Sort!BlockReadsExact

\* The variables hold values of their types, the levels of a sketch below their capacity.
\* The memory pool accounts for every batch a running write task holds, no spill outlives the
\* tasks, whichever of them failed and when, and a block larger than the byte budget of the
\* fetches is in flight alone.
ResourcesBounded ==
    /\ Types
    /\ part = "sort" => Sort!PoolAccounted /\ Sort!SpillsRemoved
    /\ part = "fetch" => Fetch!OversizedAlone

\* A read that ends well has delivered every block, local and remote, exactly once, and
\* transport failures that retries cover never fail it, however they fall on the blocks.
DeliversOnce == part = "fetch" => Fetch!DeliversOnce /\ Fetch!RetriesCover

\* Whatever was compacted, merged or shipped, a sketch's count and extremes are exact, its
\* ranks are off by no more than what was compacted, one sweep answers any ranks as each
\* would be answered alone, and its cuts are in order; without compaction all is exact.
SketchExact ==
    part = "sketch" =>
        /\ Sketch!CountExact /\ Sketch!ExtremesExact /\ Sketch!RankBounded
        /\ Sketch!RanksAgree /\ Sketch!CutsInOrder /\ Sketch!QuantilesExact

\* Every output of a range repartition that ends cleanly holds exactly the input's rows of
\* its range: a scatter task that failed shows as an error, never as a clean end.  The
\* outputs of the ordered one, read one after the other, are globally sorted.
RangesExact ==
    part = "repartition" => Repartition!CleanEndIsComplete /\ Repartition!GloballySorted

\* Every row of the table is in exactly one partition, and the partitions in order are in
\* the order of the column.
RowsOnce == part = "window" => Window!RowsOnce

\* The values of a window over ranges are the ones a single partition would compute, from
\* partitions that hold every row once and read no file twice.
FrameCorrect == RowsOnce /\ (part = "window" => Window!FileOnce /\ Window!FrameCorrect)

\* A reader of the block transport recovers the schema of every partition, an empty one too.
SchemaRecovered == part = "sort" => Sort!SchemaRecovered
==============================================================================
