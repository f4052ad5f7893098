------------------------------ MODULE SortKeySketch ------------------------------
(***************************************************************************)
(* The sort-key sketches of the range shuffle: the order-preserving key     *)
(* codec (sort_key.rs), the KLL quantile sketch (kll.rs) and the NULL-aware *)
(* sketch over both, from which the scheduler takes the cuts that split a   *)
(* column into partitions.                                                  *)
(*                                                                          *)
(* A column value is the bit pattern of its native type, Width bits wide    *)
(* (64 in the code).  The random generator of a compaction is a choice of   *)
(* the two coin values, so an operation on a sketch returns the set of      *)
(* sketches it may leave.  `slack` is a history field: the sum of the       *)
(* weights compacted so far, which bounds what the coins can have cost; and *)
(* `seen` is the history of what each sketch observed, as a bag.            *)
(***************************************************************************)
EXTENDS Integers, Sequences, SequencesExt, FiniteSetsExt

CONSTANTS Width,            \* bits of a native value and of its key
          Columns,          \* [type, descending, nulls_first, values, rows]
          Sketches,         \* the executor tasks' sketches
          k,                \* KLL_K
          MIN_LEVEL_WIDTH,
          MaxBatch,         \* rows of a batch
          PartitionCounts   \* the partition counts cuts are asked for

VARIABLES column, sketch, seen

vars == <<column, sketch, seen>>

\* Neither is a bit pattern.
NULL == -1
None == -2

-----------------------------------------------------------------------------
(* SortableNative and SortKeyCodec *)

Sign == 2^(Width - 1)
Negative(bits) == bits >= Sign
FlipSign(bits) == (bits + Sign) % 2^Width
Inverted(bits) == (2^Width - 1) - bits

to_key(type, bits) ==
    CASE type = "signed" -> FlipSign(bits)
      [] type = "unsigned" -> bits
      [] type = "float" -> IF Negative(bits) THEN Inverted(bits) ELSE FlipSign(bits)

from_key(type, key) ==
    CASE type = "signed" -> FlipSign(key)
      [] type = "unsigned" -> key
      [] type = "float" -> IF Negative(key) THEN FlipSign(key) ELSE Inverted(key)

Orient(key) == IF column.descending THEN Inverted(key) ELSE key

encode(array) ==
    LET values == SelectSeq(array, LAMBDA v: v # NULL)
    IN  [i \in DOMAIN values |-> Orient(to_key(column.type, values[i]))]

decode(key) == from_key(column.type, Orient(key))

-----------------------------------------------------------------------------
(* KllSketch; level 1 here is level 0 of the code *)

Ascending(s) == SortSeq(s, LAMBDA a, b: a < b)
is_sorted(s) == \A i \in 1..Len(s) - 1: s[i] <= s[i + 1]
Weight(h) == 2^(h - 1)

level_capacity(num_levels, h) ==
    LET depth == num_levels - h
        raw == ((((2 * k) * 2^depth) \div 3^depth) + 1) \div 2
    IN  IF raw > MIN_LEVEL_WIDTH THEN raw ELSE MIN_LEVEL_WIDTH

Capacity(s, h) == level_capacity(Len(s.levels), h)

NewSketch == [levels |-> <<<<>>>>, sorted |-> <<TRUE>>, min |-> None, max |-> None,
              null_count |-> 0, slack |-> 0]

RECURSIVE merge_sorted(_, _)
merge_sorted(a, b) ==
    IF a = <<>> THEN b
    ELSE IF b = <<>> THEN a
    ELSE IF Head(a) <= Head(b) THEN <<Head(a)>> \o merge_sorted(Tail(a), b)
    ELSE <<Head(b)>> \o merge_sorted(a, Tail(b))

\* A level grown on top of the stack is empty, thus sorted.
Grown(s, h) ==
    IF h = Len(s.levels)
    THEN [s EXCEPT !.levels = Append(@, <<>>), !.sorted = Append(@, TRUE)] ELSE s

compact_level(s, h, coin) ==
    LET buf == IF s.sorted[h] THEN s.levels[h] ELSE Ascending(s.levels[h])
        odd == Len(buf) % 2 = 1
        even == IF odd THEN Tail(buf) ELSE buf
        promoted == [i \in 1..Len(even) \div 2 |-> even[(2 * i - 1) + coin]]
        t == Grown(s, h)
    IN  [t EXCEPT !.levels[h] = IF odd THEN <<buf[1]>> ELSE <<>>,
                  !.sorted[h] = TRUE,
                  !.levels[h + 1] = IF t.sorted[h + 1] THEN merge_sorted(@, promoted)
                                    ELSE @ \o promoted,
                  !.slack = @ + Weight(h)]

RECURSIVE compact_all(_)
compact_all(s) ==
    LET full == {h \in DOMAIN s.levels: Len(s.levels[h]) >= Capacity(s, h)}
    IN  IF full = {} THEN {s}
        ELSE UNION {compact_all(compact_level(s, Min(full), coin)): coin \in 0..1}

\* Raises max and lowers min to cover the keys of a batch.
Cover(s, least, greatest) ==
    [s EXCEPT !.min = IF @ = None \/ least < @ THEN least ELSE @,
              !.max = IF @ = None \/ greatest > @ THEN greatest ELSE @]

insert(s, x) ==
    compact_all([Cover(s, x, x) EXCEPT !.levels[1] = Append(@, x), !.sorted[1] = FALSE])

\* Fills level 0 chunk by chunk, by merging sorted input or by appending.
RECURSIVE Chunks(_, _, _)
Chunks(s, xs, ordered) ==
    IF xs = <<>> THEN {s}
    ELSE LET cap == Capacity(s, 1)
             room == cap - Len(s.levels[1])
             taken == IF Len(xs) < room THEN Len(xs) ELSE room
             chunk == SubSeq(xs, 1, taken)
             t == IF ordered THEN [s EXCEPT !.levels[1] = merge_sorted(@, chunk)]
                  ELSE [s EXCEPT !.levels[1] = @ \o chunk, !.sorted[1] = FALSE]
         IN  UNION {Chunks(u, SubSeq(xs, taken + 1, Len(xs)), ordered):
                    u \in IF Len(t.levels[1]) >= cap THEN compact_all(t) ELSE {t}}

absorb_slice(s, xs) ==
    IF xs = <<>> THEN {s}
    ELSE Chunks(Cover(s, Min(ToSet(xs)), Max(ToSet(xs))), xs, FALSE)

absorb_sorted_slice(s, xs) ==
    IF xs = <<>> THEN {s}
    ELSE IF ~is_sorted(xs) THEN absorb_slice(s, xs)
    ELSE LET t == Cover(s, xs[1], xs[Len(xs)])
         IN  Chunks([t EXCEPT !.levels[1] = Ascending(@), !.sorted[1] = TRUE], xs, TRUE)

\* Mutant: the levels the other sketch has above this one's are dropped.
MergeOwnLevels(s, other) ==
    LET t == IF other.min = None THEN s ELSE Cover(s, other.min, other.max)
        Level(h) == IF h \in DOMAIN other.levels THEN other.levels[h] ELSE <<>>
    IN  compact_all([t EXCEPT
            !.levels = [h \in DOMAIN @ |-> @[h] \o Level(h)],
            !.sorted = [h \in DOMAIN @ |-> @[h] /\ Level(h) = <<>>],
            !.null_count = @ + other.null_count, !.slack = @ + other.slack])

merge(s, other) ==
    LET n == IF Len(other.levels) > Len(s.levels) THEN Len(other.levels) ELSE Len(s.levels)
        Level(t, h) == IF h \in DOMAIN t.levels THEN t.levels[h] ELSE <<>>
        t == IF other.min = None THEN s ELSE Cover(s, other.min, other.max)
    IN  compact_all([t EXCEPT
            !.levels = [h \in 1..n |-> Level(s, h) \o Level(other, h)],
            !.sorted = [h \in 1..n |-> /\ Level(other, h) = <<>>
                                       /\ h \in DOMAIN s.sorted => s.sorted[h]],
            !.null_count = @ + other.null_count, !.slack = @ + other.slack])

\* What from_parts accepts of a serialized stack.
Acceptable(s) == \A h \in DOMAIN s.levels: Len(s.levels[h]) <= Capacity(s, h)

\* to_proto and try_from_proto: values travel decoded, and are sorted again as keys.
try_from_proto(s) ==
    LET wire == [h \in DOMAIN s.levels |->
                    LET sorted == Ascending(s.levels[h])
                    IN  [i \in DOMAIN sorted |-> decode(sorted[i])]]
        Again(v) == IF v = None THEN None ELSE encode(<<decode(v)>>)[1]
    IN  [s EXCEPT !.levels = [h \in DOMAIN wire |-> Ascending(encode(wire[h]))],
                  !.sorted = [h \in DOMAIN wire |-> TRUE],
                  !.min = Again(@), !.max = Again(@)]

KeyCount(s) == MapThenSumSet(LAMBDA h: Weight(h) * Len(s.levels[h]), DOMAIN s.levels)
count(s) == KeyCount(s) + s.null_count

rank(s, x) ==
    MapThenSumSet(LAMBDA h: Weight(h) * Len(SelectSeq(s.levels[h], LAMBDA y: y < x)),
                  DOMAIN s.levels)

-----------------------------------------------------------------------------
(* at_ranks: every rank from one sweep over the retained items *)

Pairs(s) ==
    SortSeq(FlattenSeq([h \in DOMAIN s.levels |->
                [i \in DOMAIN s.levels[h] |-> <<s.levels[h][i], Weight(h)>>]]),
            LAMBDA p, q: p[1] < q[1])

RECURSIVE Consume(_, _, _)
Consume(pairs, r, at) ==
    IF at.cumulative >= r THEN at
    ELSE Consume(pairs, r, [consumed |-> at.consumed + 1,
                            cumulative |-> at.cumulative + pairs[at.consumed + 1][2],
                            current |-> pairs[at.consumed + 1][1]])

RECURSIVE Sweep(_, _, _, _, _, _)
Sweep(s, pairs, ranks, slots, at, answers) ==
    IF slots = <<>> THEN answers
    ELSE LET r == ranks[Head(slots)]
             next == IF r = 0 \/ r >= KeyCount(s) THEN at ELSE Consume(pairs, r, at)
             answer == IF r = 0 THEN s.min ELSE IF r >= KeyCount(s) THEN s.max ELSE next.current
         IN  Sweep(s, pairs, ranks, Tail(slots), next, [answers EXCEPT ![Head(slots)] = answer])

at_ranks(s, ranks) ==
    LET none == [i \in DOMAIN ranks |-> None]
        slots == SortSeq([i \in DOMAIN ranks |-> i], LAMBDA a, b: ranks[a] < ranks[b])
    IN  IF KeyCount(s) = 0 THEN none
        ELSE Sweep(s, Pairs(s), ranks, slots,
                   [consumed |-> 0, cumulative |-> 0, current |-> None], none)

\* The rank among the values that the population rank r names, if it is not a NULL's.
value_rank(s, r) ==
    IF s.null_count = 0 THEN r
    ELSE IF KeyCount(s) = 0 THEN None
    ELSE IF column.nulls_first
         THEN IF r > s.null_count THEN r - s.null_count ELSE None
         ELSE IF r <= KeyCount(s) THEN r ELSE None

\* quantile(q), for q the fraction r of count(s).
quantile(s, r) ==
    IF count(s) = 0 THEN None
    ELSE IF value_rank(s, r) = None THEN NULL
    ELSE decode(at_ranks(s, <<value_rank(s, r)>>)[1])

\* The rank of cut i (from 0) of p partitions.
CutRank(s, i, p) ==
    LET values == KeyCount(s)
        total_rank == ((i + 1) * count(s)) \div p
        outgrow == s.null_count * p > count(s)
        less == IF total_rank > s.null_count THEN total_rank - s.null_count ELSE 0
        up == IF outgrow THEN ((i * values) \div (p - 1)) + 1 ELSE less
        down == IF outgrow THEN (((i + 1) * values) + (p - 2)) \div (p - 1) ELSE total_rank
        above == (p - 2) - i
    IN  IF column.nulls_first
        THEN Min({Max({up, i + 1}), values})
        ELSE Max({Min({down, IF values > above THEN values - above ELSE 0}), 1})

cuts(s, p) ==
    IF p < 2 \/ KeyCount(s) = 0 THEN <<>>
    ELSE LET keys == at_ranks(s, [i \in 1..p - 1 |-> CutRank(s, i - 1, p)])
         IN  [i \in DOMAIN keys |-> decode(keys[i])]

-----------------------------------------------------------------------------
(* Tasks sketch their batches; sketches are shipped and merged *)

Rows == MapThenSumSet(LAMBDA t: Len(seen[t]), Sketches)

Init ==
    /\ column \in Columns
    /\ sketch = [t \in Sketches |-> NewSketch]
    /\ seen = [t \in Sketches |-> <<>>]

Ingest(t, array) ==
    /\ Rows + Len(array) <= column.rows
    /\ \E s \in absorb_sorted_slice(sketch[t], encode(array)):
          sketch' = [sketch EXCEPT ![t] =
              [s EXCEPT !.null_count = @ + Len(SelectSeq(array, LAMBDA v: v = NULL))]]
    /\ seen' = [seen EXCEPT ![t] = Ascending(@ \o array)]
    /\ UNCHANGED column

\* Row-by-row ingestion of a single value.
Insert(t, v) ==
    /\ Rows < column.rows
    /\ \E s \in insert(sketch[t], encode(<<v>>)[1]): sketch' = [sketch EXCEPT ![t] = s]
    /\ seen' = [seen EXCEPT ![t] = Ascending(Append(@, v))]
    /\ UNCHANGED column

\* The scheduler folds the report of u into t's.
Merge(t, u) ==
    /\ t # u /\ seen[u] # <<>>
    /\ Acceptable(sketch[u])
    /\ \E s \in merge(sketch[t], try_from_proto(sketch[u])):
          sketch' = [sketch EXCEPT ![t] = s, ![u] = NewSketch]
    /\ seen' = [seen EXCEPT ![t] = Ascending(@ \o seen[u]), ![u] = <<>>]
    /\ UNCHANGED column

Batches == UNION {[1..n -> column.values \cup {NULL}]: n \in 1..MaxBatch}

Next ==
    \/ \E t \in Sketches, array \in Batches: Ingest(t, array)
    \/ \E t \in Sketches, v \in column.values: Insert(t, v)
    \/ \E t, u \in Sketches: Merge(t, u)

Spec == Init /\ [][Next]_vars

-----------------------------------------------------------------------------
(* Properties *)

\* The position of a value in its type's total order: two's complement, plain, or
\* f64::total_cmp's sign and magnitude.
Position(v) ==
    LET native == CASE column.type = "unsigned" -> v
                    [] column.type = "signed" -> IF v >= Sign THEN v - 2^Width ELSE v
                    [] column.type = "float" -> IF v >= Sign THEN (Sign - v) - 1 ELSE v
    IN  IF column.descending THEN -native ELSE native

Values(t) == SelectSeq(seen[t], LAMBDA v: v # NULL)
Below(t, v) == Len(SelectSeq(Values(t), LAMBDA w: Position(w) < Position(v)))
InOrder(t) == SortSeq(Values(t), LAMBDA a, b: Position(a) < Position(b))

\* The whole population in sort order, the NULL run at its end.
Population(t) ==
    LET nulls == SelectSeq(seen[t], LAMBDA v: v = NULL)
    IN  IF column.nulls_first THEN nulls \o InOrder(t) ELSE InOrder(t) \o nulls

\* Every level is below its capacity whenever an operation returns, its keys are keys of
\* values that were seen, and a sorted flag tells the truth about its level.
TypeOK ==
    \A t \in Sketches: LET s == sketch[t] IN
        /\ Len(s.sorted) = Len(s.levels)
        /\ \A h \in DOMAIN s.levels:
              /\ Len(s.levels[h]) < Capacity(s, h)
              /\ s.sorted[h] => is_sorted(s.levels[h])
              /\ \A i \in DOMAIN s.levels[h]: decode(s.levels[h][i]) \in ToSet(Values(t))

\* The count is exact whatever was compacted, merged or shipped: no weight is lost.
CountExact ==
    \A t \in Sketches: /\ count(sketch[t]) = Len(seen[t])
                       /\ KeyCount(sketch[t]) = Len(Values(t))

\* The extremes are the least and greatest values seen, in the order of the column's
\* type and direction: no compaction, merge or encoding moves them.
ExtremesExact ==
    \A t \in Sketches: LET s == sketch[t] IN
        IF Values(t) = <<>> THEN s.min = None /\ s.max = None
        ELSE /\ Position(decode(s.min)) = Position(InOrder(t)[1])
             /\ Position(decode(s.max)) = Position(InOrder(t)[Len(Values(t))])

\* A rank is off by at most the weights compacted on the way, each compaction of level h
\* moving it by at most 2^h; a sketch that never compacted answers exactly.
RankBounded ==
    \A t \in Sketches, v \in column.values:
        LET off == rank(sketch[t], encode(<<v>>)[1]) - Below(t, v)
        IN  -sketch[t].slack <= off /\ off <= sketch[t].slack

\* One sweep answers any ranks, in any order, as each would be answered alone: the least
\* retained item whose cumulative weight reaches it, or a tracked extreme at either end.
RanksAgree ==
    \A t \in Sketches: LET s == sketch[t]
                           Reached(x) == rank(s, x) + MapThenSumSet(
                               LAMBDA h: Weight(h) * Len(SelectSeq(s.levels[h], LAMBDA y: y = x)),
                               DOMAIN s.levels)
                           Alone(r) == IF r = 0 THEN s.min
                                       ELSE IF r >= KeyCount(s) THEN s.max
                                       ELSE Min({x \in UNION {ToSet(s.levels[h]): h \in DOMAIN s.levels}:
                                                   Reached(x) >= r})
        IN  KeyCount(s) > 0 =>
                \A a \in 0..KeyCount(s): \A b \in 0..a: at_ranks(s, <<a, b>>) = <<Alone(a), Alone(b)>>

\* Cuts are as many as asked, never NULL, values that were seen, and in sort order; a sketch
\* that never compacted, of distinct values enough for the partitions, gives distinct cuts,
\* so that no partition is squeezed to nothing between two of them.
CutsInOrder ==
    \A t \in Sketches, p \in PartitionCounts: LET c == cuts(sketch[t], p) IN
        KeyCount(sketch[t]) > 0 =>
            /\ Len(c) = p - 1
            /\ ToSet(c) \subseteq ToSet(Values(t))
            /\ \A i \in 1..Len(c) - 1: Position(c[i]) <= Position(c[i + 1])
            /\ (sketch[t].slack = 0 /\ IsInjective(Values(t)) /\ Len(Values(t)) >= p) =>
                   IsInjective(c)

\* Quantiles of a sketch that never compacted are the population's, the NULL run included.
QuantilesExact ==
    \A t \in Sketches: LET n == Len(seen[t]) IN
        sketch[t].slack = 0 /\ n > 0 =>
            \A r \in 0..n: quantile(sketch[t], r) = Population(t)[Max({r, 1})]
===============================================================================
