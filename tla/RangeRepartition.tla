--------------------------- MODULE RangeRepartition ---------------------------
(***************************************************************************)
(* The two range repartition operators, UnorderedRangeRepartitionExec and   *)
(* OrderedRangeRepartitionExec, and the drains of the shuffle writer above  *)
(* them.  One scatter task per input splits every batch by the cuts and     *)
(* sends the pieces to bounded channels: one per output (unordered), or one *)
(* per input and output, each output merging its inputs (ordered).          *)
(*                                                                          *)
(* A row is its routing key; a batch is a sequence of rows.                 *)
(***************************************************************************)
EXTENDS Integers, Sequences, SequencesExt, FiniteSetsExt

CONSTANTS Repartitions,     \* [ordered, inputs: per input its batches, outputs, faults, closes]
          CHANNEL_CAPACITY

VARIABLES op, cuts_cell, scatter, channel, cursor, out, end, faults

vars == <<op, cuts_cell, scatter, channel, cursor, out, end, faults>>

\* Keys are positive: a batch that is no batch, and cuts that are not set.
Error == <<0>>
NoCuts == <<-1>>
Inputs == DOMAIN op.inputs
Outputs == 1..op.outputs
Rows == FlattenSeq(FlattenSeq(op.inputs))

\* The source of a channel: its input, or all of them when the inputs share it.
Channels == (IF op.ordered THEN Inputs ELSE {0}) \X Outputs
ChannelOf(i, j) == <<IF op.ordered THEN i ELSE 0, j>>

\* partition_point: the boundaries at or below a key come before its bucket.
Bucket(key, cuts) == Cardinality({c \in DOMAIN cuts: cuts[c] <= key}) + 1

\* Mutant: a key equal to a boundary goes below it, at the boundary's left and right both.
SplitInclusive(batch, cuts) ==
    [j \in 1..Len(cuts) + 1 |->
        SelectSeq(batch, LAMBDA key: \/ Bucket(key, cuts) = j
                                     \/ j <= Len(cuts) /\ key = cuts[j])]

split_batch_by_range(batch, cuts) ==
    [j \in 1..Len(cuts) + 1 |-> SelectSeq(batch, LAMBDA key: Bucket(key, cuts) = j)]

\* What the sketch below may answer: nothing, or a boundary per inner output among the keys.
discover_cuts ==
    {<<>>} \cup {c \in [1..op.outputs - 1 -> ToSet(Rows)]:
                    \A i \in 1..op.outputs - 2: c[i] <= c[i + 1]}

Init ==
    /\ op \in Repartitions
    /\ cuts_cell = NoCuts
    /\ scatter = [i \in Inputs |-> [at |-> "read", batch |-> 1, splits |-> <<>>]]
    /\ channel = [c \in Channels |-> <<>>]
    /\ cursor = [c \in Channels |-> <<>>]
    /\ out = [j \in Outputs |-> <<>>]
    /\ end = [j \in Outputs |-> "open"]
    /\ faults = op.faults

Closed(j) == end[j] # "open"

\* Empty splits are skipped, and the next batch is read after the last.
Skipped(s) ==
    LET rest == {j \in DOMAIN s.splits: s.splits[j] # <<>>}
    IN  IF rest = {} THEN [at |-> "read", batch |-> s.batch + 1, splits |-> <<>>] ELSE s

\* A scatter task reads its next batch; whoever is first sets the cuts.
ReadBatch(i) ==
    /\ scatter[i].at = "read" /\ scatter[i].batch <= Len(op.inputs[i])
    /\ \E j \in Outputs: ~Closed(j)
    /\ \E c \in IF cuts_cell = NoCuts THEN discover_cuts ELSE {cuts_cell}:
          /\ cuts_cell' = c
          /\ scatter' = [scatter EXCEPT ![i] = Skipped([at |-> "send", batch |-> @.batch,
                 splits |-> split_batch_by_range(op.inputs[i][@.batch], c)])]
    /\ UNCHANGED <<op, channel, cursor, out, end, faults>>

\* The input is exhausted, or nobody listens any more: the senders are dropped.
FinishScatter(i) ==
    /\ scatter[i].at = "read"
    /\ \/ scatter[i].batch > Len(op.inputs[i])
       \/ \A j \in Outputs: Closed(j)
    /\ scatter' = [scatter EXCEPT ![i].at = "done"]
    /\ UNCHANGED <<op, cuts_cell, channel, cursor, out, end, faults>>

\* The input's stream fails or the task panics: guarded_scatter broadcasts the error.
ScatterFails(i) ==
    /\ faults > 0 /\ scatter[i].at = "read" /\ scatter[i].batch <= Len(op.inputs[i])
    /\ faults' = faults - 1
    /\ scatter' = [scatter EXCEPT ![i] =
           [at |-> "fail", batch |-> @.batch, splits |-> [j \in Outputs |-> Error]]]
    /\ UNCHANGED <<op, cuts_cell, channel, cursor, out, end>>

\* send().await returns at once when the receiver is closed.
HasRoom(c) == Closed(c[2]) \/ Len(channel[c]) < CHANNEL_CAPACITY

NextOutput(i) == Min({j \in DOMAIN scatter[i].splits: scatter[i].splits[j] # <<>>})

\* The next piece goes to its channel once there is room; a closed receiver is ignored.
Send(i) ==
    LET s == scatter[i]
        j == NextOutput(i)
        rest == [s EXCEPT !.splits[j] = <<>>]
        more == \E o \in DOMAIN rest.splits: rest.splits[o] # <<>>
        c == ChannelOf(i, j)
    IN  /\ s.at \in {"send", "fail"}
        /\ HasRoom(c)
        /\ channel' = IF Closed(j) THEN channel
                      ELSE [channel EXCEPT ![c] = Append(@, s.splits[j])]
        /\ scatter' = [scatter EXCEPT ![i] =
               IF s.at = "fail" /\ ~more THEN [rest EXCEPT !.at = "done"]
               ELSE IF s.at = "fail" THEN rest ELSE Skipped(rest)]
        /\ UNCHANGED <<op, cuts_cell, cursor, out, end, faults>>

SendersGone(c) == \A i \in Inputs: (c = ChannelOf(i, c[2])) => scatter[i].at = "done"
AtEnd(c) == SendersGone(c) /\ channel[c] = <<>> /\ cursor[c] = <<>>

\* A stream takes its next batch when it has used up the one before.
Fetch(c) ==
    /\ ~Closed(c[2]) /\ cursor[c] = <<>> /\ channel[c] # <<>>
    /\ channel' = [channel EXCEPT ![c] = Tail(@)]
    /\ cursor' = [cursor EXCEPT ![c] = Head(channel[c])]
    /\ UNCHANGED <<op, cuts_cell, scatter, out, end, faults>>

Sources(j) == {c \in Channels: c[2] = j}

\* An output emits its least row, once each of its streams has one or has ended.
Emit(c) ==
    /\ ~Closed(c[2]) /\ cursor[c] # <<>>
    /\ \A d \in Sources(c[2]): cursor[d] # Error
    /\ \A d \in Sources(c[2]): AtEnd(d) \/ (cursor[d] # <<>> /\ Head(cursor[c]) <= Head(cursor[d]))
    /\ out' = [out EXCEPT ![c[2]] = Append(@, Head(cursor[c]))]
    /\ cursor' = [cursor EXCEPT ![c] = Tail(@)]
    /\ UNCHANGED <<op, cuts_cell, scatter, channel, end, faults>>

EndOutput(j) ==
    /\ ~Closed(j) /\ \A c \in Sources(j): AtEnd(c)
    /\ end' = [end EXCEPT ![j] = "eof"]
    /\ UNCHANGED <<op, cuts_cell, scatter, channel, cursor, out, faults>>

\* An error ends the drain, and with it the writer, which aborts the other drains.
FailOutput(j) ==
    /\ ~Closed(j) /\ \E c \in Sources(j): cursor[c] = Error
    /\ end' = [o \in Outputs |-> IF Closed(o) THEN end[o]
                                 ELSE IF o = j THEN "error" ELSE "aborted"]
    /\ UNCHANGED <<op, cuts_cell, scatter, channel, cursor, out, faults>>

\* A reader that has enough, such as a limit, drops its output.
StopReading(j) ==
    /\ op.closes /\ ~Closed(j)
    /\ end' = [end EXCEPT ![j] = "aborted"]
    /\ UNCHANGED <<op, cuts_cell, scatter, channel, cursor, out, faults>>

Next ==
    \/ \E i \in Inputs: ReadBatch(i)
    \/ \E i \in Inputs: FinishScatter(i)
    \/ \E i \in Inputs: ScatterFails(i)
    \/ \E i \in Inputs: Send(i)
    \/ \E c \in Channels: Fetch(c)
    \/ \E c \in Channels: Emit(c)
    \/ \E j \in Outputs: EndOutput(j)
    \/ \E j \in Outputs: FailOutput(j)
    \/ \E j \in Outputs: StopReading(j)

Spec == Init /\ [][Next]_vars

-----------------------------------------------------------------------------
(* Properties *)

Count(x, s) == Cardinality({i \in DOMAIN s: s[i] = x})
Sorted(s) == \A i \in 1..Len(s) - 1: s[i] <= s[i + 1]

\* Every output that ends cleanly holds exactly the input's rows of its range: a scatter task
\* that failed shows as an error in every output still open, never as a clean end.
CleanEndIsComplete ==
    \A j \in Outputs: end[j] = "eof" =>
        \A x \in ToSet(Rows):
            LET here == IF cuts_cell = NoCuts THEN FALSE ELSE Bucket(x, cuts_cell) = j
            IN  Count(x, out[j]) = IF here THEN Count(x, Rows) ELSE 0

\* The ordered operator's outputs, read one after the other, are globally sorted at all times.
GloballySorted ==
    op.ordered => /\ \A j \in Outputs: Sorted(out[j])
                  /\ \A i, j \in Outputs: i < j =>
                        \A a \in ToSet(out[i]), b \in ToSet(out[j]): a <= b

\* Somebody can always move until every drain has ended: the scatter tasks and the drains
\* never all wait for one another.
NeverLocked ==
    \/ \A j \in Outputs: Closed(j)
    \/ \E i \in Inputs:
          \/ scatter[i].at = "read"
          \/ scatter[i].at \in {"send", "fail"} /\ HasRoom(ChannelOf(i, NextOutput(i)))
    \/ \E c \in Channels: ~Closed(c[2]) /\ cursor[c] = <<>> /\ channel[c] # <<>>
    \/ \E j \in Outputs: /\ ~Closed(j)
                         /\ \/ \E c \in Sources(j): cursor[c] = Error
                            \/ \A c \in Sources(j): AtEnd(c) \/ cursor[c] # <<>>
===============================================================================
