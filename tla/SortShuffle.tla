---------------------------- MODULE SortShuffle ----------------------------
(***************************************************************************)
(* The sort shuffle of one task: SortShuffleWriterExec buckets the rows of  *)
(* the task's input partitions by hash, spills them under memory pressure,  *)
(* and writes one data file with one index; the readers of the next stage   *)
(* find their partition in it, from the local disk or through the Flight    *)
(* service's block transport.                                               *)
(*                                                                          *)
(* The file is keyed by (job, stage, task id).  A stage that is rolled back *)
(* starts its task ids over, so a later attempt of the stage has a task of  *)
(* the same id, hence the same paths, over other input partitions.          *)
(*                                                                          *)
(* Bytes are counted in units.  An IPC message is its prefix and its body;  *)
(* a stream is a schema message, the batches, and an end mark that is a     *)
(* prefix announcing an empty message.                                      *)
(***************************************************************************)
EXTENDS Integers, Sequences, SequencesExt, FiniteSets, Bitwise

CONSTANTS
  Width,          \* bits of a hash (64 in the code, whose products have 128)
  Shuffles,       \* the shuffles to explore: the number of output partitions, per attempt
                  \* the batches of each local input partition, and the faults to come
  batch_size,     \* rows of a batch written to disk
  memory_limit    \* memory_limit_per_task_bytes; 0 turns the budget off

VARIABLES
  shuffle,      \* the shuffle that is run
  current,      \* the attempt the scheduler launched last
  input,        \* of each attempt, the write task of each input partition
  coordinator,  \* of each attempt, the task run_coordinator
  answer,       \* of each attempt, what the handoffs carry
  data,         \* data.arrow
  index,        \* data.arrow.index
  spill,        \* the spill files: the attempt that created the file, and its units
  dirs,         \* the input partitions whose spill directory exists
  faults        \* the faults still to come

vars == <<shuffle, current, input, coordinator, answer, data, index, spill, dirs, faults>>

----------------------------------------------------------------------------
(* The output partition of a row: hash % divisor, without a division.        *)

Word == 2^Width

\* ceil(2^(2 * Width) / divisor), in an integer of twice the width.
reciprocal(divisor) == ((Word^2 - 1) \div divisor) + 1

\* Mutant: the carry of the low half is dropped.
QuotientWithoutCarry(value, r) == ((value * (r \div Word)) \div Word) % Word

\* The high half of value * r, from the two halves of r.
quotient(value, r) ==
  LET low_product == value * (r % Word)
      high_product == value * (r \div Word)
      carry == ((high_product % Word) + (low_product \div Word)) \div Word
  IN ((high_product \div Word) + carry) % Word

is_power_of_two(n) == \E j \in 0 .. Width - 1 : n = 2^j

partition_of(hash, divisor) ==
  IF is_power_of_two(divisor) THEN hash & (divisor - 1)
  ELSE hash - quotient(hash, reciprocal(divisor)) * divisor

----------------------------------------------------------------------------
(* Batches buffered by reference, and their materialisation.                 *)

Partitions == 0 .. shuffle.partitions - 1

NewBuffer == [batches |-> <<>>, indices |-> [p \in Partitions |-> <<>>]]

push_batch(buffered, batch) ==
  LET b == Len(buffered.batches) + 1
      InPartition(r, p) == partition_of(batch[r].hash, shuffle.partitions) = p
      Rows(p) == SelectSeq([r \in 1 .. Len(batch) |-> r], LAMBDA r : InPartition(r, p))
  IN [batches |-> Append(buffered.batches, batch),
      indices |-> [p \in Partitions |->
                     buffered.indices[p] \o [n \in 1 .. Len(Rows(p)) |-> <<b, Rows(p)[n]>>]]]

\* PartitionedBatchIterator: the rows of partition p, batch_size at a time.
Gathered(buffered, p) ==
  LET indices == buffered.indices[p]
      Chunk(c) == SubSeq(indices, (c - 1) * batch_size + 1,
                         IF c * batch_size < Len(indices) THEN c * batch_size ELSE Len(indices))
      Row(at) == buffered.batches[at[1]][at[2]]
  IN [c \in 1 .. (Len(indices) + batch_size - 1) \div batch_size |->
        [n \in 1 .. Len(Chunk(c)) |-> Row(Chunk(c)[n])]]

Bytes(batches) == FoldLeft(LAMBDA n, batch : n + Len(batch), 0, batches)

----------------------------------------------------------------------------
(* Files.                                                                    *)

Unit(kind, rows) == [kind |-> kind, rows |-> rows]
SchemaMessage == <<Unit("schema", <<>>), Unit("fields", <<>>)>>
EndOfStream == <<Unit("end", <<>>)>>
Hole == Unit("hole", <<>>)
Messages(batches) ==
  FlattenSeq([b \in 1 .. Len(batches) |-> <<Unit("batch", <<>>), Unit("columns", batches[b])>>])

\* The stream header that precedes every partition of the data file.
HeaderStream == SchemaMessage \o EndOfStream

\* Writing units through a descriptor at position pos of a file.
Overlay(file, pos, units) ==
  [n \in 1 .. (IF pos + Len(units) > Len(file) THEN pos + Len(units) ELSE Len(file)) |->
     IF n \in pos + 1 .. pos + Len(units) THEN units[n - pos]
     ELSE IF n <= Len(file) THEN file[n] ELSE Hole]

\* The bytes a reader gets that takes n units from position pos.
Take(file, pos, n) == SubSeq(file, pos + 1, IF pos + n < Len(file) THEN pos + n ELSE Len(file))

----------------------------------------------------------------------------
(* The state of the task.                                                    *)

Slice(a) == shuffle.slices[a]
Attempts == 1 .. Len(shuffle.slices)
Inputs(a) == 1 .. Len(Slice(a))
NoDescriptor == [ino |-> 0, pos |-> 0]
NoFile == [ino |-> 0, units |-> <<>>]

Spawned ==
  [at |-> "spawned", read |-> 0, buffered |-> NewBuffer, buffered_bytes |-> 0, reservation |-> 0,
   fd |-> [p \in Partitions |-> NoDescriptor], rows |-> [p \in Partitions |-> 0]]

AllInputs == UNION {Inputs(a) : a \in Attempts}

Init ==
  /\ shuffle \in Shuffles /\ faults = shuffle.faults
  /\ current = 0
  /\ input = [a \in Attempts |-> [i \in Inputs(a) |-> Spawned]]
  /\ coordinator = [a \in Attempts |->
       [at |-> "none", outputs |-> <<>>, error |-> FALSE, pos |-> 0, offsets |-> <<>>]]
  /\ answer = [a \in Attempts |-> [is |-> "none", rows |-> [p \in Partitions |-> 0]]]
  /\ data = <<>> /\ index = <<>>
  /\ spill = [file \in AllInputs \X Partitions |-> NoFile]
  /\ dirs = {}

Me(a, i) == input[a][i]
At(a, place) == coordinator[a].at = place

\* The first execute() spawns the coordinator and a write task per input partition.
\* A later attempt comes after the stage was rolled back.
Execute(a) ==
  /\ a = current + 1
  /\ a > 1 => "restart" \in faults /\ answer[a - 1].is # "none"
  /\ current' = a
  /\ coordinator' = [coordinator EXCEPT ![a].at = "joining"]
  /\ UNCHANGED <<shuffle, input, answer, data, index, spill, dirs, faults>>

\* Executor::cancel_task drops the future that waits on the handoffs.  The coordinator
\* was spawned on its own and keeps running.
Cancel(a) ==
  /\ a = current /\ "cancel" \in faults /\ answer[a].is = "none"
  /\ answer' = [answer EXCEPT ![a].is = "cancelled"]
  /\ faults' = faults \ {"cancel"}
  /\ UNCHANGED <<shuffle, current, input, coordinator, data, index, spill, dirs>>

----------------------------------------------------------------------------
(* execute_shuffle_write: the write task of one input partition.             *)

\* SpillManager::new
StartInput(a, i) ==
  /\ ~At(a, "none") /\ Me(a, i).at = "spawned"
  /\ dirs' = dirs \cup {i}
  /\ input' = [input EXCEPT ![a][i].at = "reading"]
  /\ UNCHANGED <<shuffle, current, coordinator, answer, data, index, spill, faults>>

Batch(a, i) == Slice(a)[i][Me(a, i).read + 1]
HasBatch(a, i) == Me(a, i).at = "reading" /\ Me(a, i).read < Len(Slice(a)[i])
Rejections == IF "pressure" \in faults THEN BOOLEAN ELSE {FALSE}

\* SpillTrigger::classify: the pool rejected the growth, or the budget is reached.
SpillTriggered(me, batch, rejected) ==
  rejected \/ (memory_limit > 0 /\ me.buffered_bytes + Len(batch) >= memory_limit)

BufferBatch(a, i, rejected) ==
  /\ HasBatch(a, i) /\ ~SpillTriggered(Me(a, i), Batch(a, i), rejected)
  /\ input' = [input EXCEPT ![a][i] =
       [@ EXCEPT !.read = @ + 1, !.buffered = push_batch(@, Batch(a, i)),
                 !.buffered_bytes = @ + Len(Batch(a, i)),
                 !.reservation = IF rejected THEN @ ELSE @ + Len(Batch(a, i))]]
  /\ UNCHANGED <<shuffle, current, coordinator, answer, data, index, spill, dirs, faults>>

\* What spill_all_partitions appends to the file of partition p: the schema first, when
\* SpillManager::spill creates the file.
SpillUnits(me, buffered, p) ==
  (IF me.fd[p] = NoDescriptor THEN SchemaMessage ELSE <<>>) \o Messages(Gathered(buffered, p))

\* The file of partition p once it has been created (truncated, if it was there) or left open.
Opened(a, i, p) ==
  IF Me(a, i).fd[p] # NoDescriptor THEN spill[<<i, p>>]
  ELSE IF spill[<<i, p>>] = NoFile THEN [ino |-> a, units |-> <<>>]
  ELSE [spill[<<i, p>>] EXCEPT !.units = <<>>]

Descriptor(a, i, p) ==
  IF Me(a, i).fd[p] # NoDescriptor THEN Me(a, i).fd[p]
  ELSE [ino |-> Opened(a, i, p).ino, pos |-> 0]

\* Bytes written through a descriptor of an unlinked file reach no path.
Through(fd, file, units) ==
  IF fd.ino = file.ino THEN [file EXCEPT !.units = Overlay(@, fd.pos, units)] ELSE file

Touched(buffered) == {p \in Partitions : buffered.indices[p] # <<>>}
Unopened(a, i, buffered) == {p \in Touched(buffered) : Me(a, i).fd[p] = NoDescriptor}

SpillBatch(a, i, rejected) ==
  /\ HasBatch(a, i) /\ SpillTriggered(Me(a, i), Batch(a, i), rejected)
  /\ LET me == Me(a, i)
         buffered == push_batch(me.buffered, Batch(a, i))
         touched == Touched(buffered)
         Units(p) == SpillUnits(me, buffered, p)
     IN
     /\ Unopened(a, i, buffered) # {} => i \in dirs
     /\ spill' = [file \in DOMAIN spill |->
          IF file[1] = i /\ file[2] \in touched
          THEN Through(Descriptor(a, i, file[2]), Opened(a, i, file[2]), Units(file[2]))
          ELSE spill[file]]
     /\ input' = [input EXCEPT ![a][i] =
          [@ EXCEPT !.read = @ + 1, !.buffered = NewBuffer,
                    !.buffered_bytes = 0, !.reservation = 0,
                    !.fd = [p \in Partitions |->
                       IF p \in touched
                       THEN [Descriptor(a, i, p) EXCEPT !.pos = @ + Len(Units(p))] ELSE @[p]],
                    !.rows = [p \in Partitions |-> @[p] + Len(buffered.indices[p])]]]
  /\ UNCHANGED <<shuffle, current, coordinator, answer, data, index, dirs, faults>>

\* The spill directory is gone, so the file cannot be created.
SpillFails(a, i, rejected) ==
  /\ HasBatch(a, i) /\ SpillTriggered(Me(a, i), Batch(a, i), rejected)
  /\ Unopened(a, i, push_batch(Me(a, i).buffered, Batch(a, i))) # {} /\ i \notin dirs
  /\ input' = [input EXCEPT ![a][i].at = "failed"]
  /\ UNCHANGED <<shuffle, current, coordinator, answer, data, index, spill, dirs, faults>>

\* The input stream yields an error, a failed fetch of the stage below for example.
StreamFails(a, i) ==
  /\ "stream" \in faults /\ Me(a, i).at = "reading"
  /\ input' = [input EXCEPT ![a][i].at = "failed"]
  /\ faults' = faults \ {"stream"}
  /\ UNCHANGED <<shuffle, current, coordinator, answer, data, index, spill, dirs>>

\* finish_writers ends every spill stream; what is still buffered is encoded.
FinishInput(a, i) ==
  /\ Me(a, i).at = "reading" /\ Me(a, i).read = Len(Slice(a)[i])
  /\ spill' = [file \in DOMAIN spill |->
       IF file[1] = i /\ Me(a, i).fd[file[2]] # NoDescriptor
       THEN Through(Me(a, i).fd[file[2]], spill[file], EndOfStream) ELSE spill[file]]
  /\ input' = [input EXCEPT ![a][i].at = "finished"]
  /\ UNCHANGED <<shuffle, current, coordinator, answer, data, index, dirs, faults>>

\* encode_buffered_partitions
Encoded(me, p) ==
  IF me.buffered.indices[p] = <<>> THEN <<>>
  ELSE SchemaMessage \o Messages(Gathered(me.buffered, p)) \o EndOfStream

----------------------------------------------------------------------------
(* run_coordinator.                                                          *)

\* SpillManager::cleanup, also when it is dropped: the directory goes, with its files.
Cleaned(S) ==
  /\ dirs' = dirs \ S
  /\ spill' = [file \in DOMAIN spill |-> IF file[1] \in S THEN NoFile ELSE spill[file]]

AllJoined(a) == Len(coordinator[a].outputs) + 1 = Len(Slice(a))

JoinOutput(a, i) ==
  /\ At(a, "joining") /\ Me(a, i).at = "finished"
  /\ input' = [input EXCEPT ![a][i].at = "joined"]
  /\ coordinator' = [coordinator EXCEPT ![a].outputs = Append(@, i),
       ![a].at = IF AllJoined(a) THEN "creating" ELSE @]
  /\ UNCHANGED <<shuffle, current, answer, data, index, spill, dirs, faults>>

\* The first error ends the wait, and the write tasks that still run are aborted.  A task
\* that was never polled has no spill manager yet.
JoinError(a, i) ==
  /\ At(a, "joining") /\ Me(a, i).at = "failed"
  /\ Cleaned({i})
  /\ input' = [input EXCEPT ![a] = [n \in Inputs(a) |->
       CASE n = i \/ @[n].at = "spawned" -> [@[n] EXCEPT !.at = "dropped"]
         [] @[n].at \in {"reading", "failed"} -> [@[n] EXCEPT !.at = "aborting"]
         [] OTHER -> @[n]]]
  /\ coordinator' = [coordinator EXCEPT ![a].error = TRUE, ![a].at = "closing"]
  /\ UNCHANGED <<shuffle, current, answer, data, index, faults>>

\* An aborted task stops where it next waits, and its spill manager is dropped.
AbortInput(a, i) ==
  /\ Me(a, i).at = "aborting"
  /\ Cleaned({i})
  /\ input' = [input EXCEPT ![a][i].at = "dropped"]
  /\ UNCHANGED <<shuffle, current, coordinator, answer, data, index, faults>>

\* write_task_consolidated: the file is created, or truncated, and gets its header.
CreateFile(a) ==
  /\ At(a, "creating")
  /\ data' = HeaderStream
  /\ coordinator' = [coordinator EXCEPT ![a].at = "writing", ![a].pos = Len(HeaderStream)]
  /\ UNCHANGED <<shuffle, current, input, answer, index, spill, dirs, faults>>

\* The streams of partition p: of each output the spilled one, then the encoded one.
PartitionUnits(a, p) ==
  FlattenSeq([n \in 1 .. Len(coordinator[a].outputs) |->
    LET i == coordinator[a].outputs[n] IN
    (IF Me(a, i).fd[p] # NoDescriptor THEN spill[<<i, p>>].units ELSE <<>>) \o Encoded(Me(a, i), p)])

NextPartition(a) == Len(coordinator[a].offsets)

SpillMissing(a, p) ==
  \E n \in 1 .. Len(coordinator[a].outputs) :
    LET i == coordinator[a].outputs[n] IN
    Me(a, i).fd[p] # NoDescriptor /\ spill[<<i, p>>] = NoFile

WritePartition(a) ==
  /\ At(a, "writing") /\ NextPartition(a) \in Partitions
  /\ ~SpillMissing(a, NextPartition(a))
  /\ LET units == PartitionUnits(a, NextPartition(a)) IN
     /\ data' = Overlay(data, coordinator[a].pos, units)
     /\ coordinator' = [coordinator EXCEPT ![a].offsets = Append(@, coordinator[a].pos),
                                           ![a].pos = @ + Len(units)]
  /\ UNCHANGED <<shuffle, current, input, answer, index, spill, dirs, faults>>

\* A spill file is gone, or the write itself fails.
WriteFails(a) ==
  /\ At(a, "writing")
  /\ \/ NextPartition(a) \in Partitions /\ SpillMissing(a, NextPartition(a)) /\ UNCHANGED faults
     \/ "io" \in faults /\ faults' = faults \ {"io"}
  /\ coordinator' = [coordinator EXCEPT ![a].error = TRUE, ![a].at = "closing"]
  /\ UNCHANGED <<shuffle, current, input, answer, data, index, spill, dirs>>

\* The last offset is the length of the file.
WriteIndex(a) ==
  /\ At(a, "writing") /\ NextPartition(a) = shuffle.partitions
  /\ index' = Append(coordinator[a].offsets, coordinator[a].pos)
  /\ coordinator' = [coordinator EXCEPT ![a].at = "closing"]
  /\ UNCHANGED <<shuffle, current, input, answer, data, spill, dirs, faults>>

\* partition_stats: what was spilled and what was encoded.
RowsWritten(a, p) ==
  FoldLeft(LAMBDA n, i : n + Me(a, i).rows[p] + Len(Me(a, i).buffered.indices[p]),
           0, coordinator[a].outputs)

\* Mutant: the spills are removed only after a successful write.
HeldOnSuccess(a) == {i \in Inputs(a) : Me(a, i).at \in {"finished", "joined"} /\ ~coordinator[a].error}

\* The write tasks whose output the coordinator holds when it ends.
Held(a) == {i \in Inputs(a) : Me(a, i).at \in {"finished", "joined"}}

\* The spills are removed, and the error or the summaries sent to every handoff; a write
\* task that had finished after the first error is dropped with the join set.
Answer(a) ==
  /\ At(a, "closing")
  /\ Cleaned(Held(a))
  /\ input' = [input EXCEPT ![a] = [i \in Inputs(a) |->
       IF @[i].at \in {"finished", "joined"} THEN [@[i] EXCEPT !.at = "dropped"] ELSE @[i]]]
  /\ coordinator' = [coordinator EXCEPT ![a].at = "done"]
  /\ answer' = [answer EXCEPT ![a] =
       IF @.is = "cancelled" THEN @
       ELSE IF coordinator[a].error THEN [@ EXCEPT !.is = "error"]
       ELSE [is |-> "ok", rows |-> [p \in Partitions |-> RowsWritten(a, p)]]]
  /\ UNCHANGED <<shuffle, current, data, index, faults>>
----------------------------------------------------------------------------
Next ==
  \/ \E a \in Attempts : Execute(a)
  \/ \E a \in Attempts : Cancel(a)
  \/ \E a \in Attempts : \E i \in Inputs(a) : StartInput(a, i)
  \/ \E a \in Attempts, r \in Rejections : \E i \in Inputs(a) : BufferBatch(a, i, r)
  \/ \E a \in Attempts, r \in Rejections : \E i \in Inputs(a) : SpillBatch(a, i, r)
  \/ \E a \in Attempts, r \in Rejections : \E i \in Inputs(a) : SpillFails(a, i, r)
  \/ \E a \in Attempts : \E i \in Inputs(a) : StreamFails(a, i)
  \/ \E a \in Attempts : \E i \in Inputs(a) : FinishInput(a, i)
  \/ \E a \in Attempts : \E i \in Inputs(a) : JoinOutput(a, i)
  \/ \E a \in Attempts : \E i \in Inputs(a) : JoinError(a, i)
  \/ \E a \in Attempts : \E i \in Inputs(a) : AbortInput(a, i)
  \/ \E a \in Attempts : CreateFile(a)
  \/ \E a \in Attempts : WritePartition(a)
  \/ \E a \in Attempts : WriteFails(a)
  \/ \E a \in Attempts : WriteIndex(a)
  \/ \E a \in Attempts : Answer(a)

Spec == Init /\ [][Next]_vars

----------------------------------------------------------------------------
(* The readers, as functions of what is on disk.                             *)

NoRows == [ok |-> FALSE, rows |-> <<>>]

\* MultiStreamPartitionStream: the rows of the streams between two offsets.  A stream is
\* opened at each position where the last one ended, until the range is consumed; within a
\* stream only its end mark, or the end of the file, stops the reader.
RECURSIVE next_batch(_, _, _, _)
next_batch(at, end, reading, rows) ==
  LET Kind(n) == IF n < Len(data) THEN data[n + 1].kind ELSE "eof" IN
  CASE ~reading /\ at >= end -> [ok |-> TRUE, rows |-> rows]
    [] ~reading /\ at < end /\ Kind(at) = "schema" /\ Kind(at + 1) = "fields" ->
         next_batch(at + 2, end, TRUE, rows)
    [] reading /\ Kind(at) = "batch" /\ Kind(at + 1) = "columns" ->
         next_batch(at + 2, end, TRUE, rows \o data[at + 2].rows)
    [] reading /\ Kind(at) = "end" -> next_batch(at + 1, end, FALSE, rows)
    [] reading /\ Kind(at) = "eof" -> next_batch(at, end, FALSE, rows)
    [] OTHER -> NoRows

\* stream_sort_shuffle_partition, also behind the Flight service's do_get.
stream_sort_shuffle_partition(p) ==
  IF p + 2 > Len(index) \/ SubSeq(data, 1, 2) # SchemaMessage \/ index[p + 2] < index[p + 1]
  THEN NoRows
  ELSE next_batch(index[p + 1], index[p + 2], FALSE, <<>>)

\* stream_sort_shuffle_block: the file is opened once, and the second handle is a duplicate
\* of the first.  Duplicates share one cursor, so the seek to the partition moves it for the
\* header too: the bytes sent are those of the partition, and as many more as the header has.
stream_sort_shuffle_block(p) ==
  LET header_end == index[1]
      start == index[p + 1]
      length == index[p + 2] - start
  IN Take(data, start, header_end) \o Take(data, start + header_end, length)

\* BlockDataStream: the decoder starts over after an end mark, and what is left of a message
\* when the bytes end is ignored.
Decode(d, unit) ==
  CASE unit.kind = "schema" /\ d.at \in {"new", "ended"} -> [d EXCEPT !.at = "schema"]
    [] unit.kind = "fields" /\ d.at = "schema" -> [d EXCEPT !.at = "open", !.ok = TRUE]
    [] unit.kind = "batch" /\ d.at = "open" -> [d EXCEPT !.at = "batch"]
    [] unit.kind = "columns" /\ d.at = "batch" -> [d EXCEPT !.at = "open", !.rows = @ \o unit.rows]
    [] unit.kind = "end" /\ d.at = "open" -> [d EXCEPT !.at = "ended"]
    [] OTHER -> [d EXCEPT !.at = "error"]

BlockDataStream(units) ==
  LET d == FoldLeft(Decode, [at |-> "new", ok |-> FALSE, rows |-> <<>>], units) IN
  IF d.at = "error" \/ ~d.ok THEN NoRows ELSE [ok |-> TRUE, rows |-> d.rows]

BlockRead(p) == IF p + 2 > Len(index) THEN NoRows ELSE BlockDataStream(stream_sort_shuffle_block(p))

----------------------------------------------------------------------------
(* Properties.                                                               *)

\* Every variable keeps its type, and offsets stay inside the file that is written.
TypeOK ==
  /\ shuffle \in Shuffles /\ current \in 0 .. Len(shuffle.slices)
  /\ \A a \in Attempts : \A i \in Inputs(a) :
       /\ Me(a, i).at \in {"spawned", "reading", "finished", "failed", "joined", "aborting", "dropped"}
       /\ Me(a, i).read \in 0 .. Len(Slice(a)[i])
  /\ \A a \in Attempts :
       /\ coordinator[a].at \in {"none", "joining", "creating", "writing", "closing", "done"}
       /\ answer[a].is \in {"none", "ok", "error", "cancelled"}
  /\ dirs \subseteq AllInputs
  /\ \A n \in 1 .. Len(index) : index[n] >= Len(HeaderStream)

SliceRows(a) == UNION {UNION {{Slice(a)[i][b][r] : r \in 1 .. Len(Slice(a)[i][b])}
                               : b \in 1 .. Len(Slice(a)[i])} : i \in Inputs(a)}
Expected(a, p) == {row \in SliceRows(a) : row.hash % shuffle.partitions = p}

Exactly(read, rows) ==
  /\ read.ok
  /\ {read.rows[n] : n \in 1 .. Len(read.rows)} = rows
  /\ Len(read.rows) = Cardinality(rows)

Succeeded == current > 0 /\ answer[current].is = "ok"

\* Once the task has reported success, a reader of the file finds in each output partition
\* exactly the rows of the task's inputs whose hash falls in it, each once, however they
\* were split over batches, spills and the rows encoded at the end, and the reported row
\* counts are the true ones (execute_shuffle_write, write_task_consolidated,
\* stream_sort_shuffle_partition).
ReadsExact ==
  Succeeded => \A p \in Partitions :
    /\ Exactly(stream_sort_shuffle_partition(p), Expected(current, p))
    /\ answer[current].rows[p] = Cardinality(Expected(current, p))

\* The block transport delivers the rows of every partition that was reported as written,
\* though the two handles on the file share a cursor (stream_sort_shuffle_block).
BlockReadsExact ==
  Succeeded => \A p \in Partitions :
    answer[current].rows[p] > 0 => Exactly(BlockRead(p), Expected(current, p))

\* The memory pool accounts for every batch a running write task holds: a growth it rejected
\* is answered with a spill (execute_shuffle_write).
PoolAccounted ==
  \A a \in Attempts : \A i \in Inputs(a) :
    Me(a, i).reservation = Bytes(Me(a, i).buffered.batches)

\* When every coordinator has answered and every aborted write task has stopped, no spill
\* is left on disk, whichever of them failed and when (SpillManager::cleanup and drop).
SpillsRemoved ==
  (\A a \in 1 .. current : At(a, "done") /\ \A i \in Inputs(a) : Me(a, i).at = "dropped")
    => dirs = {} /\ \A file \in DOMAIN spill : spill[file] = NoFile

\* A coordinator that still waits has a write task to wait for, which has yet to end and was
\* not aborted: the join loop always ends, with an answer for every handoff (run_coordinator).
WaitsForSomeone ==
  \A a \in Attempts : At(a, "joining") =>
    \E i \in Inputs(a) : Me(a, i).at \in {"spawned", "reading", "finished", "failed"}

\* The header is sent with every partition, so a reader recovers the schema of an empty one
\* too (stream_sort_shuffle_block).
SchemaRecovered == Succeeded => \A p \in Partitions : BlockRead(p).ok
=============================================================================
