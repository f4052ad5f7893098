---------------------------- MODULE ShuffleFetch ----------------------------
(***************************************************************************)
(* The reduce side of a shuffle: ShuffleReaderExec fetches the blocks of    *)
(* its partition and hands them, one stream after the other, to its         *)
(* consumer (send_fetch_partitions).                                        *)
(*                                                                          *)
(* One blocking task reads the local blocks in turn.  Every remote block    *)
(* has a task of its own, which takes a request permit, a permit of the     *)
(* block's address and permits for its bytes, in this order, fetches the    *)
(* whole body with retries, and sends it to a bounded channel; the permits  *)
(* stay with the stream until the consumer has drained it.                  *)
(***************************************************************************)
EXTENDS Integers, Sequences, SequencesExt, FiniteSetsExt

CONSTANTS
  Reads,          \* the reads to explore: the number of local blocks, the address and recorded
                  \* size of each remote one, the limits, how many failures come and of what kinds
  Addresses,      \* executors the blocks are on
  retries         \* fetches after the first of a block (io_retries_times)

VARIABLES
  read,       \* the read that is run
  fetch,      \* of each remote block: where its task is, and its fetches so far
  waiting,    \* of each semaphore, the tasks in line
  local,      \* local blocks sent
  channel,    \* results sent and not received
  consumer,   \* the stream being drained, and how the read ended
  delivered,  \* blocks drained, in order
  failures    \* failures still to come

vars == <<read, fetch, waiting, local, channel, consumer, delivered, failures>>

Remote == 1 .. Len(read.remote)
Address(b) == read.remote[b].address
MaxRequests == IF read.max_reqs > 1 THEN read.max_reqs ELSE 1
MaxPerAddress == IF read.max_blocks_per_addr > 1 THEN read.max_blocks_per_addr ELSE 1

Clamp(n, low, high) == IF n < low THEN low ELSE IF n > high THEN high ELSE n

\* Stands for u32::MAX, the largest number of permits a semaphore call can name.
MaxPermits == 4
byte_permits_cap == Clamp(read.max_bytes, 1, MaxPermits)

byte_permits_for(size) == Clamp(size, 1, byte_permits_cap)

\* The size in the block's statistics, never 0.
block_size(b) == IF read.remote[b].size > 1 THEN read.remote[b].size ELSE 1

Req == "requests"
Bytes == "bytes"

Init ==
  /\ read \in Reads
  /\ fetch = [b \in Remote |-> [at |-> "spawned", attempts |-> 0, ok |-> TRUE]]
  /\ waiting = [s \in {Req, Bytes} \cup Addresses |-> <<>>]
  /\ local = 0 /\ channel = <<>>
  /\ consumer = [draining |-> <<>>, is |-> "reading"]
  /\ delivered = <<>>
  /\ failures = read.failures

\* A fetch holds its permits until its stream is drained; a failed one drops them.
Holders == {b \in Remote : fetch[b].ok /\ fetch[b].at \in {"fetching", "sending", "sent"}}
HoldsRequest == Holders \cup {b \in Remote : fetch[b].at \in {"addr", "byte"}}
HoldsAddress(a) == {b \in HoldsRequest : Address(b) = a /\ fetch[b].at # "addr"}
HeldBytes == MapThenSumSet(LAMBDA b : byte_permits_for(block_size(b)), Holders)

Reading == consumer.is = "reading"
Go(b, place) == fetch' = [fetch EXCEPT ![b].at = place]
First(s, b) == waiting[s] # <<>> /\ Head(waiting[s]) = b
Move(s, t, b) == waiting' = [waiting EXCEPT ![s] = Tail(@), ![t] = Append(@, b)]

\* The semaphores are fair: a task waits in line, also behind one that asks for more.
Spawn(b) ==
  /\ Reading /\ fetch[b].at = "spawned"
  /\ Go(b, "req") /\ waiting' = [waiting EXCEPT ![Req] = Append(@, b)]
  /\ UNCHANGED <<read, local, channel, consumer, delivered, failures>>

AcquireRequest(b) ==
  /\ Reading /\ First(Req, b) /\ Cardinality(HoldsRequest) < MaxRequests
  /\ Go(b, "addr") /\ Move(Req, Address(b), b)
  /\ UNCHANGED <<read, local, channel, consumer, delivered, failures>>

AcquireAddress(b) ==
  /\ Reading /\ First(Address(b), b)
  /\ Cardinality(HoldsAddress(Address(b))) < MaxPerAddress
  /\ Go(b, "byte") /\ Move(Address(b), Bytes, b)
  /\ UNCHANGED <<read, local, channel, consumer, delivered, failures>>

AcquireBytes(b) ==
  /\ Reading /\ First(Bytes, b)
  /\ HeldBytes + byte_permits_for(block_size(b)) <= byte_permits_cap
  /\ Go(b, "fetching") /\ waiting' = [waiting EXCEPT ![Bytes] = Tail(@)]
  /\ UNCHANGED <<read, local, channel, consumer, delivered, failures>>

\* fetch_partition_buffered: the whole body is in memory before any of it is passed on.
FetchPartition(b) ==
  /\ Reading /\ fetch[b].at = "fetching"
  /\ Go(b, "sending")
  /\ UNCHANGED <<read, waiting, local, channel, consumer, delivered, failures>>

\* with_retry: a transport failure, before or in the body, is retried; a decoding error is
\* not.  Without a result there is no stream, and the permits are dropped.
FetchFails(b, kind) ==
  /\ Reading /\ fetch[b].at = "fetching" /\ failures > 0 /\ kind \in read.kinds
  /\ failures' = failures - 1
  /\ fetch' = [fetch EXCEPT ![b] =
       IF kind = "transport" /\ @.attempts < retries THEN [@ EXCEPT !.attempts = @ + 1]
       ELSE [@ EXCEPT !.at = "sending", !.ok = FALSE]]
  /\ UNCHANGED <<read, waiting, local, channel, consumer, delivered>>

Room == Len(channel) < MaxRequests

Send(b) ==
  /\ Reading /\ fetch[b].at = "sending" /\ Room
  /\ channel' = Append(channel, [block |-> <<"remote", b>>, ok |-> fetch[b].ok])
  /\ Go(b, "sent")
  /\ UNCHANGED <<read, waiting, local, consumer, delivered, failures>>

\* fetch_partition_local of the next local block; an error is sent and the loop goes on.
SendLocal(ok) ==
  /\ Reading /\ local < read.local /\ Room
  /\ ok \/ (failures > 0 /\ "decode" \in read.kinds)
  /\ failures' = IF ok THEN failures ELSE failures - 1
  /\ local' = local + 1
  /\ channel' = Append(channel, [block |-> <<"local", local + 1>>, ok |-> ok])
  /\ UNCHANGED <<read, fetch, waiting, consumer, delivered>>

\* The consumer takes the next stream when it has drained the last; an error ends the read,
\* and dropping the reader aborts its tasks.
Receive ==
  /\ Reading /\ consumer.draining = <<>> /\ channel # <<>>
  /\ consumer' = IF Head(channel).ok THEN [consumer EXCEPT !.draining = <<Head(channel).block>>]
                 ELSE [consumer EXCEPT !.is = "failed"]
  /\ channel' = Tail(channel)
  /\ UNCHANGED <<read, fetch, waiting, local, delivered, failures>>

\* The stream is drained and dropped, and a governed one gives its permits back.
Drain ==
  /\ Reading /\ consumer.draining # <<>>
  /\ LET block == consumer.draining[1] IN
     /\ delivered' = Append(delivered, block)
     /\ fetch' = IF block[1] = "remote" THEN [fetch EXCEPT ![block[2]].at = "done"] ELSE fetch
  /\ consumer' = [consumer EXCEPT !.draining = <<>>]
  /\ UNCHANGED <<read, waiting, local, channel, failures>>

\* A local file turns out unreadable half way: its error ends the read.
DrainFails ==
  /\ Reading /\ consumer.draining # <<>> /\ consumer.draining[1][1] = "local"
  /\ failures > 0 /\ "decode" \in read.kinds
  /\ failures' = failures - 1
  /\ consumer' = [draining |-> <<>>, is |-> "failed"]
  /\ UNCHANGED <<read, fetch, waiting, local, channel, delivered>>

\* Mutant: the remote tasks have no sender of their own, and the channel closes with the local one.
FinishWithLocal ==
  /\ Reading /\ consumer.draining = <<>> /\ channel = <<>> /\ local = read.local
  /\ consumer' = [consumer EXCEPT !.is = "done"]
  /\ UNCHANGED <<read, fetch, waiting, local, channel, delivered, failures>>

\* The channel closes when every task has sent its blocks.
Finish ==
  /\ Reading /\ consumer.draining = <<>> /\ channel = <<>> /\ local = read.local
  /\ \A b \in Remote : fetch[b].at \in {"sent", "done"}
  /\ consumer' = [consumer EXCEPT !.is = "done"]
  /\ UNCHANGED <<read, fetch, waiting, local, channel, delivered, failures>>

Next ==
  \/ \E b \in Remote : Spawn(b)
  \/ \E b \in Remote : AcquireRequest(b)
  \/ \E b \in Remote : AcquireAddress(b)
  \/ \E b \in Remote : AcquireBytes(b)
  \/ \E b \in Remote : FetchPartition(b)
  \/ \E b \in Remote, kind \in {"transport", "decode"} : FetchFails(b, kind)
  \/ \E b \in Remote : Send(b)
  \/ \E ok \in BOOLEAN : SendLocal(ok)
  \/ Receive
  \/ Drain
  \/ DrainFails
  \/ Finish

Spec == Init /\ [][Next]_vars

----------------------------------------------------------------------------
\* A read that ends well has delivered every block, local and remote, exactly once: a body
\* that broke off and was fetched again is not delivered twice, and no block is forgotten in
\* the channel (send_fetch_partitions, fetch_partition_buffered).
DeliversOnce ==
  /\ IsInjective(delivered)
  /\ consumer.is = "done" => Len(delivered) = read.local + Len(read.remote)

\* Transport failures never fail the read while there are no more of them than retries,
\* however they fall on the blocks (with_retry).
RetriesCover ==
  read.kinds = {"transport"} /\ read.failures <= retries => consumer.is # "failed"

\* A block larger than the byte budget is in flight alone: it waits until the other fetches
\* have drained (byte_permits_for).
OversizedAlone ==
  \A b \in Holders : block_size(b) > byte_permits_cap => Holders = {b}

\* The governor never locks the read up: while it has not ended, either the consumer has
\* something to receive, drain or finish, or a task can take a permit, fetch or send, whatever
\* permits the tasks in line hold (send_fetch_partitions).
NeverLocked ==
  Reading =>
    \/ consumer.draining # <<>> \/ channel # <<>> \/ local < read.local
    \/ \E b \in Remote : fetch[b].at \in {"spawned", "fetching", "sending"}
    \/ \A b \in Remote : fetch[b].at \in {"sent", "done"}
    \/ \E b \in Remote :
         \/ First(Req, b) /\ Cardinality(HoldsRequest) < MaxRequests
         \/ First(Address(b), b) /\ Cardinality(HoldsAddress(Address(b))) < MaxPerAddress
         \/ First(Bytes, b) /\ HeldBytes + byte_permits_for(block_size(b)) <= byte_permits_cap
=============================================================================
