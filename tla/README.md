# micro-ccl in TLA+

Models of micro-ccl, a small collective-communication library over RDMA verbs,
with the properties TLC checks on small instances and the theorems TLAPS proves
for every instance.  Paths are those of the repository (`src/collectives/...`);
`PROJECT.json` maps every definition to its lines.

## 1. The system

P processes, one per rank, each a single thread.  They meet over TCP once
(`TcpBootstrap`), connect a full mesh of reliable-connected queue pairs
(`Communicator`), and then run collectives over them.

| component | state | operations | interacts with |
|---|---|---|---|
| chunking (`compute_chunks`) | none | split a count into P ranges | called by the ring |
| reduce_ops (`reduce_inplace`) | none | fold scratch into data | called by both allreduces |
| transport | none of its own; posts to QPs, polls CQs | `post_send`, `post_recv`, `wait_completion`, `send`, `recv` | the adapter, which moves data at any later time |
| allreduce_ring | loop variables, data and scratch | reduce-scatter, then allgather | successor and predecessor |
| allreduce_recursive_doubling | the same | log2(P) whole-buffer exchanges | one partner per step |
| allgather, broadcast | loop variables, one buffer | ring of segments; root sends to all | neighbours; root |
| TcpBootstrap | sockets; root: `peer_fds_` | constructor, `exchange`, destructor | rank 0 relays for everybody |
| Communicator | one QP per peer, one send and one receive CQ for all | constructor (exchange, RESET-INIT-RTR-RTS), `barrier` | bootstrap, QPs |
| queue_pair, completion_queue, memory_region, protection_domain | a verbs handle | create, modify, destroy | libibverbs |
| device | chosen device, port, GID index | constructor | libibverbs, sysfs |
| endpoint_info | none | encode, decode | bootstrap |
| bench, tests, pingpong | buffers | call collectives in a loop | everything |

What is hard here:

* Processes and adapters interleave freely.  Payload is read when a message is
  transmitted, receives are posted late, and no barrier separates two calls of
  a collective: one rank may be a whole call ahead of another.
* `wait_completion` takes the first completion of a shared queue and ignores
  whose it is.
* Failure is local: a rank that throws leaves, its queue pairs vanish, and its
  neighbours find out by a timeout of a send, or never when they only receive.
* Every rank waits for its own send in a cycle of ranks; the bootstrap's root
  and ranks write to each other over sockets that can be full.
* Different collectives follow each other on the same queue pairs and the same
  two completion queues, and a rank that returns may leave at once.
* Boundaries: empty chunks, remainders, 32-bit lengths, products that wrap in a
  `size_t`, integer overflow, NaN, a size of 0 that is doubled.
* Machines differ: ports that are down, GID tables with the RoCE v2 entry
  anywhere, no usable device at all.

`PROJECT.json` lists these as hazards, each at its line, with the properties
aimed at it.

## 2. Modules

| module | models |
|---|---|
| `ChunkRanges` | the ranges of `compute_chunks` in closed form |
| `Chunking` | `compute_chunks` as its loop |
| `ReduceOps` | `reduce_inplace` on one element: int32 with wrap-around, float Min and Max up to what `<` tells apart |
| `Transport` | the transport calls, and the adapter as external actions |
| `TransportCalls` | the transport calls of a rank as data |
| `Allgather`, `Broadcast`, `PingPong` | `allgather`, `broadcast` and the loop of `examples/pingpong.cc` as sequences of transport calls |
| `CollectiveSequence` | programs of P ranks that call these and `barrier` one after the other; composes the three with `Transport` |
| `AllreduceRing` | `allreduce_ring`, called in a loop by P ranks; extends `Transport` |
| `RecursiveDoubling` | `allreduce_recursive_doubling`, likewise |
| `Allreduce` | the abstract specification both implement |
| `Exchange` | the abstract specification of `TcpBootstrap::exchange` |
| `Bootstrap` | `TcpBootstrap` and the exchanges a `Communicator` makes; implements `Exchange` |
| `EndpointInfo` | `encode_endpoint_info` and `decode_endpoint_info` as bytes |
| `VerbsDevice` | the constructor of `Device`: adapter, port and GID index |
| `Communicator` | the constructor and `barrier`, with the queue pairs' walk to RTS; built on `VerbsDevice`, `Exchange` and `EndpointInfo` |
| `BenchSweep` | the size sweep of the two benchmarks |
| `AllreduceRingInv`, `RecursiveDoublingInv`, `BootstrapInv`, `CommunicatorInv` | the inductive invariants |
| `ChunkLemmas`, `ChunkingProofs` | proofs about chunks |
| `TransportLemmas` | what the transport calls and the adapter do to queues, for both allreduces |
| `AllreduceRingProofs`, `AllreduceRingValues` | proofs about the ring: queue discipline; messages and values, memory, synchronisation, refinement |
| `RecursiveDoublingProofs` | proofs about recursive doubling and the reductions |
| `BootstrapProofs` | proofs about the exchanges over TCP |
| `CommunicatorProofs` | proofs about construction, from the bytes of an endpoint info up |
| `MC*` | instances for TLC |

**Transport.**  `qp[r][p]` is the queue pair of r towards p, `sq` and `rq` its
outstanding requests, `send_cq[r]` and `recv_cq[r]` the completions r has not
polled, one queue for all peers as in `communicator.hpp`.  `post_send` and
`post_recv` append a request whose length is cut to 32 bits (`SgeLimit` stands
for 2^32 bytes, in elements).  `wait_completion` is the guard `completed` or
`completion_error` on the first entry and `take`; the spinning has no effect and
is no step.  The adapter is not in the repository.  Its actions (`Deliver`,
`LengthError`, `Complete`, `RetryExceeded`, `FlushSend`, `FlushRecv`) are what
`queue_pair.cc` configures: a message waits without limit for a receive
(`rnr_retry` 7), one longer than its receive is refused and breaks the queue
pair, a silent peer is given up on (`retry_cnt` 7), a broken queue pair is
flushed.  Memory is element by element, so where a message lands is modelled.
`destroy` is the destruction of a `Communicator`.

**AllreduceRing.**  The program counter stops where another process or adapter
can be observed: before each post and at each wait.  `Call` is the caller's
refill and the argument checks, `WaitRecv` includes the size check's success,
`reduce_inplace` and the loop control, `Throw` every exception, `Exit` what the
callers do with one, `Finish` a caller that leaves after its last call.  The two
loops are one set of actions; `send_index` and `recv_index` tell them apart.
The reduction `Op` and the contributions `Input` are parameters.  A rank calls
with the same arguments every time, and the arguments of the ranks need not
agree: `Calls` is the set of argument vectors.  `scratch_capacity_elems` is what
the buffer behind `scratch_mr` really has, as with every caller in the
repository.

**RecursiveDoubling.**  The same structure, without empty chunks to skip: a
count of 0 sends empty messages.  `Work` is what a rank does as long as it calls,
`Finish` the end of `main` in `bench_allreduce.cc`, right after the last call.

**TransportCalls, Allgather, Broadcast, PingPong.**  These functions only loop
over transport calls, with arguments that do not depend on what arrives.  So
each is an operator that gives, for a rank and its arguments, the sequence of
records (`PostRecv`, `PostSend`, `WaitSend`, `WaitRecv`, ...) it goes through, in
the code's order.  Sizes are computed modulo `SizeLimit`, which stands for 2^64
bytes.  `WaitRecv(n)` carries the length that `byte_len` is compared with, before
the cut to 32 bits.

**CollectiveSequence.**  A rank takes the calls of its program one by one.  `Call`
is the argument check, after which `todo` holds the transport calls; one action
per kind of record executes the first (`DoPostRecv`, `DoPostSend`, `DoWaitSend`,
`DoWaitRecv`, `DoFill`, `DoMemcmp`, `DoBarrier`), `Throw` is every exception and
`Leave` the end of `main`, which destroys the queue pairs.  A call's element is
tagged with rank, call and index, so that data of another call or place is told
apart.  Here the adapter also knows the length of the registered region, which
`broadcast` never looks at and a wrapped product gets past: a send that would read
outside fails (`SendProtectionError`), a message that would be placed outside is
refused (`RecvProtectionError`).

**Bootstrap.**  Process 0 is the root.  `Listen`, `Accept`, `ReadRank` are its
constructor, `Connect`, `Refused`, `Announce` the others'; `Submit`, `Send`,
`Recv` an exchange on a rank, `Gather`, `GatherRecv`, `Reflect` on the root.  A
stream carries items (a u32 or an entry) and holds `SockBuf` of them, so senders
block.  `rank_of` may be wrong (`Launches`), `Fail` is an exception from a
socket, `Crash` the death of a process.  Sending to a closed connection may
succeed or fail; reading past its end fails.  The first exchange carries one
info per peer, later ones are empty: barriers.

**Exchange.**  `Enter` submits, `Leave` returns once everybody has entered, with
what was addressed to the process.  `Bootstrap` implements it by the mapping of
`entered` and `outgoing` to `submitted`.

**Communicator.**  `OpenDevice` is the `Device` every caller constructs first: from
the machine's adapters (`host`) it takes the first, its first active port and on
Ethernet the first RoCE v2 entry of the port's GID table, or the process is gone
before it has joined anything.  `Construct` is the first loop (create, INIT, draw a PSN, build
the endpoint info), which nobody else can observe, and the beginning of the
exchange; `Exchanged` its end; `ConnectRtr` and `ConnectRts` one queue pair each
of the second loop, in the order of the peers; `Barrier`, `BarrierReturns`,
`Send`, `Sent` what a caller does next.  `Throw` is a failing verbs call, a failing
exchange or a failed send.  A queue pair is the record of the attributes that
tell connections apart.  `draw` is what the random generator gives, `QpNumber` what
`ibv_create_qp` does: the numbers of one adapter differ, those of two may
coincide.  Two ranks are on different machines, with different addresses, or share
one, as the four of the integration test do, and then have different numbers
(`FabricAssumption`).  The adapters (`Arrive`, `Dropped`) take a message at the
queue pair that address and number name, if it is ready and expects the sequence
number, and otherwise send it again, `retry_cnt` times.

**Allreduce.**  A rank leaves its k-th call with the reduction of everybody's
k-th contribution, not before everybody has entered it (`Safe`), and is let out
again (`Spec`).  The ring is shown to implement `Spec`; recursive doubling, whose
run also has ranks that do not agree and so do not return, `Safe`, with
`AllReturn` for the rest.

**BenchSweep.**  The loop over sizes, with the skip of sizes below one element.
What is measured for a size is one step: the calls in it are the subject of the
modules above.

## 3. Runs

Definitions whose comment begins with "Bug" are plausible mistakes in the code.
Each property is broken by putting one of them in the place of the definition
it is named after (`PROJECT.json`, "mutants").

| run | instance | shows |
|---|---|---|
| `chunking` | totals to 13, up to 6 chunks | `Tiling`, `Balanced`, and that the loop computes the closed form |
| `ring_agree` | 3 ranks, 2 calls, counts 0, 1, 2, 4, 5 | agreeing ranks: right results, no exception, no DMA conflict, one request each way, data stable while it is sent and after the return, every call returns, `Allreduce` implemented |
| `ring_faults` | 3 ranks, 2 calls, counts 2, 3, 4, 5, 10 mixed or not, short buffers, chunks of 4 truncated, leaving at once after the last call | `RingInv`, `FullyReduced`, `FailsEverywhere`, `MemorySafe`, `OnlyLastAllgatherFails`, `AllStop` |
| `ring_empty_chunk` | 2 ranks, counts 1 and 2 | finding: `LoudOrCorrect` is violated |
| `rec_doubling` | 4 ranks, 2 calls, counts 0 and 1 mixed or not, short buffers, integers of 3 bits, leaving at once after the last call or later | results equal the serial ones (`MatchesSerial`), no exception while all stay and afterwards in the last call's sends only (`OnlyLastCallThrows`), one request each way, nobody has a result without agreement, every agreed call returns or is left (`AllReturn`), `Allreduce` implemented |
| `rec_doubling_nan` | 2 ranks, float Min, one NaN | finding: `SameAnswer` is violated |
| `bootstrap` | 3 processes, every launch with one rank 0, 3 exchanges, sockets of one item, one death | `BarrierSync`, `WrongLaunchIsLoud`, `AllLeave`, `DeathIsNoticed`, `ImplementsExchange` |
| `bootstrap_reachable` | 3 processes | finding: `ConstructedMeansAllJoined` is violated |
| `communicator` | 3 ranks on InfiniBand or RoCE or on one host, ports of different number and MTU, GID tables that differ, ranks without a usable device, PSNs all equal or all different, one failure, a message before or after the barrier | `Connected`, `BarrierConnects`, `NoStray`, `NotLostAfterBarrier`, `SameWire`, `AllOver` |
| `device_first` | 2 ranks, one with two adapters | finding: `PicksActiveDevice` is violated |
| `sequence` | 3 ranks, every program of two calls, and of three calls and a barrier; disagreeing, wrapping, cut and illegal arguments; two rounds of ping-pong of equal and of different sizes | `RightWhereReturned`, `AllgatherNeedsAll`, `BroadcastTaken`, `NeverThrows`, `AllStop` |
| `sweep` | smallest sizes 0, 1 and 8 bytes, largest 2^28 | finding: `SweepEnds` is violated, by smallest size 0 only |

*Values.*  In the ring runs a value is the sequence of the contributions it was
reduced from and `Op` is concatenation, the most general reduction: a
contribution lost, repeated, misplaced, of another round or in another order
makes another value.  Recursive doubling folds in a different order on each
rank: its values are the bag of the contributions together with the Sum, Min and
Max `reduce_ops.cc` computes over them as `int32_t` (of 3 bits: `Half` = 4, so that
most partial sums overflow).  That these reductions commute and associate, overflow
included, is `IntOrderIrrelevant`, which TLC evaluates over all triples and
`IntegersTheorem` proves for every width.

*Bounds.*  Three ranks are the least for which predecessor and successor differ
and both phases have two steps; two calls let one rank run ahead into the next.
The counts of `ring_agree` cover nothing to do, one and two empty chunks, and
both remainders; those of `ring_faults` have an empty chunk and one that
the 32-bit length cuts to nothing, and its three ranks let a failure of the last
call pass from one neighbour to the next.  Four ranks give recursive doubling two
steps with different partners.  In `bootstrap` three processes and three
exchanges let a fast rank submit twice while the root serves the other, and
sockets of one item make every send block.  In `communicator` three ranks give
each two queue pairs, so that numbers coincide between ranks and loops have a
middle; equal PSNs are the worst case for a stray message, different ones with
three significant bytes for a wrong conversion; one retransmission is enough for
a peer to become ready in time or not.  In `sequence` three calls let a rank be
two ahead of another, and every order of the two collectives and of the roots
occurs; three ranks give the root of a broadcast a peer after the one that leaves.
A region of 6 elements, a 32-bit limit of 4 and a `size_t` limit of 16 make 3 * 6
wrap below the region and 5 and 6 lose their upper bits; every rank takes its size
from 1, 2, 5 and 6 on its own.

*Deadlock* is checked in `ring_agree`, where all ranks can finish, and in `sweep`.
It is not in the runs with failures: a rank whose predecessor has left polls its
receive queue for ever, which README.md says of the library ("a crashed peer
manifests as a hang or a completion error"), and the root waits in `accept` for a
rank that has given up or found no device.  There the liveness properties say who
must stop.  It is not checked in `chunking` and the other violation runs, which
just end.

*Fairness.*  A rank keeps running until it returns or throws: it spins or works,
never waits on a lock.  An adapter eventually does what it can do for a pair of
ranks, which is what a reliable connection is.  A bootstrap process keeps
running; the kernel delivers.  A communicator keeps running, and its adapter
transmits or gives up.  The benchmark's loop keeps running.  All of it is weak
fairness.  When a rank leaves `main` is up to its program: `Finish` of
recursive doubling is not fair, so that `AllReturn` also speaks of ranks that stay.

*What the run of recursive doubling says about leaving.*  `bench_allreduce` ends
after its last call with no barrier.  A rank that has returned from that call has
heard of everybody, so all have entered it; but its partner of any step may still
wait for an acknowledgement, which is lost with the queue pair, and throws at the
wait for its send (line 61).  When that happens in an early step, the partner never
posts the receives of the later ones, and the ranks that were to send to it throw
in turn.  Nobody is left polling (`AllReturn`), no earlier call is touched, and a
rank that gets past the wait for its send always has its partner's data
(`OnlyLastCallThrows`).

*What the sequence run says about leaving.*  A barrier before the end is enough
for ranks that agree never to see an exception.  Without one (the integration test
ends with an `allgather`, the ping-pong with a `send`) the last acknowledgement can
go down with the receiver: the sender throws although all data has arrived.  In a
broadcast this has a consequence: the root throws before it has served the peers
after that receiver, and these poll for ever (`Abandoned`, the exception in
`AllStop`).

*What it says about sizes 4 GiB apart.*  `ibv_sge.length` is cut to 32 bits and
`byte_len` reports what was sent, so that a root's broadcast of 4 GiB and one
element fits a receive of one element, and both return.  `BroadcastTaken` therefore
has the premise `LengthsTell`: the ranks agree, or no size is cut.  An allgather
needs it between two ranks only.  Among three or more, the rank with the larger size
finds one element where it expects more in its first step, and takes no part in the
second, without which nobody returns; the run has such sizes in it.

## 4. Findings

1. `ring_empty_chunk`.  `test/integration_mismatched_scratch.cc` relies on the
   size check "on every receive" when ranks disagree on the size.  A rank skips
   the receive of an empty chunk and the check with it; the message then meets
   the next receive, whose size it may have.  With counts 1 and 2 rank 0 returns
   its peer's element 1 as the reduction of element 0.
2. `rec_doubling_nan`.  `std::min(dst, src)` keeps `dst` when the two do not
   compare.  With a NaN the ranks of recursive doubling end with different data.
   The ring does not: there every element is reduced in one order and copied.
3. `bootstrap_reachable`.  The comment in `communicator.cc` that constructing
   the bootstrap blocks until every rank has joined holds on rank 0 only.  The
   exchange that follows is what synchronises, and `BarrierSync` shows it does.
4. `device_first`.  `device.hpp` says that an empty name picks "the first device
   with an active port"; the constructor takes the first device and throws when it
   has no active port, though the second one may.
5. `sweep`.  With `--min-size 0` both benchmarks double 0 for ever, in the branch
   that skips a "size smaller than one element".
6. `ring_agree`.  `transport.hpp` says that the ring allreduce "pipelines sends",
   unsignaled, and drains completions in bulk, and calls it a collective "with
   pipelining".  `allreduce_ring` posts every send signaled and waits for it in the
   same step.  This one is shown by a property that holds: by `OneOutstanding` a
   rank never has more than one send posted or unpolled.  The comment describes
   what `wait_completion`, which tells no two completions apart, would not survive.

## 5. Proofs

All theorems are for every value of the constants: any number of ranks, any
counts, rounds, reductions, and any failure the model has.

**Chunks** (`ChunkingProofs`).  `TilingTheorem`, `BalancedTheorem`,
`ClosedFormTheorem`, from the loop invariant `LoopInv`: the entries pushed are the
closed form and `offset` is the closed form of the next one.

**The ring, queues** (`AllreduceRingProofs`).  `TypeCorrect` and
`OneOutstandingTheorem`, from `Discipline`, which says for each rank, by its
program counter, which request or completion its queues hold.  `OneOutstanding`
alone is not inductive: that a post finds the queues empty depends on the waits of
the step before.

**The ring, values** (`AllreduceRingValues`).  `RingInvariant` and
`FullyReducedTheorem`.  `RingInv` adds to `Discipline`, for ranks that agree on
count (`Paired` also for ranks that do not but have no empty chunk: it needs only
that neighbours skip the same positions, `SameSkips`),

- `Paired`: the two loops are one sequence of 2(P - 1) positions, and as long as a
  rank and its successor can talk, the first has sent the message of position g of
  round k exactly if the other has received it.  So a delivery always matches one
  position of one round, although a rank may be a call ahead and empty chunks are
  skipped;
- `Arrivals`, `Whole`: what has landed has the expected length, cut to 32 bits, and
  a rank gets past a position only if nothing was cut;
- `Values`: element e of chunk c at rank r, at distance D from c, is r's input
  before position D, the fold of D + 1 contributions after it, and the whole
  reduction from position P - 1 + D on.

`FullyReduced` is the last position's case, kept as a conjunct because the control
state of a position is gone once the call has returned.

**The ring, the rest** (the second part of `AllreduceRingValues`).

- `NoDmaConflictTheorem` and `SendBufferStableTheorem` need only `Discipline`, so
  they hold without agreement: the outstanding send and receive of a rank lie in
  different buffers or in different chunks, and different chunks are disjoint.
- `MemorySafeTheorem`, from `MemoryInv`: every outstanding receive fits its buffer
  (`ReceivesFit`), whatever the peer sends, because the adapter refuses what is
  longer.  `ResultStableTheorem` uses the same invariant.
- `CollectiveSyncTheorem`, from `SyncInv`: chunk 0 is empty only if the count is 0.
  Its partial reduction reaches rank r at position r - 1, after ranks 0 to r - 1
  have entered the call, and its result at position P - 1 + r, after all have; so
  one chunk carries the argument around the ring.
- `FailsEverywhereTheorem`, from `SizesInv`.  A rank cannot get past position h
  unless its predecessor got past h - 1, which needs the one before to get past
  h - 2, and so on (`Passed`): every step of that cone must have had legal arguments
  and the length its receiver expected (`Fit`).  A rank that returned has passed the
  whole cone, so every neighbour agrees with it on every chunk (`FitsPredecessor`,
  `FitsAround`), and ranks whose chunks agree have one count (`ChunksTellCount`).
  `Fit` has the truncation of lengths to 32 bits in it: a chunk of exactly 4 GiB
  goes out as nothing, and its receiver throws.
- `NeverThrowsTheorem`, from `Healthy`: no queue pair of agreeing ranks breaks.
- `OnlyLastAllgatherFailsTheorem`, from `Leaving`, about ranks that go one after the
  other.  A rank is healthy, has given up on a send (`BrokenOf`), has thrown or has
  left (`StageOf`); nothing else happens to it, because only the queue pair to its
  successor can break.  Who gives up is in the last call, since whoever left first
  had returned from it (`CollectiveSync`), and stands at most one position before
  its successor (`LagOf`); so k ranks from one that finished, it has at most k
  positions left (`LateOf`).  As k < P, what is left is allgather, and the chunk the
  rank has reduced is not among those it may still receive (`BehindOf`,
  `ReducedOf`), although a receive posted before the exception can still be filled
  after it.
- `Refinement`: `Spec /\ SameCount => Promise!Safe`, the safety part of
  `Allreduce`.  Every step of the ring is a step of the promise or leaves what it
  sees alone; the reduction handed out is `FullyReduced`, that everybody has entered
  is `CollectiveSync`, and that the result stays is `ResultStable`.  P > 1 is
  assumed because one rank alone enters and leaves a call in one step, which the
  abstract specification does not have.

**Recursive doubling** (`RecursiveDoublingProofs`).  `DoublingInv` is `Discipline`
together with

- `Paired`: partners at step k of a round have each other's messages exactly as far
  as both have got, which needs that the partners of different steps differ (a rank
  has one queue pair per partner, but one completion queue for all);
- `Heard`: a rank that has passed step k has heard of every rank of its block of
  2^k, and those have entered the call with its count and legal arguments;
- `Values`: after k steps its data is the tree of depth k over its block, in the
  order in which this rank folds it (`Tree`).

From it `OneOutstandingTheorem` (`Discipline` alone), `FailsEverywhereTheorem`,
`OnlyLastCallThrowsTheorem`, `SameAnswerTheorem` and `Refinement`.
`OnlyLastCallThrowsTheorem` needs the invariant `Sound` besides: with agreement no
message is refused, every living rank is healthy or, once somebody has left, about
to see a failed send.  That it then is in the last call comes from `Heard`: who has
left had passed every step of that call, so that all had entered it.  Two
hypotheses came out of the proof attempts and are part of the statements:

- `Commutes(V)`: the trees of two ranks are mirror images, so equal answers need a
  reduction that commutes on the values that occur.  It is not decoration: with NaN
  it fails, and so does `SameAnswer` (finding 2).  `SameIntegerTheorem` shows that
  the `int32_t` reductions have it, whatever overflows (`IntegersTheorem`);
  `SameFloatTheorem` that float Min and Max have it without NaN and with zeros of
  one sign.
- `LengthsTell`: the ranks agree, or every count is below the 4 GiB a length can
  hold.  Beyond, counts that are 4 GiB apart look alike to `byte_len`, and the rank
  with the smaller one returns; the first version of `FailsEverywhere`, without this
  premise, is false for such counts.

**The bootstrap** (`BootstrapProofs`).  `BarrierSync` says that whoever has left an
exchange finds everybody entered.  It is far from inductive: that the root may
reflect depends on what it has read, and what a rank reads depends on all that was
written to its socket before.  `Inv` therefore describes the streams.  What one
exchange sends in either direction is a fixed sequence of items that depends on the
ranks only (`UpItems`, `TabItems`, `DownItems`), and a stream always holds a
segment of it:

- `PeerControl`, `PeerDown`, `RootGather`, `RootReflect`: how far each process has
  written and read within its exchange;
- `UpStream`, `DownStream`: a process is at most one exchange away from the root,
  and what lies between them is the segment from what one has read to what the
  other has written;
- `Filed`, `Connected`, `Distinct`, `Announced`: every connection the root has filed
  belongs to the process that announced the rank, and there is one for each rank;
- `Sync`: `BarrierSync` itself, with the counts of the root.

From it `ExchangeIsABarrier` (`BarrierSync`) and `WrongLaunchNeverReturns`
(`WrongLaunchIsLoud`): when two processes are launched with one rank or a rank is
out of range, the root, which needs P - 1 different ranks from P - 1 processes, can
never have filed all (`AllFiled`), a counting argument over the injection from ranks
to processes.  `BootstrapImplementsExchange` proves the refinement of `Exchange`:
the items a rank has read are the answers addressed to it, because each pair of
source and destination occurs once in the root's table (`TableLookup`,
`AddressedAnswer`).  P > 1 is assumed, for the reason given for the ring: a root
alone gathers and reflects in one step.  Deaths, sockets of any size, failing reads
and writes and any number of exchanges are included.

**The communicator** (`CommunicatorProofs`).  No rank sees the state of another
one: it connects its queue pairs with the bytes it was given.  `CommInv` says what
every queue pair holds at every point of the constructor, in terms of the devices
and the draws of the two ranks (`Qps`), what has been submitted and given
(`Exchanges`), that devices are those the machines have (`Devices`), and what can
be said of a message on its way (`Messages`).  Underneath are `DecodeEncode` (the
wire format loses nothing of what fits its fields), the searches of `device.cc`
(`FirstIndex`, `Opened`), and `TwoDevices` (two ranks are on one fabric and differ
in address or number).  From it: `ConnectedTheorem`, `BarrierConnectsTheorem`,
`NoStrayTheorem`, `NotLostAfterBarrierTheorem`, `SameWireTheorem`.  The last three
are about all clusters that `FabricAssumption` admits, any tables of GIDs and any
sequence numbers, equal ones included.

*Assumptions.*  Those stated with the constants, evaluated by TLC for every
instance: P a positive natural; `Span`, `SgeLimit`, `MaxRounds`, `retry_cnt`,
`MaxFailures` naturals; `Calls` argument vectors; `Draws` of 24 bits, as
`generate_psn` masks them; queue pair numbers of 24 bits that one adapter hands
out once; one fabric; launches that give process 0 the rank 0 (somebody has to
listen) and the others any rank; any socket size, number of connection attempts and
deaths.  `Op`, `Input` and `Zero` are arbitrary.

*Only model-checked.*  Liveness (`AllReturn`, `AllStop`, `AllLeave`,
`DeathIsNoticed`, `AllOver`, and the liveness half of the refinement of
`Allreduce`), which is out of the prover's reach.  Induction over data is too, so
the recursive reference reductions are used in the proofs only by their defining
equations, and `MatchesSerial`, which compares a tree with a sum over a set, stays
with TLC.  Not proved: the properties of the sequences of allgather and broadcast,
whose loops are data there (`todo`).

## 6. Not modelled

Float Sum (rounding; the order is fixed by `RingFold` and `TreeFold`), the rkey,
addr and buf_len of endpoint infos, ranks on different fabrics, short
reads and writes within an item (`send_exact` and `recv_exact` loop over them),
failures of system calls at startup, failures of `ibv_post_send` and
`ibv_post_recv`, unsignaled sends (nobody asks for one).

Ranks that disagree on the root of a broadcast, on the collective they call or on
the reduction: no message carries either, nothing in the code or its documentation
claims that they are noticed, and so there is nothing to check.

Moves and destructors of the RAII handles other than the queue pairs: ownership is
a matter of the C++ types.  Parsing of command lines, statistics and output of the
benchmarks and examples, and MPI, which is not part of the library.

## 7. Plan

Done: chunking, reductions, transport, both allreduces, allgather, broadcast and
ping-pong in sequence, the bootstrap, the device and the communicator, the sweep,
the proofs of section 5.  What is left is proof: the queue discipline of the
sequences, by the argument of `Discipline` with what is left of `todo` in place of
the program counter.
