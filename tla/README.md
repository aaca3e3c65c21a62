# OmniWindow: a TLA+ development

OmniWindow divides monitoring windows on a Tofino switch into sub-windows.
While traffic is counted in one copy of a sketch, the switch and a controller
collect and reset the other copy with packets that circulate through the
switch; the controller merges the sub-windows into tumbling or sliding
windows. This directory holds TLA+ modules of that program, the TLC
configurations that check them on small instances, and theorems that TLAPS
checks for every value of the constants.

Paths below are relative to the root of the repository; `host.cpp` and
`switch.p4` without a directory are those of `apps/new-tcp-connections`.
`PROJECT.json` maps each definition to the lines it is translated from.

## 1. Inventory

### The system

```
            traffic                       Ethernet, FIFO (requests)
  trace ---------------> switch (P4) <------------------------------ controller (C++)
                         |  ^    |                                        ^
                         +--+    +--- RDMA WRITE [+ immediate] ---> memory of the
                       mirrored packets      (in order)             controller
```

| Component | State | Operations | Modelled |
|---|---|---|---|
| Switch program, `apps/*/switch.p4` | `reg_epoch`, key buffers and their indices (one per copy), filter and count-min rows (two copies), `reg_reset_idx`, `reg_msg_addr` | one pass of the egress pipeline per packet: traffic, reported key, START, COL, QRY_KEY, RST_START, RST, PUSH | `DataPlane` |
| Controller, tumbling build, `apps/*/host.cpp` | message ring with head and tail, hash table, `keys`, `epochData`, `mergedData`, `curEpoch`, overflow keys | `switchWin`: PUSH, `recvKeys`, requests, `recvKeyVals`, merge, compare, `recvDone`, clear | `Controller` |
| Controller, sliding build (`SLIDING`) | the same with a ring of rows, `valid`, `pin`, `curEpochPos` | the same with subtraction of the oldest row and deletion of absent keys | `SlidingHost` |
| Links: request link, egress mirror, RDMA | requests and mirrored packets under way; written messages; completions | send, mirror, write, complete, lose | `Wire` |
| Control script, `apps/*/switch.py` | `tab_addr`, `tab_rdma`, sequence number and message address | handshake with the controller, initialisation of tables and registers | `StartUp` |
| Query superspreader | as new-tcp-connections, and a distinct filter | as above, with the flag `RST_DISTINCT` | `Superspreader` |
| The other six queries | as above, with other filters, keys and values of one to three lanes | as above | protocol: `CollectReset`; controllers: `QueryHost` and one module each |
| `include/HashTable.hpp` | key to position | `addKey`, `delKey` | in `SlidingHost` and `QueryHost` |
| `lib/RDMA.cpp` | context, memory region, queues, posted receives | constructor, `destroy`, `postRecv`, `pollCQ` | `StartUp`; the effect of a write, in `Wire` |
| `lib/dpdk_toolchain_cpp.cpp`, `include/DataCol.hpp` | transmit buffers | `getPacket`, `flush`, `sendReq` | transmit side: `TxQueue` |
| `include/NetworkStream.hpp` | socket | `connect`, `writeAll`, `readChar`, close | `StartUp` |
| `Exp-1` (simulated queries) | per scheme: reduce and distinct operators, window cursor | `process`, `switchWin`, `getResultRaw`, `collapseResultAll` | `Simulation`, `Reduce`, `Distinct` |
| `Exp-2` (sketches) | sketches in four window schemes, heavy hitters, tracked keys | `insert`, `query`, `scan`, merge of sub-windows | `Sketches`: six sketches |
| `Exp-dc` (collection experiments) | outstanding batches, expected index, end of collection; stored keys and cells of the switch | request loops, seven switch programs | `Collection` |
| `tools/trace.cpp` | none | replays a capture | no; `Traffic` stands for it |

### How the parts interact

`switchWin` (host.cpp 225-411) is one call per sub-window.

1. It sends PUSH. The switch answers with DONE, behind the reports (KEY) of the
   keys that found the key buffer full. The controller inserts those keys and
   prepares a query for each.
2. It sends START, `nReq - 1` COL, the queries, RST_START and `nReq - 1` RST.
   START increments `reg_epoch`: from now on traffic uses the other copy. START
   and each COL become a chain: a mirrored packet that takes one key of the
   closed copy per pass, and reports it with its count.
3. The packet that takes the last key turns into a second RST_START; other
   chains turn into RST. `reg_reset_idx` counts the two RST_START. Only after
   both do the RST chains get cells to clear. The chain that clears cell 0
   writes DONE ("every value has been sent") and the one that clears the last
   cell writes DONE ("the copy is clear").
4. The controller merges after the first DONE and returns after the second.

A value goes to the message ring (KEYVAL, without immediate data), or, for keys
of the switch's address table and for queried keys, directly to the place of the
key in the controller's memory. Only DONE raises a completion, whose immediate
data says how far the ring has been written.

### What is hard here

* Chains, two RST_START and traffic interleave; nothing but `reg_reset_idx` and
  the order on the link separates collecting from resetting.
* All packets compute the copy they work on from `reg_epoch` when they pass,
  not when they were created.
* Addresses are written to after they were made (`tab_addr` before the first
  window, queries before the requests), while the sliding controller gives up
  and reuses positions.
* The ring, the epoch (8 bits) and the counters (16 bits) wrap.
* Requests are UDP datagrams, mirrored packets may be dropped, and nothing is
  retransmitted; no wait has a timeout.
* The distinct filter outlives a sub-window: it is cleared by packets of the
  last sub-window of a window, in one copy, while traffic uses the other.
* Requests wait in a batch of packet buffers, which the device gives back late
  and whose allocation may fail.
* The controllers keep values in lanes of 16 and 32 bits, add and compare whole
  vectors, and look for keys that are left with nothing; some comparisons are
  unsigned, some look at free positions too.
* Controller and script wait for each other in turn on one connection, which
  either side may leave: a missing input file, a failed verbs call. The script
  outlives controllers, and the switch outlives both.
* In Exp-dc the answer to one particular query lets the next batch go, and the
  answers to two particular queries end the collection.
* In Exp-1 a pair that is seen again moves from one slide of the window to
  another, after parts of the window have been added up.
* The row of a sliding window is computed twice, on the switch from
  `reg_epoch`, on the controller from `curEpochPos`; only initial values keep
  them in step.

### What makes each part correct

* Switch: a copy that is given to traffic is clear; counters of the open
  sub-window count exactly its packets; a key is reported once.
* Protocol: nothing is cleared before all is read; the two DONE tell the truth;
  there is no third.
* Controller: what it merges is what the sketch held when the sub-window was
  closed; each message is of the kind it expects; `switchWin` returns.
* Distinct queries: a pair is counted once in a sub-window, and no new pair is
  missed because of marks that should be gone.
* Transmit queue: requests leave in order, each once; no buffer is written to
  while it waits to be sent; what is flushed leaves.
* Sliding window: each reported window is the sum of the last `nEpoch`
  sub-windows; addresses stay right; the table does not leak positions.
* Query controllers: the keys reported are those that the query asks for on exact
  sums: in a `SLIDING` build, of the window; in the other, of all sub-windows since
  the start, as nothing clears `mergedData` there (see `tumbling` below). A free
  position is clear for its next key.
* Start-up: once the script says it is done, tables, sequence number and message
  address are those of this controller; RDMA objects are given back in an order
  that works, wherever the constructor failed; nobody waits for ever.
* Exp-1: the ideal sliding scheme is what its name says, and the others differ
  from it only by when they collect. Exp-2: estimates stay on the promised side of
  what they estimate, window after window, and nothing of an earlier window is left
  in a sketch or a list that is used again. Exp-dc: a collection that ends has
  fetched everything once, paced as intended.

`PROJECT.json` lists the hazards at their lines, with the properties that cover
them, or the reason why none does.

## 2. Modules

| Module | Content |
|---|---|
| `Wire` | the request link (`hostQ`), controller memory written by RDMA (`msgBuf`, `epochData`) and completions (`cq`) |
| `DataPlane` | the switch: one action for each kind of packet, with its whole pass of the egress pipeline |
| `Controller` | the tumbling `switchWin`, cut where it waits |
| `OmniWindow` | the composition, with traffic, loss and history variables |
| `OmniWindowInvariant` | why switch and controller stay in step: the inductive invariant, in named parts |
| `OmniWindow_proofs` | `InStep`, its first half, is inductive; six consequences and the refinement of `CollectReset`, proved. Then `Accounts`, its second half; what is merged is exact; the refinement of `SubWindows`, proved |
| `MCOmniWindow` | hash functions and one invariant for TLC |
| `SubWindows` | abstract: a counter per key that is cut into sub-windows atomically; refined by `OmniWindow` |
| `CollectReset` | the collect-and-reset protocol as counts of packets; refined by `OmniWindow` |
| `CollectReset_proofs` | its inductive invariant and three consequences, proved |
| `Superspreader` | `OmniWindow` with the distinct filter of superspreader and the flag that clears it |
| `SuperspreaderInvariant` | why no pair is missed or counted twice: the part of the inductive invariant about the filter and the flag |
| `Superspreader_proofs` | that it is inductive beside `InStep`; five consequences, proved |
| `MCSuperspreader` | pairs and hash functions for TLC |
| `SlidingHost` | the sliding controller and the switch's writes to its rows |
| `SlidingWindow` | abstract: exact counts and a window that slides over them; refined by `SlidingHost` |
| `MCSlidingHost` | the position of the hot key, for TLC |
| `SlidingHost_proofs` | its inductive invariant, four consequences and its refinement of `SlidingWindow`, proved |
| `Sums`, `Sums_proofs` | the sum of a function's values, and what may be done with it |
| `TxQueue` | `DataCol::sendReq` and the transmit queue below it, with the driver and the device |
| `RequestLink` | abstract: a FIFO; refined by `TxQueue` |
| `TxQueue_proofs` | its inductive invariant, two consequences and the refinement of `RequestLink`, proved |
| `QueryState`, `QueryHost` | what the controllers of seven queries do alike, in both builds |
| `SynFloodHost`, `CompletedFlowHost`, `SlowlorisHost`, `SuperspreaderHost`, `DdosHost`, `PortScanHost`, `SshBruteHost` | one controller each: its lanes, arithmetic, comparison, and which keys it pins |
| `MCQueries` | the seven, one at a time |
| `QueryInvariant` | why they report what they should: the inductive invariant, over the values of the query that runs |
| `MCQueries_proofs` | that it is inductive for the seven in both builds; four consequences, proved |
| `Reduce`, `Distinct`, `Simulation` | Exp-1: its operators, its queries and its six window schemes |
| `Sketches` | Exp-2: six sketches under four window schemes |
| `Collection` | Exp-dc: seven ways to collect or reset a window's state |
| `CollectionInvariant` | why a collection ends with everything fetched: the inductive invariant |
| `StartUp` | the handshake of controller and script, and the life of the RDMA objects |
| `Experiments_proofs` | inductive invariant and correctness of `StartUp` and of `Collection`, proved |
| `MCExperiments` | `Simulation`, `Sketches`, `Collection` and `StartUp`, one at a time |

### Correspondence with the code

**Wire and DataPlane.** An action is one packet passing the egress pipeline:
the stateful registers of a Tofino stage are updated atomically, packet after
packet, so a pass is one step. `hostQ` is the link from the controller, served
in order; `mirrorQ` the packets that the egress mirrors to itself. They are
separate queues of one port, served in any order. The mirror session sends a
packet to the port of the controller's requests, where it competes with them.
A sketch row is a function on copies and cells; the hash functions are the
constants `BfX`, `BfY`, `CmX`, `CmY`, so any pattern of collisions can be
chosen. Headers, checksums, RDMA sequence numbers and the invariant CRC are left
out. The index of a reset packet that has no cell is `NDATA`, which is cut to
cell 0 where the register index is cut (`switch.p4` 575-579): the model cuts it
in the same place.

**Controller.** `pc` names the point where `switchWin` waits. The steps between
two waits touch only the controller's own memory, or append to the link, so they
are one action. `Merge` is separate from `RecvKeyValsDone`: the switch may write
between reading the last value and merging. `epochData` and `mergedData` are
indexed by key, as no position is given up in this build.

**OmniWindow.** `Traffic(k)` is a packet of the replayed trace. `Quiesced` is
the replay of README.md (271-273): an operator injects a sub-window's packets,
then triggers the controller. With `Quiesced = FALSE`, traffic never pauses.
`seen`, `newKeys`, `closed`, `window` and `switches` are history variables which
no guard of the program reads; `seen` and `switches` carry the bounds.

**CollectReset.** No keys, values or cells: how many packets of each kind are on
the link and in the ring, how many keys are left, `resetIdx`, and unread DONEs.
Keys that are left and queries are chosen nondeterministically, so that the
module stands for all eight applications, whose protocol is the same; it is
mapped to `apps/slowloris-attack`, the example of README.md (351-358).
`FollowsProtocol` says that each step of `OmniWindow` is a step of it. `Lose`
is part of it.

**Superspreader.** A packet of a pair (source, destination) marks the distinct
filter, and goes on as a packet of its source if a mark was missing
(superspreader/switch.p4 581-640): `PairPacket` is `Traffic` behind that
condition. The flag `RST_DISTINCT` is a field of the request, kept by every
packet mirrored from it (`Again` in `DataPlane`), hence by the reset packets that
a COL turns into. `ResetPairs` is `Reset` and the two cells of the filter. The
filter, like the sketch, has a copy for each parity of the epoch. `pairs`,
`known` and `closedPairs` are history variables. PUSH passes as a reset packet
too: with the flag it clears cell 0 of the copy of epoch - 1, before START.

**TxQueue.** `sendReq` is cut where the driver and the device can step in
between: `SendReq` (getPacket decides whether to flush), `TxBurst` (one
`rte_eth_tx_burst`), `Refill` (the rest of flush), `WriteRequest`. The driver
takes as many packets as it likes of those that fit, after giving some
transmitted buffers back to the pool. An allocation fails when the pool is
empty; a request written to nullptr leads to `crashed`. Requests are their
numbers in the order of `sendReq`. Before the first place of the batch is used
there is always a buffer there, because the constructor throws if it gets none.

**SlidingHost.** Values arrive as the switch sends them: a sub-window's counts
`c` and its overflowing keys `over` are chosen when `switchWin` begins, and each
key is then delivered once, in any order, over the path that the code uses for
it: KEY and then an answered query (`RecvKey`, `AnswerQuery`), a direct write
(`WriteHotKey`), or KEYVAL (`RecvKeyVal`). That the switch does deliver each key
once with its count is what `OmniWindow` checks. `Merge` is the whole of merge,
compare, subtract, find-del and delete (host.cpp 254-309).

**QueryHost.** The seven controllers are copies of one program that differ in
lanes, arithmetic, comparison and pinning; these are parameters, and each
`*Host` module instantiates `QueryHost` with what its own file has, so that a
difference between two copies is a difference between two modules (`ValidOnly`,
`RespectsPin`, `HotKeys`). `sliding` says which build runs. A loop that reads
messages up to a DONE is one action, because `OmniWindow` shows that completions
name DONEs only. A step inserts the whole set of reported keys; which position
each gets is open, as it depends on their order and on the free list of
`rte_hash`. `Width16` and `Width32` are the widths of the lanes, scaled down but
kept, so a sum that wraps and a negative difference that is compared unsigned do
what they do in the code. `Vanished` is the test of find-del; slowloris-attack
reads the number of connections in it as 16 bits of a lane of 32.

The reference for `ReportsExact` is `Suspect` on exact sums, and it is not in
every respect what README.md asks for. `Total` adds up what `Remembered` keeps: in
a `SLIDING` build the sub-windows of the window, in the other one *all sub-windows
since the start*, because the program does so; that it should not is the finding
of the run `tumbling`, which compares with the window. And `Suspect` of syn-flood
and completed-flow is true of negative differences (`FloodedOrNegative`,
`UnfinishedOrNegative`), which the controllers report and Exp-1 does not. What
`ReportsExact` says is that no value is lost, doubled or given to another key
on its way from the switch to the comparison.

**Simulation.** The six threads of `evaluate` share nothing but the read-only
trace, so one step reads a packet in all of them. `Turns` is the loop that
closes windows, with the last window that stops it. `Reduce` has the exact maps
and the count-min rows, `Distinct` the exact sets and the bloom filter; in
`Simulation` the hash is injective, as the comparison with the reference is
about windows and not about collisions. The reference (`ExactSum`) is written
on the trace, not on the state. A map of the program is a function on the keys
that it holds: the queries loop over the keys of one map and look the others up,
so a key that is held with value 0, or erased (Reduce.hpp 133), differs from one
that never came. syn_flood.cpp (29) loops over the SYNs, so a host without any is
not reported, however many SYN-ACKs it sends.

**Sketches.** A step is a packet or the end of a sub-window. `way` and `kind`
choose one of the programs: `OTW` and `OSW` are the ring of omniWindowSketch.h, read
at the end of each window or, with the condition that is commented out beside it
(55), of each sub-window from the first window on; `TW2` is tumblingWindowSketch.h, `sliding` is
slidingSketch.h. The insertions are folds over the rows, in the order of the code
(in SuMax and HashPipe a row depends on the one above it). The hash is a constant
with collisions in every row. In the ring each sketch lists its heavy hitters
when its sub-window ends; `TW2` lists them at the end of a window only, and never
clears the list. `Cleared` and `Fresh` are what makes a sketch and a list ready for
their next sub-window. `EstimatesCover` is `NeverBelow` and `SlidingCovers`,
about flow sizes; `FindsRight` is `NoFalseHitter`, `MajorityFound` and `JoinExact`,
about heavy hitters and joined sketches. The flow sizes and heavy hitters of the DataProfiler
(`TrueSize`, `heavy`) are the reference, as in the program.

**Collection.** One module for the seven pairs of host and switch program: the
state is shared, the requests and the egress are an operator each. The mirror
session, the requests and the answers are FIFOs. Counters hold nothing but
whether they are zero. The operator resets the switch and plays the trace before
a collection (`InjectTrace`), then presses Enter (`Begin*`). `Junk` is what lies
behind the end of the key buffer, which `cpc` reads when it has fewer than two
batches of keys.

**StartUp.** `"query"` is the controller of a query, `"exp"` an RDMA host of
Exp-dc, which posts its receives later and whose script has no key exchange. Each
verbs call of the constructor may fail; `destroy` then runs on what there is.
`writeAll` writes as much as the socket takes, any number of times. The script's
`recv` waits for a whole field, or returns what there is when the peer has left.
The script's first state has stale table entries and numbers from an earlier
run. `Message` is what traffic does afterwards: the NIC takes only the sequence
number it expects.

`curEpochPos` has no initialiser in the code (host.cpp 93). The object is
allocated in fresh pages, hence it starts at 0 in the model, as it must to be in
step with `reg_epoch`.

Definitions that a comment calls a *variant with a fault* are not used by any
specification. Each is the form that a plausible error in the code would give to
the definition that follows it; they record which property notices which error.

## 3. Runs

All bounds are constants of the configurations.

| Run | Question | Properties | Bounds |
|---|---|---|---|
| `replay` | Does a sub-window reach the controller intact, and does `switchWin` return? | `MergeExact`, `CollectBeforeReset`, `HostAsserts`, `CompletionsNameDone`, `SwitchWinReturns` | 3 keys on 2 cells with collisions in filter and sketch, buffer of 1 key, ring of 7 slots, 3 sub-windows, 1 packet per key and sub-window |
| `continuous` | Do traffic and the reset of the other copy stay apart? Is the whole an atomically cut counter? | `ActiveSketchExact`, `CleanSwitch`, `AtomicSubWindows` | 2 keys without collision, traffic that never pauses, buffer large enough |
| `lossy` | What can a lost packet do? | `IInv` (with `TypeOK`), `CutsAtomically`, `FollowsProtocol` | any loss, 2 sub-windows |
| `protocol` | Does the protocol separate collecting from resetting? | `IInv`, `CollectedBeforeReset`, `DonesTellTheTruth`, `StartsAfterReset` | 2 cells, 2 keys, 2 chains, 2 queries, 2 stray packets |
| `sliding` | Is each report that of an exact sliding window? | `IInv`, `AddressesRight`, `TableAgrees`, `RowsExact`, `OnlyLiveKeys`, `SlidesExactly` | 1 hot key, 2 others, 3 positions, 3 sub-windows per window in a ring of 4 rows, any number of sub-windows |
| `distinct` | Is the distinct filter cleared when and where it should be, under traffic that never pauses? | `NoPairTwice`, `NoPairMissed`, `MergedDistinct` | 3 pairs of 2 sources, two of them sharing a cell of one row, 3 cells, windows of 2 sub-windows, 3 switch-overs, 4 counted packets |
| `distinct_replay` | Is a source that comes in several pairs, while the buffer is full, reported once and queried? | `ReportedOnce` | the same, with a buffer of 1 key and traffic that pauses |
| `transmit` | Is the sending of requests the FIFO that the other modules presume? | `IInv`, `OwnedOnce`, `InOrder`, `FlushedIsSent` | batch of 2, driver of 3 packets, 5 buffers, 5 requests |
| `queries` | Does each query's controller report the keys its query asks for on exact sums (of the window with `SLIDING`, of all since the start without), and keep addresses and positions right? | `TypeOK`, `ReportsExact`, `AddressesRight`, `FreeIsClear` | seven queries, both builds, 2 keys (one of them in the input file), 2 positions, windows of 2 sub-windows in a ring of 3 rows, values from 2 or 3 samples; any number of sub-windows with `SLIDING`, sums up to 4 without |
| `experiments` | Do the simulation, the sketches, the collections and the start-up do what they are for? Is each sketch and list of a ring clear for its next window? | `ISWExact`, `SchemesAgree`, `EstimatesCover`, `FindsRight`, `CollectionCorrect`, `StartUpCorrect`, `EverythingEnds` | Exp-1: 4 packets within 7 units of time, windows of 3 slides; Exp-2: 3 flows, 2 rows of 3 counters, packets of length 1 or 2, windows of 3 sub-windows, 6 sub-windows, 7 packets; Exp-dc: 2 keys stored in the switch, up to 11 keys, batches of 2, 3 cells, 2 collections; start-up: 2 input keys, 2 receives, 4 messages |
| `overflow` | Does each message have the kind that the controller asserts, if traffic goes on? | `HostAsserts` (violated) | as `replay`, traffic not paused |
| `tumbling` | Does a second tumbling window start from zero? | `WindowExact` (violated) | as `replay`, 1 sub-window per window |

Why the bounds are enough to be of interest. Two chains (`NReq = 2`) are the
least with which one can turn into RST while the other still holds the last key,
and with which two RSTs compete for cells. Two cells are the least for which the
first and the last cell differ. A buffer of one key and three keys give
buffered, overflowing and, by collision in the filter, missed keys together. The
ring of 7 slots wraps within three sub-windows; the epoch comes to 3 of
`EpochMod = 4` there and wraps in `sliding` only. `sliding` has no bound on the number of sub-windows:
its state is finite, and the epoch, rows and positions wrap and are reused any
number of times. `MaxPkts`, `MaxCount` and `MaxSwitch` are the only bounds that
cut behaviours; `MaxStray` cuts how many packets of earlier switches may still
be under way in `protocol`, and the theorems hold for every value of it.

In `distinct` three switch-overs give each copy of the filter a sub-window and
one of them a second, which is the least that shows a mark that should be gone.
In `transmit` five buffers are exactly `TxDesc + Batch`, the least that the
assumption allows, so the pool runs empty; with one buffer fewer flush would
meet a failed allocation. `MaxReqs` cuts behaviours; five requests fill the
batch and the driver together.

In `queries`, two positions for two keys make every position be given up and
taken by the other key. One key in the input file and one that is not make both
paths of a value meet. The scaled widths (16 and 256) are larger than any exact
sum, so that nothing but a negative difference wraps. In `experiments`, eleven
keys with two in the switch and batches of two are four batches and a half: the
least that shows a batch that is released by the answer to an earlier one, and
a last batch that is not full. Windows of three slides and seven units of time
make a pair move within a window, leave it, and come back. The programs of
`experiments` share no state; one module runs them one at a time. For Exp-2, six
sub-windows are two whole windows: each sketch of the ring, the sketch of `TW2` and
each list serve twice, and with `OSW` four windows overlap. Three sub-windows are
the least with which the window is longer than the two that the sliding scan
covers. A trace of seven packets puts two in one of the six sub-windows.

The runs `lossy` and `protocol` do not check deadlock: after a lost packet the
controller waits for ever, as the code does. Nor does `transmit`, where the
controller may have nothing more to send, nor `queries` and `experiments`, where
builds without `SLIDING` and all experiments stop at the bound on their input and
a program may end. In the other passing runs nothing
deadlocks.

### Fairness

`FairSpec` of `OmniWindow` has weak fairness of `FromHost` and `FromMirror` (the
egress port of the switch serves both of its queues) and of
`Receive \/ MergeSubWindow` (the controller's thread polls in a loop and runs
while it has something to handle). Nothing makes traffic arrive or the operator
ask for a sub-window. `SwitchWinReturns` holds under it without loss: every
chain ends, both RST_START come, and three completions are raised. No liveness
is claimed with loss, because the code has neither timeout nor retry.

`FairSpec` of `TxQueue` has weak fairness of the sending thread while it is
inside `sendReq`, with bursts that take at least one packet when one fits
(flush loops until all are taken), and of the device, which transmits what the
driver holds. Nothing makes the controller send.

`EverythingEnds` has two parts. `CollectionFairness`: the switch serves both of
its queues, the NIC and the host poll; the operator owes nothing. With `ow` and
`ow-rdma` the property asks for a key that the switch had no room for, because
the host waits for the answer to a last query of its own. `StartUpFairness`: the
two threads go on while they can, also through a failed call; the operator, who
starts and ends the controller, and the traffic owe nothing. `StartUpEnds` asks
for a controller that was started and an input file that opens.

### Two disagreements

* `overflow`. README.md (273) suggests replacing the manual trigger by a timer.
  Packets then come during `switchWin`. One that overflows the buffer of the
  *new* sub-window is reported at once, and its KEY lands in the ring where
  `recvKeyVals` or `recvDone` (host.cpp 169, 183) assert another kind. PUSH
  flushes only the reports ahead of it.
* `tumbling`. Nothing clears `mergedData` when a window ends: from the second
  window of a run on, the comparison (host.cpp 343-352) sees the counts of all
  windows so far, while README.md (5, 39) describes tumbling windows merged from
  their own sub-windows.

### Seen while reading

* `fscanf(f, "%x%*u", ..)` returns at most 1, but `insKeys` of
  slowloris-attack (429), syn-flood and completed-flow compares it with 2: no
  input key is inserted there. The model does the same (`HotKeys <- {}`).
* syn-flood (host.cpp 273) compares an `int` with an unsigned threshold, and
  completed-flow uses `cmpge_epu32`: a key with a negative difference is reported. The simulated queries of Exp-1 (`apps/syn_flood.cpp`,
  `apps/completed_flow.cpp`) compare `int32_t`. `Suspect` follows the controller.
* `mergedData` of syn-flood and completed-flow has lanes of 16 bits: a sum of more
  than 65535 in a window wraps. The run does not reach the (scaled) width.
* Exp-dc `ow` and `ow-rdma` wait for ever if the trace has no more keys than the
  switch stores: the answer to the last query never comes. `cpc` with fewer than
  two batches of keys reads beyond its key buffer; the next collection then finds
  a stale answer and throws "key mismatch".
* `scan` of `Exp-2/include/sl-cm.h` does not set its column cursor back for the
  next row. Only the first row is aged, by every second scan, so that the estimate
  covers the last two or three sub-windows, while slidingSketch.h (47-49) compares it
  with a window of `MEASURE_POINT`. `SlidingCovers` states what it covers. The
  scans of the sliding linear counting and HyperLogLog never advance to another
  row; a sliding SuMax with such a scan underestimates.
* In a `SLIDING` build of a distinct query, and in the `OSW` scheme of Exp-1, the
  distinct filter is cleared only at the end of an aligned window: between two
  such ends the window slides and the filter does not. `SchemesAgree` says where
  `OSW` is exact.
* superspreader/switch.py (47) sends its last byte before it sets the RDMA table
  and clears the registers (as do the others). An operator who waits for
  "Initialization done." (README.md 258) is safe, and `Message` presumes that.
* If the input file cannot be opened, `insKeys` returns and the script waits for a
  number of keys that never comes, until the controller ends.
* ssh-brute/switch.py (41-45) cuts the bytes of a key at the wrong places; it has
  no effect as long as no key is sent.
* The script does not clear `reg_store_idx`: after an unfinished collection, keys
  of an earlier run are still in the buffer.
* A key that is twice in the input file makes `add_with_addr_tab_hit` raise in the
  script; `StartUp` presumes distinct keys.
* find-del of slowloris-attack (303) and syn-flood (290) ignores `pin`. It has
  no effect as long as no key is pinned (see above); with a hot key it is the
  variant `FoundDelAll`, which breaks `AddressesRight`.
* With windows of an even number of sub-windows the last sub-window always has
  the same parity, so only one copy of the distinct filter is ever cleared: in
  the other one, the pairs of all windows stay marked. Two copies also mean that
  a pair may be counted twice in a window, once for each parity. The README does
  not say what the filter should hold, so no property does.
* superspreader/switch.py (56-65) clears the sketches but not `reg_dbf_x` and
  `reg_dbf_y`; the model starts with a switch program that was just loaded.
* After a failed allocation in flush, the places of the batch behind the
  nullptr keep buffers that were already sent. The theorem below says why the
  controllers do not come there.
* The packet with which `tools/trace.cpp` notices a new window is not sent.

## 4. Proofs

The theorems hold for every value of the constants that satisfies the `ASSUME`s
of the module: `CollectResetAssumption` (at least two cells, at least one chain),
`SlidingHostAssumption` (distinct positions of the hot keys; the ring divides
the range of the epoch; a window is no longer than the ring),
`TxQueueAssumption` (as many buffers as descriptors and places of the batch
together), those of `Wire`, `DataPlane`, `Controller` and `OmniWindow` (at least two
cells, an even range of the epoch, hash functions into the cells; hot keys are
input keys), `QueryAssumption` (finitely many keys and a position for each; a window no longer
than the ring) and `StartUpAssumption` (the input keys are a finite sequence without
duplicates; at least one receive). TLC evaluates the assumptions in the runs. The
modules that `MCExperiments` instantiates name what they assume of their
constants in definitions of their own, which `MCExperiments` assumes.

**`CollectReset_proofs`** proves `Spec => []IInv`, and from it
`CollectedBeforeReset`, `DonesTellTheTruth` and `StartsAfterReset`, with losses.
None of the three is inductive. `CollectedBeforeReset` alone does not survive
RST_START, as nothing says that the *other* RST_START implies that all was
taken. `IInv` treats the two as tokens (`Tokens`): each exists at most once, and
the one in the ring only when no key is left and START has passed. It states
what their meeting place `reg_reset_idx` says about them: `Waiting`, `Halfway`,
`Running`, `Over`. `InOrder` is what the FIFO link contributes: a START, COL or
query on the link is ahead of the controller's RST_START. The proof has one
lemma for each action and, in each, one step for each conjunct of `IInv`.

**`SlidingHost_proofs`** proves `Spec => []IInv`, `AddressesRight`,
`TableAgrees`, `RowsExact`, `OnlyLiveKeys` and that `SlidingHost` implements
`SlidingWindow` (`SlidesExactly`). `IInv` has two halves. `Addressing` is
inductive alone. The three things that make addresses right are conjuncts of
it: `Pinning` (hot keys keep their position, because find-del excludes
`pin`), `QueriesRight` (no query outlives the sub-window whose row it names)
and `InStep` (the row the switch works out from its epoch and `curEpochPos`
agree, the switch one epoch ahead between `SendRequests` and `RecvDone`). The
last is arithmetic modulo two numbers of which one divides the other: the lemmas
`RemainderUnique`, `EpochModIsRows`, `RowOfNextEpoch` and `RowAfterSwitchRow`.
`Untaken` (a position never taken is clear) is what lets `Merge` never compare or
delete a position without a key.

`Counting` says what the rows hold. Seen from `curEpochPos` the i-th last
sub-window lies i rows back (`RowBack`), and these rows are all different
(`RowsApart`); the last `NEpoch - 1` of them add up to `mergedData`
(`MergedIsWindow`) and the rest are clear (`UnusedIsClear`), but for the one
being filled and, between `Merge` and `RecvDone`, the oldest. A position that is
free is clear in the window and in the row being filled (`FreeIsClear`), so a key
that takes it inherits nothing; this follows from `del`, which frees what has sum
0, since a sum of naturals is 0 only if each term is (`ZerosOfTotal`).
`Collected` says that a key whose value is not on its way has it in its place
(`Held`). At `Merge` the rows are counted one further back, so that the sum gains
the row just filled and loses the oldest (`MergeAddsUp`, by `ShiftTotal` and
`LeaveOutZeros`), and what `added` compares is the abstract window
(`MergeSeesWindow`). In the refinement `SwitchWin` closes a sub-window, `Merge`
slides, and all else changes nothing: `RecvKey` gives a place to a key whose
place was clear, and `RecvDone` clears a row that is no longer in the window.

**`Sums_proofs`** is what that rests on: `Total(g)`, which is `MapThenSumSet` of
the community modules over the domain of `g`, does not depend on the order in
which the set is folded (`AnyOrder`), and splits, grows, shifts and is renamed as
sums are. The library's induction theorems take an operator as a parameter, which
the installed provers do not instantiate; `NaturalInduction` and
`SubsetInduction` are instead about a set of numbers and a set of sets, and come
from the library's well-founded orderings, which are first-order facts
(`WFMin`, `NatLessThanWellFounded`, `FS_StrictSubsetOrderingWellFounded`).

**`TxQueue_proofs`** proves `Spec => []IInv`, `OwnedOnce` and `NeverNull`.
`NeverNull` is the reason for the assumption: in the code the pool has `NB_MBUF`
= 16384 buffers (dpdk_toolchain.h 46), and `DataCol` (84-86) asks for 8192
descriptors and a batch of 32. The argument counts buffers. The batch, the pool,
the driver and the transmitted packets partition the pool's buffers
(`OwnedOnce`); the driver holds no more than its descriptors (`DriverFits`); so
what is left when flush refills is at least what it sent (`EnoughInPool`). Then
no allocation fails, no place of the batch is nullptr, and flush replaces exactly
what it sent (`RefillToIsSize`). `OwnedOnce` is not inductive without the count: a
failed allocation would leave a sent buffer in the batch.

It also proves that `TxQueue` implements `RequestLink` (`SentInOrder`): what
waits there is what the driver holds followed by the part of the batch that is
not yet sent, so `TxBurst` and `Refill` are stutters, the device takes the head,
and `WriteRequest` appends (`PlaceInLine`, `SameSeq`).

**`OmniWindow_proofs`** proves `Spec => []InStep` with traffic and with losses,
and from it `TypeOK`, `CollectBeforeReset`, `HostAsserts`,
`CompletionsNameDone`, `ReportedOnce` and `CleanSwitch`. None of them is
inductive, because each is about one place and is kept by what is elsewhere.
`InStep` says what each place holds and ties it to the phase of `switchWin`:

* `RingOK`: seen from `msgHead`, the unread slots reach to `reg_msg_addr`
  (`Behind`), what the controller knows of ends before that, and the completions
  name DONEs among the rest, in order. All offsets are modulo the ring; the
  lemmas `DistOfNext`, `SendMsgKeepsRing` and `NextMsgKeepsRing` carry them
  around its end.
* `RequestsInOrder`, `MirrorOK`, `PushAwaited`: on the link what collects is
  ahead of the one RST_START; at most one RST_START is mirrored; the controller
  waits for the PUSH that is under way.
* `BuffersOK`, `Marked`, `ReportsOK`: a key is stored once, the filter knows the
  keys found new, and a report is of a key that has no place in the buffer.
* `Stage(d)`: with d DONEs sent since START, the copy is being collected, being
  reset up to `resetIdx`, or clear. `PhaseOK` says which stages and which
  messages each `pc` may meet: values then a DONE while it collects, one DONE
  while it merges, and nothing between two calls. This is the argument that the
  barrier in `reg_reset_idx` is enough.

The hypothesis `Fits` is about sizes: the ring has more slots than a sub-window
can have messages, and traffic pauses or no key overflows. The code has 2^21
slots (host.cpp 55, 57), at most 2^17 keys and a buffer of 2^14 (switch.p4
20-24), so the first part holds by a wide margin; without the second the run
`overflow` finds `HostAsserts` violated. With a ring of three slots TLC finds
`InStep` violated, so the first part is needed too. Collisions, buffer overflow
in the replay, wrapping of ring, epoch and counters and any loss are in.

`FollowsCollectReset` is the refinement of the data-free protocol (`Protocol`
in `OmniWindow`): `Counts` turns a queue into numbers, and the lemmas from
`NumberOfConcat` to `CountsOfAppend` say what a step of a queue does to them.
One lemma for each action shows the step it maps to (`CollectMaps`,
`ResetMaps`, `BeginMaps`, ...) with `InStep` for what the step finds: that the
request at the head has nothing of `Before` behind it, that START meets the copy
that `left` will count, and that the DONEs in the ring are those the protocol
has counted (`UnreadDonesIs`). Three facts that `InStep` does not need are added,
as `PacketsRight`: a query is behind the COLs of its call (`QueriesLast`); a key
is asked for once, so that there are at most as many queries as keys
(`AskedOnce`, from `ReportsOK`); and each of the `2 * NReq` packets of a call that go
round does so as one packet, so that what is left of earlier calls is bounded by
their number (`FewPackets`), which is what `MaxStray` of `CollectReset` asks.

Its second part adds `Accounts`, with the hypothesis `Delivered`: no key
overflows or nothing is lost, as a lost report or query of an overflowing
key goes unnoticed in the code. `KeysAccounted` says where each new key without
a place in the buffer is known from: a report on the mirror, a message, the
controller's list, a query on the link. `SlotsKnown` says that a slot that may
hold a value is among those that `switchWin` clears, for which the hot keys of
the switch must be input keys of the controller (switch.py 39-45 takes them from
the controller, which has inserted them; it is an assumption of `OmniWindow`). `ValuesRight` follows each value
from the closed sketch to its slot. `IInv` is both halves; `MergesExactly` follows.

`CountsExactly` says what a counter of the open sub-window is when keys share it and
when it wraps: the packets of all keys of its cell, modulo its width
(`ActiveSketchExact`, by `ReplaceOne` of `Sums_proofs` and `NextRemainder`).
Nothing of a reset, or of an earlier sub-window, is in it. This needs `Fits` only.

`NeverUnderestimates` and `SubWindowsAreAtomic` are about the sketch of the open
sub-window. While no counter is at its last value (`RoomToCount`, an assumption
on the behaviour: 65535 packets of one cell in one sub-window), a counter is
never below the packets of its key. If also every key has one cell of its own in
the sketch and one in the filter (`NoCollision`), each step of the whole system
is a step of `SubWindows`: traffic is an arrival, the START that changes
`reg_epoch` cuts, `Merge` adds, all else is invisible. The safety part of that
refinement is `CutsAtomically`; its liveness, in `AtomicSubWindows`, is checked by
`continuous`.

**`Superspreader_proofs`** proves what the distinct filter promises. `PairSpec`
puts a filter before the pipeline and a flag into the packets; the proofs of
`OmniWindow_proofs` are about each action of
`DataPlane` and `Controller` and are cited here action by action, which is why
the packets of `DataPlane` may carry the flag there too. What is new is
`PairsInStep`:

* `NoPairTwice` itself: a reset packet clears cells of the closed copy only, and
  START empties `pairs` when it hands the copies over.
* `FlagsInOrder`: the controller sets the flag in the last sub-window of a window
  (`Oph`), and a packet with another flag than it sets now is left of an earlier
  sub-window. It is a reset packet, and in its queue the START, or once that is
  gone a packet that has still to lead to the reset, is behind it. So when the
  reset begins no such packet is left, and each packet of the reset carries the flag that
  START carried.
* `CollectsAhead`: the collect packet that takes the last key turns into a
  RST_START at the end of the queue, so the other collect packets are ahead of it.
* `MarksKnown`: a mark was made by a pair seen since the reset of its copy was asked for
  (`known`), or it is in the closed copy and the flagged reset has still to come
  to its cell (`Pending`). The copy that START gives to the traffic has no pending
  cell, as `InStep` says that START finds the reset done.

`NoPairCountedTwice` needs only `Fits`. `NoNewPairMissed` also needs
`NoPairCollision`: each pair has a cell of its own in one of the two rows, so
that the filter has no false positives; the code's filter, with 2^16 cells a row,
does not promise that. `DistinctMerged` follows the counters with `Accounts` and
the two halves of `NeverUnderestimates`: the count of a source is between its
pairs that the copy had not seen and all of them (`PairsCounted`). The bounds
differ because a flagged reset packet that finds no cell left, such as the PUSH,
clears cell 0, so that a pair marked there may be counted though its copy has
seen it.

**`MCQueries_proofs`** proves `Spec => []TypeOK` and `AddressesRight` for the
seven controllers in both builds, and `FreeIsClear` and `ReportsExact` under the
hypothesis `Fits`: the sums kept (of a window with `SLIDING`, up to `MaxTotal`
without) fit in the lanes, so that nothing but a negative difference wraps. Without it a sum of more than 65535 is not
reported right (see section 3). The keys, the positions, the ring, the window,
`Threshold` and the widths are any; what a key may have in a sub-window is one of
the values of `Samples`, at most 2 in a lane, or nothing.

The seven programs are first brought to one form in which only the values, the
comparison (`Abnormal`), the positions compared (`Compared`) and those that may
be given up (`Deletable`) depend on the query (`SynFloodStep` to
`SshBruteStep`): a slip in one of the copies would show here. `Structure` is
inductive without `Fits`: the table, `keys` and `valid` agree and a hot key keeps its
position (`TableRight`); a query's place stays its key's while it is under way
(`QueriesRight`); what is not yet known is in `unsent` (`ToCome`). `UnusedClear`
is there because five of the programs compare every position and not only the
valid ones: one that was never used would otherwise be reported as the key that
is none. `Exact` says what a position holds: row by row, counted back from
`curEpochPos`, the values of the last sub-windows (`RowsRight`), in `mergedData`
their sum lane by lane (`MergedRight`), and nothing where no key is
(`FreeRight`), since find-del gives up exactly the positions whose sum is zero in
every lane (`NothingLeft`). `MergeAdds` is the heart: the row just filled comes
in, with `SLIDING` the row of `NEpoch` ago goes out, and the sum is what the
reference gets by folding the values it remembers (`RememberedSum`).

**`Experiments_proofs`**, first part, proves `StartUpSpec => []IInv` and from it `StartUpCorrect`,
for any input keys and any number of receives. `StartUpAgrees` says nothing
until both sides are ready; what makes it true happens long before. While the controller has not begun to end
(`Live`) the two threads are in step: what the script has read of a message and
what is on its way is what the controller has written (`Under`, with the lemmas
`UnderGrows` for a short write and `UnderShrinks` for a read), so each byte of
the script answers one whole message (`Introducing`, `SendingKeys`), and each
call of the script settles one part of the agreement (`SwitchSet`). `Receiving`
says why it stays: before the script is done no message can move the sequence
number that the NIC expects. The other half, `Holding`, follows the constructor
object by object (`Prefix`), so that `destroy` is right wherever it starts.

Its second part proves `CollectionSpec => []CollectionCorrect`: for any key
count, batch size `M`, number of stored keys `NKeysDp`, number of COL packets and
collections, each at least one, and at least two cells (`START` of reset-ow
leaves the index at cell 0, so with a single cell it would answer twice; the code
has 65536). Nothing else is assumed (`CollectionAssumption`). `CollectsEverything` speaks of a collection that ended,
so the invariant (`CollectionInv`) says for each scheme what a collection under
way still owes:

* ow, ow-rdma (`OwRight`). Stored and queried keys are each collected in turn
  (`Stored`, `Queried`): the first `s` of one kind and `q` of the other have
  arrived, those up to `Room - Left` and `p` are answers on their way, those up to
  `Sent` are requests (`OnTheWay`). `Carries` numbers the keys of a queue in which
  the two kinds are interleaved in any way; `CarriesAppend`, `CarriesTail` and
  `CarriesConcat` are what an egress, a receive and a batch do to it, and
  `CarriesCount` turns it into the number of queries in `TwoBatches`. `StoredRight`
  is why the many COL packets in the mirror session do not matter: whichever of
  them passes next carries the key that is next. The host ends when it has seen
  the two last keys, though not necessarily last; `Counted` says that by then
  nothing else is missing, since each kind arrives in order (`Awaited`, `OwEnded`),
  and, with RDMA, that the completion read last counts every key. `Paced` is the
  arithmetic of `nextInject`.
* cpc, cpc-rdma (`CpcRight`). Received, answers and requests are one row of
  numbers that ends at `Asked`, which depends only on how many were received
  (`InLine`). With fewer than two batches of keys (`TooMany`) what was read from
  behind the key buffer stays in the queues after the end, and the next collection
  throws on it: it is the one exception in
  `CollectsEverything`.
* dpc, dpc-rdma, reset (`DpcRight`, `ResetRight`). A collect packet left in the
  mirror session by the collection before finds no cell until `START` sets
  the index back (`Idle`, `NotStarted`); from then on cells received, cells on
  their way and the next cell are in a row (`CellsGiven`), and a cell that was
  passed is zero.

Only model-checked:

* liveness under fairness (`SwitchWinReturns`, `FlushedIsSent`, the fair half of
  `AtomicSubWindows`, `EverythingEnds`);
* `ISWExact`, `SchemesAgree` `EstimatesCover` and `FindsRight`, which are
  about folds and sums over data of any length.

## 5. Not modelled

* The switch programs of the six other queries: their sketches hold two or three
  values and their filters other pairs. Their protocol is `CollectReset`, their
  distinct filter that of `Superspreader` over other pairs and keys, and
  `QueryHost` is given what they report, as any value.
* The receive queue of the DPDK toolchain, which only `Exp-dc` reads (there it is
  a FIFO), and the set-up of devices, ports and mirror sessions.
* `tools/trace.cpp`: it replays a capture, and `Traffic` stands for it.
* A full message ring (tail equal to head) looks empty. The ring has 2^21 slots;
  the model gives it room, as the code presumes.
* The `PROC_OVERLAP` build, which no target of `apps/CMakeLists.txt` selects.
* Dumps and timing output; a failed socket call, which ends the process.
* Of `Exp-2`: the superspreader sketches (SpreadSketch, VectorBF), loss detection
  (LossRadar, MRBP, CUSketch), and the sliding versions of all sketches but
  count-min, which share its defective scan (see section 3). The floating-point
  formulas that turn bitmaps and ranks into a number: the model compares the
  bitmaps themselves.

## 6. Plan

The order puts the behaviour that everything else rests on first.

1. *Done.* `Wire`, `DataPlane`, `Controller`, `OmniWindow`: a sub-window from
   traffic to merge. `SubWindows` and `CollectReset` as abstractions.
2. *Done.* `CollectReset_proofs`.
3. *Done.* `SlidingHost`, `SlidingWindow`, `Sums`, `SlidingHost_proofs`,
   `Sums_proofs`.
4. *Done.* The distinct filter: `Superspreader`.
5. *Done.* The transmit queue: `TxQueue`, `RequestLink`, `TxQueue_proofs`.
6. *Done.* The collections of `Exp-dc`: `Collection`.
7. *Done.* `Exp-1`: `Reduce`, `Distinct` and `Simulation`, against the queries on
   the trace; `Exp-2`: `Sketches`.
8. *Done.* The start-up, with a second session on a switch that was not loaded
   anew: `StartUp`, `Experiments_proofs`. The controllers of the queries with several values:
   `QueryHost` and its instances.
9. *Done.* The inductive invariant of `OmniWindow` and its refinement of
   `SubWindows`: `OmniWindowInvariant`, `OmniWindow_proofs`. The refinement of `RequestLink` by `TxQueue`, and of
   `CollectReset` by `OmniWindow`.
10. *Done.* The proofs of the distinct filter: `SuperspreaderInvariant`,
   `Superspreader_proofs`.
11. *Done.* The proofs of the seven controllers: `QueryInvariant`,
   `MCQueries_proofs`.
12. *Done.* The proofs of `Collection`: `CollectionInvariant`,
   `Experiments_proofs`.
