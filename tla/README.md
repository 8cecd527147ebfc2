# Verification of the golem control plane

The repository is a simulator of a many-core RISC-V chip with compute-in-memory
arrays. Its own code is the `golem` element library
(`src/src/sst/elements/golem`) and the DMA bridge it adds to the memory nodes
(`src/src/sst/elements/memHierarchy/memNIC*`). Most of that code is control:
queues, credits, retries, wake-ups and hand-shakes between components that run
as clock and event handlers and interleave freely. This directory holds TLA+
models of that control, the TLC configurations that check them, and proofs that
TLAPS checks.

Each handler runs to completion in the simulator, so a handler is the unit of
atomicity. What interleaves is handlers of different components, messages on
links, self-link events, and the software on the cores. Data (tile contents,
addresses, statistics) is abstracted to what the properties tell apart.

## The system

| Part | Source | State that matters | Talks to |
|---|---|---|---|
| GroupCtrl, grants | `groupctrl/groupctrl.cc`, worker software in `tests/small/mvm_noc_int_array/` | mailbox words, pending queue, cursor, per-node counters, slots | worker software, peer endpoints over FIFO links |
| GroupCtrl, shared K/V | `groupctrl/groupctrl.cc` 551-1109 | slots, epochs, subscriptions, acknowledgements | GlobalMemory, attention workers |
| GlobalMemory, DMA reads | `globalmemory/globalmemory.cc` | pending bursts, issue window, send retry queue, landings, local access queue, contexts, tokens, generation fence | memory nodes over the network, local storage, every DMA client |
| GlobalMemory, DMA writes, control and remote accesses | same | pending writes, completions, request table | memory nodes, peers |
| Memory-node DMA bridge | `memHierarchy/memNICBase.h`, `memNIC.cc` | ingress queue, credits, coalesced reads, K/V cache, response queue, clock on/off | GlobalMemory, memory controller |
| RequestScheduler | `requestscheduler/requestscheduler.cc` | window transactions, worker rings, node credits, per-cycle budgets | GlobalMemory, worker mailboxes |
| Attention cluster primitives | `attention/attentionCluster.h` | score FIFO, output accumulator, context table, generation fence | the RoCC accelerator |
| RoCC attention and tensor jobs | `rocc/roccAnalog.h` | manager and worker job state, K/V prefetch, QK/softmax/PV stages | peers over the control transport, GlobalMemory, SFU |
| WorkerCommandProcessor | `workercmdproc/workercmdproc.h` | task lists, windows and buffers, C buffer, tile pipeline, write-back tokens | RequestScheduler, GlobalMemory, arrays |
| SFU | `sfu/sfu.cc` | job queue and numeric kernels | RoCC |
| Arrays | `array/` | one latency event per array | RoCC |

What makes them hard: requests and completions that cross on links; time-outs
that race a late reply; bursts given up while others of the same transfer land;
queues that refuse work when full, so that progress depends on a re-armed event;
a generation cancelled while its replies are in the network; a clock that is
turned off when a handler believes nothing is left to do. `PROJECT.json` lists
these hazards with the line where each one bites and the property that covers
it, or why none does yet.

## Modules

| Module | What it is |
|---|---|
| `NodeAdmission` | abstract specification: who may read from a memory node, and when the group is done |
| `GrantArbiter` | the grant protocol of GroupCtrl |
| `GrantArbiterTypes` | typing of `GrantArbiter`, its inductive invariant, frame lemmas |
| `GrantArbiterWorker`, `GrantArbiterManager` | the workers' and the manager's steps preserve their parts of the invariant |
| `GrantArbiterSteps` | every step preserves the whole invariant and is a step of `NodeAdmission` |
| `GrantArbiterProofs` | the theorems |
| `DmaRead` | the host-to-local DMA reads of GlobalMemory with the generation fence |
| `DmaEngine` | the whole DMA engine: the reads of `DmaRead` and the writes, which share its queues, events and generations |
| `MemNicBridge` | the DMA bridge of a memory node: credits, K/V coalescing and cache, response order, clock |
| `RequestScheduler` | the request scheduler of a group: window transactions and mailbox at the workers, queues, credits and issue policies at the manager |
| `WindowEngine` | the tile pipeline of a worker command processor: windows of k, reuse, prefetching, partial sums |
| `AttentionManager` | attention jobs at the manager cores and in their software |
| `AttentionCluster` | the QK and PV workers of these jobs, composed with `AttentionManager`: job queues, P windows, assignment, the V cache and its broadcast |
| `MCGrantArbiter`, `MCDmaEngine`, `MCMemNicBridge`, `MCRequestScheduler`, `MCWindowEngine`, `MCAttentionCluster` | values of the constants for TLC |

### GrantArbiter

Three parties: the worker's software writes the mailbox (`PublishRequest`,
`PublishDone`, `PublishFinished`, from `group_ctrl_runtime.h` and
`gemm_matmul_op_ctrl.h`); the worker endpoint's clock handler moves the mailbox
to the link (`WorkerTick`, from `tick`) and copies answers back (`HandleRsp`);
the manager endpoint handles REQUEST, DONE and FINISHED (`HandleRequest`,
`HandleDone`, `HandleFinished`, from `handleReq`). `trySchedule` is a loop within
a handler. Its iterations are the steps `ScheduleOne` and `ScheduleEnd`; while
`pass` says that the loop runs, the manager takes no other step, so the handler
is still uninterrupted for the manager while others may move.

Abstractions: the words of a mailbox are read and written together, because
`REQ_VALID` is written last and read first; the grant window is kept only as the
coarse flag it sets; the K/V messages that share the links are not in this model;
sequence numbers do not wrap (the code uses them far below their width).
`AllDone` is the stuttering of a kernel that has returned on every core, so
deadlock is checked.

### DmaRead and DmaEngine

One core's engine. A transfer is a number of bursts, a burst a number of local
writes ("pieces").

| Action | Code |
|---|---|
| `Submit` | `dma_read_from_host_to_globalmem` and its `_async` form |
| `RetryTick` | the retry self-link event: `process_dma_read_retries`, `issue_pending_dma_read_window` |
| `HandleSendAvailable` | `handle_send_available`, flushing `send_retry_queue` |
| `ReceiveReply` | DMA_READ_COMPLETE in `handleDmaReceives`, up to the first local write |
| `LocalWriteDone` | `handleLocalAccessEvent` for a landing write |
| `LandingRetry` | the landing retry event |
| `OtherAccess`, `OtherDone` | the other users of the shared local access queue |
| `BeginGeneration`, `RetireGeneration`, `CancelGeneration` | the attention generation calls |

Abstractions: a READ or reply that is lost is one that never takes
`ReceiveReply`, so loss needs no action of its own; duplicates arise from
re-sends (`net` counts READs). `send_retry_queue` is a set, as each burst has at
most one READ in it. A READ flushed in the middle of a retry pass may in the code
already have had its timer decremented in that pass; the model gives it a full
timer. Completion callbacks do not re-enter the engine within the model: what
they do appears as later steps. Zero-length transfers, which complete at
submission, are left out. `cancelled` is a history variable.

`DmaEngine` adds the writes. `SubmitWrite` is `dma_write_to_host` or the first turn
of the pump of `dma_write_from_globalmem_to_host`, `LocalReadDone` the end of the
pump's local read, `WriteComplete` the handler of DMA_WRITE_COMPLETE with the next
turn of the pump, and `Cancel` is the whole of `cancelAttentionGeneration`. The
entries of `dma_pending` are split by kind, since reads are keyed by request number
and writes by address; `send_retry_queue` is split likewise, and DMA_WRITEs leave it
in any order. A client does not write an address it is still writing (`Settled`), as
none does; then the entry of the same address in `dma_pending` is replaced only
after a cancellation. The completion flag word and the tokens of writes are left out:
a write's token is set where its callback is called.

### MemNicBridge

One memory node. `nic` is a record of the bridge's tables and queues, and each
handler is a composition of functions on it, in the order of the code's calls.

| Definition | Code |
|---|---|
| `RecvRead`, `RecvWrite`, `RecvProgress` | `recvNotify` and `doRecv`: drain responses, take one message, wake the clock if READs wait |
| `Clock` | `MemNIC::clock`: `AdmitIngress`, `Drain`, ordinary traffic, and the decision to turn itself off |
| `AdmitIngress` | `admitGolemDmaIngress`; `MetaPick`, `WindowPick`, `FifoPick` are its three orders |
| `CreateRead` | `createGolemDmaRead`: serve from the cache, join a read under way, or start one |
| `Drain` | `drainGolemDmaResponseQueue` with the order of `DrainPick` |
| `MemoryReply` | `MemNIC::send` for an answer of the memory: `Complete`, then `Respond` |
| `SendPlain` | `MemNIC::send` for ordinary traffic |
| `AgeIngress`, `AgeResponse`, `StarveResponse` | the passing of the collection, multicast and starvation intervals |

Abstractions: a cycle count is an age (young, collected, starved), so the model
allows any lengths of the intervals; how many responses the link takes in a drain
is a free choice; messages of one arrival cycle are ordered by arrival where the
code breaks the tie by request id; a request carries its worker, query tile (or
window), tile and slot as fields where the code packs them in the request id; one
job at a time. `admitted` and `answers` count what was admitted and sent. The
parameters are fields of `conf`, chosen in `Init` from the constant `Configs`, so that
one run covers several configurations.

### RequestScheduler

The worker endpoints and the manager endpoint of a group. A handler is a function
on the record of its endpoint, composed in the order of the code's calls.

| Definition | Code |
|---|---|
| `Submit`, `SubmitTransaction` | `submitWindowTransaction`, `enqueueWindowTiles`, `enqueuePanel` |
| `RetireTile`, `Retire` | `retireTileReady`, `retireTransaction` with its flush of completions |
| `Drop` | the command processor turns to the next window without retiring the last |
| `Publish`, `Complete` | the mailbox software of `tests/small/mvm_noc_int_array/` |
| `WorkerTick` | `tick` of a worker: mailbox, submissions, completions, the wake-up flag |
| `Deliver` | `handleReq`: `EnqueueSubmit`, `RecycleDone` |
| `ManagerTick`, `SendAvailable` | `tryIssue`, node by node (`NodePass`) or worker by worker (`GroupPass`) |
| `Land` | the arrival of a chunk in `globalmemory.cc`, which ends the pending read |

Abstractions: requests and links are FIFO per worker, chunks land in any order; the
network takes any number of sends per call (`room`); identifiers keep the code's
truncation of transaction and tile numbers, to `txnTags` and `tileTags` values in
place of 2^20 and 2^12, so that they wrap in the runs. `own` and `waited` are
history. Memory nodes answer everything; losses are `DmaRead`'s subject. The code takes
identifier 0 for no request; the core of a worker is part of its identifiers and is not
core 0, so the tests for it are left out.

### WindowEngine

One worker command processor and its task list. `wcp` is the record of the
engine's fields; a phase of `tick` is an action (`TickRun`, `TickSavePartial`,
`TickOutput`, `TickWritebackWait`, `TickDone`, `TickIdle`), and so are the callbacks
(`ArrayDone`, `Land`, `CBufferReady`, `WriteAck`). Within a tick the calls of the
code appear as functions in its order: `TryIssue` (`tryIssuePrefetches`, with
`Fill` and `MacroPrefetch` for reuse in both directions), `TryLaunch`, `Advance`
(`advanceAfterWriteback`, `advance2DWindowEngine`).

Abstractions: an operand is its tile's coordinates, and a sum is the bag of products
added, so that "the right result" is a statement about which products were added how
often. The request scheduler appears as the set of panels it still has to read
(`flight`), landing in any order (`Land`: the end of a read in `handle_receives` of
`globalmemory.cc`, in one step). The layout of PV panels, with the only loads that can
fail, is left out. C-buffer latency is a step (`CBufferReady`). A DMA write is
acknowledged at any time (`WriteAck`, `handle_receives` again). The configuration
chooses reuse, window sizes, prefetch depth and output mode; `Accepted` is the check of
`startWindow`.

### AttentionManager and AttentionCluster

`AttentionManager` has the manager cores. `software` is the loop of the guest program
(issue a job per head, then wait for them in order), `job` the entries of
`managerAttentionJobs_`.

| Action | Code |
|---|---|
| `Issue`, `Wait` | `tryIssueManagerAttentionJobCommand`, `tryWaitManagerAttentionJobCommand` |
| `StartRead`, `Dispatch` | `progressManagerAttentionJobs` for one job |
| `ReadReturns` | the callbacks of the descriptor and topology reads, with their checks |
| `ReceiveCompletion`, `ReceiveBand` | `handleManagerAttentionCompletion`, `handleAttentionManagerBandCompletion` |

`AttentionCluster` adds the workers and composes the two over the control messages
(`net`, one FIFO per pair of cores, as `sendControlMessage` gives it). A handler is a
function on the record of its core and collects what it sends.

| Definition | Code |
|---|---|
| `startAttentionWorker`, `finishAttentionWorker`, `startAttentionWorkerClusterQkAhead`, `promoteAttentionWorkerClusterQkAheadForSfu` | the functions of these names: a job is queued, ahead, active or aside |
| `Score` | the tile and completion callbacks of `startAttentionReuseWindowQkBridge`, per macro task of the command processor's list |
| `Begin`, `Form` | `completeAttentionReuseWindowRowTile`: first tile of a window, all its slices |
| `SendP`, `Pump` | `progressAttentionWorker`: `dispatchAttentionReuseWindowPvAggregates` and the end of `pumpAttentionReuseWindowSoftmax` |
| `ReceiveAsk`, `ReceiveRelease`, `ReceiveAllocation` | assignment of row blocks to PV workers by core 0 |
| `ReceivePv`, `PvTick`, `PvWindowDone`, `ReceivePvComplete` | `startAttentionWorkerClusterPv` and its callbacks, and the completion at the QK worker |
| `ReceiveHint`, `ReceiveRequest`, `VLoadDone`, `ReceiveDelivery`, `InstallDone` | V by broadcast: hints, requests at the leader of the head, its load, deliveries with relays, the install |
| `startWindow`, `StartInstall`, `CompleteInstall`, `Victim` | the V cache of the command processor (`workercmdproc.h` 1314-1389, 1472-1567, 4876-5004) |

Abstractions: V is a head and a window; a sum is the sequence of windows added; the
numbers of the softmax are left out, and of its contexts, slices and FIFOs remain the
counts `begun` and `formed` per row block. A QK worker that may inject its next P window
only from some cycle on sends it or does not, in each handler that tries. A worker
outside the cluster configuration ends its job in one step (`EndJob`). A delivery of
several chunks is one message, since chunks keep their order. `bytes` is what the memory
of a cache entry holds, apart from what the entry is valid for. `answers` and `early`
are history. The code prefetches V with two QK workers per manager and not with one;
here `prefetch` is a choice of its own, so that it appears in instances of one QK worker
too. Left out are refused control messages, failed loads and installs of V, and two
reasons to reject a dispatch behind an active job: 1024 queued ones, and numbers of
heads that do not divide, which the manager has checked before. Faults (`faults`) are
descriptors that fail their check, dispatches whose shape is rejected, and failing
worker pipelines.

A job can be lost without any fault: a band completion that reaches the root before its
software has issued the job is dropped (`roccAnalog.h:11035`), and one that comes before
the root has read the descriptor fails the job. `EveryManagerReturns` excepts the root
in just these cases: it documents this loss and does not rule it out. With a fault, the
root waits for ever for the band of a failed manager; `SuccessMeansServed` says that it
never takes that for a success, even when the callback of a read revives a job that had
failed.

V may be read again although a leader has sent it: `resident` is never
cleared, so a window that was evicted counts as ready and the command processor loads it
itself. The result is right (`RowsAccumulate`, configuration `Evict`); the memory traffic
is more than one load per window.

## Runs

| Run | Instance | Shows |
|---|---|---|
| `grant_batches` | two workers with three batches each, two nodes of capacity 1, one grant per pass | typing, exact node accounting, no lost wake-up, no lost request, soundness of GROUP_DONE, that the protocol implements `NodeAdmission`, that the group returns |
| `dma_engine` | five configurations: two transfers with re-sends; a transfer in a generation beside another client of the local queue; two transfers over two generations with a one-place queue; a pumped write of two chunks beside a transfer; two writes to one address over two generations | typing, exact window, exact context count, completion once and truthful for reads and writes, an armed event for all unfinished work, a sound fence, no late write into a cancelled or completed buffer, every callback comes although any reply to a READ may be lost |
| `dma_token` (expected violation) | one two-burst transfer with a token | the token of a transfer whose last burst is given up is never set |
| `bridge_reads` | three K/V READs of one chunk by two workers, one re-sent, and a write; READs of two windows and sizes 1 and 2, by window and by arrival; starvation bounds with one admission and one response per cycle; always two credits | credit conservation, nothing forgotten or answered twice, no lost wake-up, exact bundle counts, an honest cache, older windows first, what has waited too long first, every READ answered |
| `bridge_oneread`, `bridge_uncredited` (expected violations) | two or three K/V READs | see below |
| `windows_lists` | eleven task lists: no reuse, reuse of A, of B and of both; one to three windows; depth one and two; two macro tasks with the second read ahead; an edge macro task | operands of the right tile, exact sums, separate buffers, the next window always queued, a complete and acknowledged list at the end, and that it ends |
| `windows_stale`, `windows_reuse` (expected violations) | one task list each | see below |
| `sched_reads` | seven configurations: both issue policies, one and two workers, panels of one and two chunks, row-major panels with identifiers that wrap, one credit, dropped transactions, the mailbox | every missing byte on its way once, credit conservation, ready means landed, bounded waiting, A before B, everything read in the end |
| `attention_jobs` | nineteen configurations: two managers with a worker each, or one with two, with and without faults; one QK worker with two PV workers, two jobs or two row blocks, static and dynamic assignment, a failing pipeline; three jobs at once; three windows of V on two cache entries, from memory and by broadcast, with and without prefetching; two QK workers sharing PV workers; two or three PV workers that ask for one window, with a relay | success only when every worker succeeded, every dispatch in one place and answered once, windows accumulated in order on the V they name, exact assignment counts, every manager returns |
| `sched_wakeup` (expected violation) | an event-driven worker, two windows, one credit | see below |

Bounds. Contention needs two workers at one node, and a pass that stops early one grant
per pass; two batches per worker let a DONE and the next REQUEST cross, and three let it
happen after a first completed cycle. For DMA reads, two bursts in one transfer let one
be given up while the other lands; a second transfer competes for the window; two pieces
make a landing stall half-way; one re-send produces duplicate replies and give-ups; two
generations let a late local access meet the next one; two writes to one address let an
acknowledgement of the first, cancelled one meet the second. For the bridge, three READs
and two credits make one wait; two READs of a chunk join, the third has another query
tile; a re-sent READ meets its first copy queued, in memory, answered, or gone; worker
255 wraps the eight-bit cursor; sizes 1 and 2 make a bundle wait while another could
pay. For the scheduler, a queue as deep as what the workers can have under way (a
shallower one drops submissions without a word, and the code's default of 64 is not
compared with what the workers submit), panels of two chunks that return to the back of
their queue, and three transactions with two transaction tags. For the window engine,
two by two C tiles are the least with reuse in both directions, three windows the least
in which a partial sum is both loaded and saved, and a second macro task is needed to
read ahead. For the attention cluster, two jobs let one be ahead of, or aside from, the
other, and a third is queued behind the two; three windows and two entries evict; two
row blocks or two QK workers alternate at one PV worker; one group of three destinations
makes a relay (the code has two groups of up to eight, here `groups`); a third row block
makes a second group of macro tasks, which begins with another window. `MaxReqs`,
`MaxOthers`, `MaxGen`, `MaxSends`, `MaxPlain`, and the plans and task lists of the
configurations bound what the code leaves unbounded.

The DMA, bridge and attention runs do not check deadlock: an engine with nothing submitted
and nothing pending is at rest, which is legal; whether work is left behind is what their
liveness properties say.

Fairness. The simulator delivers every link and self-link event and clocks every
registered handler, so each handler is weakly fair while it has input. For the group,
the software of a core keeps executing its kernel (weakly fair). For DMA reads, nothing
is assumed of replies; the network link is assumed to regain room
(`HandleSendAvailable`), which is what the code's send-available callback waits for, and
local accesses end after a fixed latency. For the bridge, time passes, the memory
answers its oldest request at last, and the link takes what a tick offers again and
again. For the scheduler and the window engine, clocks tick, messages and data arrive,
arrays and C-buffer reads end, and the network takes a full budget of sends again and
again. For the attention jobs the guest programs issue their jobs, and something happens
as long as something can (`CanStep`); every behaviour of a finite job list is finite, so
no finer fairness is needed. Weak fairness is enough throughout; where TLC would
evaluate ENABLED it is written out as `<>[]P => []<><<A>>_vars` with P the states in
which A can change something.

### The completion token of a given-up read

When a burst exhausts its re-sends, `process_dma_read_retries` logs
"forcing completion to avoid deadlock" (`globalmemory.cc:1174`), finishes the
burst's context and calls the callback, but does not set the transfer's entry of
`dma_completion_tokens`; the other two places where a context ends do. A
submitter that polls the token waits for ever. `dma_token` shows it, under
`FairSpec`, as a violation of `EveryTokenSet`. Transfers with a callback are not
affected (`EveryCallbackComes` holds).

### Where the bridge and its documents disagree

- `bridge_oneread`: `tryCoalesceGolemDmaRead` compares `targetQueryTile`, so READs of
  one chunk for different query tiles start a memory read each, and the later
  answer overwrites the cache entry of the earlier.
  `attention_sequential_64/README.md:405` says one read per chunk.
- `bridge_uncredited`: with credits and window priority off and coalescing on, a
  cache hit queues a response from `doRecv` and `recvNotify` does not turn the clock
  on for it; the response leaves only when another message comes. With credits or
  window priority on, `NoLostWakeup` holds.

### Where the window engine and the scheduler and their documents disagree

- `windows_stale`: when the first C tile of a macro task is the last one computed on a
  window, `prefetchFirstPartialForNextWindow` (`workercmdproc.h:4238`) reads its partial
  sum before this window's is saved, and the products of this window are lost. It takes
  three windows. `SumExactButFirst`, which holds in `windows_lists`, delimits the case.
- `windows_reuse`: with reuse in one direction and transactions shorter than k
  (`workercmdproc.h:2949`), a later transaction overwrites the slots a later C tile
  reuses. The check of `startWindow` compares k with the number of slots only.
- `sched_wakeup`: `retireTransaction` (`requestscheduler.cc:934`) overwrites the wake-up
  flag of an event-driven worker and so erases one left by another transaction's
  read. With a `worker_credit_cap` below what is outstanding the worker never reads
  its last panel; with the derived cap it does (`Prefetching` in `sched_reads`).

## Proofs

All theorems are about `GrantArbiter`, for any finite non-empty set of workers,
any number of nodes, any queue depth, capacity, grants per pass, windows and
batches (`ConstantsAssumption`).

| Theorem | States |
|---|---|
| `TypeCorrect` | `Spec => []TypeOK` |
| `NodeAccountingHolds` | the node counter equals the number of holders and respects the capacity |
| `NoLostWakeupHolds` | an idle manager with queued requests has a batch in flight |
| `GroupDoneSoundHolds` | once GROUP_DONE is sent, everything is quiet |
| `AdmissionImplemented` | `Spec => ImplementsAdmission`, the refinement of `NodeAdmission` |

None of these invariants is inductive. Node accounting depends on a DONE never
arriving for a slot that is not in flight, which depends on where in its cycle the
worker is. The inductive invariant `IInv` (module `GrantArbiterTypes`) says, for
each worker:

- `Shape`: a link holds at most one message of each type, FINISHED last;
- `RequestInv`: a request is in at most one of mailbox, link, queue and answer,
  only while its worker waits, and it is the request of the current batch;
- `TokenInv`: the permission to read is in exactly one place while the slot is
  in flight (the GRANT on the link, the core using it, the DONE in the mailbox
  or on the link), and nowhere otherwise;
- `FinishInv`: how FINISHED follows everything else the worker ever sends;

and of the manager that the queue holds at most one request per worker, that
node accounting holds, that GROUP_DONE was sent only in a quiet group
(`GroupInv`), and that a scheduling pass which has granted leaves someone in
flight (`PassInv`). There is one lemma per action and part of the invariant;
`IInvStep` puts them together, and the refinement follows step by step: seeing a
grant is `Acquire`, publishing the done is `Release`, publishing finished is
`Stop`, seeing GROUP_DONE is `Tell`, and everything else stutters. The capacity
in `Acquire` follows from node accounting, because a core that uses a node holds
its slot.

The lemmas that count holders take the facts of counting (`CountingFacts`, the
cardinality of the empty set, of a set with one element more or fewer, and of a
subset) as a hypothesis; `GrantArbiterProofs` proves those from the library's
theorems on finite sets, and only that module extends the library.

Only model-checked: `RequestNeverLost` (it needs a count of the queue against
`QueueDepth`), the liveness properties, and everything about `DmaEngine`,
`MemNicBridge`, `RequestScheduler`, `WindowEngine` and `AttentionCluster`.
Liveness under fairness and ENABLED are beyond the proof system.

## What is not modelled, and the plan

The tree vendors the complete upstream simulator elements (about 320 000 of its
355 000 lines: merlin, vanadis, memHierarchy, miranda, firefly and others), which this
repository does not change. They appear as a network with back-pressure and a memory
that answers each request at some time; the lines the modules stand for are a small
share of the whole tree for that reason, and a considerable one of the control code
of golem.

Next modules, in this order:

1. `KvDistribution`: shared K/V slots, epochs and acknowledgements of GroupCtrl
   (the run scripts no longer turn this path on).
2. The pipeline of an attention worker that runs a job by itself, with the score FIFO,
   the accumulator and the context table of `attention/attentionCluster.h` and the
   generation calls of `DmaRead`; `AttentionCluster` has it as one step.
3. A composition of `DmaRead` and `MemNicBridge` in which replies are produced by
   the bridge, and of `WindowEngine` and `RequestScheduler`.
4. The manager's tensor jobs and the SFU's job queue.

Proofs planned: `ContextCount`, `WindowExact` and `GenerationFenceSound` of `DmaRead`;
credit conservation of the bridge and of the scheduler; `RequestNeverLost`.

Out of reach: the arithmetic of arrays, softmax and normalisation (floating
point), timing and bandwidth figures, and statistics.
