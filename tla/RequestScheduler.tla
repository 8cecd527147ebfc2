--------------------------- MODULE RequestScheduler ---------------------------
(***************************************************************************)
(* The request scheduler of a group (requestscheduler/requestscheduler.cc):*)
(* a worker endpoint turns the window transactions of its command          *)
(* processor, or the mailbox entries of its software, into reads of A and  *)
(* B panels, sends them to the manager in batches and reports each read    *)
(* that has landed; the manager queues them per memory node and worker and *)
(* issues them chunk by chunk, under a credit per worker and a budget per  *)
(* cycle, node by node or worker by worker.                                *)
(*                                                                         *)
(* A handler is a function on the record of its endpoint, composed in the  *)
(* order of the code.  The fields of `conf` are parameters of the          *)
(* component, or name a bound of the model.                                *)
(***************************************************************************)
EXTENDS Integers, Sequences, FiniteSets, SequencesExt, FiniteSetsExt

CONSTANT Configs

\* One operand of a transaction: the address of its first panel, the distance
\* between panels (their size, 0 when there is none), whether its reads are
\* skipped, how many tiles have a panel, and the rows of a row-major panel.
SideRecord == [base: Nat, stride: Nat, skip: BOOLEAN, tiles: Nat,
               rows: Nat, rowStride: Nat, groupStride: Nat]

\* A window transaction (WcpWindowTransaction).
TransactionRecord ==
    [kTiles: Nat, kWindow: Nat, totalK: Nat, nodeSize: Nat, independent: BOOLEAN,
     rowMajor: BOOLEAN, rowBytes: Nat, kSlice: Nat, mat: SideRecord, vec: SideRecord]

ConfigRecord ==
    [workers: Nat \ {0}, nodes: Nat \ {0}, queueDepth: Nat, creditCap: Nat,
     budget: Nat \ {0}, quantum: Nat \ {0}, chunkBytes: Nat \ {0},
     submitBatch: Nat \ {0}, doneBatch: Nat \ {0},
     groupRoundRobin: BOOLEAN, eventDriven: BOOLEAN,
     reuseM: Nat \ {0}, reuseN: Nat \ {0}, windowK: Nat \ {0}, slots: Nat \ {0}, prefetch: Nat \ {0},
     txnTags: Nat \ {0}, tileTags: Nat \ {0}, rowTags: Nat \ {0},
     held: Nat, drops: BOOLEAN, plans: Seq(Seq(TransactionRecord)), pairs: Nat,
     slotBytes: Seq(Nat)]

\* The configurations are complete, with a plan of transactions for every
\* worker; the mailbox is not used together with transactions or events.
ASSUME ConfigsAssumption ==
    /\ Configs \subseteq ConfigRecord
    /\ \A c \in Configs : Len(c.plans) = c.workers
    /\ \A c \in Configs : c.pairs > 0 => Range(c.plans) = {<<>>} /\ ~c.eventDriven

VARIABLES
    conf,     \* the parameters, chosen once
    worker,   \* per worker: transactions, reads, messages to the manager, mailbox
    manager,  \* queues, credits and cursors of the manager endpoint
    network,  \* chunks requested from the memory nodes that have not landed
    waited    \* history: chunks issued for others while a worker's could be

vars == <<conf, worker, manager, network, waited>>

Mat == 0
Vec == 1
Workers == 1 .. conf.workers
Nodes == 0 .. conf.nodes - 1

\* The panels of an operand that fit into local memory limit a window of k.
ResidentK ==
    LET buffers == conf.prefetch + 1
    IN  IF conf.reuseM = 1 /\ conf.reuseN = 1 THEN conf.windowK
        ELSE Max({1, Min({conf.windowK, conf.slots \div (buffers * conf.reuseM),
                          conf.slots \div (buffers * conf.reuseN)})})

\* Reads a worker may have under way: as configured, or all of its windows.
CreditCap ==
    IF conf.creditCap > 0 THEN conf.creditCap
    ELSE Max({conf.reuseM + conf.reuseN,
              (conf.prefetch + 1) * ResidentK * (conf.reuseM + conf.reuseN)})

-----------------------------------------------------------------------------
(***************************************************************************)
(* The reads of a window transaction and their identifiers.                *)
(***************************************************************************)

Side(txn, slot) == IF slot = Mat THEN txn.mat ELSE txn.vec

\* Tile i has a panel on this side.
Valid(txn, slot, i) ==
    /\ Side(txn, slot).stride > 0
    /\ ~Side(txn, slot).skip
    /\ txn.independent => i < Side(txn, slot).tiles

\* The address of the panel of tile i.
PanelSrc(txn, slot, i) ==
    LET side  == Side(txn, slot)
        group == IF txn.independent THEN i \div txn.kWindow ELSE 0
        kIdx  == IF txn.independent THEN i % txn.kWindow ELSE i
    IN  IF txn.rowMajor
        THEN side.base + group * side.groupStride + kIdx * txn.kSlice
        ELSE side.base + (group * Max({txn.totalK, txn.kWindow}) + kIdx) * side.stride

TargetNode(txn, src) ==
    IF txn.nodeSize > 0 THEN (src \div txn.nodeSize) % conf.nodes ELSE 0

\* composeWindowRequestId, without the core: every table below is one worker's.
\* txnTags and tileTags stand for the 20 and 12 bits of the two numbers.
RequestId(slot, node, t, ordinal) ==
    [slot |-> slot, node |-> node, txn |-> t % conf.txnTags, tile |-> ordinal % conf.tileTags]

\* enqueuePanel.  `own` names the tile a read is for; the code has no such field.
PanelRead(t, txn, slot, i, src, ordinal) ==
    [id     |-> RequestId(slot, TargetNode(txn, src), t, ordinal),
     own    |-> <<t, i>>,
     bytes  |-> IF txn.rowMajor THEN txn.rowBytes ELSE Side(txn, slot).stride,
     issued |-> 0]

\* The reads of one side of tile i: a panel, or its rows, of which rowTags
\* stands for the code's 128.
SideReads(t, txn, slot, i) ==
    IF ~Valid(txn, slot, i) \/ (txn.rowMajor /\ txn.rowBytes = 0) THEN <<>>
    ELSE IF ~txn.rowMajor THEN <<PanelRead(t, txn, slot, i, PanelSrc(txn, slot, i), i)>>
    ELSE [row \in 1 .. Side(txn, slot).rows |->
            PanelRead(t, txn, slot, i,
                      PanelSrc(txn, slot, i) + (row - 1) * Side(txn, slot).rowStride,
                      i * conf.rowTags + row - 1)]

TileReads(t, txn, i) == SideReads(t, txn, Mat, i) \o SideReads(t, txn, Vec, i)

-----------------------------------------------------------------------------
(***************************************************************************)
(* The worker endpoint; x is its record.                                   *)
(***************************************************************************)

Pending(x, id) == id \in DOMAIN x.pending

\* ctrlRegisterPendingReadRequest.  The code takes identifier 0 for no request;
\* the core of a worker, which is not core 0, is part of its identifiers.
Register(x, r) ==
    [x EXCEPT !.pending = [id \in DOMAIN @ \union {r.id} |-> IF id = r.id THEN r.bytes ELSE @[id]]]

\* workerNeedsService_, which only an event-driven worker looks at.
Service(x, b) == [x EXCEPT !.needsService = conf.eventDriven /\ b]

EnqueueRead(x, r) == [Register(x, r) EXCEPT !.submitQ = Append(@, r)]

NewTile(reads) == [ids |-> [k \in DOMAIN reads |-> reads[k].id], sent |-> {}, retired |-> FALSE]

\* submitWindowTransaction and enqueueWindowTiles.  Every tile is queued here:
\* `issued` makes the later calls of enqueueWindowTiles do nothing.
SubmitTransaction(x, t, txn) ==
    Service(FoldLeft(EnqueueRead,
                     [x EXCEPT !.txns = [u \in DOMAIN @ \union {t} |->
                                           IF u = t THEN [i \in 0 .. txn.kTiles - 1 |-> NewTile(TileReads(t, txn, i))]
                                                    ELSE @[u]],
                               !.held = @ \union {t}, !.nextTxn = t + 1],
                     FlattenSeq([i \in 1 .. txn.kTiles |-> TileReads(t, txn, i - 1)])),
            TRUE)

\* Mutant: a tile is ready when its A panel is there.
EagerTileReady(x, t, i) ==
    \A k \in DOMAIN x.txns[t][i].ids : x.txns[t][i].ids[k].slot = Vec \/ ~Pending(x, x.txns[t][i].ids[k])
TileReady(x, t, i) == \A k \in DOMAIN x.txns[t][i].ids : ~Pending(x, x.txns[t][i].ids[k])

TransactionDone(x, t) == \A i \in DOMAIN x.txns[t] : TileReady(x, t, i)

\* retireTileReady
RetireTileReady(x, t, i) == Service([x EXCEPT !.txns[t][i].retired = TRUE], TRUE)

\* flushWorkerDirectSubmits
FlushSubmits(x) ==
    IF x.submitQ = <<>> THEN x
    ELSE [x EXCEPT !.link = Append(@, [type |-> "SUBMIT",
                                       reads |-> SubSeq(x.submitQ, 1, Min({conf.submitBatch, Len(x.submitQ)}))]),
                   !.submitQ = SubSeq(@, conf.submitBatch + 1, Len(@))]

DoneMessage(ids) == [type |-> "DONE", ids |-> ids]

\* The reads of a tile that have landed and are not reported.
Finished(x, tile) == {k \in DOMAIN tile.ids : k \notin tile.sent /\ ~Pending(x, tile.ids[k])}

\* The same in the steps between which the code looks at the size of the
\* batch: a tile of one A and one B panel is one step.
FinishedSteps(x, tile) ==
    LET done == SetToSortSeq(Finished(x, tile), <)
    IN  IF {tile.ids[k].slot : k \in DOMAIN tile.ids} = {Mat, Vec} /\ Len(tile.ids) = 2
        THEN <<[k \in DOMAIN done |-> tile.ids[done[k]]]>>
        ELSE [k \in DOMAIN done |-> <<tile.ids[done[k]]>>]

TransactionSteps(x, t) ==
    FlattenSeq([i \in 1 .. Cardinality(DOMAIN x.txns[t]) |-> FinishedSteps(x, x.txns[t][i - 1])])

\* A batch leaves when it is full.
FillBatch(b, step) ==
    IF Len(b.batch) + Len(step) >= conf.doneBatch
    THEN [msgs |-> Append(b.msgs, DoneMessage(b.batch \o step)), batch |-> <<>>]
    ELSE [b EXCEPT !.batch = @ \o step]

LastBatch(b) == b.msgs \o (IF b.batch = <<>> THEN <<>> ELSE <<DoneMessage(b.batch)>>)

\* flushWorkerDirectDones and flushDoneForWindowTransaction: report the landed
\* reads of the transactions ts.  The manager only counts them, so that the
\* order of the code's unordered map does not matter.
FlushDones(x, ts) ==
    [x EXCEPT
       !.link = @ \o LastBatch(FoldLeft(FillBatch, [msgs |-> <<>>, batch |-> <<>>],
                       FlattenSeq([k \in 1 .. Cardinality(ts) |-> TransactionSteps(x, SetToSortSeq(ts, <)[k])]))),
       !.txns = [t \in DOMAIN @ |-> IF t \notin ts THEN @[t] ELSE
                   [i \in DOMAIN @[t] |-> [@[t][i] EXCEPT !.sent = @ \union Finished(x, x.txns[t][i])]]]]

Forget(x, t) == [x EXCEPT !.txns = [u \in DOMAIN @ \ {t} |-> @[u]], !.held = @ \ {t}]

\* Mutant: the transaction is forgotten without a report of its reads.
SilentRetire(x, t) == Service(Forget(x, t), x.submitQ /= <<>>)

\* retireTransaction: report, forget, and sleep unless reads are to be sent.
RetireTransaction(x, t) == Service(Forget(FlushDones(x, {t}), t), x.submitQ /= <<>>)

-----------------------------------------------------------------------------
(***************************************************************************)
(* The mailbox in the worker's local memory: a ring of submissions and one *)
(* of completions, held here as the sequences of what is published and not *)
(* yet read, and the completion flag of each operand.  The software        *)
(* (tests/small/mvm_noc_int_array) reads one A and B pair at a time.       *)
(***************************************************************************)

RingDepth == 8

\* sched_compose_request_id
MailId(slot, seq) == [slot |-> slot, node |-> seq % conf.nodes,
                      txn |-> seq \div conf.tileTags, tile |-> seq % conf.tileTags]

\* The low 32 bits of an identifier, which are also the value of the flag.
Sequence(id) == id.txn * conf.tileTags + id.tile

MailRead(slot, seq) == [id |-> MailId(slot, seq), own |-> <<0, seq>>,
                        bytes |-> conf.slotBytes[slot + 1], issued |-> 0]

\* An entry marked as a pair stands for an A and a B read.
MailReads(entry) == IF entry.slots = {Mat, Vec}
                    THEN <<MailRead(Mat, entry.seq), MailRead(Vec, entry.seq)>>
                    ELSE <<MailRead(CHOOSE s \in entry.slots : TRUE, entry.seq)>>

\* Cut a sequence into batches of n, the last one possibly shorter.
Batches(seq, n) == [b \in 1 .. (Len(seq) + n - 1) \div n |->
                       SubSeq(seq, (b - 1) * n + 1, Min({b * n, Len(seq)}))]

SubmitMessages(batches) == [b \in DOMAIN batches |-> [type |-> "SUBMIT", reads |-> batches[b]]]
DoneMessages(batches) == [b \in DOMAIN batches |-> DoneMessage(batches[b])]

SubmitMail(x, reads) ==
    [FoldLeft(Register, x, reads) EXCEPT !.mail.ring = <<>>,
        !.link = @ \o SubmitMessages(Batches(reads, conf.submitBatch))]
PassDones(x) ==
    [x EXCEPT !.mail.dones = <<>>,
              !.link = @ \o DoneMessages(Batches(x.mail.dones, conf.doneBatch))]

\* pollWorkerMailbox
PollMailbox(x) ==
    PassDones(SubmitMail(x, FlattenSeq([k \in DOMAIN x.mail.ring |-> MailReads(x.mail.ring[k])])))

\* tick of a worker.  refillWorkerWindows finds every tile issued.
ServeAgain(x) == Service(x, x.submitQ /= <<>>)
\* Mutant: a tick leaves the reports to retireTransaction.
ReportlessTick(x) == ServeAgain(FlushSubmits(FlushSubmits(PollMailbox(x))))
TickWorker(x) == ServeAgain(FlushSubmits(FlushDones(FlushSubmits(PollMailbox(x)), DOMAIN x.txns)))

\* The arrival of a chunk (globalmemory.cc): the last one ends the read.
EndRead(x, id) ==
    Service([x EXCEPT !.pending = [i \in DOMAIN @ \ {id} |-> @[i]],
                      !.mail.flag = IF conf.pairs > 0 THEN [@ EXCEPT ![id.slot] = Sequence(id)] ELSE @], TRUE)
Receive(x, chunk) ==
    IF ~Pending(x, chunk.id) THEN x
    ELSE IF x.pending[chunk.id] > chunk.bytes THEN [x EXCEPT !.pending[chunk.id] = @ - chunk.bytes]
    ELSE EndRead(x, chunk.id)

-----------------------------------------------------------------------------
(***************************************************************************)
(* The manager endpoint; s is its record.  Of the fields used within a     *)
(* call, s.room is how many more sends the network takes, s.sent what was  *)
(* sent, s.ok whether the last attempt issued a chunk, s.last its tile and *)
(* s.bundle the tile that a worker's turn is locked to.                    *)
(***************************************************************************)

PendingCount(s) == MapThenSumSet(LAMBDA nw : Len(s.queues[nw[1]][nw[2]]), Nodes \X Workers)

\* Mutant: the queue is taken for full one entry early.
EarlyFull(s, w, r) ==
    IF r.id.node \in Nodes /\ PendingCount(s) + 1 < conf.queueDepth
    THEN [s EXCEPT !.queues[r.id.node][w] = Append(@, r)] ELSE s
\* enqueue_submit: what does not fit is dropped.
EnqueueSubmit(s, w, r) ==
    IF r.id.node \in Nodes /\ PendingCount(s) < conf.queueDepth
    THEN [s EXCEPT !.queues[r.id.node][w] = Append(@, r)] ELSE s

\* recycle_done
RecycleDone(s, w) == IF s.credits[w] < CreditCap THEN [s EXCEPT !.credits[w] = @ + 1] ELSE s

\* handleReq
HandleReq(s, w, msg) ==
    IF msg.type = "SUBMIT"
    THEN FoldLeft(LAMBDA u, r : EnqueueSubmit(u, w, r), s, msg.reads)
    ELSE FoldLeft(LAMBDA u, id : RecycleDone(u, w), s, msg.ids)

HasBudget(s) == s.issued < conf.budget

\* A read costs its worker a credit with its first chunk only.
Affordable(s, w, r) == r.issued > 0 \/ s.credits[w] > 0

ChunkBytes(r) == Min({r.bytes - r.issued, conf.chunkBytes})

\* requestPriorityKey
PriorityKey(r) == ((r.id.txn * conf.tileTags + r.id.tile) * 2
                      + (IF r.issued = 0 THEN 0 ELSE 1)) * 2 + r.id.slot

TileOf(r) == <<r.id.txn, r.id.tile>>

\* issueQueueEntry and issueTransfer: send the next chunk of entry i, which is
\* r; what is left of the read goes to the back of the queue.
SendChunk(s, n, w, i, r) ==
    [s EXCEPT !.queues[n][w] = RemoveAt(@, i) \o
                  (IF r.issued + ChunkBytes(r) < r.bytes
                   THEN <<[r EXCEPT !.issued = @ + ChunkBytes(r)]>> ELSE <<>>),
              !.credits[w] = IF r.issued = 0 THEN @ - 1 ELSE @,
              !.issued = @ + 1, !.room = @ - 1, !.ok = TRUE, !.last = TileOf(r),
              !.sent = Append(@, [worker |-> w, id |-> r.id, own |-> r.own,
                                  offset |-> r.issued, bytes |-> ChunkBytes(r)])]

\* The entries of a queue that may go: of the operands `slots`, of the tile in
\* `bundle` unless that is empty.
Candidates(s, n, w, slots, bundle) ==
    {i \in DOMAIN s.queues[n][w] :
        LET r == s.queues[n][w][i]
        IN  r.id.slot \in slots /\ (bundle = {} \/ TileOf(r) \in bundle) /\ Affordable(s, w, r)}

\* The first entry of the lowest key.
Best(q, can) ==
    CHOOSE i \in can : \A j \in can : \/ PriorityKey(q[i]) < PriorityKey(q[j])
                                      \/ PriorityKey(q[i]) = PriorityKey(q[j]) /\ i <= j

SendBest(s, n, w, i) == SendChunk(s, n, w, i, s.queues[n][w][i])
IssueOneOf(s, n, w, can) ==
    IF can = {} \/ s.room = 0 THEN [s EXCEPT !.ok = FALSE]
    ELSE SendBest(s, n, w, Best(s.queues[n][w], can))
IssueFrom(s, n, w, slots, bundle) == IssueOneOf(s, n, w, Candidates(s, n, w, slots, bundle))

\* tryIssueFromQueue of the node-first policy: a chunk, and one of the other
\* operand of its tile if that waits in the same queue.
IssueSibling(s, n, w) ==
    IF s.ok /\ HasBudget(s)
    THEN [IssueFrom(s, n, w, {1 - s.sent[Len(s.sent)].id.slot}, {s.last}) EXCEPT !.ok = TRUE]
    ELSE s
IssuePair(s, n, w) == IssueSibling(IssueFrom(s, n, w, {Mat, Vec}, {}), n, w)

\* 0 .. n - 1 in turn, from `first`.
Turns(first, n) == [k \in 1 .. n |-> (first + k - 1) % n]

\* One pass of the node-first policy: nodes in turn, and workers in turn in each.
NodeServed(s, n, w) ==
    IF s.ok THEN [s EXCEPT !.nodeWorkerCursor[n] = w % conf.workers,
                           !.nodeCursor = (n + 1) % conf.nodes] ELSE s
AtNode(s, n) ==
    FoldLeft(LAMBDA u, k : IF u.ok THEN u ELSE NodeServed(IssuePair(u, n, k + 1), n, k + 1),
             s, Turns(s.nodeWorkerCursor[n], conf.workers))
NodePass(s) ==
    FoldLeft(LAMBDA u, n : IF u.ok THEN u ELSE AtNode(u, n), [s EXCEPT !.ok = FALSE],
             Turns(s.nodeCursor, conf.nodes))

\* tryIssueSlotFromWorker: a chunk of one operand of a worker, nodes in turn.
SlotServed(s, n, w) == IF s.ok THEN [s EXCEPT !.workerNodeCursor[w] = (n + 1) % conf.nodes] ELSE s
IssueSlot(s, w, slot, bundle) ==
    IF ~HasBudget(s) THEN [s EXCEPT !.ok = FALSE]
    ELSE FoldLeft(LAMBDA u, n : IF u.ok THEN u ELSE SlotServed(IssueFrom(u, n, w, {slot}, bundle), n, w),
                  [s EXCEPT !.ok = FALSE], Turns(s.workerNodeCursor[w], conf.nodes))

\* A turn of a worker: an A chunk and a B chunk of its tile, or a B chunk when
\* there is no A chunk to go; then more of the same tile, up to the quantum.
LockTile(s) == IF s.ok THEN [s EXCEPT !.bundle = {s.last}] ELSE s
IssueMatThenVec(s, w) == [IssueSlot(s, w, Vec, s.bundle) EXCEPT !.ok = TRUE]
AfterMat(s, w) == IF s.ok THEN IssueMatThenVec(s, w) ELSE LockTile(IssueSlot(s, w, Vec, {}))
MoreOfTile(s, w) ==
    FoldLeft(LAMBDA u, k : IssueSlot(IssueSlot(u, w, Mat, s.bundle), w, Vec, s.bundle),
             s, [k \in 1 .. conf.quantum - 1 |-> k])
\* Mutant: the turn stays with the worker.
StickyTurn(s, w) == IF s.ok THEN [MoreOfTile(s, w) EXCEPT !.ok = TRUE] ELSE s
EndTurn(s, w) ==
    IF s.ok THEN [MoreOfTile(s, w) EXCEPT !.ok = TRUE, !.groupCursor = w % conf.workers] ELSE s
\* Mutant: a turn begins with B.
VecFirstTurn(s, w) == EndTurn(AfterMat(LockTile(IssueSlot(s, w, Vec, {})), w), w)
WorkerTurn(s, w) == EndTurn(AfterMat(LockTile(IssueSlot(s, w, Mat, {})), w), w)

\* One pass of the group round robin: workers in turn.
GroupPass(s) ==
    FoldLeft(LAMBDA u, k : IF u.ok THEN u ELSE WorkerTurn(u, k + 1), [s EXCEPT !.ok = FALSE],
             Turns(s.groupCursor, conf.workers))

\* tryIssue: passes until one issues nothing or the cycle's budget is spent.
Pass(s) == IF ~s.ok \/ ~HasBudget(s) THEN s
           ELSE IF conf.groupRoundRobin THEN GroupPass(s) ELSE NodePass(s)
TryIssue(s) == FoldLeft(LAMBDA u, k : Pass(u), [s EXCEPT !.ok = TRUE], [k \in 1 .. conf.budget |-> k])

-----------------------------------------------------------------------------
(* The actions.                                                            *)

Init ==
    /\ conf \in Configs
    /\ worker = [w \in Workers |->
         [nextTxn |-> 1, held |-> {}, txns |-> <<>>, submitQ |-> <<>>, pending |-> <<>>,
          needsService |-> conf.eventDriven, link |-> <<>>,
          mail |-> [seq |-> 0, wait |-> "none", ring |-> <<>>, dones |-> <<>>,
                    flag |-> [slot \in {Mat, Vec} |-> 0]]]]
    /\ manager = [queues |-> [n \in Nodes |-> [w \in Workers |-> <<>>]],
                  credits |-> [w \in Workers |-> CreditCap],
                  issued |-> 0, nodeCursor |-> 0, groupCursor |-> 0,
                  nodeWorkerCursor |-> [n \in Nodes |-> 0],
                  workerNodeCursor |-> [w \in Workers |-> 0],
                  room |-> 0, sent |-> <<>>, ok |-> FALSE, last |-> <<0, 0>>, bundle |-> {}]
    /\ network = {}
    /\ waited = [w \in Workers |-> 0]

\* The command processor submits its next transaction, holding conf.held at most.
Submit(w) ==
    /\ UNCHANGED <<conf, manager, network, waited>>
    /\ worker[w].nextTxn <= Len(conf.plans[w])
    /\ Cardinality(worker[w].held) < conf.held
    /\ worker' = [worker EXCEPT ![w] = SubmitTransaction(@, @.nextTxn, conf.plans[w][@.nextTxn])]

\* It retires a tile it has found ready, once,
RetireTile(w, t, i) ==
    /\ UNCHANGED <<conf, manager, network, waited>>
    /\ TileReady(worker[w], t, i)
    /\ ~worker[w].txns[t][i].retired
    /\ worker' = [worker EXCEPT ![w] = RetireTileReady(@, t, i)]

\* and its oldest transaction when that is done, or turns to the next without
\* doing so.
Retire(w, t) ==
    /\ UNCHANGED <<conf, manager, network, waited>>
    /\ t = Min(worker[w].held)
    /\ TransactionDone(worker[w], t)
    /\ worker' = [worker EXCEPT ![w] = RetireTransaction(@, t)]
Drop(w, t) ==
    /\ UNCHANGED <<conf, manager, network, waited>>
    /\ conf.drops /\ t = Min(worker[w].held)
    /\ TransactionDone(worker[w], t)
    /\ worker' = [worker EXCEPT ![w].held = @ \ {t}]

\* sched_publish_submit_pair_compact_local or sched_publish_submit_pair_local
Publish(w, entries) ==
    /\ UNCHANGED <<conf, manager, network, waited>>
    /\ worker[w].mail.wait = "none" /\ worker[w].mail.seq < conf.pairs
    /\ Len(worker[w].mail.ring) + Len(entries) <= RingDepth
    /\ worker' = [worker EXCEPT ![w].mail.seq = @ + 1, ![w].mail.wait = "mat",
         ![w].mail.ring = @ \o [k \in DOMAIN entries |->
                                  [slots |-> entries[k], seq |-> worker[w].mail.seq + 1]]]

\* wait_dma_read_ticket and sched_publish_done_local
Complete(w, slot, next) ==
    /\ UNCHANGED <<conf, manager, network, waited>>
    /\ worker[w].mail.wait = IF slot = Mat THEN "mat" ELSE "vec"
    /\ worker[w].mail.flag[slot] = worker[w].mail.seq
    /\ Len(worker[w].mail.dones) < RingDepth
    /\ worker' = [worker EXCEPT ![w].mail.wait = next,
         ![w].mail.dones = Append(@, MailId(slot, worker[w].mail.seq))]

WorkerTick(w) ==
    /\ UNCHANGED <<conf, manager, network, waited>>
    /\ conf.eventDriven => worker[w].needsService
    /\ worker' = [worker EXCEPT ![w] = TickWorker(@)]

\* A message of worker w reaches the manager; the link keeps their order.
Deliver(w) ==
    /\ UNCHANGED <<conf, network, waited>>
    /\ worker[w].link /= <<>>
    /\ manager' = HandleReq(manager, w, Head(worker[w].link))
    /\ worker' = [worker EXCEPT ![w].link = Tail(@)]

\* Worker w has a read of which a chunk could go now.
Servable(s, w) == \E n \in Nodes : Candidates(s, n, w, {Mat, Vec}, {}) /= {}

\* Chunks issued for others since worker w could be served or was.
Waits(s, w) ==
    LET own == {k \in DOMAIN s.sent : s.sent[k].worker = w}
    IN  IF ~conf.groupRoundRobin \/ ~Servable(s, w) THEN 0
        ELSE IF own = {} THEN waited[w] + Len(s.sent) ELSE Len(s.sent) - Max(own)

Issued(s) ==
    /\ manager' = [s EXCEPT !.room = 0, !.sent = <<>>, !.ok = FALSE, !.last = <<0, 0>>, !.bundle = {}]
    /\ network' = network \union Range(s.sent)
    /\ waited' = [w \in Workers |-> Waits(s, w)]

\* tick of the manager: a new budget.  The network takes `room` sends.
ManagerTick(room) ==
    /\ UNCHANGED <<conf, worker>>
    /\ \E s \in {TryIssue([manager EXCEPT !.issued = 0, !.room = room])} : Issued(s)

\* handleSendAvailable: what is left of the budget.
SendAvailable(room) ==
    /\ UNCHANGED <<conf, worker>>
    /\ \E s \in {TryIssue([manager EXCEPT !.room = room])} : Issued(s)

\* A memory node's answer to a chunk reaches the worker, in any order.
Land(chunk) ==
    /\ UNCHANGED <<conf, manager, waited>>
    /\ worker' = [worker EXCEPT ![chunk.worker] = Receive(@, chunk)]
    /\ network' = network \ {chunk}

Client(w) ==
    \/ Submit(w)
    \/ \E t \in worker[w].held : \E i \in DOMAIN worker[w].txns[t] : RetireTile(w, t, i)
    \/ \E t \in worker[w].held : Retire(w, t)
    \/ \E t \in worker[w].held : Drop(w, t)
    \/ Publish(w, <<{Mat, Vec}>>)
    \/ Publish(w, <<{Mat}, {Vec}>>)
    \/ Complete(w, Mat, "vec")
    \/ Complete(w, Vec, "none")

Next ==
    \/ \E w \in Workers : Client(w) \/ WorkerTick(w) \/ Deliver(w)
    \/ \E room \in 0 .. conf.budget : ManagerTick(room)
    \/ \E room \in 1 .. conf.budget : SendAvailable(room)
    \/ \E chunk \in network : Land(chunk)

Spec == Init /\ [][Next]_vars

\* When a step of each kind is possible and changes something.
ClientStirs(w) ==
    /\ w \in Workers
    /\ \/ worker[w].nextTxn <= Len(conf.plans[w]) /\ Cardinality(worker[w].held) < conf.held
       \/ \E t \in worker[w].held : \E i \in DOMAIN worker[w].txns[t] :
             TileReady(worker[w], t, i) /\ ~worker[w].txns[t][i].retired
       \/ worker[w].held /= {} /\ TransactionDone(worker[w], Min(worker[w].held))
       \/ worker[w].mail.wait = "none" /\ worker[w].mail.seq < conf.pairs
       \/ worker[w].mail.wait = "mat" /\ worker[w].mail.flag[Mat] = worker[w].mail.seq
       \/ worker[w].mail.wait = "vec" /\ worker[w].mail.flag[Vec] = worker[w].mail.seq
WorkerStirs(w) ==
    /\ w \in Workers
    /\ conf.eventDriven => worker[w].needsService
    /\ TickWorker(worker[w]) /= worker[w]
ManagerStirs == manager.issued > 0 \/ \E w \in Workers : Servable(manager, w)

\* Clocks tick, messages and data arrive, the network takes sends again and
\* again, and a worker's program goes on: weak fairness, with the conditions
\* written out where an action's result is long to compute.
AllWorkers == 1 .. Max({c.workers : c \in Configs})
FairSpec ==
    /\ Spec
    /\ \A w \in AllWorkers :
         /\ <>[]ClientStirs(w) => []<><<w \in Workers /\ Client(w)>>_vars
         /\ <>[]WorkerStirs(w) => []<><<w \in Workers /\ WorkerTick(w)>>_vars
         /\ WF_vars(w \in Workers /\ Deliver(w))
    /\ <>[]ManagerStirs => []<><<ManagerTick(conf.budget)>>_vars
    /\ WF_vars(\E chunk \in network : Land(chunk))

-----------------------------------------------------------------------------
(* Properties.                                                             *)

\* The submitted reads of worker w that no chunk has been issued of, and the
\* others the manager still has in its queues, as sequences.
Submitted(w) ==
    worker[w].submitQ \o FlattenSeq([k \in DOMAIN worker[w].link |->
        IF worker[w].link[k].type = "SUBMIT" THEN worker[w].link[k].reads ELSE <<>>])
Queued(w) == FlattenSeq([n \in 1 .. conf.nodes |-> manager.queues[n - 1][w]])
Flying(w) == {c \in network : c.worker = w}

\* Every byte that a pending read still lacks is on its way exactly once: in
\* the worker's queue, in a message, in the manager's queues or requested from
\* a memory node; so no submission is dropped (in the configurations the queue is
\* as deep as what the workers can have under way), repeated or cut short.
ReadAccounted ==
    \A w \in Workers : \A id \in DOMAIN worker[w].pending :
        LET rest == SelectSeq(Submitted(w) \o Queued(w), LAMBDA r : r.id = id)
        IN  worker[w].pending[id] =
              FoldLeft(LAMBDA n, r : n + r.bytes - r.issued, 0, rest)
              + MapThenSumSet(LAMBDA c : c.bytes, {c \in Flying(w) : c.id = id})

\* Reads of worker w that are neither reported nor dropped from its tables,
\* completions on their way, and reads of which nothing is issued.
Unreported(w) ==
    MapThenSumSet(LAMBDA t : MapThenSumSet(LAMBDA i : Len(worker[w].txns[t][i].ids)
                                                      - Cardinality(worker[w].txns[t][i].sent),
                                           DOMAIN worker[w].txns[t]),
                  DOMAIN worker[w].txns)
    + (CASE worker[w].mail.wait = "mat" -> 2 [] worker[w].mail.wait = "vec" -> 1 [] OTHER -> 0)
Reports(w) ==
    Len(worker[w].mail.dones)
    + FoldLeft(LAMBDA n, m : IF m.type = "DONE" THEN n + Len(m.ids) ELSE n, 0, worker[w].link)
Unissued(w) ==
    Len(Submitted(w)) + Len(SelectSeq(Queued(w), LAMBDA r : r.issued = 0))
    + FoldLeft(LAMBDA n, e : n + Cardinality(e.slots), 0, worker[w].mail.ring)

\* A worker's credit is out exactly for the reads that have begun and whose
\* completion has not reached the manager: a credit neither leaks when a
\* transaction is retired or dropped, nor comes back twice.
CreditConservation ==
    \A w \in Workers :
        /\ manager.credits[w] >= 0
        /\ CreditCap - manager.credits[w] = Unreported(w) - Unissued(w) + Reports(w)

\* What the command processor is told is ready has landed: no part of a read
\* for that tile is outstanding anywhere.  Identifiers keep 20 bits of the
\* transaction and 12 of the tile, so this is about their wrapping, too.
ReadyMeansLanded ==
    \A w \in Workers : \A t \in worker[w].held : \A i \in DOMAIN worker[w].txns[t] :
        TileReady(worker[w], t, i) =>
            /\ \A c \in Flying(w) : c.own /= <<t, i>>
            /\ \A r \in Range(Submitted(w) \o Queued(w)) : r.own /= <<t, i>>

\* "The bounded quantum improves tile completion without monopolizing issue":
\* under group round robin a worker that could be served waits for at most a
\* quantum of A and B chunks of every other worker.
BoundedWait == \A w \in Workers : waited[w] <= (conf.workers - 1) * 2 * conf.quantum

\* "keeping A-before-B whenever A exists": under group round robin no chunk of
\* a tile's B panel is issued while nothing of its A panel is.
MatBeforeVec ==
    conf.groupRoundRobin =>
        \A w \in Workers : \A r \in Range(Queued(w)) :
            (r.id.slot = Mat /\ r.issued = 0) =>
                /\ \A v \in Range(Queued(w)) : (v.own = r.own /\ v.id.slot = Vec) => v.issued = 0
                /\ \A c \in Flying(w) : c.own = r.own => c.id.slot /= Vec

\* Everything the workers have to read is submitted and has landed.
AllRead ==
    \A w \in Workers : /\ worker[w].nextTxn > Len(conf.plans[w])
                       /\ worker[w].mail.seq = conf.pairs
                       /\ worker[w].mail.wait = "none"
                       /\ worker[w].pending = <<>>

\* Every transaction is read in the end: an event-driven worker wakes up for
\* what it has to send and report, credits come back, and no queue starves.
AllReadInTheEnd == <>AllRead
=============================================================================
