---------------------------- MODULE GrantArbiter ----------------------------
(***************************************************************************)
(* The grant protocol of GroupCtrlEndpoint (groupctrl/groupctrl.cc): the   *)
(* workers of a group ask their manager for permission to start a batch of *)
(* DMA reads from a memory node; the manager grants at most                *)
(* MaxInflightPerNode batches per node and at most one per worker, and it  *)
(* broadcasts GROUP_DONE once every worker has finished and nothing is     *)
(* outstanding.                                                            *)
(*                                                                         *)
(* Three parties interleave: the worker's software, which reads and writes *)
(* a mailbox in the core's local memory; the worker's endpoint, whose      *)
(* clock handler moves the mailbox to the link; and the manager's          *)
(* endpoint, whose event handlers run to completion.  Links are FIFO.      *)
(*                                                                         *)
(* trySchedule is a loop inside a handler.  Each of its iterations is a    *)
(* step here; "pass" is non-idle while the handler runs and the manager    *)
(* takes no other step meanwhile, so a handler is still one uninterrupted  *)
(* piece of the manager's work.                                            *)
(***************************************************************************)
EXTENDS Integers, Sequences, FiniteSets

CONSTANTS
    Workers,               \* the worker slots of the group
    NumMemoryNodes,        \* num_memory_nodes
    QueueDepth,            \* queue_depth
    MaxInflightPerNode,    \* max_inflight_per_node
    MaxGrantsPerSchedule,  \* max_grants_per_schedule
    Windows,               \* grant windows the software may ask for
    MaxReqs                \* bound: batches per worker

ASSUME ConstantsAssumption ==
    /\ IsFiniteSet(Workers) /\ Workers # {}
    /\ NumMemoryNodes \in Nat \ {0}
    /\ QueueDepth \in Nat
    /\ MaxInflightPerNode \in Nat \ {0}
    /\ MaxGrantsPerSchedule \in Nat \ {0}
    /\ Windows \subseteq Nat
    /\ MaxReqs \in Nat

Nodes == 0 .. NumMemoryNodes - 1

VARIABLES
    \* worker software and its mailbox
    phase,      \* "ready" between batches, "waiting" for or using a grant, "finished"
    seq,        \* ctrl_req_seq: sequence number of the latest batch
    mailReq,    \* REQ_SEQ, REQ_NODE and REQ_WINDOW words
    reqValid,   \* REQ_VALID
    doneSeq,    \* DONE_SEQ
    doneValid,  \* DONE_VALID
    finFlag,    \* FINISHED
    grantSeq,   \* GRANT_SEQ
    groupDone,  \* GROUP_DONE
    \* worker endpoint
    reqSeen,    \* localReqSeqSeen_
    doneSeen,   \* localDoneSeqSeen_
    finSeen,    \* localFinishedSeen_
    \* links
    toManager,  \* per worker: messages on req_out -> req_in_<slot>
    toWorker,   \* per worker: messages on rsp_out_<slot> -> rsp_in
    \* manager endpoint
    pendingQ,   \* pendingQ_
    cursor,     \* scheduleCursor_
    inflight,   \* workers_[slot].inflight
    inflightNode, \* workers_[slot].inflightNode
    coarse,     \* workers_[slot].lastGrantSeq carries the coarse flag
    finished,   \* workers_[slot].finished
    nodeCount,  \* inflightPerNode_
    pass        \* progress of trySchedule within the running handler

softwareVars == <<phase, seq, mailReq, reqValid, doneSeq, doneValid, finFlag>>
deliveredVars == <<grantSeq, groupDone>>
endpointVars == <<reqSeen, doneSeen, finSeen>>
workerVars == <<softwareVars, deliveredVars, endpointVars>>
slotVars == <<inflight, inflightNode, coarse, finished, nodeCount>>
managerVars == <<pendingQ, cursor, slotVars, pass>>
vars == <<workerVars, toManager, toWorker, managerVars>>

Idle == [running |-> FALSE, left |-> 0, drain |-> FALSE]
Running(left, drain) == [running |-> TRUE, left |-> left, drain |-> drain]

Requests == [seq : Nat, node : Nodes, window : Nat]
ReqMsg(r) == [type |-> "REQUEST", seq |-> r.seq, node |-> r.node, window |-> r.window]
DoneMsg(s) == [type |-> "DONE", seq |-> s, node |-> 0, window |-> 0]
FinishedMsg == [type |-> "FINISHED", seq |-> 0, node |-> 0, window |-> 0]
GrantMsg(s) == [type |-> "GRANT", seq |-> s]
GroupDoneMsg == [type |-> "GROUP_DONE", seq |-> 0]

ToManagerMsgs == [type : {"REQUEST", "DONE", "FINISHED"}, seq : Nat, node : Nodes, window : Nat]
ToWorkerMsgs == [type : {"GRANT", "GROUP_DONE"}, seq : Nat]
PendingReqs == [worker : Workers, seq : Nat, node : Nodes, window : Nat]

Init ==
    /\ phase = [w \in Workers |-> "ready"]
    /\ seq = [w \in Workers |-> 0]
    /\ mailReq = [w \in Workers |-> [seq |-> 0, node |-> 0, window |-> 0]]
    /\ reqValid = [w \in Workers |-> FALSE]
    /\ doneSeq = [w \in Workers |-> 0]
    /\ doneValid = [w \in Workers |-> FALSE]
    /\ finFlag = [w \in Workers |-> FALSE]
    /\ grantSeq = [w \in Workers |-> 0]
    /\ groupDone = [w \in Workers |-> FALSE]
    /\ reqSeen = [w \in Workers |-> 0]
    /\ doneSeen = [w \in Workers |-> 0]
    /\ finSeen = [w \in Workers |-> FALSE]
    /\ toManager = [w \in Workers |-> <<>>]
    /\ toWorker = [w \in Workers |-> <<>>]
    /\ pendingQ = <<>>
    /\ cursor = 0
    /\ inflight = [w \in Workers |-> FALSE]
    /\ inflightNode = [w \in Workers |-> 0]
    /\ coarse = [w \in Workers |-> FALSE]
    /\ finished = [w \in Workers |-> FALSE]
    /\ nodeCount = [n \in Nodes |-> 0]
    /\ pass = Idle

-----------------------------------------------------------------------------
(* The worker's software. *)

\* The software sees the grant of the batch it waits for.
Granted(w) == phase[w] = "waiting" /\ grantSeq[w] = seq[w]

\* ctrl_publish_request_local: REQ_VALID is written last, so the endpoint
\* sees the words of a request together.
PublishRequest(w, n, win) ==
    /\ phase[w] = "ready"
    /\ seq[w] < MaxReqs
    /\ ~reqValid[w]
    /\ seq' = [seq EXCEPT ![w] = @ + 1]
    /\ mailReq' = [mailReq EXCEPT ![w] = [seq |-> seq[w] + 1, node |-> n, window |-> win]]
    /\ reqValid' = [reqValid EXCEPT ![w] = TRUE]
    /\ phase' = [phase EXCEPT ![w] = "waiting"]
    /\ UNCHANGED <<doneSeq, doneValid, finFlag, deliveredVars, endpointVars,
                   toManager, toWorker, managerVars>>

\* The batch's reads are over: ctrl_publish_done_local.
PublishDone(w) ==
    /\ Granted(w)
    /\ ~doneValid[w]
    /\ doneSeq' = [doneSeq EXCEPT ![w] = seq[w]]
    /\ doneValid' = [doneValid EXCEPT ![w] = TRUE]
    /\ phase' = [phase EXCEPT ![w] = "ready"]
    /\ UNCHANGED <<seq, mailReq, reqValid, finFlag, deliveredVars, endpointVars,
                   toManager, toWorker, managerVars>>

\* No task is left: ctrl_publish_finished_local.
PublishFinished(w) ==
    /\ phase[w] = "ready"
    /\ finFlag' = [finFlag EXCEPT ![w] = TRUE]
    /\ phase' = [phase EXCEPT ![w] = "finished"]
    /\ UNCHANGED <<seq, mailReq, reqValid, doneSeq, doneValid, deliveredVars,
                   endpointVars, toManager, toWorker, managerVars>>

-----------------------------------------------------------------------------
(* The worker's endpoint. *)

AppendIf(s, c, m) == IF c THEN Append(s, m) ELSE s

\* faulty variant: a request next to the last one is taken for an old one
SendsRequest(w) == reqValid[w] /\ mailReq[w].seq > reqSeen[w]

SendsDone(w) == doneValid[w] /\ doneSeq[w] > doneSeen[w]
SendsFinished(w) == finFlag[w] /\ ~finSeen[w]

\* One clock tick sends what the mailbox holds: the request first, then the
\* done, then the finish.
WorkerTick(w) ==
    /\ SendsRequest(w) \/ SendsDone(w) \/ SendsFinished(w)
    /\ toManager' = [toManager EXCEPT ![w] =
           AppendIf(AppendIf(AppendIf(@, SendsRequest(w), ReqMsg(mailReq[w])),
                             SendsDone(w), DoneMsg(doneSeq[w])),
                    SendsFinished(w), FinishedMsg)]
    /\ reqSeen' = [reqSeen EXCEPT ![w] = IF SendsRequest(w) THEN mailReq[w].seq ELSE @]
    /\ reqValid' = [reqValid EXCEPT ![w] = @ /\ ~SendsRequest(w)]
    /\ doneSeen' = [doneSeen EXCEPT ![w] = IF SendsDone(w) THEN doneSeq[w] ELSE @]
    /\ doneValid' = [doneValid EXCEPT ![w] = @ /\ ~SendsDone(w)]
    /\ finSeen' = [finSeen EXCEPT ![w] = @ \/ SendsFinished(w)]
    /\ finFlag' = [finFlag EXCEPT ![w] = @ /\ ~SendsFinished(w)]
    /\ UNCHANGED <<phase, seq, mailReq, doneSeq, deliveredVars, toWorker, managerVars>>

\* handleRsp: the endpoint copies a grant or GROUP_DONE to the mailbox.
HandleRsp(w) ==
    /\ toWorker[w] # <<>>
    /\ LET m == Head(toWorker[w]) IN
          \/ /\ m.type = "GRANT"
             /\ grantSeq' = [grantSeq EXCEPT ![w] = m.seq]
             /\ UNCHANGED groupDone
          \/ /\ m.type = "GROUP_DONE"
             /\ groupDone' = [groupDone EXCEPT ![w] = TRUE]
             /\ UNCHANGED grantSeq
    /\ toWorker' = [toWorker EXCEPT ![w] = Tail(@)]
    /\ UNCHANGED <<softwareVars, endpointVars, toManager, managerVars>>

-----------------------------------------------------------------------------
(* The manager's endpoint. *)

\* The manager takes the next message of worker w off its link.
Receive(w, type) ==
    /\ ~pass.running
    /\ toManager[w] # <<>>
    /\ Head(toManager[w]).type = type
    /\ toManager' = [toManager EXCEPT ![w] = Tail(@)]

\* faulty variant: the last place of the queue is never used
EarlyQueueFull == Len(pendingQ) + 1 >= QueueDepth
\* queue_depth bounds pendingQ_
QueueFull == Len(pendingQ) >= QueueDepth

\* handleReq, REQUEST: queued and scheduled, or dropped when the queue is full.
HandleRequest(w) ==
    /\ Receive(w, "REQUEST")
    /\ LET m == Head(toManager[w]) IN
          IF QueueFull
          THEN UNCHANGED <<pendingQ, pass>>
          ELSE /\ pendingQ' = Append(pendingQ, [worker |-> w, seq |-> m.seq,
                                                node |-> m.node, window |-> m.window])
               /\ pass' = Running(MaxGrantsPerSchedule, FALSE)
    /\ UNCHANGED <<workerVars, toWorker, cursor, slotVars>>

\* faulty variant: the node's place is not returned
LeakNodeCount(w) == UNCHANGED nodeCount

\* The node count a worker's slot names drops by one, never below zero.
DropNodeCount(w) ==
    nodeCount' = [nodeCount EXCEPT ![inflightNode[w]] = IF @ > 0 THEN @ - 1 ELSE @]

\* faulty variant: DONE frees the slot without running trySchedule
SleepyHandleDone(w) ==
    /\ Receive(w, "DONE")
    /\ inflight' = [inflight EXCEPT ![w] = FALSE]
    /\ DropNodeCount(w)
    /\ inflightNode' = [inflightNode EXCEPT ![w] = 0]
    /\ UNCHANGED <<workerVars, toWorker, pendingQ, cursor, coarse, finished, pass>>

\* handleReq, DONE: the slot is freed whether or not it was in flight; then
\* trySchedule and maybeSendGroupDone.
HandleDone(w) ==
    /\ Receive(w, "DONE")
    /\ inflight' = [inflight EXCEPT ![w] = FALSE]
    /\ DropNodeCount(w)
    /\ inflightNode' = [inflightNode EXCEPT ![w] = 0]
    /\ pass' = Running(MaxGrantsPerSchedule, TRUE)
    /\ UNCHANGED <<workerVars, toWorker, pendingQ, cursor, coarse, finished>>

\* faulty variant: allWorkersFinished is not consulted
DrainedOnly(fin, infl, cnt) ==
    /\ pendingQ = <<>>
    /\ \A w \in Workers : ~infl[w]
    /\ \A n \in Nodes : cnt[n] = 0

\* allWorkersFinished and groupDrained
GroupComplete(fin, infl, cnt) ==
    /\ \A w \in Workers : fin[w]
    /\ pendingQ = <<>>
    /\ \A w \in Workers : ~infl[w]
    /\ \A n \in Nodes : cnt[n] = 0

\* maybeSendGroupDone: GROUP_DONE to every slot
MaybeSendGroupDone(complete) ==
    toWorker' = [w \in Workers |-> AppendIf(toWorker[w], complete, GroupDoneMsg)]

\* faulty variant: FINISHED is recorded and nothing is announced
SilentHandleFinished(w) ==
    /\ Receive(w, "FINISHED")
    /\ finished' = [finished EXCEPT ![w] = TRUE]
    /\ UNCHANGED <<workerVars, toWorker, pendingQ, cursor, inflight, inflightNode,
                   coarse, nodeCount, pass>>

\* handleReq, FINISHED: a coarse grant is returned; there is no trySchedule.
HandleFinished(w) ==
    /\ Receive(w, "FINISHED")
    /\ finished' = [finished EXCEPT ![w] = TRUE]
    /\ IF coarse[w]
       THEN /\ IF inflight[w] THEN DropNodeCount(w) ELSE UNCHANGED nodeCount
            /\ inflight' = [inflight EXCEPT ![w] = FALSE]
            /\ inflightNode' = [inflightNode EXCEPT ![w] = 0]
       ELSE UNCHANGED <<nodeCount, inflight, inflightNode>>
    /\ MaybeSendGroupDone(GroupComplete(finished', inflight', nodeCount'))
    /\ UNCHANGED <<workerVars, pendingQ, cursor, coarse, pass>>

-----------------------------------------------------------------------------
(* trySchedule *)

\* faulty variant: off by one in the node's capacity
OverEligible(r) ==
    /\ ~inflight[r.worker]
    /\ r.node < NumMemoryNodes
    /\ nodeCount[r.node] <= MaxInflightPerNode

Eligible(r) ==
    /\ ~inflight[r.worker]
    /\ r.node < NumMemoryNodes
    /\ nodeCount[r.node] < MaxInflightPerNode

\* the cursor after its reset on entry to an iteration
ScanStart == IF cursor >= Len(pendingQ) THEN 0 ELSE cursor

\* the zero-based queue index visited after "scanned" others
ScanIndex(scanned) == (ScanStart + scanned) % Len(pendingQ)

\* deque::erase at zero-based index idx
Erase(q, idx) == [i \in 1 .. Len(q) - 1 |-> IF i <= idx THEN q[i] ELSE q[i + 1]]

\* faulty variant: the cursor is not wrapped at the shortened queue's end
UnwrappedCursor(idx) == idx

\* scheduleCursor_ after the erase at idx: the element that followed, cyclically
NextCursor(idx) == IF Len(pendingQ) = 1 THEN 0 ELSE idx % (Len(pendingQ) - 1)

\* One iteration that grants the first eligible request in scan order.
ScheduleOne ==
    /\ pass.running
    /\ pass.left > 0
    /\ \E scanned \in 0 .. Len(pendingQ) - 1 :
          LET idx == ScanIndex(scanned)
              r == pendingQ[idx + 1]
          IN  /\ Eligible(r)
              /\ \A k \in 0 .. scanned - 1 : ~Eligible(pendingQ[ScanIndex(k) + 1])
              /\ toWorker' = [toWorker EXCEPT ![r.worker] = Append(@, GrantMsg(r.seq))]
              /\ coarse' = [coarse EXCEPT ![r.worker] = r.window > 1]
              /\ inflight' = [inflight EXCEPT ![r.worker] = TRUE]
              /\ inflightNode' = [inflightNode EXCEPT ![r.worker] = r.node]
              /\ nodeCount' = [nodeCount EXCEPT ![r.node] = @ + 1]
              /\ pendingQ' = Erase(pendingQ, idx)
              /\ cursor' = NextCursor(idx)
    /\ pass' = Running(pass.left - 1, pass.drain)
    /\ UNCHANGED <<workerVars, toManager, finished>>

\* The loop ends: the queue is empty, the pass's grants are used up, or no
\* request is eligible.  A DONE handler goes on to maybeSendGroupDone.
ScheduleEnd ==
    /\ pass.running
    /\ \/ pass.left = 0
       \/ \A i \in 1 .. Len(pendingQ) : ~Eligible(pendingQ[i])
    /\ cursor' = IF pendingQ # <<>> /\ pass.left > 0 THEN ScanStart ELSE cursor
    /\ MaybeSendGroupDone(pass.drain /\ GroupComplete(finished, inflight, nodeCount))
    /\ pass' = Idle
    /\ UNCHANGED <<workerVars, toManager, pendingQ, slotVars>>

-----------------------------------------------------------------------------
\* Every core has seen GROUP_DONE: the kernel returns.
AllDone ==
    /\ \A w \in Workers : groupDone[w]
    /\ UNCHANGED vars

Software(w) ==
    \/ \E n \in Nodes, win \in Windows : PublishRequest(w, n, win)
    \/ PublishDone(w)
    \/ PublishFinished(w)

Manager(w) == HandleRequest(w) \/ HandleDone(w) \/ HandleFinished(w)

Next ==
    \/ \E w \in Workers : Software(w) \/ WorkerTick(w) \/ HandleRsp(w) \/ Manager(w)
    \/ ScheduleOne
    \/ ScheduleEnd
    \/ AllDone

Spec == Init /\ [][Next]_vars

\* The simulator clocks every endpoint and delivers every link message; a core
\* keeps executing its kernel.
Fairness ==
    /\ \A w \in Workers : WF_vars(Software(w)) /\ WF_vars(WorkerTick(w))
                          /\ WF_vars(HandleRsp(w)) /\ WF_vars(Manager(w))
    /\ WF_vars(ScheduleOne) /\ WF_vars(ScheduleEnd)

FairSpec == Spec /\ Fairness

-----------------------------------------------------------------------------
(* Properties. *)

HoldersOf(n) == {w \in Workers : inflight[w] /\ inflightNode[w] = n}

WorkerTypeOK ==
    /\ phase \in [Workers -> {"ready", "waiting", "finished"}]
    /\ seq \in [Workers -> Nat]
    /\ mailReq \in [Workers -> Requests]
    /\ reqValid \in [Workers -> BOOLEAN]
    /\ doneSeq \in [Workers -> Nat]
    /\ doneValid \in [Workers -> BOOLEAN]
    /\ finFlag \in [Workers -> BOOLEAN]
    /\ grantSeq \in [Workers -> Nat]
    /\ groupDone \in [Workers -> BOOLEAN]
    /\ reqSeen \in [Workers -> Nat]
    /\ doneSeen \in [Workers -> Nat]
    /\ finSeen \in [Workers -> BOOLEAN]

LinkTypeOK ==
    /\ toManager \in [Workers -> Seq(ToManagerMsgs)]
    /\ toWorker \in [Workers -> Seq(ToWorkerMsgs)]

SlotTypeOK ==
    /\ inflight \in [Workers -> BOOLEAN]
    /\ inflightNode \in [Workers -> Nodes]
    /\ coarse \in [Workers -> BOOLEAN]
    /\ finished \in [Workers -> BOOLEAN]
    /\ nodeCount \in [Nodes -> Nat]

QueueTypeOK ==
    /\ pendingQ \in Seq(PendingReqs)
    /\ cursor \in Nat
    /\ cursor = 0 \/ cursor < Len(pendingQ)
    /\ pass \in [running : BOOLEAN, left : Nat, drain : BOOLEAN]

\* Every word, message and table entry has its type; the round-robin cursor of
\* trySchedule always points at a queued request or at the start of the queue.
TypeOK == WorkerTypeOK /\ LinkTypeOK /\ SlotTypeOK /\ QueueTypeOK

\* The counter trySchedule consults is exactly the number of workers whose slot
\* is in flight at that node, and it never exceeds max_inflight_per_node: no
\* DONE or FINISHED frees a slot twice and none is forgotten.
NodeAccounting ==
    \A n \in Nodes :
        /\ nodeCount[n] = Cardinality(HoldersOf(n))
        /\ nodeCount[n] <= MaxInflightPerNode

\* Whenever the manager is between handlers with requests queued, some worker
\* is in flight: a DONE is still to come, and its handler runs trySchedule again.
\* Ending a pass after max_grants_per_schedule grants strands nobody.
NoLostWakeup ==
    ~pass.running /\ pendingQ # <<>> => \E w \in Workers : inflight[w]

\* A worker that waits for its grant has its request in exactly one place: the
\* mailbox, the link, the manager's queue, or, answered, on the link back.  With
\* a slot of queue_depth for each worker no request is ever dropped.
RequestPlaces(w) ==
    (IF reqValid[w] THEN 1 ELSE 0)
    + Cardinality({i \in DOMAIN toManager[w] : toManager[w][i].type = "REQUEST"})
    + Cardinality({i \in DOMAIN pendingQ : pendingQ[i].worker = w})
    + Cardinality({i \in DOMAIN toWorker[w] : toWorker[w][i].type = "GRANT"})

RequestNeverLost ==
    QueueDepth >= Cardinality(Workers) =>
        \A w \in Workers :
            RequestPlaces(w) = IF phase[w] = "waiting" /\ grantSeq[w] # seq[w] THEN 1 ELSE 0

\* GROUP_DONE means the group is quiet for good: once it is on a link or in a
\* mailbox, every core has finished, no request, done or finish is anywhere on
\* its way, and the manager's tables are empty.  It is therefore sent once.
GroupDoneSound ==
    (\E w \in Workers : groupDone[w] \/ \E i \in DOMAIN toWorker[w] : toWorker[w][i].type = "GROUP_DONE")
    => /\ pendingQ = <<>>
       /\ \A w \in Workers :
             /\ phase[w] = "finished"
             /\ toManager[w] = <<>>
             /\ ~reqValid[w] /\ ~doneValid[w] /\ ~finFlag[w]
             /\ ~inflight[w]
             /\ Len(toWorker[w]) <= IF groupDone[w] THEN 0 ELSE 1

\* The abstract view: a core uses the node of its batch from the moment its
\* software sees the grant until it publishes the done.
Admission == INSTANCE NodeAdmission WITH
    Capacity <- MaxInflightPerNode,
    using <- [w \in Workers |-> IF Granted(w) THEN mailReq[w].node ELSE -1],
    stopped <- {w \in Workers : phase[w] = "finished"},
    told <- {w \in Workers : groupDone[w]}

\* The protocol implements NodeAdmission: as the cores see it, whatever the
\* delays of mailboxes and links, max_inflight_per_node is never exceeded at a
\* node and GROUP_DONE is seen only when all have finished.
ImplementsAdmission == Admission!Spec

\* The kernel returns on every core: GROUP_DONE reaches each of them.
GroupReturns == <>(\A w \in Workers : groupDone[w])
=============================================================================
