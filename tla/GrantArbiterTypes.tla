------------------------- MODULE GrantArbiterTypes --------------------------
(* Typing of GrantArbiter, its inductive invariant, and what the steps have  *)
(* in common: sends, receives, and a frame lemma.                            *)
EXTENDS GrantArbiter, TLAPS

-----------------------------------------------------------------------------
(* Sequences *)

\* Removing one element (deque::erase) leaves a sequence over the same set,
\* one shorter, whose elements are the others in their order.
LEMMA EraseSeq ==
    ASSUME NEW S, NEW q \in Seq(S), NEW idx \in 0 .. Len(q) - 1
    PROVE  /\ Erase(q, idx) \in Seq(S)
           /\ Len(Erase(q, idx)) = Len(q) - 1
           /\ \A i \in 1 .. Len(q) - 1 :
                 Erase(q, idx)[i] = IF i <= idx THEN q[i] ELSE q[i + 1]
  <1> DEFINE e == Erase(q, idx)
  <1>1. Len(q) \in Nat /\ Len(q) - 1 \in Nat
    OBVIOUS
  <1>2. \A i \in 1 .. Len(q) - 1 : (IF i <= idx THEN q[i] ELSE q[i + 1]) \in S
    BY <1>1
  <1>3. e \in [1 .. Len(q) - 1 -> S]
    BY <1>2 DEF Erase
  <1>4. e \in Seq(S) /\ Len(e) = Len(q) - 1
    BY <1>1, <1>3
  <1> QED BY <1>4 DEF Erase

\* Only the empty sequence has length zero.
LEMMA LenZero ==
    ASSUME NEW S, NEW s \in Seq(S), Len(s) = 0
    PROVE  s = <<>>
  OBVIOUS

\* A non-empty sequence has a head, and its tail is a sequence over the same set.
LEMMA HeadTail ==
    ASSUME NEW S, NEW s \in Seq(S), s # <<>>
    PROVE  Head(s) \in S /\ Tail(s) \in Seq(S)
  OBVIOUS

\* A remainder is smaller than its divisor.
LEMMA ModBound ==
    ASSUME NEW a \in Nat, NEW b \in Nat \ {0}
    PROVE  a % b \in 0 .. b - 1
  OBVIOUS

\* Conditional sends keep a link a sequence of messages.
LEMMA AppendIfSeq ==
    ASSUME NEW S, NEW s \in Seq(S), NEW m \in S, NEW c \in BOOLEAN
    PROVE  AppendIf(s, c, m) \in Seq(S)
  BY DEF AppendIf

\* The scan of trySchedule stays within the queue.
LEMMA ScanInRange ==
    ASSUME QueueTypeOK, pendingQ # <<>>, NEW k \in 0 .. Len(pendingQ) - 1
    PROVE  ScanIndex(k) \in 0 .. Len(pendingQ) - 1
  <1>1. Len(pendingQ) \in Nat \ {0}
    BY DEF QueueTypeOK
  <1>2. ScanStart + k \in Nat
    BY <1>1 DEF QueueTypeOK, ScanStart
  <1> QED BY ZenonT(60), <1>1, <1>2, ModBound DEF ScanIndex

-----------------------------------------------------------------------------
(* Types *)

\* The requests software publishes, the messages and the queue entries.
LEMMA MessageTypes ==
    /\ \A s \in Nat, n \in Nodes, v \in Nat : [seq |-> s, node |-> n, window |-> v] \in Requests
    /\ \A r \in Requests : r.seq \in Nat /\ r.node \in Nodes /\ r.window \in Nat
    /\ \A r \in Requests : ReqMsg(r) \in ToManagerMsgs
    /\ \A s \in Nat : DoneMsg(s) \in ToManagerMsgs
    /\ FinishedMsg \in ToManagerMsgs
    /\ \A s \in Nat : GrantMsg(s) \in ToWorkerMsgs
    /\ GroupDoneMsg \in ToWorkerMsgs
    /\ \A m \in ToWorkerMsgs : m.seq \in Nat
    /\ 0 \in Nodes
    /\ Idle \in [running : BOOLEAN, left : Nat, drain : BOOLEAN]
    /\ \A l \in Nat, d \in BOOLEAN : Running(l, d) \in [running : BOOLEAN, left : Nat, drain : BOOLEAN]
  <1>1. 0 \in Nodes
    BY ConstantsAssumption DEF Nodes
  <1> QED BY <1>1 DEF Requests, ReqMsg, DoneMsg, FinishedMsg, GrantMsg, GroupDoneMsg,
                      ToManagerMsgs, ToWorkerMsgs, Idle, Running

\* What a grant does, with the request it answers and its place in the queue named.
Grants(r, idx) ==
    /\ Eligible(r)
    /\ toWorker' = [toWorker EXCEPT ![r.worker] = Append(@, GrantMsg(r.seq))]
    /\ coarse' = [coarse EXCEPT ![r.worker] = r.window > 1]
    /\ inflight' = [inflight EXCEPT ![r.worker] = TRUE]
    /\ inflightNode' = [inflightNode EXCEPT ![r.worker] = r.node]
    /\ nodeCount' = [nodeCount EXCEPT ![r.node] = @ + 1]
    /\ pendingQ' = Erase(pendingQ, idx)
    /\ cursor' = NextCursor(idx)

\* ScheduleOne grants one queued request.
LEMMA ScheduleOneGrants ==
    ASSUME QueueTypeOK, ScheduleOne
    PROVE  \E idx \in 0 .. Len(pendingQ) - 1 :
              /\ pendingQ[idx + 1] \in PendingReqs
              /\ Grants(pendingQ[idx + 1], idx)
  <1>1. PICK k \in 0 .. Len(pendingQ) - 1 :
           Grants(pendingQ[ScanIndex(k) + 1], ScanIndex(k))
    BY ZenonT(60) DEF ScheduleOne, Grants
  <1>2. pendingQ # <<>> /\ Len(pendingQ) \in Nat
    BY DEF QueueTypeOK
  <1>3. ScanIndex(k) \in 0 .. Len(pendingQ) - 1
    BY <1>2, ScanInRange
  <1>4. pendingQ[ScanIndex(k) + 1] \in PendingReqs
    BY <1>2, <1>3 DEF QueueTypeOK
  <1> QED BY <1>1, <1>3, <1>4

\* Each part of the type invariant through the parts of a step that touch it.
LEMMA WorkerTypeStep == TypeOK /\ [Next]_vars => WorkerTypeOK'
  <1> SUFFICES ASSUME TypeOK, [Next]_vars PROVE WorkerTypeOK'
    OBVIOUS
  <1>0. WorkerTypeOK /\ LinkTypeOK
    BY DEF TypeOK
  <1>1. ASSUME NEW w \in Workers, NEW n \in Nodes, NEW win \in Windows,
               PublishRequest(w, n, win)
        PROVE  WorkerTypeOK'
    <2>1. win \in Nat
      BY ConstantsAssumption
    <2>2. seq[w] + 1 \in Nat
      BY <1>0 DEF WorkerTypeOK
    <2>3. [seq |-> seq[w] + 1, node |-> n, window |-> win] \in Requests
      BY <2>1, <2>2, MessageTypes
    <2> QED BY <1>0, <1>1, <2>2, <2>3 DEF PublishRequest, WorkerTypeOK, deliveredVars, endpointVars
  <1>2. ASSUME NEW w \in Workers, PublishDone(w) PROVE WorkerTypeOK'
    BY <1>0, <1>2 DEF PublishDone, WorkerTypeOK, deliveredVars, endpointVars
  <1>3. ASSUME NEW w \in Workers, PublishFinished(w) PROVE WorkerTypeOK'
    BY <1>0, <1>3 DEF PublishFinished, WorkerTypeOK, deliveredVars, endpointVars
  <1>4. ASSUME NEW w \in Workers, WorkerTick(w) PROVE WorkerTypeOK'
    <2>1. SendsRequest(w) \in BOOLEAN /\ SendsDone(w) \in BOOLEAN /\ SendsFinished(w) \in BOOLEAN
      BY <1>0 DEF SendsRequest, SendsDone, SendsFinished, WorkerTypeOK
    <2>2. mailReq[w].seq \in Nat
      BY <1>0, MessageTypes DEF WorkerTypeOK
    <2> QED BY <1>0, <1>4, <2>1, <2>2 DEF WorkerTick, WorkerTypeOK, deliveredVars
  <1>5. ASSUME NEW w \in Workers, HandleRsp(w) PROVE WorkerTypeOK'
    <2>1. Head(toWorker[w]) \in ToWorkerMsgs
      BY <1>0, <1>5, HeadTail DEF HandleRsp, LinkTypeOK
    <2>2. Head(toWorker[w]).seq \in Nat
      BY <2>1, MessageTypes
    <2> QED BY ZenonT(60), <1>0, <1>5, <2>2 DEF HandleRsp, WorkerTypeOK, softwareVars, endpointVars
  <1>6. CASE UNCHANGED workerVars
    BY <1>0, <1>6 DEF WorkerTypeOK, workerVars, softwareVars, deliveredVars, endpointVars
  <1> QED BY ZenonT(60), <1>1, <1>2, <1>3, <1>4, <1>5, <1>6
          DEF Next, Software, Manager, AllDone, vars, HandleRequest, HandleDone, HandleFinished,
              ScheduleOne, ScheduleEnd

LEMMA LinkTypeStep == TypeOK /\ [Next]_vars => LinkTypeOK'
  <1> SUFFICES ASSUME TypeOK, [Next]_vars PROVE LinkTypeOK'
    OBVIOUS
  <1>0. WorkerTypeOK /\ LinkTypeOK /\ QueueTypeOK
    BY DEF TypeOK
  <1>1. ASSUME NEW w \in Workers, WorkerTick(w) PROVE LinkTypeOK'
    <2>1. /\ ReqMsg(mailReq[w]) \in ToManagerMsgs
          /\ DoneMsg(doneSeq[w]) \in ToManagerMsgs
          /\ FinishedMsg \in ToManagerMsgs
      BY <1>0, MessageTypes DEF WorkerTypeOK
    <2>2. SendsRequest(w) \in BOOLEAN /\ SendsDone(w) \in BOOLEAN /\ SendsFinished(w) \in BOOLEAN
      BY <1>0 DEF SendsRequest, SendsDone, SendsFinished, WorkerTypeOK
    <2> DEFINE s1 == AppendIf(toManager[w], SendsRequest(w), ReqMsg(mailReq[w]))
               s2 == AppendIf(s1, SendsDone(w), DoneMsg(doneSeq[w]))
               s3 == AppendIf(s2, SendsFinished(w), FinishedMsg)
    <2>3. toManager[w] \in Seq(ToManagerMsgs)
      BY <1>0 DEF LinkTypeOK
    <2>4. s1 \in Seq(ToManagerMsgs)
      BY <2>1, <2>2, <2>3, AppendIfSeq
    <2>5. s2 \in Seq(ToManagerMsgs)
      BY <2>1, <2>2, <2>4, AppendIfSeq
    <2>6. s3 \in Seq(ToManagerMsgs)
      BY <2>1, <2>2, <2>5, AppendIfSeq
    <2>7. toManager' = [toManager EXCEPT ![w] = s3] /\ toWorker' = toWorker
      BY <1>1 DEF WorkerTick
    <2> HIDE DEF s3
    <2> QED BY <1>0, <2>6, <2>7 DEF LinkTypeOK
  <1>2. ASSUME NEW w \in Workers, HandleRsp(w) PROVE LinkTypeOK'
    BY <1>0, <1>2, HeadTail DEF HandleRsp, LinkTypeOK
  <1>3. ASSUME NEW w \in Workers, NEW type, Receive(w, type)
        PROVE  toManager' \in [Workers -> Seq(ToManagerMsgs)]
    BY <1>0, <1>3, HeadTail DEF Receive, LinkTypeOK
  <1>4. ASSUME NEW c \in BOOLEAN, MaybeSendGroupDone(c)
        PROVE  toWorker' \in [Workers -> Seq(ToWorkerMsgs)]
    <2>1. \A w \in Workers : AppendIf(toWorker[w], c, GroupDoneMsg) \in Seq(ToWorkerMsgs)
      BY <1>0, MessageTypes, AppendIfSeq DEF LinkTypeOK
    <2> QED BY <1>4, <2>1 DEF MaybeSendGroupDone
  <1>5. ASSUME NEW w \in Workers, HandleRequest(w) PROVE LinkTypeOK'
    BY <1>0, <1>3, <1>5 DEF HandleRequest, LinkTypeOK
  <1>6. ASSUME NEW w \in Workers, HandleDone(w) PROVE LinkTypeOK'
    BY <1>0, <1>3, <1>6 DEF HandleDone, LinkTypeOK
  <1>7. ASSUME NEW w \in Workers, HandleFinished(w) PROVE LinkTypeOK'
    <2>1. GroupComplete(finished', inflight', nodeCount') \in BOOLEAN
      BY DEF GroupComplete
    <2> QED BY <1>3, <1>4, <1>7, <2>1 DEF HandleFinished, LinkTypeOK
  <1>8. CASE ScheduleOne
    <2>1. PICK idx \in 0 .. Len(pendingQ) - 1 :
             pendingQ[idx + 1] \in PendingReqs /\ Grants(pendingQ[idx + 1], idx)
      BY <1>0, <1>8, ScheduleOneGrants
    <2> DEFINE r == pendingQ[idx + 1]
    <2>2. r.worker \in Workers /\ GrantMsg(r.seq) \in ToWorkerMsgs
      BY <2>1, MessageTypes DEF PendingReqs
    <2>3. toWorker' = [toWorker EXCEPT ![r.worker] = Append(@, GrantMsg(r.seq))]
      BY <2>1 DEF Grants
    <2>4. toManager' = toManager
      BY <1>8 DEF ScheduleOne
    <2> HIDE DEF r
    <2>5. Append(toWorker[r.worker], GrantMsg(r.seq)) \in Seq(ToWorkerMsgs)
      BY <1>0, <2>2 DEF LinkTypeOK
    <2> QED BY <1>0, <2>2, <2>3, <2>4, <2>5 DEF LinkTypeOK
  <1>9. CASE ScheduleEnd
    <2>1. (pass.drain /\ GroupComplete(finished, inflight, nodeCount)) \in BOOLEAN
      OBVIOUS
    <2> QED BY ZenonT(60), <1>0, <1>4, <1>9, <2>1 DEF ScheduleEnd, LinkTypeOK
  <1>10. CASE UNCHANGED <<toManager, toWorker>>
    BY <1>0, <1>10 DEF LinkTypeOK
  <1> QED BY <1>1, <1>2, <1>5, <1>6, <1>7, <1>8, <1>9, <1>10
          DEF Next, Software, Manager, AllDone, vars, PublishRequest, PublishDone, PublishFinished

LEMMA SlotTypeStep == TypeOK /\ [Next]_vars => SlotTypeOK'
  <1> SUFFICES ASSUME TypeOK, [Next]_vars PROVE SlotTypeOK'
    OBVIOUS
  <1>0. SlotTypeOK /\ QueueTypeOK /\ 0 \in Nodes
    BY MessageTypes DEF TypeOK
  <1>1. ASSUME NEW w \in Workers, DropNodeCount(w) PROVE nodeCount' \in [Nodes -> Nat]
    <2>1. inflightNode[w] \in Nodes /\ nodeCount[inflightNode[w]] \in Nat
      BY <1>0 DEF SlotTypeOK
    <2>2. \A x \in Nat : (IF x > 0 THEN x - 1 ELSE x) \in Nat
      OBVIOUS
    <2> QED BY <1>0, <1>1, <2>1, <2>2 DEF DropNodeCount, SlotTypeOK
  <1>2. ASSUME NEW w \in Workers, HandleDone(w) PROVE SlotTypeOK'
    <2>1. nodeCount' \in [Nodes -> Nat]
      BY <1>1, <1>2 DEF HandleDone
    <2> QED BY <1>0, <1>2, <2>1 DEF HandleDone, SlotTypeOK
  <1>3. ASSUME NEW w \in Workers, HandleFinished(w) PROVE SlotTypeOK'
    <2>1. nodeCount' \in [Nodes -> Nat]
      BY <1>0, <1>1, <1>3 DEF HandleFinished, SlotTypeOK
    <2>2. finished' \in [Workers -> BOOLEAN] /\ coarse' = coarse
      BY <1>0, <1>3 DEF HandleFinished, SlotTypeOK
    <2>3. inflight' \in [Workers -> BOOLEAN] /\ inflightNode' \in [Workers -> Nodes]
      <3>1. CASE coarse[w]
        BY ZenonT(60), <1>0, <1>3, <3>1 DEF HandleFinished, SlotTypeOK
      <3>2. CASE ~coarse[w]
        BY <1>0, <1>3, <3>2 DEF HandleFinished, SlotTypeOK
      <3> QED BY <3>1, <3>2
    <2> QED BY <1>0, <2>1, <2>2, <2>3 DEF SlotTypeOK
  <1>4. CASE ScheduleOne
    <2>1. PICK idx \in 0 .. Len(pendingQ) - 1 :
             pendingQ[idx + 1] \in PendingReqs /\ Grants(pendingQ[idx + 1], idx)
      BY <1>0, <1>4, ScheduleOneGrants
    <2> DEFINE r == pendingQ[idx + 1]
    <2>2. r.worker \in Workers /\ r.node \in Nodes /\ r.window \in Nat
      BY <2>1 DEF PendingReqs
    <2>3. /\ coarse' = [coarse EXCEPT ![r.worker] = r.window > 1]
          /\ inflight' = [inflight EXCEPT ![r.worker] = TRUE]
          /\ inflightNode' = [inflightNode EXCEPT ![r.worker] = r.node]
          /\ nodeCount' = [nodeCount EXCEPT ![r.node] = @ + 1]
          /\ finished' = finished
      BY ZenonT(60), <1>4, <2>1 DEF Grants, ScheduleOne
    <2> HIDE DEF r
    <2>4. (r.window > 1) \in BOOLEAN
      BY <2>2
    <2>5. nodeCount[r.node] + 1 \in Nat
      BY <1>0, <2>2 DEF SlotTypeOK
    <2>6. coarse' \in [Workers -> BOOLEAN] /\ inflight' \in [Workers -> BOOLEAN]
      BY <1>0, <2>2, <2>3, <2>4 DEF SlotTypeOK
    <2>7. inflightNode' \in [Workers -> Nodes] /\ nodeCount' \in [Nodes -> Nat]
      BY <1>0, <2>2, <2>3, <2>5 DEF SlotTypeOK
    <2> QED BY <1>0, <2>3, <2>6, <2>7 DEF SlotTypeOK
  <1>5. CASE UNCHANGED slotVars
    BY <1>0, <1>5 DEF SlotTypeOK, slotVars
  <1> QED BY ZenonT(60), <1>2, <1>3, <1>4, <1>5
          DEF Next, Software, Manager, AllDone, vars, managerVars, PublishRequest, PublishDone,
              PublishFinished, WorkerTick, HandleRsp, HandleRequest, ScheduleEnd

LEMMA QueueTypeStep == TypeOK /\ [Next]_vars => QueueTypeOK'
  <1> SUFFICES ASSUME TypeOK, [Next]_vars PROVE QueueTypeOK'
    OBVIOUS
  <1>0. LinkTypeOK /\ QueueTypeOK
    BY DEF TypeOK
  <1> DEFINE Passes == [running : BOOLEAN, left : Nat, drain : BOOLEAN]
  <1>1. ASSUME NEW w \in Workers, HandleRequest(w) PROVE QueueTypeOK'
    <2> DEFINE r == [worker |-> w, seq |-> Head(toManager[w]).seq,
                     node |-> Head(toManager[w]).node, window |-> Head(toManager[w]).window]
    <2>1. Head(toManager[w]) \in ToManagerMsgs
      BY <1>0, <1>1, HeadTail DEF HandleRequest, Receive, LinkTypeOK
    <2>2. r \in PendingReqs
      BY <2>1 DEF ToManagerMsgs, PendingReqs
    <2>3. \/ pendingQ' = pendingQ /\ pass' = pass
          \/ pendingQ' = Append(pendingQ, r) /\ pass' = Running(MaxGrantsPerSchedule, FALSE)
      BY ZenonT(60), <1>1 DEF HandleRequest
    <2>4. cursor' = cursor
      BY <1>1 DEF HandleRequest
    <2> HIDE DEF r
    <2>5. CASE pendingQ' = pendingQ /\ pass' = pass
      BY <1>0, <2>4, <2>5 DEF QueueTypeOK
    <2>6. CASE pendingQ' = Append(pendingQ, r) /\ pass' = Running(MaxGrantsPerSchedule, FALSE)
      <3>1. pass' \in Passes
        BY ZenonT(60), <2>6, MessageTypes, ConstantsAssumption
      <3>2. pendingQ' \in Seq(PendingReqs) /\ Len(pendingQ') = Len(pendingQ) + 1
        BY <1>0, <2>2, <2>6 DEF QueueTypeOK
      <3> QED BY <1>0, <2>4, <3>1, <3>2 DEF QueueTypeOK
    <2> QED BY ZenonT(60), <2>3, <2>5, <2>6
  <1>2. ASSUME NEW w \in Workers, HandleDone(w) PROVE QueueTypeOK'
    <2>1. pass' \in Passes
      BY ZenonT(60), <1>2, MessageTypes, ConstantsAssumption DEF HandleDone
    <2> QED BY ZenonT(60), <1>0, <1>2, <2>1 DEF HandleDone, QueueTypeOK
  <1>3. CASE ScheduleOne
    <2>1. PICK idx \in 0 .. Len(pendingQ) - 1 : Grants(pendingQ[idx + 1], idx)
      BY <1>0, <1>3, ScheduleOneGrants
    <2>2. Len(pendingQ) \in Nat \ {0} /\ pendingQ \in Seq(PendingReqs)
      BY <1>0 DEF QueueTypeOK
    <2>3. pendingQ' = Erase(pendingQ, idx) /\ cursor' = NextCursor(idx)
      BY <2>1 DEF Grants
    <2>4. pendingQ' \in Seq(PendingReqs) /\ Len(pendingQ') = Len(pendingQ) - 1
      BY <2>2, <2>3, EraseSeq
    <2>5. cursor' \in Nat /\ (cursor' = 0 \/ cursor' < Len(pendingQ'))
      <3>1. CASE Len(pendingQ) = 1
        BY <2>3, <3>1 DEF NextCursor
      <3>2. CASE Len(pendingQ) # 1
        <4>1. idx \in Nat /\ Len(pendingQ) - 1 \in Nat \ {0}
          BY <2>2, <3>2
        <4>2. idx % (Len(pendingQ) - 1) \in 0 .. (Len(pendingQ) - 1) - 1
          BY ZenonT(60), <4>1, ModBound
        <4>3. cursor' = idx % (Len(pendingQ) - 1)
          BY <2>3, <3>2 DEF NextCursor
        <4> QED BY <2>4, <4>1, <4>2, <4>3
      <3> QED BY <3>1, <3>2
    <2>6. pass' \in Passes
      <3>1. pass.left - 1 \in Nat /\ pass.drain \in BOOLEAN
        BY <1>0, <1>3 DEF ScheduleOne, QueueTypeOK
      <3> QED BY <1>3, <3>1, MessageTypes DEF ScheduleOne
    <2> QED BY <2>4, <2>5, <2>6 DEF QueueTypeOK
  <1>4. CASE ScheduleEnd
    <2>1. cursor' \in Nat /\ (cursor' = 0 \/ cursor' < Len(pendingQ))
      BY <1>0, <1>4 DEF ScheduleEnd, ScanStart, QueueTypeOK
    <2>2. pass' \in Passes
      BY <1>4, MessageTypes DEF ScheduleEnd
    <2> QED BY <1>0, <1>4, <2>1, <2>2 DEF ScheduleEnd, QueueTypeOK
  <1>5. CASE UNCHANGED <<pendingQ, cursor, pass>>
    BY <1>0, <1>5 DEF QueueTypeOK
  <1> QED BY ZenonT(60), <1>1, <1>2, <1>3, <1>4, <1>5
          DEF Next, Software, Manager, AllDone, vars, managerVars, PublishRequest, PublishDone,
              PublishFinished, WorkerTick, HandleRsp, HandleFinished

LEMMA TypeInit == Init => TypeOK
  <1> SUFFICES ASSUME Init PROVE TypeOK
    OBVIOUS
  <1>1. [seq |-> 0, node |-> 0, window |-> 0] \in Requests
    BY MessageTypes
  <1>2. WorkerTypeOK
    BY <1>1 DEF Init, WorkerTypeOK
  <1>3. LinkTypeOK
    BY DEF Init, LinkTypeOK
  <1>4. SlotTypeOK
    BY MessageTypes DEF Init, SlotTypeOK
  <1>5. QueueTypeOK
    BY MessageTypes DEF Init, QueueTypeOK
  <1> QED BY <1>2, <1>3, <1>4, <1>5 DEF TypeOK

\* The type invariant of GroupCtrlEndpoint's tables, links and mailboxes; in
\* particular the round-robin cursor never runs past the queue.
THEOREM TypeCorrect == Spec => []TypeOK
  <1>1. TypeOK /\ [Next]_vars => TypeOK'
    BY WorkerTypeStep, LinkTypeStep, SlotTypeStep, QueueTypeStep DEF TypeOK
  <1> QED BY <1>1, TypeInit, PTL DEF Spec

-----------------------------------------------------------------------------
(* The inductive invariant *)

Elems(s) == {s[i] : i \in 1 .. Len(s)}

Sent(w, type) == \E m \in Elems(toManager[w]) : m.type = type
Answered(w, type) == \E m \in Elems(toWorker[w]) : m.type = type
Queued(w) == \E r \in Elems(pendingQ) : r.worker = w

\* A link carries at most one message of each type, FINISHED last; the queue
\* holds at most one request of each worker.
DistinctTypes(s) == \A i, j \in 1 .. Len(s) : s[i].type = s[j].type => i = j
FinishLast(s) == \A i \in 1 .. Len(s) : s[i].type = "FINISHED" => i = Len(s)
DistinctWorkers(q) == \A i, j \in 1 .. Len(q) : q[i].worker = q[j].worker => i = j

Shape(w) ==
    /\ DistinctTypes(toManager[w])
    /\ FinishLast(toManager[w])
    /\ DistinctTypes(toWorker[w])

\* A request is in at most one of four places, and only while its worker waits.
RequestInv(w) ==
    /\ mailReq[w].seq = seq[w]
    /\ grantSeq[w] <= seq[w]
    /\ reqSeen[w] <= seq[w]
    /\ reqValid[w] => reqSeen[w] < seq[w]
    /\ reqValid[w] \/ Sent(w, "REQUEST") \/ Queued(w) \/ Answered(w, "GRANT")
          => phase[w] = "waiting" /\ grantSeq[w] # seq[w]
    /\ reqValid[w] => ~Sent(w, "REQUEST") /\ ~Queued(w) /\ ~Answered(w, "GRANT")
    /\ Sent(w, "REQUEST") => ~Queued(w) /\ ~Answered(w, "GRANT")
    /\ Queued(w) => ~Answered(w, "GRANT")
    /\ \A m \in Elems(toManager[w]) :
          m.type = "REQUEST" => m.seq = seq[w] /\ m.node = mailReq[w].node
    /\ \A r \in Elems(pendingQ) :
          r.worker = w => r.seq = seq[w] /\ r.node = mailReq[w].node
    /\ \A m \in Elems(toWorker[w]) : m.type = "GRANT" => m.seq = seq[w]

\* A worker's slot is in flight exactly while its grant is in one of four
\* places: on the link back, in use, in the mailbox as a done, on the link as one.
TokenInv(w) ==
    /\ inflight[w] <=> Answered(w, "GRANT") \/ Granted(w) \/ doneValid[w] \/ Sent(w, "DONE")
    /\ Answered(w, "GRANT") => ~doneValid[w] /\ ~Sent(w, "DONE")
    /\ Granted(w) => ~doneValid[w] /\ ~Sent(w, "DONE")
    /\ doneValid[w] => ~Sent(w, "DONE")
    /\ Answered(w, "GRANT") \/ Granted(w) => inflightNode[w] = mailReq[w].node
    /\ doneSeen[w] <= doneSeq[w] /\ doneSeq[w] <= seq[w]
    /\ phase[w] = "waiting" => doneSeq[w] < seq[w]
    /\ doneValid[w] => doneSeen[w] < doneSeq[w]

\* FINISHED is the last thing a worker says.
FinishInv(w) ==
    /\ finFlag[w] => phase[w] = "finished" /\ ~finSeen[w]
    /\ finSeen[w] => phase[w] = "finished"
    /\ Sent(w, "FINISHED") => finSeen[w] /\ ~finished[w] /\ ~doneValid[w]
    /\ finished[w] => finSeen[w] /\ toManager[w] = <<>> /\ ~doneValid[w]

GroupDoneSent == \E w \in Workers : groupDone[w] \/ Answered(w, "GROUP_DONE")

\* GROUP_DONE is sent once, between handlers, to a group at rest.
GroupInv ==
    /\ GroupDoneSent => ~pass.running /\ pendingQ = <<>>
                        /\ \A w \in Workers : finished[w] /\ ~inflight[w]
    /\ \A w \in Workers : groupDone[w] => toWorker[w] = <<>>

\* A pass that has granted leaves someone in flight.
PassInv ==
    /\ pass.left <= MaxGrantsPerSchedule
    /\ pass.running /\ pass.left < MaxGrantsPerSchedule => \E w \in Workers : inflight[w]
    /\ NoLostWakeup

WorkerInv == \A w \in Workers : Shape(w) /\ RequestInv(w) /\ TokenInv(w) /\ FinishInv(w)

IInv ==
    /\ TypeOK
    /\ WorkerInv
    /\ DistinctWorkers(pendingQ)
    /\ NodeAccounting
    /\ GroupInv
    /\ PassInv

-----------------------------------------------------------------------------
(* What sends and receives do to the elements of a link *)

\* Sending adds the message, behind the others.
LEMMA SendElems ==
    ASSUME NEW S, NEW s \in Seq(S), NEW m \in S
    PROVE  /\ Elems(Append(s, m)) = Elems(s) \cup {m}
           /\ DistinctTypes(s) /\ (\A x \in Elems(s) : x.type # m.type)
                 => DistinctTypes(Append(s, m))
           /\ (\A x \in Elems(s) : x.type # "FINISHED") => FinishLast(Append(s, m))
           /\ DistinctWorkers(s) /\ (\A x \in Elems(s) : x.worker # m.worker)
                 => DistinctWorkers(Append(s, m))
  <1> DEFINE t == Append(s, m)
  <1>1. /\ Len(t) = Len(s) + 1 /\ Len(s) \in Nat
        /\ \A i \in 1 .. Len(s) : t[i] = s[i]
        /\ t[Len(s) + 1] = m
    OBVIOUS
  <1> HIDE DEF t
  <1>2. Elems(t) = Elems(s) \cup {m}
    BY <1>1 DEF Elems
  <1>3. ASSUME DistinctTypes(s), \A x \in Elems(s) : x.type # m.type
        PROVE  DistinctTypes(t)
    <2>1. \A i \in 1 .. Len(s) : t[i].type # m.type
      BY <1>1, <1>3 DEF Elems
    <2> QED BY <1>1, <1>3, <2>1 DEF DistinctTypes
  <1>4. ASSUME \A x \in Elems(s) : x.type # "FINISHED" PROVE FinishLast(t)
    <2>1. \A i \in 1 .. Len(s) : t[i].type # "FINISHED"
      BY <1>1, <1>4 DEF Elems
    <2> QED BY <1>1, <2>1 DEF FinishLast
  <1>5. ASSUME DistinctWorkers(s), \A x \in Elems(s) : x.worker # m.worker
        PROVE  DistinctWorkers(t)
    <2>1. \A i \in 1 .. Len(s) : t[i].worker # m.worker
      BY <1>1, <1>5 DEF Elems
    <2> QED BY <1>1, <1>5, <2>1 DEF DistinctWorkers
  <1> QED BY <1>2, <1>3, <1>4, <1>5 DEF t

\* A conditional send.
LEMMA SendIfElems ==
    ASSUME NEW S, NEW s \in Seq(S), NEW m \in S, NEW c \in BOOLEAN
    PROVE  /\ Elems(AppendIf(s, c, m)) = IF c THEN Elems(s) \cup {m} ELSE Elems(s)
           /\ DistinctTypes(s) /\ (c => \A x \in Elems(s) : x.type # m.type)
                 => DistinctTypes(AppendIf(s, c, m))
           /\ FinishLast(s) /\ (c => \A x \in Elems(s) : x.type # "FINISHED")
                 => FinishLast(AppendIf(s, c, m))
  <1>1. CASE c
    <2>1. AppendIf(s, c, m) = Append(s, m)
      BY <1>1 DEF AppendIf
    <2>2. /\ Elems(Append(s, m)) = Elems(s) \cup {m}
          /\ DistinctTypes(s) /\ (\A x \in Elems(s) : x.type # m.type)
                 => DistinctTypes(Append(s, m))
          /\ (\A x \in Elems(s) : x.type # "FINISHED") => FinishLast(Append(s, m))
      BY SendElems
    <2> QED BY <1>1, <2>1, <2>2, Zenon
  <1>2. CASE ~c
    <2>1. AppendIf(s, c, m) = s
      BY <1>2 DEF AppendIf
    <2> QED BY <1>2, <2>1
  <1> QED BY <1>1, <1>2

\* Receiving removes the head, which the rest of the link no longer holds.
LEMMA ReceiveElems ==
    ASSUME NEW S, NEW s \in Seq(S), s # <<>>
    PROVE  /\ Elems(s) = Elems(Tail(s)) \cup {Head(s)}
           /\ DistinctTypes(s) => /\ DistinctTypes(Tail(s))
                                  /\ \A x \in Elems(Tail(s)) : x.type # Head(s).type
           /\ FinishLast(s) => /\ FinishLast(Tail(s))
                               /\ Head(s).type = "FINISHED" => Tail(s) = <<>>
  <1> DEFINE t == Tail(s)
  <1>1. /\ Len(s) \in Nat \ {0} /\ Len(t) = Len(s) - 1 /\ Head(s) = s[1]
        /\ t \in Seq(S)
        /\ \A i \in 1 .. Len(s) - 1 : t[i] = s[i + 1]
    OBVIOUS
  <1>2. (Len(t) = 0) => t = <<>>
    BY ZenonT(60), <1>1, LenZero
  <1> HIDE DEF t
  <1>3. Elems(s) = Elems(t) \cup {Head(s)}
    <2>1. \A x \in Elems(s) : x \in Elems(t) \cup {s[1]}
      <3> TAKE x \in Elems(s)
      <3>1. PICK i \in 1 .. Len(s) : x = s[i]
        BY DEF Elems
      <3>2. CASE i = 1
        BY <3>1, <3>2
      <3>3. CASE i # 1
        <4>1. i - 1 \in 1 .. Len(t) /\ t[i - 1] = s[i]
          BY <1>1, <3>1, <3>3
        <4> QED BY <3>1, <4>1 DEF Elems
      <3> QED BY <3>2, <3>3
    <2>2. \A x \in Elems(t) : x \in Elems(s)
      BY <1>1 DEF Elems
    <2>3. s[1] \in Elems(s)
      BY <1>1 DEF Elems
    <2> QED BY <1>1, <2>1, <2>2, <2>3
  <1>4. ASSUME DistinctTypes(s)
        PROVE  DistinctTypes(t) /\ \A x \in Elems(t) : x.type # Head(s).type
    <2>1. \A i \in 1 .. Len(t) : i + 1 \in 1 .. Len(s) /\ t[i] = s[i + 1] /\ i + 1 # 1
      BY <1>1
    <2>2. DistinctTypes(t)
      BY <1>1, <1>4, <2>1 DEF DistinctTypes
    <2>3. \A i \in 1 .. Len(t) : t[i].type # s[1].type
      BY <1>1, <1>4, <2>1 DEF DistinctTypes
    <2> QED BY <1>1, <2>2, <2>3 DEF Elems
  <1>5. ASSUME FinishLast(s)
        PROVE  FinishLast(t) /\ (Head(s).type = "FINISHED" => t = <<>>)
    <2>1. FinishLast(t)
      BY <1>1, <1>5 DEF FinishLast
    <2>2. Head(s).type = "FINISHED" => Len(s) = 1
      BY <1>1, <1>5 DEF FinishLast
    <2> QED BY <1>1, <1>2, <2>1, <2>2
  <1> QED BY <1>3, <1>4, <1>5 DEF t

\* Granting takes exactly one worker's request out of the queue.
LEMMA EraseElems ==
    ASSUME NEW S, NEW q \in Seq(S), NEW idx \in 0 .. Len(q) - 1, DistinctWorkers(q)
    PROVE  /\ Elems(Erase(q, idx)) = {r \in Elems(q) : r.worker # q[idx + 1].worker}
           /\ DistinctWorkers(Erase(q, idx))
  <1> DEFINE e == Erase(q, idx)
  <1>1. /\ Len(q) \in Nat /\ e \in Seq(S) /\ Len(e) = Len(q) - 1
        /\ \A i \in 1 .. Len(q) - 1 : e[i] = IF i <= idx THEN q[i] ELSE q[i + 1]
    BY EraseSeq
  <1> HIDE DEF e
  <1>2. \A i \in 1 .. Len(e) : \E j \in 1 .. Len(q) : j # idx + 1 /\ e[i] = q[j]
    <2> TAKE i \in 1 .. Len(e)
    <2>1. CASE i <= idx
      BY <1>1, <2>1
    <2>2. CASE ~(i <= idx)
      <3>1. i + 1 \in 1 .. Len(q) /\ i + 1 # idx + 1 /\ e[i] = q[i + 1]
        BY <1>1, <2>2
      <3> QED BY <3>1
    <2> QED BY <2>1, <2>2
  <1>3. \A j \in 1 .. Len(q) : j # idx + 1 => \E i \in 1 .. Len(e) : e[i] = q[j]
    <2> SUFFICES ASSUME NEW j \in 1 .. Len(q), j # idx + 1
                 PROVE  \E i \in 1 .. Len(e) : e[i] = q[j]
      OBVIOUS
    <2>1. CASE j <= idx
      <3>1. j \in 1 .. Len(e) /\ e[j] = q[j]
        BY <1>1, <2>1
      <3> QED BY <3>1
    <2>2. CASE j > idx
      <3>1. j - 1 \in 1 .. Len(e) /\ e[j - 1] = q[j]
        BY <1>1, <2>2
      <3> QED BY <3>1
    <2> QED BY <2>1, <2>2
  <1>4. idx + 1 \in 1 .. Len(q)
    BY <1>1
  <1>5. \A j \in 1 .. Len(q) : j # idx + 1 <=> q[j].worker # q[idx + 1].worker
    BY <1>4 DEF DistinctWorkers
  <1>6. Elems(e) = {r \in Elems(q) : r.worker # q[idx + 1].worker}
    <2>1. \A r \in Elems(e) : r \in Elems(q) /\ r.worker # q[idx + 1].worker
      BY <1>2, <1>5 DEF Elems
    <2>2. \A r \in Elems(q) : r.worker # q[idx + 1].worker => r \in Elems(e)
      BY <1>3, <1>5 DEF Elems
    <2> QED BY <2>1, <2>2
  <1>7. DistinctWorkers(e)
    <2> SUFFICES ASSUME NEW i \in 1 .. Len(e), NEW j \in 1 .. Len(e), e[i].worker = e[j].worker
                 PROVE  i = j
      BY DEF DistinctWorkers
    <2> DEFINE up(k) == IF k <= idx THEN k ELSE k + 1
    <2>1. /\ up(i) \in 1 .. Len(q) /\ up(j) \in 1 .. Len(q)
          /\ e[i] = q[up(i)] /\ e[j] = q[up(j)]
      BY <1>1
    <2>2. up(i) = up(j)
      BY <2>1 DEF DistinctWorkers
    <2> QED BY <1>1, <2>2
  <1> QED BY <1>6, <1>7 DEF e

-----------------------------------------------------------------------------
(* The invariant of one worker, action by action *)

OneInv(w) == Shape(w) /\ RequestInv(w) /\ TokenInv(w) /\ FinishInv(w)

\* Nothing about worker w changes.
SameSoftware(w) ==
    /\ phase'[w] = phase[w] /\ seq'[w] = seq[w] /\ mailReq'[w] = mailReq[w]
    /\ reqValid'[w] = reqValid[w] /\ doneSeq'[w] = doneSeq[w] /\ doneValid'[w] = doneValid[w]
    /\ finFlag'[w] = finFlag[w] /\ grantSeq'[w] = grantSeq[w]
    /\ reqSeen'[w] = reqSeen[w] /\ doneSeen'[w] = doneSeen[w] /\ finSeen'[w] = finSeen[w]

SameLinks(w) == toManager'[w] = toManager[w] /\ toWorker'[w] = toWorker[w]

SameQueue(w) == \A r : r.worker = w => (r \in Elems(pendingQ') <=> r \in Elems(pendingQ))

SameSlot(w) ==
    inflight'[w] = inflight[w] /\ inflightNode'[w] = inflightNode[w] /\ finished'[w] = finished[w]

\* A worker no part of which changes keeps its invariant.
LEMMA Frame ==
    ASSUME NEW w \in Workers, OneInv(w), SameSoftware(w), SameLinks(w), SameQueue(w), SameSlot(w)
    PROVE  OneInv(w)'
  <1>1. \A t : Sent(w, t)' <=> Sent(w, t)
    BY DEF Sent, SameLinks
  <1>2. \A t : Answered(w, t)' <=> Answered(w, t)
    BY DEF Answered, SameLinks
  <1>3. Queued(w)' <=> Queued(w)
    BY DEF Queued, SameQueue
  <1>4. Granted(w)' <=> Granted(w)
    BY DEF Granted, SameSoftware
  <1>5. Shape(w)'
    BY DEF OneInv, Shape, SameLinks
  <1>6. RequestInv(w)'
    BY ZenonT(60), <1>1, <1>2, <1>3 DEF OneInv, RequestInv, SameSoftware, SameLinks, SameQueue
  <1>7. TokenInv(w)'
    BY ZenonT(60), <1>1, <1>2, <1>4 DEF OneInv, TokenInv, SameSoftware, SameSlot
  <1>8. FinishInv(w)'
    BY ZenonT(60), <1>1 DEF OneInv, FinishInv, SameSoftware, SameLinks, SameSlot
  <1> QED BY <1>5, <1>6, <1>7, <1>8 DEF OneInv

=============================================================================
