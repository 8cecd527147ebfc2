------------------------ MODULE GrantArbiterManager -------------------------
(* The steps of the manager endpoint of GrantArbiter preserve what the        *)
(* inductive invariant says of each worker, and the node accounting.          *)
EXTENDS GrantArbiterWorker

-----------------------------------------------------------------------------
(* The manager's handlers *)

\* What the manager's receipt of a message does to the sender's link.
LEMMA ReceiveLink ==
    ASSUME TypeOK, WorkerInv, NEW w0 \in Workers, NEW type, Receive(w0, type)
    PROVE  /\ Head(toManager[w0]) \in Elems(toManager[w0])
           /\ Head(toManager[w0]).type = type
           /\ Elems(toManager'[w0]) \subseteq Elems(toManager[w0])
           /\ \A x \in Elems(toManager[w0]) :
                 x \in Elems(toManager'[w0]) \/ x = Head(toManager[w0])
           /\ \A x \in Elems(toManager'[w0]) : x.type # type
           /\ DistinctTypes(toManager'[w0]) /\ FinishLast(toManager'[w0])
           /\ type = "FINISHED" => toManager'[w0] = <<>>
           /\ \A w \in Workers : w # w0 => toManager'[w] = toManager[w]
  <1>0. LinkTypeOK /\ Shape(w0)
    BY DEF TypeOK, WorkerInv
  <1> DEFINE s == toManager[w0]
  <1>1. s \in Seq(ToManagerMsgs) /\ s # <<>> /\ Head(s).type = type
    BY <1>0 DEF Receive, LinkTypeOK
  <1>2. /\ toManager'[w0] = Tail(s)
        /\ \A w \in Workers : w # w0 => toManager'[w] = toManager[w]
    BY <1>0 DEF Receive, LinkTypeOK
  <1>3. /\ Elems(s) = Elems(Tail(s)) \cup {Head(s)}
        /\ DistinctTypes(Tail(s)) /\ FinishLast(Tail(s))
        /\ \A x \in Elems(Tail(s)) : x.type # Head(s).type
        /\ Head(s).type = "FINISHED" => Tail(s) = <<>>
    BY <1>0, <1>1, ReceiveElems DEF Shape
  <1> QED BY ZenonT(60), <1>1, <1>2, <1>3

LEMMA HandleRequestInv ==
    ASSUME TypeOK, WorkerInv, DistinctWorkers(pendingQ), NEW w0 \in Workers, HandleRequest(w0)
    PROVE  WorkerInv' /\ DistinctWorkers(pendingQ)'
  <1> DEFINE m == Head(toManager[w0])
             q == [worker |-> w0, seq |-> m.seq, node |-> m.node, window |-> m.window]
  <1>0. WorkerTypeOK /\ LinkTypeOK /\ QueueTypeOK /\ OneInv(w0) /\ Receive(w0, "REQUEST")
    BY DEF TypeOK, WorkerInv, OneInv, HandleRequest
  <1>1. /\ m \in Elems(toManager[w0])
        /\ m.type = "REQUEST"
        /\ Elems(toManager'[w0]) \subseteq Elems(toManager[w0])
        /\ \A x \in Elems(toManager[w0]) : x \in Elems(toManager'[w0]) \/ x = m
        /\ \A x \in Elems(toManager'[w0]) : x.type # "REQUEST"
        /\ DistinctTypes(toManager'[w0]) /\ FinishLast(toManager'[w0])
        /\ \A w \in Workers : w # w0 => toManager'[w] = toManager[w]
    BY <1>0, ReceiveLink
  <1>2. pendingQ' = pendingQ \/ pendingQ' = Append(pendingQ, q)
    <2>1. CASE QueueFull
      BY <2>1, Zenon DEF HandleRequest
    <2>2. CASE ~QueueFull
      BY <2>2, Zenon DEF HandleRequest
    <2> QED BY <2>1, <2>2
  <1>3. q \in PendingReqs /\ q.worker = w0 /\ q.seq = seq[w0] /\ q.node = mailReq[w0].node
    <2>1. m \in ToManagerMsgs
      BY <1>0, HeadTail DEF Receive, LinkTypeOK
    <2> QED BY ZenonT(60), <1>0, <1>1, <2>1 DEF OneInv, RequestInv, PendingReqs, ToManagerMsgs
  <1>4. Sent(w0, "REQUEST")
    BY <1>1 DEF Sent
  <1>5. /\ ~Queued(w0) /\ ~reqValid[w0] /\ ~Answered(w0, "GRANT")
        /\ phase[w0] = "waiting" /\ grantSeq[w0] # seq[w0]
    BY ZenonT(60), <1>0, <1>4 DEF OneInv, RequestInv
  <1>6. \A x \in Elems(pendingQ) : x.worker # q.worker
    BY ZenonT(60), <1>3, <1>5 DEF Queued
  <1>7. /\ DistinctWorkers(pendingQ')
        /\ Elems(pendingQ') = Elems(pendingQ) \/ Elems(pendingQ') = Elems(pendingQ) \cup {q}
    <2>1. CASE pendingQ' = pendingQ
      BY <2>1
    <2>2. CASE pendingQ' = Append(pendingQ, q)
      <3>1. pendingQ \in Seq(PendingReqs) /\ q \in PendingReqs
        BY ZenonT(60), <1>0, <1>3 DEF QueueTypeOK
      <3> HIDE DEF q
      <3>2. /\ Elems(Append(pendingQ, q)) = Elems(pendingQ) \cup {q}
            /\ DistinctWorkers(Append(pendingQ, q))
        BY <1>6, <3>1, SendElems
      <3> QED BY <2>2, <3>2
    <2> QED BY ZenonT(60), <1>2, <2>1, <2>2
  <1> HIDE DEF m, q
  <1>8. ASSUME NEW w \in Workers PROVE OneInv(w)'
    <2>0. OneInv(w)
      BY DEF WorkerInv, OneInv
    <2>1. SameSoftware(w) /\ SameSlot(w) /\ toWorker'[w] = toWorker[w]
      BY DEF HandleRequest, SameSoftware, SameSlot, workerVars, softwareVars, deliveredVars,
             endpointVars, slotVars
    <2>2. CASE w # w0
      <3>1. SameQueue(w)
        BY ZenonT(60), <1>3, <1>7, <2>2 DEF SameQueue
      <3> QED BY ZenonT(60), <1>1, <2>0, <2>1, <2>2, <3>1, Frame DEF SameLinks
    <2>3. CASE w = w0
      <3>1. /\ ~Sent(w, "REQUEST")'
            /\ Sent(w, "DONE")' <=> Sent(w, "DONE")
            /\ Sent(w, "FINISHED")' <=> Sent(w, "FINISHED")
        <4>1. \A x \in Elems(toManager[w]) : x.type # "REQUEST" => x \in Elems(toManager'[w])
          BY <1>1, <2>3
        <4> QED BY <1>1, <2>3, <4>1 DEF Sent
      <3>2. \A t : Answered(w, t)' <=> Answered(w, t)
        BY <2>1 DEF Answered
      <3>3. Granted(w)' <=> Granted(w)
        BY <2>1 DEF Granted, SameSoftware
      <3>4. Shape(w)'
        BY <1>1, <2>0, <2>1, <2>3 DEF OneInv, Shape
      <3>5. RequestInv(w)'
        <4>1. \A r \in Elems(pendingQ') : r.worker = w => r.seq = seq[w] /\ r.node = mailReq[w].node
          BY ZenonT(60), <1>3, <1>7, <2>0, <2>3 DEF OneInv, RequestInv
        <4>2. \A x \in Elems(toManager'[w]) : x.type # "REQUEST"
          BY ZenonT(60), <1>1, <2>3
        <4> QED BY ZenonT(60), <1>5, <2>0, <2>1, <2>3, <3>1, <3>2, <4>1, <4>2 DEF OneInv, RequestInv, SameSoftware
      <3>6. TokenInv(w)'
        BY ZenonT(60), <2>0, <2>1, <3>1, <3>2, <3>3 DEF OneInv, TokenInv, SameSoftware, SameSlot
      <3>7. FinishInv(w)'
        <4>1. ~finished[w]
          BY ZenonT(60), <1>5, <2>0, <2>3 DEF OneInv, FinishInv
        <4> QED BY ZenonT(60), <2>0, <2>1, <3>1, <4>1 DEF OneInv, FinishInv, SameSoftware, SameSlot
      <3> QED BY <3>4, <3>5, <3>6, <3>7 DEF OneInv
    <2> QED BY <2>2, <2>3
  <1> QED BY <1>7, <1>8 DEF WorkerInv, OneInv

LEMMA HandleDoneInv ==
    ASSUME TypeOK, WorkerInv, NEW w0 \in Workers, HandleDone(w0)
    PROVE  WorkerInv' /\ inflight[w0]
  <1>0. WorkerTypeOK /\ SlotTypeOK /\ OneInv(w0) /\ Receive(w0, "DONE")
    BY DEF TypeOK, WorkerInv, OneInv, HandleDone
  <1>1. /\ Head(toManager[w0]) \in Elems(toManager[w0])
        /\ Head(toManager[w0]).type = "DONE"
        /\ Elems(toManager'[w0]) \subseteq Elems(toManager[w0])
        /\ \A x \in Elems(toManager[w0]) : x \in Elems(toManager'[w0]) \/ x = Head(toManager[w0])
        /\ \A x \in Elems(toManager'[w0]) : x.type # "DONE"
        /\ DistinctTypes(toManager'[w0]) /\ FinishLast(toManager'[w0])
        /\ \A w \in Workers : w # w0 => toManager'[w] = toManager[w]
    BY <1>0, ReceiveLink
  <1>2. Sent(w0, "DONE")
    BY ZenonT(60), <1>1 DEF Sent
  <1>3. inflight[w0] /\ ~Answered(w0, "GRANT") /\ ~Granted(w0) /\ ~doneValid[w0]
    BY <1>0, <1>2 DEF OneInv, TokenInv
  <1>4. ASSUME NEW w \in Workers PROVE OneInv(w)'
    <2>0. OneInv(w)
      BY DEF WorkerInv, OneInv
    <2>1. SameSoftware(w) /\ SameQueue(w) /\ toWorker'[w] = toWorker[w] /\ finished'[w] = finished[w]
      BY DEF HandleDone, SameSoftware, SameQueue, workerVars, softwareVars, deliveredVars,
             endpointVars
    <2>2. CASE w # w0
      <3>1. SameSlot(w)
        BY <1>0, <2>2 DEF HandleDone, SameSlot, SlotTypeOK
      <3> QED BY ZenonT(60), <1>1, <2>0, <2>1, <2>2, <3>1, Frame DEF SameLinks
    <2>3. CASE w = w0
      <3>1. /\ ~Sent(w, "DONE")'
            /\ Sent(w, "REQUEST")' <=> Sent(w, "REQUEST")
            /\ Sent(w, "FINISHED")' <=> Sent(w, "FINISHED")
        <4>1. \A x \in Elems(toManager[w]) : x.type # "DONE" => x \in Elems(toManager'[w])
          BY <1>1, <2>3
        <4> QED BY ZenonT(60), <1>1, <2>3, <4>1 DEF Sent
      <3>2. \A t : Answered(w, t)' <=> Answered(w, t)
        BY <2>1 DEF Answered
      <3>3. (Granted(w)' <=> Granted(w)) /\ (Queued(w)' <=> Queued(w))
        BY <2>1 DEF Granted, SameSoftware, Queued, SameQueue
      <3>4. ~inflight'[w]
        BY <1>0, <2>3 DEF HandleDone, SlotTypeOK
      <3>5. Shape(w)'
        BY ZenonT(60), <1>1, <2>0, <2>1, <2>3 DEF OneInv, Shape
      <3>6. RequestInv(w)'
        <4>1. \A x \in Elems(toManager'[w]) : x \in Elems(toManager[w])
          BY ZenonT(60), <1>1, <2>3
        <4> QED BY ZenonT(60), <2>0, <2>1, <3>1, <3>2, <3>3, <4>1 DEF OneInv, RequestInv, SameSoftware, SameQueue
      <3>7. TokenInv(w)'
        BY ZenonT(60), <1>3, <2>0, <2>1, <2>3, <3>1, <3>2, <3>3, <3>4 DEF OneInv, TokenInv, SameSoftware
      <3>8. FinishInv(w)'
        <4>1. ~finished[w]
          BY SMTT(60), <1>1, <2>0, <2>3 DEF OneInv, FinishInv, Elems
        <4> QED BY ZenonT(60), <2>0, <2>1, <3>1, <4>1 DEF OneInv, FinishInv, SameSoftware
      <3> QED BY <3>5, <3>6, <3>7, <3>8 DEF OneInv
    <2> QED BY <2>2, <2>3
  <1> QED BY ZenonT(60), <1>3, <1>4 DEF WorkerInv, OneInv

\* Nothing about worker w changes, except that GROUP_DONE may be on its way to it.
SameGrants(w) ==
    /\ \A m : m.type = "GRANT" => (m \in Elems(toWorker'[w]) <=> m \in Elems(toWorker[w]))
    /\ DistinctTypes(toWorker'[w])

LEMMA AnnounceFrame ==
    ASSUME NEW w \in Workers, OneInv(w), SameSoftware(w), toManager'[w] = toManager[w],
           SameGrants(w), SameQueue(w), SameSlot(w)
    PROVE  OneInv(w)'
  <1>1. \A t : Sent(w, t)' <=> Sent(w, t)
    BY ZenonT(60) DEF Sent
  <1>2. Answered(w, "GRANT")' <=> Answered(w, "GRANT")
    BY DEF Answered, SameGrants
  <1>3. Queued(w)' <=> Queued(w)
    BY DEF Queued, SameQueue
  <1>4. Granted(w)' <=> Granted(w)
    BY DEF Granted, SameSoftware
  <1>5. Shape(w)'
    BY ZenonT(60) DEF OneInv, Shape, SameGrants
  <1>6. RequestInv(w)'
    BY ZenonT(60), <1>1, <1>2, <1>3 DEF OneInv, RequestInv, SameSoftware, SameGrants, SameQueue
  <1>7. TokenInv(w)'
    BY ZenonT(60), <1>1, <1>2, <1>4 DEF OneInv, TokenInv, SameSoftware, SameSlot
  <1>8. FinishInv(w)'
    BY <1>1 DEF OneInv, FinishInv, SameSoftware, SameSlot
  <1> QED BY ZenonT(60), <1>5, <1>6, <1>7, <1>8 DEF OneInv

\* A broadcast of GROUP_DONE by a manager that has sent none.
LEMMA AnnounceLinks ==
    ASSUME TypeOK, WorkerInv, NEW c \in BOOLEAN, c => ~GroupDoneSent, MaybeSendGroupDone(c),
           NEW w \in Workers
    PROVE  /\ SameGrants(w)
           /\ ~c => toWorker'[w] = toWorker[w]
  <1>0. LinkTypeOK /\ Shape(w)
    BY DEF TypeOK, WorkerInv
  <1>1. toWorker[w] \in Seq(ToWorkerMsgs) /\ GroupDoneMsg \in ToWorkerMsgs
    BY ZenonT(60), <1>0, MessageTypes DEF LinkTypeOK
  <1>2. GroupDoneMsg.type = "GROUP_DONE"
    BY DEF GroupDoneMsg
  <1>3. toWorker'[w] = AppendIf(toWorker[w], c, GroupDoneMsg)
    BY DEF MaybeSendGroupDone
  <1>4. CASE c
    <2>1. toWorker'[w] = Append(toWorker[w], GroupDoneMsg)
      BY <1>3, <1>4 DEF AppendIf
    <2>2. \A x \in Elems(toWorker[w]) : x.type # GroupDoneMsg.type
      BY <1>2, <1>4 DEF GroupDoneSent, Answered
    <2>3. Elems(toWorker'[w]) = Elems(toWorker[w]) \cup {GroupDoneMsg} /\ DistinctTypes(toWorker'[w])
      BY SMTT(60), <1>0, <1>1, <2>1, <2>2, SendElems DEF Shape
    <2> QED BY <1>2, <1>4, <2>3 DEF SameGrants
  <1>5. CASE ~c
    <2>1. toWorker'[w] = toWorker[w]
      BY <1>3, <1>5 DEF AppendIf
    <2> QED BY <1>0, <2>1 DEF SameGrants, Shape
  <1> QED BY <1>4, <1>5

LEMMA HandleFinishedInv ==
    ASSUME TypeOK, WorkerInv, GroupInv, NEW w0 \in Workers, HandleFinished(w0)
    PROVE  /\ WorkerInv'
           /\ ~inflight[w0] /\ inflight' = inflight /\ nodeCount' = nodeCount
           /\ \A w \in Workers : w # w0 => inflightNode'[w] = inflightNode[w]
           /\ ~GroupDoneSent
  <1>0. WorkerTypeOK /\ SlotTypeOK /\ OneInv(w0) /\ Receive(w0, "FINISHED")
    BY DEF TypeOK, WorkerInv, OneInv, HandleFinished
  <1>1. /\ Head(toManager[w0]) \in Elems(toManager[w0])
        /\ Head(toManager[w0]).type = "FINISHED"
        /\ \A x \in Elems(toManager[w0]) : x \in Elems(toManager'[w0]) \/ x = Head(toManager[w0])
        /\ toManager'[w0] = <<>>
        /\ \A w \in Workers : w # w0 => toManager'[w] = toManager[w]
    BY ZenonT(60), <1>0, ReceiveLink
  <1>2. Elems(toManager'[w0]) = {}
    BY <1>1 DEF Elems
  <1>3. Sent(w0, "FINISHED") /\ ~Sent(w0, "DONE") /\ ~Sent(w0, "REQUEST")
    BY <1>1, <1>2 DEF Sent
  <1>4. /\ phase[w0] = "finished" /\ finSeen[w0] /\ ~finished[w0] /\ ~doneValid[w0]
        /\ ~reqValid[w0] /\ ~Queued(w0) /\ ~Answered(w0, "GRANT") /\ ~Granted(w0)
    BY ZenonT(60), <1>0, <1>3 DEF OneInv, RequestInv, FinishInv, Granted
  <1>5. ~inflight[w0]
    BY ZenonT(60), <1>0, <1>3, <1>4 DEF OneInv, TokenInv
  <1>6. /\ nodeCount' = nodeCount /\ inflight' = inflight
        /\ \A w \in Workers : w # w0 => inflightNode'[w] = inflightNode[w]
    <2>1. CASE coarse[w0]
      <3>1. inflight' = [inflight EXCEPT ![w0] = FALSE] /\ nodeCount' = nodeCount
            /\ inflightNode' = [inflightNode EXCEPT ![w0] = 0]
        BY <1>5, <2>1 DEF HandleFinished
      <3>2. inflight[w0] = FALSE
        BY <1>0, <1>5 DEF SlotTypeOK
      <3> QED BY <1>0, <3>1, <3>2 DEF SlotTypeOK
    <2>2. CASE ~coarse[w0]
      BY <2>2 DEF HandleFinished
    <2> QED BY ZenonT(60), <2>1, <2>2
  <1>7. ~GroupDoneSent
    BY <1>4 DEF GroupInv
  <1>8. ASSUME NEW w \in Workers PROVE OneInv(w)'
    <2>0. OneInv(w)
      BY DEF WorkerInv, OneInv
    <2>1. SameSoftware(w) /\ SameQueue(w)
      BY ZenonT(60) DEF HandleFinished, SameSoftware, SameQueue, workerVars, softwareVars, deliveredVars,
             endpointVars
    <2>2. SameGrants(w)
      <3>1. GroupComplete(finished', inflight', nodeCount') \in BOOLEAN
        BY DEF GroupComplete
      <3> QED BY ZenonT(60), <1>7, <3>1, AnnounceLinks DEF HandleFinished
    <2>3. CASE w # w0
      <3>1. SameSlot(w)
        BY <1>0, <1>6, <2>3 DEF HandleFinished, SameSlot, SlotTypeOK
      <3> QED BY ZenonT(60), <1>1, <2>0, <2>1, <2>2, <2>3, <3>1, AnnounceFrame
    <2>4. CASE w = w0
      <3>1. ~Sent(w, "REQUEST")' /\ ~Sent(w, "DONE")' /\ ~Sent(w, "FINISHED")'
        BY <1>2, <2>4 DEF Sent
      <3>2. ~Answered(w, "GRANT")'
        BY ZenonT(60), <1>4, <2>2, <2>4 DEF Answered, SameGrants
      <3>3. ~Granted(w)' /\ ~Queued(w)' /\ ~inflight'[w] /\ finished'[w]
        BY ZenonT(60), <1>0, <1>4, <1>5, <1>6, <2>1, <2>4
           DEF Granted, SameSoftware, Queued, SameQueue, HandleFinished, SlotTypeOK
      <3>4. Shape(w)'
        BY SMTT(60), <1>1, <1>2, <2>2, <2>4 DEF Shape, SameGrants, DistinctTypes, FinishLast
      <3>5. RequestInv(w)'
        <4>1. \A m \in Elems(toWorker'[w]) : m.type # "GRANT"
          BY <3>2 DEF Answered
        <4>2. \A r \in Elems(pendingQ') : r.worker # w
          BY <3>3 DEF Queued
        <4>3. Elems(toManager'[w]) = {}
          BY <1>2, <2>4
        <4>4. /\ mailReq'[w].seq = seq'[w] /\ grantSeq'[w] <= seq'[w] /\ reqSeen'[w] <= seq'[w]
              /\ ~reqValid'[w]
          BY ZenonT(60), <1>4, <2>0, <2>1, <2>4 DEF OneInv, RequestInv, SameSoftware
        <4> QED BY ZenonT(60), <3>1, <3>2, <3>3, <4>1, <4>2, <4>3, <4>4 DEF RequestInv
      <3>6. TokenInv(w)'
        BY ZenonT(60), <1>4, <2>0, <2>1, <2>4, <3>1, <3>2, <3>3 DEF OneInv, TokenInv, SameSoftware
      <3>7. FinishInv(w)'
        <4>1. finFlag'[w] = finFlag[w] /\ finSeen'[w] /\ phase'[w] = "finished" /\ ~doneValid'[w]
              /\ toManager'[w] = <<>> /\ ~finFlag[w]
          BY ZenonT(60), <1>1, <1>4, <2>0, <2>1, <2>4 DEF OneInv, FinishInv, SameSoftware
        <4> QED BY ZenonT(60), <3>1, <4>1 DEF FinishInv
      <3> QED BY <3>4, <3>5, <3>6, <3>7 DEF OneInv
    <2> QED BY <2>3, <2>4
  <1> QED BY <1>5, <1>6, <1>7, <1>8 DEF WorkerInv, OneInv

LEMMA ScheduleEndInv ==
    ASSUME TypeOK, WorkerInv, GroupInv, ScheduleEnd
    PROVE  WorkerInv' /\ ~GroupDoneSent
  <1>1. ~GroupDoneSent
    BY ZenonT(60) DEF GroupInv, ScheduleEnd
  <1>2. ASSUME NEW w \in Workers PROVE OneInv(w)'
    <2>0. OneInv(w)
      BY DEF WorkerInv, OneInv
    <2>1. SameSoftware(w) /\ SameQueue(w) /\ SameSlot(w) /\ toManager'[w] = toManager[w]
      BY DEF ScheduleEnd, SameSoftware, SameQueue, SameSlot, workerVars, softwareVars,
             deliveredVars, endpointVars, slotVars
    <2>2. SameGrants(w)
      <3> DEFINE c == pass.drain /\ GroupComplete(finished, inflight, nodeCount)
      <3>1. c \in BOOLEAN /\ MaybeSendGroupDone(c)
        BY DEF ScheduleEnd
      <3> HIDE DEF c
      <3> QED BY <1>1, <3>1, AnnounceLinks
    <2> QED BY <2>0, <2>1, <2>2, AnnounceFrame
  <1> QED BY <1>1, <1>2 DEF WorkerInv, OneInv

LEMMA ScheduleOneInv ==
    ASSUME TypeOK, WorkerInv, DistinctWorkers(pendingQ), GroupInv, ScheduleOne
    PROVE  WorkerInv' /\ DistinctWorkers(pendingQ)' /\ ~GroupDoneSent
  <1>0. LinkTypeOK /\ SlotTypeOK /\ QueueTypeOK
    BY DEF TypeOK
  <1>1. PICK idx \in 0 .. Len(pendingQ) - 1 :
           pendingQ[idx + 1] \in PendingReqs /\ Grants(pendingQ[idx + 1], idx)
    BY <1>0, ScheduleOneGrants
  <1>r. PICK r \in PendingReqs : r = pendingQ[idx + 1]
    BY <1>1
  <1>w. PICK w0 \in Workers : w0 = r.worker
    BY DEF PendingReqs
  <1> DEFINE g == GrantMsg(r.seq)
  <1>2. /\ w0 \in Workers /\ r.node \in Nodes /\ r.seq \in Nat /\ g \in ToWorkerMsgs
        /\ g.type = "GRANT" /\ g.seq = r.seq
    BY <1>w, MessageTypes DEF PendingReqs, GrantMsg
  <1>3. r \in Elems(pendingQ)
    BY <1>0, <1>r DEF Elems, QueueTypeOK
  <1>4. /\ Elems(pendingQ') = {x \in Elems(pendingQ) : x.worker # w0}
        /\ DistinctWorkers(pendingQ')
    BY SMTT(60), <1>0, <1>1, <1>r, <1>w, EraseElems DEF Grants, QueueTypeOK
  <1>5. /\ toWorker' = [toWorker EXCEPT ![w0] = Append(@, g)]
        /\ inflight' = [inflight EXCEPT ![w0] = TRUE]
        /\ inflightNode' = [inflightNode EXCEPT ![w0] = r.node]
        /\ ~inflight[w0]
    BY ZenonT(60), <1>1, <1>r, <1>w DEF Grants, Eligible
  <1> HIDE DEF g
  <1>6. Queued(w0) /\ ~Queued(w0)'
    BY <1>3, <1>4, <1>w DEF Queued
  <1>7. OneInv(w0)
    BY <1>2 DEF WorkerInv, OneInv
  <1>8. /\ phase[w0] = "waiting" /\ grantSeq[w0] # seq[w0] /\ ~reqValid[w0] /\ ~Sent(w0, "REQUEST")
        /\ ~Answered(w0, "GRANT") /\ r.seq = seq[w0] /\ r.node = mailReq[w0].node
    BY ZenonT(60), <1>3, <1>6, <1>7, <1>w DEF OneInv, RequestInv
  <1>9. ~GroupDoneSent
    BY ZenonT(60) DEF GroupInv, ScheduleOne
  <1>10. /\ Elems(toWorker'[w0]) = Elems(toWorker[w0]) \cup {g}
         /\ DistinctTypes(toWorker'[w0])
    <2>1. toWorker'[w0] = Append(toWorker[w0], g) /\ toWorker[w0] \in Seq(ToWorkerMsgs)
      BY <1>0, <1>2, <1>5 DEF LinkTypeOK
    <2>2. \A x \in Elems(toWorker[w0]) : x.type # g.type
      BY <1>2, <1>8 DEF Answered
    <2> QED BY SMTT(60), <1>2, <1>7, <2>1, <2>2, SendElems DEF OneInv, Shape
  <1>11. ASSUME NEW w \in Workers PROVE OneInv(w)'
    <2>0. OneInv(w)
      BY DEF WorkerInv, OneInv
    <2>1. SameSoftware(w) /\ toManager'[w] = toManager[w] /\ finished'[w] = finished[w]
      BY ZenonT(60) DEF ScheduleOne, SameSoftware, workerVars, softwareVars, deliveredVars, endpointVars
    <2>2. CASE w # w0
      <3>1. SameSlot(w) /\ toWorker'[w] = toWorker[w]
        BY ZenonT(60), <1>0, <1>2, <1>5, <2>1, <2>2 DEF SameSlot, SlotTypeOK, LinkTypeOK
      <3>2. SameQueue(w)
        BY <1>4, <2>2 DEF SameQueue
      <3> QED BY <2>0, <2>1, <3>1, <3>2, Frame DEF SameLinks
    <2>3. CASE w = w0
      <3>1. \A t : Sent(w, t)' <=> Sent(w, t)
        BY <2>1 DEF Sent
      <3>2. Answered(w, "GRANT")'
        BY <1>2, <1>10, <2>3 DEF Answered
      <3>3. ~Granted(w) /\ ~Granted(w)' /\ ~Queued(w)'
        BY ZenonT(60), <1>6, <1>8, <2>1, <2>3 DEF Granted, SameSoftware
      <3>4. inflight'[w] /\ inflightNode'[w] = mailReq[w].node
        BY ZenonT(60), <1>0, <1>2, <1>5, <1>8, <2>3 DEF SlotTypeOK
      <3>5. ~doneValid[w] /\ ~Sent(w, "DONE")
        BY ZenonT(60), <1>5, <2>0, <2>3 DEF OneInv, TokenInv
      <3>6. Shape(w)'
        BY ZenonT(60), <1>10, <2>0, <2>1, <2>3 DEF OneInv, Shape
      <3>7. RequestInv(w)'
        <4>1. \A m \in Elems(toWorker'[w]) : m.type = "GRANT" => m.seq = seq[w]
          BY ZenonT(60), <1>2, <1>8, <1>10, <2>0, <2>3 DEF OneInv, RequestInv
        <4>2. \A x \in Elems(pendingQ') : x.worker # w
          BY <1>4, <2>3
        <4>3. ~reqValid'[w] /\ ~Sent(w, "REQUEST")' /\ phase'[w] = "waiting" /\ grantSeq'[w] # seq'[w]
          BY ZenonT(60), <1>8, <2>1, <2>3, <3>1 DEF SameSoftware
        <4> QED BY ZenonT(60), <2>0, <2>1, <3>1, <3>2, <3>3, <4>1, <4>2, <4>3 DEF OneInv, RequestInv, SameSoftware
      <3>8. TokenInv(w)'
        BY ZenonT(60), <2>0, <2>1, <3>1, <3>2, <3>3, <3>4, <3>5 DEF OneInv, TokenInv, SameSoftware
      <3>9. FinishInv(w)'
        BY ZenonT(60), <2>0, <2>1, <3>1 DEF OneInv, FinishInv, SameSoftware
      <3> QED BY <3>6, <3>7, <3>8, <3>9 DEF OneInv
    <2> QED BY <2>2, <2>3
  <1> QED BY <1>4, <1>9, <1>11 DEF WorkerInv, OneInv

-----------------------------------------------------------------------------
(* Node accounting *)

\* What counting needs of finite sets.  GrantArbiterProofs discharges it from
\* the library; the lemmas below assume it, which keeps their contexts small.
CountingFacts ==
    /\ Cardinality({}) = 0
    /\ \A S : IsFiniteSet(S) => Cardinality(S) \in Nat /\ (Cardinality(S) = 0 => S = {})
    /\ \A S, x : IsFiniteSet(S) /\ x \notin S => Cardinality(S \cup {x}) = Cardinality(S) + 1
    /\ \A S, x : IsFiniteSet(S) /\ x \in S
          => IsFiniteSet(S \ {x}) /\ Cardinality(S \ {x}) = Cardinality(S) - 1
    /\ \A S, T : IsFiniteSet(S) /\ T \subseteq S
          => IsFiniteSet(T) /\ Cardinality(T) <= Cardinality(S)

LEMMA HoldersFinite ==
    ASSUME CountingFacts, NEW n
    PROVE  /\ IsFiniteSet(HoldersOf(n)) /\ Cardinality(HoldersOf(n)) \in Nat
           /\ IsFiniteSet(HoldersOf(n)') /\ Cardinality(HoldersOf(n)') \in Nat
  <1>1. HoldersOf(n) \subseteq Workers /\ HoldersOf(n)' \subseteq Workers
    BY DEF HoldersOf
  <1> QED BY ZenonT(60), <1>1, ConstantsAssumption DEF CountingFacts

LEMMA AccountingDone ==
    ASSUME CountingFacts, TypeOK, NodeAccounting, NEW w0 \in Workers, inflight[w0], HandleDone(w0)
    PROVE  NodeAccounting'
  <1>0. SlotTypeOK
    BY DEF TypeOK
  <1>n. PICK n0 \in Nodes : n0 = inflightNode[w0]
    BY <1>0 DEF SlotTypeOK
  <1>1. /\ w0 \in HoldersOf(n0)
        /\ inflight' = [inflight EXCEPT ![w0] = FALSE]
        /\ inflightNode' = [inflightNode EXCEPT ![w0] = 0]
        /\ nodeCount' = [nodeCount EXCEPT ![n0] = IF @ > 0 THEN @ - 1 ELSE @]
    BY <1>n DEF HandleDone, DropNodeCount, HoldersOf
  <1>2. nodeCount[n0] \in Nat /\ nodeCount[n0] > 0
    <2>1. Cardinality(HoldersOf(n0)) # 0
      BY ZenonT(60), <1>1, HoldersFinite DEF CountingFacts
    <2> QED BY <1>0, <1>1, <2>1 DEF NodeAccounting, SlotTypeOK
  <1>3. /\ nodeCount'[n0] = nodeCount[n0] - 1
        /\ \A n \in Nodes : n # n0 => nodeCount'[n] = nodeCount[n]
    BY <1>0, <1>1, <1>2 DEF SlotTypeOK
  <1> SUFFICES ASSUME NEW n \in Nodes
               PROVE  /\ nodeCount'[n] = Cardinality(HoldersOf(n)')
                      /\ nodeCount'[n] <= MaxInflightPerNode
    BY ZenonT(60) DEF NodeAccounting, HoldersOf
  <1>4. nodeCount[n] = Cardinality(HoldersOf(n)) /\ nodeCount[n] <= MaxInflightPerNode
        /\ nodeCount[n] \in Nat
    BY <1>0 DEF NodeAccounting, SlotTypeOK
  <1>5. CASE n = n0
    <2>1. HoldersOf(n)' = HoldersOf(n) \ {w0}
      BY <1>0, <1>1, <1>5 DEF HoldersOf, SlotTypeOK
    <2>2. Cardinality(HoldersOf(n)') = Cardinality(HoldersOf(n)) - 1
      <3>1. w0 \in HoldersOf(n) /\ IsFiniteSet(HoldersOf(n))
        BY <1>1, <1>5, HoldersFinite
      <3> QED BY ZenonT(60), <2>1, <3>1 DEF CountingFacts
    <2>3. nodeCount'[n] = nodeCount[n] - 1
      BY <1>3, <1>5
    <2> QED BY SMTT(60), <1>4, <2>2, <2>3, ConstantsAssumption
  <1>6. CASE n # n0
    <2>1. HoldersOf(n)' = HoldersOf(n)
      <3>1. w0 \notin HoldersOf(n)
        BY <1>n, <1>6 DEF HoldersOf
      <3>2. w0 \notin HoldersOf(n)'
        BY <1>0, <1>1 DEF HoldersOf, SlotTypeOK
      <3>3. \A w \in Workers : w # w0 => (w \in HoldersOf(n)' <=> w \in HoldersOf(n))
        BY <1>0, <1>1 DEF HoldersOf, SlotTypeOK
      <3> QED BY ZenonT(60), <3>1, <3>2, <3>3 DEF HoldersOf
    <2>2. nodeCount'[n] = nodeCount[n]
      BY <1>3, <1>6
    <2> QED BY <1>4, <2>1, <2>2
  <1> QED BY <1>5, <1>6

LEMMA AccountingGrant ==
    ASSUME CountingFacts, TypeOK, NodeAccounting, ScheduleOne
    PROVE  NodeAccounting' /\ \E w \in Workers : inflight'[w]
  <1>0. SlotTypeOK /\ QueueTypeOK
    BY DEF TypeOK
  <1>1. PICK idx \in 0 .. Len(pendingQ) - 1 :
           pendingQ[idx + 1] \in PendingReqs /\ Grants(pendingQ[idx + 1], idx)
    BY <1>0, ScheduleOneGrants
  <1>r. PICK r \in PendingReqs : r = pendingQ[idx + 1]
    BY <1>1
  <1>w. PICK w0 \in Workers, n0 \in Nodes : w0 = r.worker /\ n0 = r.node
    BY DEF PendingReqs
  <1>2. /\ w0 \in Workers /\ n0 \in Nodes
        /\ inflight' = [inflight EXCEPT ![w0] = TRUE]
        /\ inflightNode' = [inflightNode EXCEPT ![w0] = n0]
        /\ nodeCount' = [nodeCount EXCEPT ![n0] = @ + 1]
        /\ ~inflight[w0] /\ nodeCount[n0] < MaxInflightPerNode
    BY ZenonT(60), <1>1, <1>r, <1>w DEF Grants, Eligible
  <1>3. inflight'[w0]
    BY <1>0, <1>2 DEF SlotTypeOK
  <1>4. ASSUME NEW n \in Nodes
        PROVE  /\ nodeCount'[n] = Cardinality(HoldersOf(n)')
               /\ nodeCount'[n] <= MaxInflightPerNode
    <2>1. nodeCount[n] = Cardinality(HoldersOf(n)) /\ nodeCount[n] <= MaxInflightPerNode
          /\ nodeCount[n] \in Nat
      BY <1>0 DEF NodeAccounting, SlotTypeOK
    <2>2. CASE n = n0
      <3>1. HoldersOf(n)' = HoldersOf(n) \cup {w0} /\ w0 \notin HoldersOf(n)
        BY <1>0, <1>2, <2>2 DEF HoldersOf, SlotTypeOK
      <3>2. Cardinality(HoldersOf(n)') = Cardinality(HoldersOf(n)) + 1
        BY ZenonT(60), <3>1, HoldersFinite DEF CountingFacts
      <3>3. nodeCount'[n] = nodeCount[n] + 1
        BY <1>0, <1>2, <2>2 DEF SlotTypeOK
      <3> QED BY <1>2, <2>1, <2>2, <3>2, <3>3, ConstantsAssumption
    <2>3. CASE n # n0
      <3>1. HoldersOf(n)' = HoldersOf(n)
        BY <1>0, <1>2, <2>3 DEF HoldersOf, SlotTypeOK
      <3>2. nodeCount'[n] = nodeCount[n]
        BY <1>0, <1>2, <2>3 DEF SlotTypeOK
      <3> QED BY <2>1, <3>1, <3>2
    <2> QED BY <2>2, <2>3
  <1>5. NodeAccounting'
    BY <1>4, Zenon DEF NodeAccounting
  <1> QED BY <1>3, <1>5

LEMMA AccountingSame ==
    ASSUME NodeAccounting, UNCHANGED <<inflight, nodeCount>>,
           \A w \in Workers : inflight[w] => inflightNode'[w] = inflightNode[w]
    PROVE  NodeAccounting'
  <1>1. ASSUME NEW n \in Nodes PROVE HoldersOf(n)' = HoldersOf(n)
    BY DEF HoldersOf
  <1> QED BY <1>1 DEF NodeAccounting

=============================================================================
