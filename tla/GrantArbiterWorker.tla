------------------------- MODULE GrantArbiterWorker -------------------------
(* The steps of the workers' software and endpoints preserve the part of the  *)
(* inductive invariant that is about them.                                    *)
EXTENDS GrantArbiterTypes

LEMMA PublishRequestInv ==
    ASSUME TypeOK, TypeOK', WorkerInv, NEW w0 \in Workers, NEW n \in Nodes, NEW win \in Windows,
           PublishRequest(w0, n, win)
    PROVE  WorkerInv'
  <1> SUFFICES ASSUME NEW w \in Workers PROVE OneInv(w)'
    BY DEF WorkerInv, OneInv
  <1>0. OneInv(w) /\ WorkerTypeOK
    BY DEF WorkerInv, OneInv, TypeOK
  <1>1. SameLinks(w) /\ SameQueue(w) /\ SameSlot(w)
    BY ZenonT(60) DEF PublishRequest, SameLinks, SameQueue, SameSlot, managerVars, slotVars
  <1>2. CASE w # w0
    <2>1. SameSoftware(w)
      BY <1>0, <1>2 DEF PublishRequest, SameSoftware, deliveredVars, endpointVars, WorkerTypeOK
    <2> QED BY <1>0, <1>1, <2>1, Frame
  <1>3. CASE w = w0
    <2>1. /\ phase[w] = "ready" /\ ~reqValid[w]
          /\ phase'[w] = "waiting" /\ seq'[w] = seq[w] + 1
          /\ mailReq'[w] = [seq |-> seq[w] + 1, node |-> n, window |-> win]
          /\ reqValid'[w]
          /\ doneSeq'[w] = doneSeq[w] /\ doneValid'[w] = doneValid[w]
          /\ finFlag'[w] = finFlag[w] /\ grantSeq'[w] = grantSeq[w]
          /\ reqSeen'[w] = reqSeen[w] /\ doneSeen'[w] = doneSeen[w] /\ finSeen'[w] = finSeen[w]
      BY <1>0, <1>3 DEF PublishRequest, deliveredVars, endpointVars, WorkerTypeOK
    <2>2. /\ seq[w] \in Nat /\ grantSeq[w] \in Nat /\ reqSeen[w] \in Nat /\ doneSeq[w] \in Nat
          /\ doneSeen[w] \in Nat
      BY <1>0 DEF WorkerTypeOK
    <2>3. \A t : (Sent(w, t)' <=> Sent(w, t)) /\ (Answered(w, t)' <=> Answered(w, t))
      BY <1>1 DEF Sent, Answered, SameLinks
    <2>4. Queued(w)' <=> Queued(w)
      BY <1>1 DEF Queued, SameQueue
    <2>5. ~Sent(w, "REQUEST") /\ ~Queued(w) /\ ~Answered(w, "GRANT") /\ ~Granted(w)
      BY <1>0, <2>1 DEF OneInv, RequestInv, Granted
    <2>5a. /\ grantSeq[w] <= seq[w] /\ reqSeen[w] <= seq[w]
           /\ doneSeen[w] <= doneSeq[w] /\ doneSeq[w] <= seq[w]
           /\ doneValid[w] => doneSeen[w] < doneSeq[w]
      BY ZenonT(60), <1>0 DEF OneInv, RequestInv, TokenInv
    <2>5b. mailReq'[w].seq = seq'[w]
      BY <2>1
    <2>5c. /\ grantSeq'[w] <= seq'[w] /\ grantSeq'[w] # seq'[w]
           /\ reqSeen'[w] <= seq'[w] /\ reqSeen'[w] < seq'[w]
      BY <2>1, <2>2, <2>5a
    <2>5d. /\ doneSeen'[w] <= doneSeq'[w] /\ doneSeq'[w] <= seq'[w] /\ doneSeq'[w] < seq'[w]
      BY <2>1, <2>2, <2>5a
    <2>5e. doneValid'[w] => doneSeen'[w] < doneSeq'[w]
      BY ZenonT(60), <2>1, <2>5a
    <2>6. ~Granted(w)'
      BY ZenonT(60), <2>5c DEF Granted
    <2>7. Shape(w)'
      BY <1>0, <1>1 DEF OneInv, Shape, SameLinks
    <2>8. RequestInv(w)'
      <3>1. \A m \in Elems(toManager[w])' : m.type # "REQUEST"
        BY ZenonT(60), <2>3, <2>5 DEF Sent
      <3>2. \A m \in Elems(toWorker[w])' : m.type # "GRANT"
        BY <2>3, <2>5 DEF Answered
      <3>3. \A r \in Elems(pendingQ)' : r.worker # w
        BY <2>4, <2>5 DEF Queued
      <3> QED BY ZenonT(60), <2>1, <2>3, <2>4, <2>5, <2>5b, <2>5c, <3>1, <3>2, <3>3 DEF RequestInv
    <2>9. TokenInv(w)'
      BY ZenonT(60), <1>0, <1>1, <2>1, <2>3, <2>5, <2>5d, <2>5e, <2>6 DEF OneInv, TokenInv, SameSlot
    <2>10. FinishInv(w)'
      BY ZenonT(60), <1>0, <1>1, <2>1, <2>3 DEF OneInv, FinishInv, SameSlot, SameLinks
    <2> QED BY <2>7, <2>8, <2>9, <2>10 DEF OneInv
  <1> QED BY <1>2, <1>3

LEMMA PublishDoneInv ==
    ASSUME TypeOK, WorkerInv, NEW w0 \in Workers, PublishDone(w0)
    PROVE  WorkerInv'
  <1> SUFFICES ASSUME NEW w \in Workers PROVE OneInv(w)'
    BY DEF WorkerInv, OneInv
  <1>0. OneInv(w) /\ WorkerTypeOK
    BY DEF WorkerInv, OneInv, TypeOK
  <1>1. SameLinks(w) /\ SameQueue(w) /\ SameSlot(w)
    BY DEF PublishDone, SameLinks, SameQueue, SameSlot, managerVars, slotVars
  <1>2. CASE w # w0
    <2>1. SameSoftware(w)
      BY <1>0, <1>2 DEF PublishDone, SameSoftware, deliveredVars, endpointVars, WorkerTypeOK
    <2> QED BY <1>0, <1>1, <2>1, Frame
  <1>3. CASE w = w0
    <2>1. /\ Granted(w) /\ ~doneValid[w]
          /\ phase'[w] = "ready" /\ seq'[w] = seq[w]
          /\ mailReq'[w] = mailReq[w] /\ reqValid'[w] = reqValid[w]
          /\ doneSeq'[w] = seq[w] /\ doneValid'[w]
          /\ finFlag'[w] = finFlag[w] /\ grantSeq'[w] = grantSeq[w]
          /\ reqSeen'[w] = reqSeen[w] /\ doneSeen'[w] = doneSeen[w] /\ finSeen'[w] = finSeen[w]
      BY <1>0, <1>3 DEF PublishDone, deliveredVars, endpointVars, WorkerTypeOK
    <2>2. /\ seq[w] \in Nat /\ grantSeq[w] \in Nat /\ reqSeen[w] \in Nat /\ doneSeq[w] \in Nat
          /\ doneSeen[w] \in Nat
      BY <1>0 DEF WorkerTypeOK
    <2>3. \A t : (Sent(w, t)' <=> Sent(w, t)) /\ (Answered(w, t)' <=> Answered(w, t))
      BY <1>1 DEF Sent, Answered, SameLinks
    <2>4. Queued(w)' <=> Queued(w)
      BY <1>1 DEF Queued, SameQueue
    <2>5. /\ phase[w] = "waiting" /\ ~reqValid[w] /\ ~Sent(w, "REQUEST") /\ ~Queued(w)
          /\ ~Answered(w, "GRANT") /\ ~Sent(w, "DONE") /\ ~Granted(w)'
      BY <1>0, <2>1 DEF OneInv, RequestInv, TokenInv, Granted
    <2>7. Shape(w)'
      BY ZenonT(60), <1>0, <1>1 DEF OneInv, Shape, SameLinks
    <2>8. RequestInv(w)'
      <3>1. \A m \in Elems(toManager[w])' : m.type # "REQUEST"
        BY ZenonT(60), <2>3, <2>5 DEF Sent
      <3>2. \A m \in Elems(toWorker[w])' : m.type # "GRANT"
        BY <2>3, <2>5 DEF Answered
      <3>3. \A r \in Elems(pendingQ)' : r.worker # w
        BY <2>4, <2>5 DEF Queued
      <3> QED BY ZenonT(60), <1>0, <2>1, <2>2, <2>3, <2>4, <2>5, <3>1, <3>2, <3>3 DEF OneInv, RequestInv
    <2>9. TokenInv(w)'
      <3>1. doneSeen[w] <= doneSeq[w] /\ doneSeq[w] < seq[w]
        BY ZenonT(60), <1>0, <2>5 DEF OneInv, TokenInv
      <3>2. doneSeen'[w] <= doneSeq'[w] /\ doneSeen'[w] < doneSeq'[w] /\ doneSeq'[w] <= seq'[w]
        BY <2>1, <2>2, <3>1
      <3>3. phase'[w] # "waiting"
        BY <2>1
      <3> QED BY ZenonT(60), <1>0, <1>1, <2>1, <2>3, <2>5, <3>2, <3>3 DEF OneInv, TokenInv, SameSlot
    <2>10. FinishInv(w)'
      BY ZenonT(60), <1>0, <1>1, <2>1, <2>3, <2>5 DEF OneInv, FinishInv, SameSlot, SameLinks
    <2> QED BY <2>7, <2>8, <2>9, <2>10 DEF OneInv
  <1> QED BY <1>2, <1>3

LEMMA PublishFinishedInv ==
    ASSUME TypeOK, WorkerInv, NEW w0 \in Workers, PublishFinished(w0)
    PROVE  WorkerInv'
  <1> SUFFICES ASSUME NEW w \in Workers PROVE OneInv(w)'
    BY DEF WorkerInv, OneInv
  <1>0. OneInv(w) /\ WorkerTypeOK
    BY DEF WorkerInv, OneInv, TypeOK
  <1>1. SameLinks(w) /\ SameQueue(w) /\ SameSlot(w)
    BY ZenonT(60) DEF PublishFinished, SameLinks, SameQueue, SameSlot, managerVars, slotVars
  <1>2. CASE w # w0
    <2>1. SameSoftware(w)
      BY <1>0, <1>2 DEF PublishFinished, SameSoftware, deliveredVars, endpointVars, WorkerTypeOK
    <2> QED BY <1>0, <1>1, <2>1, Frame
  <1>3. CASE w = w0
    <2>1. /\ phase[w] = "ready" /\ phase'[w] = "finished" /\ finFlag'[w]
          /\ seq'[w] = seq[w] /\ mailReq'[w] = mailReq[w] /\ reqValid'[w] = reqValid[w]
          /\ doneSeq'[w] = doneSeq[w] /\ doneValid'[w] = doneValid[w] /\ grantSeq'[w] = grantSeq[w]
          /\ reqSeen'[w] = reqSeen[w] /\ doneSeen'[w] = doneSeen[w] /\ finSeen'[w] = finSeen[w]
      BY <1>0, <1>3 DEF PublishFinished, deliveredVars, endpointVars, WorkerTypeOK
    <2>3. \A t : (Sent(w, t)' <=> Sent(w, t)) /\ (Answered(w, t)' <=> Answered(w, t))
      BY <1>1 DEF Sent, Answered, SameLinks
    <2>4. Queued(w)' <=> Queued(w)
      BY <1>1 DEF Queued, SameQueue
    <2>5. /\ ~reqValid[w] /\ ~Sent(w, "REQUEST") /\ ~Queued(w) /\ ~Answered(w, "GRANT")
          /\ ~Granted(w) /\ ~Granted(w)'
      BY ZenonT(60), <1>0, <2>1 DEF OneInv, RequestInv, Granted
    <2>7. Shape(w)'
      BY <1>0, <1>1 DEF OneInv, Shape, SameLinks
    <2>8. RequestInv(w)'
      <3>1. \A m \in Elems(toManager[w])' : m.type # "REQUEST"
        BY ZenonT(60), <2>3, <2>5 DEF Sent
      <3>2. \A m \in Elems(toWorker[w])' : m.type # "GRANT"
        BY <2>3, <2>5 DEF Answered
      <3>3. \A r \in Elems(pendingQ)' : r.worker # w
        BY <2>4, <2>5 DEF Queued
      <3> QED BY ZenonT(60), <1>0, <2>1, <2>3, <2>4, <2>5, <3>1, <3>2, <3>3 DEF OneInv, RequestInv
    <2>9. TokenInv(w)'
      BY ZenonT(60), <1>0, <1>1, <2>1, <2>3, <2>5 DEF OneInv, TokenInv, SameSlot
    <2>10. FinishInv(w)'
      BY ZenonT(60), <1>0, <1>1, <2>1, <2>3 DEF OneInv, FinishInv, SameSlot, SameLinks
    <2> QED BY <2>7, <2>8, <2>9, <2>10 DEF OneInv
  <1> QED BY <1>2, <1>3

\* The three sends of a clock tick, as they change the link of the worker.
LEMMA TickLink ==
    ASSUME TypeOK, WorkerInv, NEW w \in Workers, WorkerTick(w)
    PROVE  /\ Elems(toManager'[w]) = Elems(toManager[w])
                 \cup (IF SendsRequest(w) THEN {ReqMsg(mailReq[w])} ELSE {})
                 \cup (IF SendsDone(w) THEN {DoneMsg(doneSeq[w])} ELSE {})
                 \cup (IF SendsFinished(w) THEN {FinishedMsg} ELSE {})
           /\ DistinctTypes(toManager'[w])
           /\ FinishLast(toManager'[w])
  <1>0. WorkerTypeOK /\ LinkTypeOK /\ Shape(w) /\ RequestInv(w) /\ TokenInv(w) /\ FinishInv(w)
    BY DEF TypeOK, WorkerInv
  <1> DEFINE m1 == ReqMsg(mailReq[w])
             m2 == DoneMsg(doneSeq[w])
             m3 == FinishedMsg
             c1 == SendsRequest(w)
             c2 == SendsDone(w)
             c3 == SendsFinished(w)
             s0 == toManager[w]
             s1 == AppendIf(s0, c1, m1)
             s2 == AppendIf(s1, c2, m2)
             s3 == AppendIf(s2, c3, m3)
  <1>1. m1 \in ToManagerMsgs /\ m2 \in ToManagerMsgs /\ m3 \in ToManagerMsgs
    BY ZenonT(60), <1>0, MessageTypes DEF WorkerTypeOK
  <1>2. m1.type = "REQUEST" /\ m2.type = "DONE" /\ m3.type = "FINISHED"
    BY DEF ReqMsg, DoneMsg, FinishedMsg
  <1>3. c1 \in BOOLEAN /\ c2 \in BOOLEAN /\ c3 \in BOOLEAN
    BY <1>0 DEF SendsRequest, SendsDone, SendsFinished, WorkerTypeOK
  <1>4. s0 \in Seq(ToManagerMsgs) /\ DistinctTypes(s0) /\ FinishLast(s0)
    BY <1>0 DEF LinkTypeOK, Shape
  <1>5. c1 => \A x \in Elems(s0) : x.type # "REQUEST"
    BY ZenonT(60), <1>0 DEF SendsRequest, RequestInv, Sent
  <1>6. c2 => \A x \in Elems(s0) : x.type # "DONE"
    BY <1>0 DEF SendsDone, TokenInv, Sent
  <1>7. c3 => \A x \in Elems(s0) : x.type # "FINISHED"
    BY <1>0 DEF SendsFinished, FinishInv, Sent
  <1>8. c1 \/ c2 => \A x \in Elems(s0) : x.type # "FINISHED"
    BY ZenonT(60), <1>0 DEF SendsRequest, SendsDone, RequestInv, FinishInv, Sent
  <1>9. toManager'[w] = s3
    BY ZenonT(60), <1>0 DEF WorkerTick, LinkTypeOK
  <1> HIDE DEF s0, m1, m2, m3, c1, c2, c3
  <1>10. /\ s1 \in Seq(ToManagerMsgs)
         /\ Elems(s1) = IF c1 THEN Elems(s0) \cup {m1} ELSE Elems(s0)
         /\ DistinctTypes(s1) /\ FinishLast(s1)
    <2>1. c1 => \A x \in Elems(s0) : x.type # m1.type
      BY <1>2, <1>5
    <2>2. s1 \in Seq(ToManagerMsgs)
      BY <1>1, <1>3, <1>4, AppendIfSeq
    <2> QED BY <1>1, <1>3, <1>4, <1>8, <2>1, <2>2, SendIfElems
  <1>11. /\ c2 => \A x \in Elems(s1) : x.type # "DONE" /\ x.type # "FINISHED"
         /\ c3 => \A x \in Elems(s1) : x.type # "FINISHED"
    BY <1>2, <1>6, <1>7, <1>8, <1>10
  <1> HIDE DEF s1
  <1>12. /\ s2 \in Seq(ToManagerMsgs)
         /\ Elems(s2) = IF c2 THEN Elems(s1) \cup {m2} ELSE Elems(s1)
         /\ DistinctTypes(s2) /\ FinishLast(s2)
    <2>1. c2 => \A x \in Elems(s1) : x.type # m2.type
      BY <1>2, <1>11
    <2>2. s2 \in Seq(ToManagerMsgs)
      BY <1>1, <1>3, <1>10, AppendIfSeq
    <2> QED BY <1>1, <1>3, <1>10, <1>11, <2>1, <2>2, SendIfElems
  <1>13. c3 => \A x \in Elems(s2) : x.type # "FINISHED"
    BY <1>2, <1>11, <1>12
  <1> HIDE DEF s2
  <1>14. /\ Elems(s3) = IF c3 THEN Elems(s2) \cup {m3} ELSE Elems(s2)
         /\ DistinctTypes(s3) /\ FinishLast(s3)
    <2>1. c3 => \A x \in Elems(s2) : x.type # m3.type
      BY <1>2, <1>13
    <2> QED BY <1>1, <1>3, <1>12, <1>13, <2>1, SendIfElems
  <1> HIDE DEF s3
  <1>15. Elems(s3) = Elems(s0) \cup (IF c1 THEN {m1} ELSE {}) \cup (IF c2 THEN {m2} ELSE {})
                               \cup (IF c3 THEN {m3} ELSE {})
    BY <1>10, <1>12, <1>14
  <1> QED BY <1>9, <1>14, <1>15 DEF s0, m1, m2, m3, c1, c2, c3

LEMMA WorkerTickInv ==
    ASSUME TypeOK, WorkerInv, NEW w0 \in Workers, WorkerTick(w0)
    PROVE  WorkerInv'
  <1> SUFFICES ASSUME NEW w \in Workers PROVE OneInv(w)'
    BY DEF WorkerInv, OneInv
  <1>0. OneInv(w) /\ WorkerTypeOK /\ LinkTypeOK
    BY DEF WorkerInv, OneInv, TypeOK
  <1>1. SameQueue(w) /\ SameSlot(w) /\ toWorker'[w] = toWorker[w]
    BY ZenonT(60) DEF WorkerTick, SameQueue, SameSlot, managerVars, slotVars
  <1>2. CASE w # w0
    <2>1. SameSoftware(w) /\ SameLinks(w)
      BY <1>0, <1>2 DEF WorkerTick, SameSoftware, SameLinks, deliveredVars, WorkerTypeOK, LinkTypeOK
    <2> QED BY <1>0, <1>1, <2>1, Frame
  <1>3. CASE w = w0
    <2>1. /\ phase'[w] = phase[w] /\ seq'[w] = seq[w] /\ mailReq'[w] = mailReq[w]
          /\ doneSeq'[w] = doneSeq[w] /\ grantSeq'[w] = grantSeq[w]
          /\ reqSeen'[w] = IF SendsRequest(w) THEN mailReq[w].seq ELSE reqSeen[w]
          /\ doneSeen'[w] = IF SendsDone(w) THEN doneSeq[w] ELSE doneSeen[w]
      BY <1>0, <1>3 DEF WorkerTick, deliveredVars, WorkerTypeOK
    <2>1a. reqValid'[w] <=> (reqValid[w] /\ ~SendsRequest(w))
      BY <1>0, <1>3, Zenon DEF WorkerTick, WorkerTypeOK
    <2>1b. doneValid'[w] <=> (doneValid[w] /\ ~SendsDone(w))
      BY <1>0, <1>3, Zenon DEF WorkerTick, WorkerTypeOK
    <2>1c. finSeen'[w] <=> (finSeen[w] \/ SendsFinished(w))
      BY <1>0, <1>3, Zenon DEF WorkerTick, WorkerTypeOK
    <2>1d. finFlag'[w] <=> (finFlag[w] /\ ~SendsFinished(w))
      BY <1>0, <1>3, Zenon DEF WorkerTick, WorkerTypeOK
    <2>2. /\ seq[w] \in Nat /\ grantSeq[w] \in Nat /\ reqSeen[w] \in Nat /\ doneSeq[w] \in Nat
          /\ doneSeen[w] \in Nat /\ reqValid[w] \in BOOLEAN /\ doneValid[w] \in BOOLEAN
          /\ finFlag[w] \in BOOLEAN /\ finSeen[w] \in BOOLEAN
      BY <1>0 DEF WorkerTypeOK
    <2>3. /\ SendsRequest(w) <=> reqValid[w]
          /\ SendsDone(w) <=> doneValid[w]
          /\ SendsFinished(w) <=> finFlag[w]
      BY ZenonT(60), <1>0, <2>2 DEF OneInv, RequestInv, TokenInv, FinishInv,
                        SendsRequest, SendsDone, SendsFinished
    <2>4. /\ ~reqValid'[w] /\ ~doneValid'[w] /\ ~finFlag'[w]
          /\ finSeen'[w] <=> finSeen[w] \/ finFlag[w]
      BY <2>1a, <2>1b, <2>1c, <2>1d, <2>3
    <2>5. /\ Elems(toManager'[w]) = Elems(toManager[w])
                 \cup (IF reqValid[w] THEN {ReqMsg(mailReq[w])} ELSE {})
                 \cup (IF doneValid[w] THEN {DoneMsg(doneSeq[w])} ELSE {})
                 \cup (IF finFlag[w] THEN {FinishedMsg} ELSE {})
          /\ DistinctTypes(toManager'[w]) /\ FinishLast(toManager'[w])
      BY <1>3, <2>3, TickLink
    <2>6. /\ Sent(w, "REQUEST")' <=> Sent(w, "REQUEST") \/ reqValid[w]
          /\ Sent(w, "DONE")' <=> Sent(w, "DONE") \/ doneValid[w]
          /\ Sent(w, "FINISHED")' <=> Sent(w, "FINISHED") \/ finFlag[w]
      <3>1. /\ ReqMsg(mailReq[w]).type = "REQUEST" /\ DoneMsg(doneSeq[w]).type = "DONE"
            /\ FinishedMsg.type = "FINISHED"
        BY DEF ReqMsg, DoneMsg, FinishedMsg
      <3> QED BY <2>5, <3>1 DEF Sent
    <2>7. \A t : Answered(w, t)' <=> Answered(w, t)
      BY <1>1 DEF Answered
    <2>8. (Queued(w)' <=> Queued(w)) /\ (Granted(w)' <=> Granted(w))
      BY <1>1, <2>1 DEF Queued, SameQueue, Granted
    <2>9. Shape(w)'
      BY ZenonT(60), <1>0, <1>1, <2>5 DEF OneInv, Shape
    <2>10. RequestInv(w)'
      <3>1. \A m \in Elems(toManager'[w]) :
               m.type = "REQUEST" => m.seq = seq[w] /\ m.node = mailReq[w].node
        <4>1. ReqMsg(mailReq[w]).seq = mailReq[w].seq /\ ReqMsg(mailReq[w]).node = mailReq[w].node
          BY DEF ReqMsg
        <4>2. DoneMsg(doneSeq[w]).type = "DONE" /\ FinishedMsg.type = "FINISHED"
          BY DEF DoneMsg, FinishedMsg
        <4> QED BY ZenonT(60), <1>0, <2>5, <4>1, <4>2 DEF OneInv, RequestInv
      <3>2. reqSeen'[w] <= seq[w]
        <4>1. mailReq[w].seq = seq[w] /\ reqSeen[w] <= seq[w]
          BY ZenonT(60), <1>0 DEF OneInv, RequestInv
        <4>2. seq[w] <= seq[w]
          BY <2>2
        <4> QED BY ZenonT(60), <2>1, <4>1, <4>2
      <3> QED BY ZenonT(60), <1>0, <1>1, <2>1, <2>2, <2>4, <2>6, <2>7, <2>8, <3>1, <3>2
              DEF OneInv, RequestInv, SameQueue
    <2>11. TokenInv(w)'
      <3>1. doneSeen[w] <= doneSeq[w] /\ doneSeq[w] <= doneSeq[w]
        <4>1. doneSeen[w] <= doneSeq[w]
          BY ZenonT(60), <1>0 DEF OneInv, TokenInv
        <4> QED BY <2>2, <4>1
      <3>2. doneSeen'[w] <= doneSeq'[w]
        BY ZenonT(60), <2>1, <3>1
      <3> QED BY ZenonT(60), <1>0, <1>1, <2>1, <2>4, <2>6, <2>7, <2>8, <3>2 DEF OneInv, TokenInv, SameSlot
    <2>12. FinishInv(w)'
      <3>1. finished[w] => toManager'[w] = <<>>
        <4>1. ASSUME finished[w] PROVE FALSE
          BY ZenonT(60), <1>0, <1>3, <2>2, <2>3, <4>1 DEF OneInv, FinishInv, RequestInv, WorkerTick
        <4> QED BY <4>1
      <3>2. finFlag[w] => ~finished[w]
        BY ZenonT(60), <1>0 DEF OneInv, FinishInv
      <3> QED BY ZenonT(60), <1>0, <1>1, <2>1, <2>2, <2>4, <2>6, <3>1, <3>2 DEF OneInv, FinishInv, SameSlot
    <2> QED BY <2>9, <2>10, <2>11, <2>12 DEF OneInv
  <1> QED BY <1>2, <1>3

LEMMA HandleRspInv ==
    ASSUME TypeOK, WorkerInv, NEW w0 \in Workers, HandleRsp(w0)
    PROVE  WorkerInv'
  <1> SUFFICES ASSUME NEW w \in Workers PROVE OneInv(w)'
    BY DEF WorkerInv, OneInv
  <1>0. OneInv(w) /\ WorkerTypeOK /\ LinkTypeOK
    BY DEF WorkerInv, OneInv, TypeOK
  <1>1. SameQueue(w) /\ SameSlot(w) /\ toManager'[w] = toManager[w]
    BY DEF HandleRsp, SameQueue, SameSlot, managerVars, slotVars
  <1>2. /\ phase'[w] = phase[w] /\ seq'[w] = seq[w] /\ mailReq'[w] = mailReq[w]
        /\ reqValid'[w] = reqValid[w] /\ doneSeq'[w] = doneSeq[w] /\ doneValid'[w] = doneValid[w]
        /\ finFlag'[w] = finFlag[w]
        /\ reqSeen'[w] = reqSeen[w] /\ doneSeen'[w] = doneSeen[w] /\ finSeen'[w] = finSeen[w]
    BY DEF HandleRsp, softwareVars, endpointVars
  <1>3. CASE w # w0
    <2>1. grantSeq'[w] = grantSeq[w] /\ toWorker'[w] = toWorker[w]
      BY SMTT(60), <1>0, <1>3 DEF HandleRsp, WorkerTypeOK, LinkTypeOK
    <2> QED BY <1>0, <1>1, <1>2, <2>1, Frame DEF SameSoftware, SameLinks
  <1>4. CASE w = w0
    <2> DEFINE h == Head(toWorker[w])
               rest == Tail(toWorker[w])
    <2>1. toWorker'[w] = rest /\ toWorker[w] # <<>>
      BY <1>0, <1>4 DEF HandleRsp, LinkTypeOK
    <2>2. \/ h.type = "GRANT" /\ grantSeq'[w] = h.seq
          \/ h.type = "GROUP_DONE" /\ grantSeq'[w] = grantSeq[w]
      BY <1>0, <1>4 DEF HandleRsp, WorkerTypeOK
    <2>3. /\ Elems(toWorker[w]) = Elems(rest) \cup {h}
          /\ DistinctTypes(rest)
          /\ \A x \in Elems(rest) : x.type # h.type
      BY <1>0, <2>1, ReceiveElems DEF LinkTypeOK, OneInv, Shape
    <2> HIDE DEF h, rest
    <2>4. \A t : Sent(w, t)' <=> Sent(w, t)
      BY <1>1 DEF Sent
    <2>5. Queued(w)' <=> Queued(w)
      BY <1>1 DEF Queued, SameQueue
    <2>6. Shape(w)'
      BY <1>0, <1>1, <2>1, <2>3 DEF OneInv, Shape
    <2>7. \A m \in Elems(toWorker'[w]) : m.type = "GRANT" => m.seq = seq[w]
      BY ZenonT(60), <1>0, <2>1, <2>3 DEF OneInv, RequestInv
    <2>8. CASE h.type = "GRANT"
      <3>1. Answered(w, "GRANT") /\ ~Answered(w, "GRANT")'
        BY <2>1, <2>3, <2>8 DEF Answered
      <3>2. h.seq = seq[w]
        BY ZenonT(60), <1>0, <2>3, <2>8 DEF OneInv, RequestInv
      <3>3. /\ phase[w] = "waiting" /\ grantSeq[w] # seq[w] /\ ~reqValid[w]
            /\ ~Sent(w, "REQUEST") /\ ~Queued(w)
        BY ZenonT(60), <1>0, <3>1 DEF OneInv, RequestInv
      <3>4. grantSeq'[w] = seq[w]
        BY <2>2, <2>8, <3>2
      <3>5. ~Granted(w) /\ Granted(w)'
        BY <1>2, <3>3, <3>4 DEF Granted
      <3>6. seq[w] \in Nat
        BY <1>0 DEF WorkerTypeOK
      <3>7. RequestInv(w)'
        <4>1. /\ mailReq[w].seq = seq[w] /\ reqSeen[w] <= seq[w]
              /\ \A m \in Elems(toManager'[w]) : m.type # "REQUEST"
              /\ \A r \in Elems(pendingQ') : r.worker # w
          BY ZenonT(60), <1>0, <1>1, <2>4, <2>5, <3>3 DEF OneInv, RequestInv, Sent, Queued
        <4>2. ~Sent(w, "REQUEST")' /\ ~Queued(w)' /\ ~reqValid'[w]
          BY ZenonT(60), <1>2, <2>4, <2>5, <3>3
        <4>3. grantSeq'[w] <= seq'[w]
          BY <1>2, <3>4, <3>6
        <4> QED BY ZenonT(60), <1>2, <2>7, <3>1, <4>1, <4>2, <4>3 DEF RequestInv
      <3>8. TokenInv(w)'
        BY ZenonT(60), <1>0, <1>1, <1>2, <2>4, <3>1, <3>3, <3>5 DEF OneInv, TokenInv, SameSlot
      <3>9. FinishInv(w)'
        BY ZenonT(60), <1>0, <1>1, <1>2, <2>4 DEF OneInv, FinishInv, SameSlot
      <3> QED BY <2>6, <3>7, <3>8, <3>9 DEF OneInv
    <2>9. CASE h.type = "GROUP_DONE"
      <3>1. Answered(w, "GRANT")' <=> Answered(w, "GRANT")
        BY <2>1, <2>3, <2>9 DEF Answered
      <3>2. grantSeq'[w] = grantSeq[w]
        BY <2>2, <2>9
      <3>3. Granted(w)' <=> Granted(w)
        BY ZenonT(60), <1>2, <3>2 DEF Granted
      <3>4. RequestInv(w)'
        BY ZenonT(60), <1>0, <1>1, <1>2, <2>4, <2>5, <2>7, <3>1, <3>2 DEF OneInv, RequestInv, SameQueue
      <3>5. TokenInv(w)'
        BY ZenonT(60), <1>0, <1>1, <1>2, <2>4, <3>1, <3>3 DEF OneInv, TokenInv, SameSlot
      <3>6. FinishInv(w)'
        BY ZenonT(60), <1>0, <1>1, <1>2, <2>4 DEF OneInv, FinishInv, SameSlot
      <3> QED BY <2>6, <3>4, <3>5, <3>6 DEF OneInv
    <2> QED BY <2>2, <2>8, <2>9
  <1> QED BY <1>3, <1>4

=============================================================================
