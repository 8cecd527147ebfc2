------------------------- MODULE GrantArbiterSteps --------------------------
(* The inductive invariant of GrantArbiter holds initially and is preserved,  *)
(* and every step of it is one of NodeAdmission, given the facts of counting. *)
EXTENDS GrantArbiterManager

-----------------------------------------------------------------------------
(* The group's end, and the wakeups *)

\* Nothing that only touches software, mailboxes and the links to the manager
\* disturbs what is known of the group's end and of the running pass.
LEMMA QuietStep ==
    ASSUME GroupInv, PassInv, NodeAccounting,
           UNCHANGED <<groupDone, toWorker, managerVars>>
    PROVE  GroupInv' /\ PassInv' /\ NodeAccounting'
  <1>1. /\ UNCHANGED <<pendingQ, inflight, inflightNode, nodeCount, finished, pass>>
        /\ UNCHANGED <<groupDone, toWorker>>
    BY DEF managerVars, slotVars
  <1>2. GroupDoneSent' <=> GroupDoneSent
    BY <1>1 DEF GroupDoneSent, Answered
  <1>3. GroupInv'
    BY <1>1, <1>2 DEF GroupInv
  <1>4. PassInv'
    BY <1>1 DEF PassInv, NoLostWakeup
  <1> QED BY <1>1, <1>3, <1>4, AccountingSame

LEMMA RspQuiet ==
    ASSUME TypeOK, WorkerInv, GroupInv, PassInv, NodeAccounting,
           NEW w0 \in Workers, HandleRsp(w0)
    PROVE  GroupInv' /\ PassInv' /\ NodeAccounting'
  <1>0. WorkerTypeOK /\ LinkTypeOK /\ Shape(w0) /\ TokenInv(w0)
    BY DEF TypeOK, WorkerInv
  <1>1. /\ UNCHANGED <<pendingQ, inflight, inflightNode, nodeCount, finished, pass>>
        /\ toWorker' = [toWorker EXCEPT ![w0] = Tail(@)]
    BY DEF HandleRsp, managerVars, slotVars
  <1>2. PassInv' /\ NodeAccounting'
    BY <1>1, AccountingSame DEF PassInv, NoLostWakeup
  <1> DEFINE s == toWorker[w0]
  <1>3. s \in Seq(ToWorkerMsgs) /\ s # <<>> /\ DistinctTypes(s)
    BY <1>0 DEF LinkTypeOK, HandleRsp, Shape
  <1>4. /\ \A w \in Workers : w # w0 => toWorker'[w] = toWorker[w]
        /\ toWorker'[w0] = Tail(s)
    BY <1>0, <1>1 DEF LinkTypeOK
  <1>5. Head(s) \in Elems(s) /\ Head(s) = s[1] /\ Len(s) \in Nat /\ Len(s) >= 1
    BY <1>3 DEF Elems
  <1>6. Elems(Tail(s)) \subseteq Elems(s)
    BY <1>3, <1>5 DEF Elems
  <1>7. ASSUME GroupDoneSent PROVE Tail(s) = <<>>
    <2>1. ~Answered(w0, "GRANT")
      BY ZenonT(60), <1>0, <1>7 DEF GroupInv, TokenInv
    <2>2. \A i \in 1 .. Len(s) : s[i] \in ToWorkerMsgs /\ s[i] \in Elems(s)
      BY <1>3 DEF Elems
    <2>3. \A i \in 1 .. Len(s) : s[i].type = "GROUP_DONE"
      BY <2>1, <2>2 DEF Answered, ToWorkerMsgs
    <2> HIDE DEF s
    <2>4. Len(s) = 1
      <3>1. ~(Len(s) > 1)
        <4> SUFFICES ASSUME Len(s) > 1 PROVE FALSE
          OBVIOUS
        <4>1. 1 \in 1 .. Len(s) /\ 2 \in 1 .. Len(s)
          BY <1>5
        <4>2. s[1].type = s[2].type
          BY <2>3, <4>1
        <4> QED BY <1>3, <4>1, <4>2 DEF DistinctTypes
      <3>2. Len(s) \in Nat /\ Len(s) >= 1
        BY <1>5
      <3> HIDE DEF s
      <3> DEFINE l == Len(s)
      <3>3. l \in Nat /\ l >= 1 /\ ~(l > 1)
        BY <3>1, <3>2
      <3> HIDE DEF l
      <3>4. l = 1
        BY <3>3
      <3> QED BY <3>4 DEF l
    <2>5. Len(Tail(s)) = 0 /\ Tail(s) \in Seq(ToWorkerMsgs)
      BY <1>3, <2>4
    <2> QED BY <2>5, LenZero, Zenon
  <1>8. GroupDoneSent' => GroupDoneSent
    <2>1. ASSUME NEW w \in Workers, groupDone'[w] \/ Answered(w, "GROUP_DONE")'
          PROVE  GroupDoneSent
      <3>1. CASE w # w0
        <4>1. groupDone'[w] = groupDone[w] /\ toWorker'[w] = toWorker[w]
          BY <1>0, <1>4, <3>1 DEF HandleRsp, WorkerTypeOK
        <4> QED BY <2>1, <4>1 DEF GroupDoneSent, Answered
      <3>2. CASE w = w0 /\ Answered(w, "GROUP_DONE")'
        <4>1. Answered(w, "GROUP_DONE")
          BY <1>4, <1>6, <3>2 DEF Answered
        <4> QED BY <4>1 DEF GroupDoneSent
      <3>3. CASE w = w0 /\ groupDone'[w]
        <4>1. CASE Head(s).type = "GROUP_DONE"
          BY ZenonT(60), <1>5, <4>1 DEF GroupDoneSent, Answered
        <4>2. CASE Head(s).type # "GROUP_DONE"
          <5>1. groupDone' = groupDone
            BY <4>2 DEF HandleRsp
          <5> QED BY <3>3, <5>1 DEF GroupDoneSent
        <4> QED BY <4>1, <4>2
      <3> QED BY <2>1, <3>1, <3>2, <3>3
    <2> QED BY <2>1 DEF GroupDoneSent
  <1>9. ASSUME NEW w \in Workers, groupDone'[w] PROVE toWorker'[w] = <<>>
    <2>1. GroupDoneSent
      BY <1>8, <1>9 DEF GroupDoneSent
    <2>2. CASE w = w0
      BY <1>4, <1>7, <2>1, <2>2, Zenon
    <2>3. CASE w # w0
      <3>1. groupDone'[w] = groupDone[w]
        BY <1>0, <2>3 DEF HandleRsp, WorkerTypeOK
      <3> QED BY <1>4, <1>9, <2>3, <3>1 DEF GroupInv
    <2> QED BY <2>2, <2>3
  <1>10. GroupInv'
    BY ZenonT(60), <1>1, <1>8, <1>9 DEF GroupInv
  <1> QED BY <1>2, <1>10

\* A worker with something on its link has not finished, so GROUP_DONE is not out.
LEMMA NotYetDone ==
    ASSUME WorkerInv, GroupInv, NEW w0 \in Workers, toManager[w0] # <<>>
    PROVE  ~GroupDoneSent
  BY DEF WorkerInv, GroupInv, FinishInv

LEMMA StillNotDone ==
    ASSUME ~GroupDoneSent, UNCHANGED <<groupDone, toWorker>>
    PROVE  GroupInv'
  <1>1. ~GroupDoneSent'
    BY DEF GroupDoneSent, Answered
  <1> QED BY <1>1 DEF GroupInv, GroupDoneSent

LEMMA RequestQuiet ==
    ASSUME TypeOK, WorkerInv, GroupInv, PassInv, NodeAccounting,
           NEW w0 \in Workers, HandleRequest(w0)
    PROVE  GroupInv' /\ PassInv' /\ NodeAccounting'
  <1>1. /\ UNCHANGED <<inflight, inflightNode, nodeCount, groupDone, toWorker>>
        /\ toManager[w0] # <<>> /\ ~pass.running
        /\ \/ UNCHANGED <<pendingQ, pass>>
           \/ pass' = Running(MaxGrantsPerSchedule, FALSE)
    <2>1. CASE QueueFull
      BY <2>1 DEF HandleRequest, Receive, slotVars, workerVars, deliveredVars
    <2>2. CASE ~QueueFull
      BY <2>2 DEF HandleRequest, Receive, slotVars, workerVars, deliveredVars
    <2> QED BY <2>1, <2>2, Zenon
  <1>2. GroupInv'
    BY <1>1, NotYetDone, StillNotDone
  <1>3. PassInv'
    <2>1. CASE UNCHANGED <<pendingQ, pass>>
      BY <1>1, <2>1 DEF PassInv, NoLostWakeup
    <2>2. CASE pass' = Running(MaxGrantsPerSchedule, FALSE)
      BY <1>1, <2>2, ConstantsAssumption DEF PassInv, NoLostWakeup, Running
    <2> QED BY <1>1, <2>1, <2>2, Zenon
  <1>4. NodeAccounting'
    BY <1>1, AccountingSame
  <1> QED BY <1>2, <1>3, <1>4

LEMMA DoneQuiet ==
    ASSUME CountingFacts, TypeOK, WorkerInv, GroupInv, PassInv, NodeAccounting,
           NEW w0 \in Workers, HandleDone(w0)
    PROVE  GroupInv' /\ PassInv' /\ NodeAccounting'
  <1>1. /\ UNCHANGED <<groupDone, toWorker>> /\ toManager[w0] # <<>>
        /\ pass' = Running(MaxGrantsPerSchedule, TRUE)
    BY DEF HandleDone, Receive, workerVars, deliveredVars
  <1>2. GroupInv'
    BY <1>1, NotYetDone, StillNotDone
  <1>3. PassInv'
    BY <1>1, ConstantsAssumption DEF PassInv, NoLostWakeup, Running
  <1> QED BY <1>2, <1>3, HandleDoneInv, AccountingDone

\* A handler that announces the end only to a complete group keeps GroupInv.
LEMMA AnnounceQuiet ==
    ASSUME TypeOK, WorkerInv, ~GroupDoneSent, NEW c \in BOOLEAN, MaybeSendGroupDone(c),
           UNCHANGED groupDone,
           c => ~pass'.running /\ pendingQ' = <<>>
                /\ \A w \in Workers : finished'[w] /\ ~inflight'[w]
    PROVE  GroupInv'
  <1>1. \A w \in Workers : ~groupDone'[w]
    BY DEF GroupDoneSent
  <1>2. CASE c
    BY <1>1, <1>2 DEF GroupInv
  <1>3. CASE ~c
    <2>1. \A w \in Workers : toWorker'[w] = toWorker[w]
      BY <1>3, AnnounceLinks
    <2>2. ~GroupDoneSent'
      BY <1>1, <2>1 DEF GroupDoneSent, Answered
    <2> QED BY <1>1, <2>2 DEF GroupInv
  <1> QED BY <1>2, <1>3

LEMMA FinishedQuiet ==
    ASSUME TypeOK, WorkerInv, GroupInv, PassInv, NodeAccounting,
           NEW w0 \in Workers, HandleFinished(w0)
    PROVE  GroupInv' /\ PassInv' /\ NodeAccounting'
  <1>1. /\ UNCHANGED <<groupDone, pendingQ, pass>> /\ ~pass.running
        /\ MaybeSendGroupDone(GroupComplete(finished', inflight', nodeCount'))
    BY ZenonT(60) DEF HandleFinished, Receive, workerVars, deliveredVars
  <1>2. /\ ~inflight[w0] /\ inflight' = inflight /\ nodeCount' = nodeCount
        /\ \A w \in Workers : w # w0 => inflightNode'[w] = inflightNode[w]
        /\ ~GroupDoneSent
    BY HandleFinishedInv
  <1>3. NodeAccounting'
    BY <1>2, AccountingSame
  <1>4. PassInv'
    BY ZenonT(60), <1>1, <1>2 DEF PassInv, NoLostWakeup
  <1> DEFINE c == GroupComplete(finished', inflight', nodeCount')
  <1>a. MaybeSendGroupDone(c)
    BY <1>1
  <1>b. c \in BOOLEAN
    BY Zenon DEF GroupComplete
  <1>5. c \in BOOLEAN /\ MaybeSendGroupDone(c)
    BY <1>a, <1>b
  <1>6. c => ~pass'.running /\ pendingQ' = <<>>
             /\ \A w \in Workers : finished'[w] /\ ~inflight'[w]
    BY <1>1 DEF GroupComplete
  <1> HIDE DEF c
  <1>7. GroupInv'
    BY <1>1, <1>2, <1>5, <1>6, AnnounceQuiet
  <1> QED BY <1>3, <1>4, <1>7

LEMMA ScheduleOneQuiet ==
    ASSUME CountingFacts, TypeOK, WorkerInv, DistinctWorkers(pendingQ), GroupInv, PassInv, NodeAccounting,
           ScheduleOne
    PROVE  GroupInv' /\ PassInv' /\ NodeAccounting'
  <1>0. LinkTypeOK /\ SlotTypeOK /\ QueueTypeOK
    BY DEF TypeOK
  <1>1. NodeAccounting' /\ \E w \in Workers : inflight'[w]
    BY AccountingGrant
  <1>2. /\ pass.running /\ pass.left > 0
        /\ pass' = Running(pass.left - 1, pass.drain)
        /\ UNCHANGED groupDone
    BY ZenonT(60) DEF ScheduleOne, workerVars, deliveredVars
  <1>3. PassInv'
    <2>1. /\ pass.left \in Nat /\ pass.left <= MaxGrantsPerSchedule
          /\ pass'.left = pass.left - 1 /\ pass'.running
      BY <1>0, <1>2 DEF QueueTypeOK, PassInv, Running
    <2>2. pass'.left <= MaxGrantsPerSchedule
      BY <2>1, ConstantsAssumption
    <2> QED BY <1>1, <2>1, <2>2 DEF PassInv, NoLostWakeup
  <1>4. ~GroupDoneSent
    BY ScheduleOneInv
  <1>5. PICK idx \in 0 .. Len(pendingQ) - 1 :
           pendingQ[idx + 1] \in PendingReqs /\ Grants(pendingQ[idx + 1], idx)
    BY <1>0, ScheduleOneGrants
  <1>6. PICK r \in PendingReqs : r = pendingQ[idx + 1]
    BY <1>5
  <1>7. toWorker' = [toWorker EXCEPT ![r.worker] = Append(@, GrantMsg(r.seq))]
    BY ZenonT(60), <1>5, <1>6 DEF Grants
  <1>8. ASSUME NEW w \in Workers PROVE ~Answered(w, "GROUP_DONE")'
    <2>1. ~Answered(w, "GROUP_DONE")
      BY <1>4 DEF GroupDoneSent
    <2>2. CASE w # r.worker
      <3>1. toWorker'[w] = toWorker[w]
        BY <1>0, <1>7, <2>2 DEF LinkTypeOK
      <3> QED BY <2>1, <3>1 DEF Answered
    <2>3. CASE w = r.worker
      <3> DEFINE g == GrantMsg(r.seq)
      <3>1. g \in ToWorkerMsgs /\ g.type = "GRANT"
        BY MessageTypes DEF GrantMsg, PendingReqs
      <3> HIDE DEF g
      <3>2. toWorker'[w] = Append(toWorker[w], g) /\ toWorker[w] \in Seq(ToWorkerMsgs)
        BY <1>0, <1>7, <2>3 DEF LinkTypeOK, g
      <3>3. \A x \in Elems(toWorker'[w]) : x \in Elems(toWorker[w]) \/ x = g
        BY <3>1, <3>2 DEF Elems
      <3> QED BY <2>1, <3>1, <3>3 DEF Answered
    <2> QED BY <2>2, <2>3
  <1>9. ~GroupDoneSent'
    BY <1>2, <1>4, <1>8 DEF GroupDoneSent
  <1>10. GroupInv'
    BY ZenonT(60), <1>9 DEF GroupInv, GroupDoneSent
  <1> QED BY <1>1, <1>3, <1>10

LEMMA ScheduleEndQuiet ==
    ASSUME CountingFacts, TypeOK, WorkerInv, GroupInv, PassInv, NodeAccounting, ScheduleEnd
    PROVE  GroupInv' /\ PassInv' /\ NodeAccounting'
  <1>0. SlotTypeOK /\ QueueTypeOK
    BY DEF TypeOK
  <1>1. /\ UNCHANGED <<groupDone, pendingQ, inflight, inflightNode, nodeCount, finished>>
        /\ pass.running /\ pass' = Idle
        /\ \/ pass.left = 0
           \/ \A i \in 1 .. Len(pendingQ) : ~Eligible(pendingQ[i])
        /\ MaybeSendGroupDone(pass.drain /\ GroupComplete(finished, inflight, nodeCount))
    BY DEF ScheduleEnd, workerVars, deliveredVars, slotVars
  <1>2. NodeAccounting'
    BY <1>1, AccountingSame
  <1>3. ASSUME pendingQ # <<>> PROVE \E w \in Workers : inflight[w]
    <2>1. CASE pass.left = 0
      BY <1>1, <2>1, ConstantsAssumption DEF PassInv
    <2>2. CASE \A i \in 1 .. Len(pendingQ) : ~Eligible(pendingQ[i])
      <3> DEFINE r == pendingQ[1]
      <3>1. r \in PendingReqs /\ ~Eligible(r)
        BY <1>0, <1>3, <2>2 DEF QueueTypeOK
      <3>2. r.worker \in Workers /\ r.node \in Nodes
        BY <3>1 DEF PendingReqs
      <3> HIDE DEF r
      <3>3. inflight[r.worker] \/ nodeCount[r.node] >= MaxInflightPerNode
        BY <1>0, <3>1, <3>2, ConstantsAssumption DEF Eligible, Nodes, SlotTypeOK
      <3>4. CASE nodeCount[r.node] >= MaxInflightPerNode
        <4>1. Cardinality(HoldersOf(r.node)) # 0
          BY <3>2, <3>4, ConstantsAssumption DEF NodeAccounting
        <4>2. HoldersOf(r.node) # {}
          BY ZenonT(60), <4>1 DEF CountingFacts
        <4> QED BY <4>2 DEF HoldersOf
      <3> QED BY <3>2, <3>3, <3>4
    <2> QED BY <1>1, <2>1, <2>2
  <1>4. PassInv'
    BY <1>1, <1>3, ConstantsAssumption DEF PassInv, NoLostWakeup, Idle
  <1> DEFINE c == pass.drain /\ GroupComplete(finished, inflight, nodeCount)
  <1>5. c \in BOOLEAN /\ MaybeSendGroupDone(c)
    BY ZenonT(60), <1>0, <1>1 DEF GroupComplete, QueueTypeOK
  <1>6. c => ~pass'.running /\ pendingQ' = <<>>
             /\ \A w \in Workers : finished'[w] /\ ~inflight'[w]
    BY <1>1 DEF GroupComplete, Idle
  <1>7. ~GroupDoneSent
    BY ScheduleEndInv
  <1> HIDE DEF c
  <1>8. GroupInv'
    BY ZenonT(60), <1>1, <1>5, <1>6, <1>7, AnnounceQuiet
  <1> QED BY <1>2, <1>4, <1>8

-----------------------------------------------------------------------------
(* The inductive invariant *)

LEMMA IInvInit == CountingFacts /\ Init => IInv
  <1> SUFFICES ASSUME CountingFacts, Init PROVE IInv
    OBVIOUS
  <1>1. TypeOK
    BY TypeInit
  <1>2. ASSUME NEW w \in Workers
        PROVE  Shape(w) /\ RequestInv(w) /\ TokenInv(w) /\ FinishInv(w)
    <2>1. Elems(toManager[w]) = {} /\ Elems(toWorker[w]) = {} /\ Elems(pendingQ) = {}
      BY DEF Init, Elems
    <2>2. /\ \A t : ~Sent(w, t) /\ ~Answered(w, t)
          /\ ~Queued(w) /\ ~Granted(w)
      BY <2>1 DEF Sent, Answered, Queued, Granted, Init
    <2>3. Shape(w)
      BY DEF Shape, DistinctTypes, FinishLast, Init
    <2>4. RequestInv(w)
      BY SMTT(60), <2>1, <2>2 DEF RequestInv, Init
    <2>5. TokenInv(w)
      BY <2>2 DEF TokenInv, Init
    <2>6. FinishInv(w)
      BY <2>2 DEF FinishInv, Init
    <2> QED BY <2>3, <2>4, <2>5, <2>6
  <1>3. DistinctWorkers(pendingQ)
    BY SMTT(60) DEF DistinctWorkers, Init
  <1>4. NodeAccounting
    <2>1. ASSUME NEW n \in Nodes PROVE HoldersOf(n) = {} /\ nodeCount[n] = 0
      BY DEF HoldersOf, Init
    <2> QED
      <3>1. ASSUME NEW n \in Nodes PROVE Cardinality(HoldersOf(n)) = 0
        BY ZenonT(60), <2>1 DEF CountingFacts
      <3> QED BY <2>1, <3>1, ConstantsAssumption DEF NodeAccounting
  <1>5. GroupInv
    BY DEF GroupInv, GroupDoneSent, Answered, Elems, Init
  <1>6. PassInv
    BY ConstantsAssumption DEF PassInv, NoLostWakeup, Init, Idle
  <1> QED BY <1>1, <1>2, <1>3, <1>4, <1>5, <1>6 DEF IInv, WorkerInv

LEMMA IInvStep == CountingFacts /\ IInv /\ [Next]_vars => IInv'
  <1> SUFFICES ASSUME CountingFacts, IInv, [Next]_vars PROVE IInv'
    OBVIOUS
  <1>0. TypeOK /\ WorkerInv /\ DistinctWorkers(pendingQ) /\ NodeAccounting /\ GroupInv /\ PassInv
    BY DEF IInv
  <1>t. TypeOK'
    BY <1>0, WorkerTypeStep, LinkTypeStep, SlotTypeStep, QueueTypeStep DEF TypeOK
  <1> DEFINE Rest == GroupInv' /\ PassInv' /\ NodeAccounting'
             Goal == WorkerInv' /\ DistinctWorkers(pendingQ)' /\ Rest
  <1> SUFFICES Goal
    BY <1>t DEF IInv
  <1>1. ASSUME NEW w0 \in Workers, NEW n \in Nodes, NEW win \in Windows, PublishRequest(w0, n, win)
        PROVE  Goal
    <2>1. UNCHANGED <<groupDone, toWorker, managerVars>> /\ pendingQ' = pendingQ
      BY <1>1 DEF PublishRequest, deliveredVars, managerVars
    <2>2. Rest
      BY <1>0, <2>1, QuietStep
    <2>3. WorkerInv'
      BY <1>0, <1>t, <1>1, PublishRequestInv
    <2> QED BY <1>0, <2>1, <2>2, <2>3
  <1>2. ASSUME NEW w0 \in Workers, PublishDone(w0) PROVE Goal
    <2>1. UNCHANGED <<groupDone, toWorker, managerVars>> /\ pendingQ' = pendingQ
      BY <1>2 DEF PublishDone, deliveredVars, managerVars
    <2>2. Rest
      BY <1>0, <2>1, QuietStep
    <2>3. WorkerInv'
      BY <1>0, <1>2, PublishDoneInv
    <2> QED BY <1>0, <2>1, <2>2, <2>3
  <1>3. ASSUME NEW w0 \in Workers, PublishFinished(w0) PROVE Goal
    <2>1. UNCHANGED <<groupDone, toWorker, managerVars>> /\ pendingQ' = pendingQ
      BY <1>3 DEF PublishFinished, deliveredVars, managerVars
    <2>2. Rest
      BY <1>0, <2>1, QuietStep
    <2>3. WorkerInv'
      BY <1>0, <1>3, PublishFinishedInv
    <2> QED BY <1>0, <2>1, <2>2, <2>3
  <1>4. ASSUME NEW w0 \in Workers, WorkerTick(w0) PROVE Goal
    <2>1. UNCHANGED <<groupDone, toWorker, managerVars>> /\ pendingQ' = pendingQ
      BY ZenonT(60), <1>4 DEF WorkerTick, deliveredVars, managerVars
    <2>2. Rest
      BY <1>0, <2>1, QuietStep
    <2>3. WorkerInv'
      BY <1>0, <1>4, WorkerTickInv
    <2> QED BY <1>0, <2>1, <2>2, <2>3
  <1>5. ASSUME NEW w0 \in Workers, HandleRsp(w0) PROVE Goal
    <2>1. pendingQ' = pendingQ
      BY <1>5 DEF HandleRsp, managerVars
    <2>2. Rest
      BY <1>0, <1>5, RspQuiet
    <2>3. WorkerInv'
      BY <1>0, <1>5, HandleRspInv
    <2> QED BY <1>0, <2>1, <2>2, <2>3
  <1>6. ASSUME NEW w0 \in Workers, HandleRequest(w0) PROVE Goal
    BY <1>0, <1>6, HandleRequestInv, RequestQuiet
  <1>7. ASSUME NEW w0 \in Workers, HandleDone(w0) PROVE Goal
    <2>1. pendingQ' = pendingQ
      BY <1>7 DEF HandleDone
    <2>2. Rest
      BY <1>0, <1>7, DoneQuiet
    <2>3. WorkerInv'
      BY <1>0, <1>7, HandleDoneInv
    <2> QED BY <1>0, <2>1, <2>2, <2>3
  <1>8. ASSUME NEW w0 \in Workers, HandleFinished(w0) PROVE Goal
    <2>1. pendingQ' = pendingQ
      BY <1>8 DEF HandleFinished
    <2>2. Rest
      BY <1>0, <1>8, FinishedQuiet
    <2>3. WorkerInv'
      BY <1>0, <1>8, HandleFinishedInv
    <2> QED BY <1>0, <2>1, <2>2, <2>3
  <1>9. CASE ScheduleOne
    BY <1>0, <1>9, ScheduleOneInv, ScheduleOneQuiet
  <1>10. CASE ScheduleEnd
    <2>1. pendingQ' = pendingQ
      BY <1>10 DEF ScheduleEnd
    <2>2. Rest
      BY <1>0, <1>10, ScheduleEndQuiet
    <2>3. WorkerInv'
      BY <1>0, <1>10, ScheduleEndInv
    <2> QED BY <1>0, <2>1, <2>2, <2>3
  <1>11. CASE UNCHANGED vars
    <2>1. UNCHANGED <<groupDone, toWorker, managerVars>> /\ pendingQ' = pendingQ
      BY <1>11 DEF vars, workerVars, deliveredVars, managerVars
    <2>2. Rest
      BY <1>0, <2>1, QuietStep
    <2>3. ASSUME NEW w \in Workers PROVE OneInv(w)'
      <3>1. OneInv(w)
        BY <1>0 DEF WorkerInv, OneInv
      <3>2. SameSoftware(w) /\ SameLinks(w) /\ SameQueue(w) /\ SameSlot(w)
        BY ZenonT(60), <1>11 DEF vars, workerVars, softwareVars, deliveredVars, endpointVars, managerVars,
                     slotVars, SameSoftware, SameLinks, SameQueue, SameSlot
      <3> QED BY <3>1, <3>2, Frame
    <2> QED BY <1>0, <2>1, <2>2, <2>3 DEF WorkerInv, OneInv
  <1> QED BY <1>1, <1>2, <1>3, <1>4, <1>5, <1>6, <1>7, <1>8, <1>9, <1>10, <1>11
          DEF Next, Software, Manager, AllDone

LEMMA QuietGroup == IInv => GroupDoneSound
  <1> SUFFICES ASSUME IInv, NEW w1 \in Workers,
                      groupDone[w1] \/ \E i \in DOMAIN toWorker[w1] : toWorker[w1][i].type = "GROUP_DONE"
               PROVE  /\ pendingQ = <<>>
                      /\ \A w \in Workers :
                            /\ phase[w] = "finished"
                            /\ toManager[w] = <<>>
                            /\ ~reqValid[w] /\ ~doneValid[w] /\ ~finFlag[w]
                            /\ ~inflight[w]
                            /\ Len(toWorker[w]) <= IF groupDone[w] THEN 0 ELSE 1
    BY DEF GroupDoneSound
  <1>0. LinkTypeOK /\ WorkerInv /\ GroupInv
    BY DEF IInv, TypeOK
  <1>1. GroupDoneSent
    <2>1. toWorker[w1] \in Seq(ToWorkerMsgs)
      BY <1>0 DEF LinkTypeOK
    <2> QED BY <2>1 DEF GroupDoneSent, Answered, Elems
  <1>2. pendingQ = <<>> /\ \A w \in Workers : finished[w] /\ ~inflight[w]
    BY <1>0, <1>1 DEF GroupInv
  <1>3. ASSUME NEW w \in Workers
        PROVE  /\ phase[w] = "finished" /\ toManager[w] = <<>>
               /\ ~reqValid[w] /\ ~doneValid[w] /\ ~finFlag[w]
    <2>1. FinishInv(w) /\ RequestInv(w)
      BY <1>0 DEF WorkerInv
    <2>2. finSeen[w] /\ toManager[w] = <<>> /\ ~doneValid[w]
      BY <1>2, <2>1 DEF FinishInv
    <2>3. phase[w] = "finished" /\ ~finFlag[w]
      BY <2>1, <2>2 DEF FinishInv
    <2>4. ~reqValid[w]
      BY ZenonT(60), <2>1, <2>3 DEF RequestInv
    <2> QED BY <2>2, <2>3, <2>4
  <1>4. ASSUME NEW w \in Workers
        PROVE  Len(toWorker[w]) <= IF groupDone[w] THEN 0 ELSE 1
    <2>1. CASE groupDone[w]
      <3>1. toWorker[w] = <<>>
        BY <1>0, <2>1 DEF GroupInv
      <3> QED BY <2>1, <3>1
    <2>2. CASE ~groupDone[w]
      <3> DEFINE s == toWorker[w]
      <3>1. s \in Seq(ToWorkerMsgs) /\ Len(s) \in Nat /\ DistinctTypes(s)
        BY SMTT(60), <1>0 DEF LinkTypeOK, WorkerInv, Shape
      <3>2. ~Answered(w, "GRANT")
        BY ZenonT(60), <1>0, <1>2 DEF WorkerInv, TokenInv
      <3>3. \A i \in 1 .. Len(s) : s[i] \in ToWorkerMsgs /\ s[i] \in Elems(s)
        BY SMTT(60), <3>1 DEF Elems
      <3>4. \A i \in 1 .. Len(s) : s[i].type = "GROUP_DONE"
        BY <3>2, <3>3 DEF Answered, ToWorkerMsgs
      <3> HIDE DEF s
      <3>5. ~(Len(s) > 1)
        <4> SUFFICES ASSUME Len(s) > 1 PROVE FALSE
          OBVIOUS
        <4>1. 1 \in 1 .. Len(s) /\ 2 \in 1 .. Len(s)
          BY <3>1
        <4>2. s[1].type = s[2].type
          BY <3>4, <4>1
        <4> QED BY <3>1, <4>1, <4>2 DEF DistinctTypes
      <3>6. Len(s) <= 1
        BY <3>1, <3>5
      <3> QED BY <2>2, <3>6 DEF s
    <2> QED BY <2>1, <2>2
  <1> QED BY ZenonT(60), <1>2, <1>3, <1>4

-----------------------------------------------------------------------------
(* Refinement of NodeAdmission *)

Using == [w \in Workers |-> IF Granted(w) THEN mailReq[w].node ELSE -1]
Stopped == {w \in Workers : phase[w] = "finished"}
Told == {w \in Workers : groupDone[w]}

\* A step that leaves software and delivered words alone is invisible.
LEMMA InvisibleStep ==
    ASSUME UNCHANGED <<phase, seq, mailReq, grantSeq, groupDone>>
    PROVE  UNCHANGED <<Using, Stopped, Told>>
  BY DEF Using, Stopped, Told, Granted

LEMMA AcquireStep ==
    ASSUME CountingFacts, IInv, NEW w0 \in Workers, HandleRsp(w0), Head(toWorker[w0]).type = "GRANT"
    PROVE  \E n \in Nodes : Admission!Acquire(w0, n)
  <1>0. WorkerTypeOK /\ LinkTypeOK /\ NodeAccounting /\ WorkerInv
    BY DEF IInv, TypeOK
  <1> DEFINE m == Head(toWorker[w0])
  <1>1. m \in Elems(toWorker[w0])
    BY <1>0 DEF LinkTypeOK, HandleRsp, Elems
  <1>2. Answered(w0, "GRANT") /\ m.seq = seq[w0]
    BY ZenonT(60), <1>0, <1>1 DEF Answered, WorkerInv, RequestInv
  <1>3. phase[w0] = "waiting" /\ grantSeq[w0] # seq[w0]
    BY ZenonT(60), <1>0, <1>2 DEF WorkerInv, RequestInv
  <1>4. PICK n \in Nodes : n = mailReq[w0].node
    BY <1>0 DEF WorkerTypeOK, Requests
  <1>5. w0 \in HoldersOf(n)
    BY ZenonT(60), <1>0, <1>2, <1>4 DEF WorkerInv, TokenInv, HoldersOf
  <1>6. /\ UNCHANGED <<phase, seq, mailReq, groupDone>>
        /\ grantSeq' = [grantSeq EXCEPT ![w0] = seq[w0]]
    BY <1>2 DEF HandleRsp, softwareVars
  <1>7. \A w \in Workers : Granted(w)' <=> (Granted(w) \/ w = w0)
    BY <1>0, <1>3, <1>6 DEF Granted, WorkerTypeOK
  <1>8. ~Granted(w0)
    BY <1>3 DEF Granted
  <1>9. Using' = [Using EXCEPT ![w0] = n]
    <2>1. \A w \in Workers : Using'[w] = IF w = w0 THEN n ELSE Using[w]
      BY ZenonT(60), <1>4, <1>6, <1>7 DEF Using
    <2>2. Using = [w \in Workers |-> Using[w]] /\ Using' = [w \in Workers |-> Using'[w]]
      BY SMTT(60) DEF Using
    <2> QED BY <2>1, <2>2
  <1>10. UNCHANGED <<Stopped, Told>>
    BY <1>6 DEF Stopped, Told
  <1>11. Using[w0] = -1 /\ w0 \notin Stopped
    BY <1>3, <1>8 DEF Using, Stopped
  <1> DEFINE U == {w \in Workers : Using[w] = n}
             H == HoldersOf(n)
  <1>12. U \subseteq H \ {w0}
    <2> SUFFICES ASSUME NEW w \in Workers, Using[w] = n PROVE w \in H /\ w # w0
      OBVIOUS
    <2>1. n # -1
      BY ConstantsAssumption DEF Nodes
    <2>2. Granted(w) /\ mailReq[w].node = n
      BY <2>1 DEF Using
    <2>3. inflight[w] /\ inflightNode[w] = n
      BY ZenonT(60), <1>0, <2>2 DEF WorkerInv, TokenInv
    <2> QED BY <1>8, <2>2, <2>3 DEF HoldersOf
  <1>13. Cardinality(U) < MaxInflightPerNode
    <2>1. IsFiniteSet(H) /\ Cardinality(H) \in Nat
      BY HoldersFinite
    <2>2. Cardinality(H) <= MaxInflightPerNode
      BY <1>0 DEF NodeAccounting
    <2> HIDE DEF U, H
    <2>3. w0 \in H
      BY <1>5 DEF H
    <2>4. IsFiniteSet(H \ {w0}) /\ Cardinality(H \ {w0}) = Cardinality(H) - 1
      BY ZenonT(60), <2>1, <2>3 DEF CountingFacts
    <2>5. IsFiniteSet(U) /\ Cardinality(U) <= Cardinality(H \ {w0})
      BY ZenonT(60), <1>12, <2>4 DEF CountingFacts
    <2>6. Cardinality(U) \in Nat
      BY ZenonT(60), <2>5 DEF CountingFacts
    <2> QED BY <2>1, <2>2, <2>4, <2>5, <2>6, ConstantsAssumption
  <1>14. Admission!Acquire(w0, n)
    <2>1. Admission!Users(n) = U
      BY DEF Admission!Users, Using
    <2>2. Admission!Cardinality(Admission!Users(n)) < MaxInflightPerNode
      <3> HIDE DEF U
      <3>1. Admission!Cardinality(U) = Cardinality(U)
        BY Zenon DEF Cardinality, Admission!Cardinality
      <3> QED BY <1>13, <2>1, <3>1
    <2>3. /\ Using[w0] = -1 /\ w0 \notin Stopped
          /\ Using' = [Using EXCEPT ![w0] = n] /\ Stopped' = Stopped /\ Told' = Told
      BY SMTT(60), <1>9, <1>10, <1>11
    <2> QED BY <2>2, <2>3, Zenon
            DEF Admission!Acquire, Admission!NoNode, Using, Stopped, Told
  <1> QED BY <1>14

LEMMA AdmissionInit == Init => Admission!Init
  BY DEF Init, Admission!Init, Admission!NoNode, Granted

LEMMA AdmissionStep == CountingFacts /\ IInv /\ [Next]_vars => [Admission!Next]_(Admission!vars)
  <1> SUFFICES ASSUME CountingFacts, IInv, [Next]_vars PROVE [Admission!Next]_(Admission!vars)
    OBVIOUS
  <1>0. WorkerTypeOK /\ LinkTypeOK /\ WorkerInv /\ GroupDoneSound
    BY QuietGroup DEF IInv, TypeOK
  <1>s. UNCHANGED <<Using, Stopped, Told>> => UNCHANGED Admission!vars
    BY ZenonT(60) DEF Using, Stopped, Told, Admission!vars
  <1>i. UNCHANGED <<phase, seq, mailReq, grantSeq, groupDone>> => UNCHANGED Admission!vars
    BY <1>s, InvisibleStep
  <1>1. ASSUME NEW w0 \in Workers, NEW n \in Nodes, NEW win \in Windows, PublishRequest(w0, n, win)
        PROVE  UNCHANGED Admission!vars
    <2>1. /\ UNCHANGED <<grantSeq, groupDone>> /\ phase[w0] = "ready"
          /\ seq' = [seq EXCEPT ![w0] = @ + 1]
          /\ phase' = [phase EXCEPT ![w0] = "waiting"]
          /\ \A w \in Workers : w # w0 => mailReq'[w] = mailReq[w]
      BY <1>0, <1>1 DEF PublishRequest, deliveredVars, WorkerTypeOK
    <2>2. grantSeq[w0] <= seq[w0] /\ seq[w0] \in Nat /\ grantSeq[w0] \in Nat
      BY ZenonT(60), <1>0 DEF WorkerInv, RequestInv, WorkerTypeOK
    <2>3. ~Granted(w0) /\ ~Granted(w0)'
      BY <1>0, <2>1, <2>2 DEF Granted, WorkerTypeOK
    <2>4. \A w \in Workers : w # w0 => (Granted(w)' <=> Granted(w))
      BY <1>0, <2>1 DEF Granted, WorkerTypeOK
    <2>5. Using' = Using
      BY <2>1, <2>3, <2>4 DEF Using
    <2>6. Stopped' = Stopped /\ Told' = Told
      BY <1>0, <2>1 DEF Stopped, Told, WorkerTypeOK
    <2> QED BY <1>s, <2>5, <2>6
  <1>2. ASSUME NEW w0 \in Workers, PublishDone(w0) PROVE Admission!Release(w0)
    <2>1. /\ UNCHANGED <<seq, mailReq, grantSeq, groupDone>> /\ Granted(w0)
          /\ phase' = [phase EXCEPT ![w0] = "ready"]
      BY <1>2 DEF PublishDone, deliveredVars
    <2>2. \A w \in Workers : Granted(w)' <=> Granted(w) /\ w # w0
      BY <1>0, <2>1 DEF Granted, WorkerTypeOK
    <2>3. Using' = [Using EXCEPT ![w0] = -1]
      <3>1. \A w \in Workers : Using'[w] = IF w = w0 THEN -1 ELSE Using[w]
        BY <2>1, <2>2 DEF Using
      <3>2. Using = [w \in Workers |-> Using[w]] /\ Using' = [w \in Workers |-> Using'[w]]
        BY DEF Using
      <3> QED BY <3>1, <3>2
    <2>4. Stopped' = Stopped /\ Told' = Told
      BY <1>0, <2>1 DEF Stopped, Told, WorkerTypeOK, Granted
    <2>5. Using[w0] # -1
      <3>1. mailReq[w0].node \in Nodes
        BY <1>0 DEF WorkerTypeOK, Requests
      <3> QED BY SMTT(60), <2>1, <3>1, ConstantsAssumption DEF Using, Nodes
    <2> QED BY ZenonT(60), <2>3, <2>4, <2>5 DEF Admission!Release, Admission!NoNode, Using, Stopped, Told
  <1>3. ASSUME NEW w0 \in Workers, PublishFinished(w0) PROVE Admission!Stop(w0)
    <2>1. /\ UNCHANGED <<seq, mailReq, grantSeq, groupDone>> /\ phase[w0] = "ready"
          /\ phase' = [phase EXCEPT ![w0] = "finished"]
      BY <1>3 DEF PublishFinished, deliveredVars
    <2>2. \A w \in Workers : Granted(w)' <=> Granted(w)
      BY <1>0, <2>1 DEF Granted, WorkerTypeOK
    <2>3. Using' = Using /\ Told' = Told
      BY <2>1, <2>2 DEF Using, Told
    <2>4. Stopped' = Stopped \cup {w0}
      BY <1>0, <2>1 DEF Stopped, WorkerTypeOK
    <2>5. Using[w0] = -1
      BY ZenonT(60), <2>1 DEF Using, Granted
    <2> QED BY ZenonT(60), <2>3, <2>4, <2>5 DEF Admission!Stop, Admission!NoNode, Using, Stopped, Told
  <1>4. ASSUME NEW w0 \in Workers, HandleRsp(w0) PROVE Admission!Next
    <2>1. CASE Head(toWorker[w0]).type = "GRANT"
      <3>1. \E n \in Nodes : Admission!Acquire(w0, n)
        BY <1>4, <2>1, AcquireStep
      <3> QED BY <3>1 DEF Admission!Next
    <2>2. CASE Head(toWorker[w0]).type # "GRANT"
      <3>1. /\ UNCHANGED <<phase, seq, mailReq, grantSeq>>
            /\ groupDone' = [groupDone EXCEPT ![w0] = TRUE]
            /\ Head(toWorker[w0]).type = "GROUP_DONE" /\ toWorker[w0] # <<>>
        BY <1>4, <2>2 DEF HandleRsp, softwareVars
      <3>2. \E i \in DOMAIN toWorker[w0] : toWorker[w0][i].type = "GROUP_DONE"
        BY <1>0, <3>1 DEF LinkTypeOK
      <3>3. Stopped = Workers
        BY <1>0, <3>2 DEF GroupDoneSound, Stopped
      <3>4. Using' = Using /\ Stopped' = Stopped
        BY <3>1 DEF Using, Stopped, Granted
      <3>5. Told' = Told \cup {w0}
        BY <1>0, <3>1 DEF Told, WorkerTypeOK
      <3>6. Admission!Tell(w0)
        BY ZenonT(60), <3>3, <3>4, <3>5 DEF Admission!Tell, Using, Stopped, Told
      <3> QED BY <3>6 DEF Admission!Next
    <2> QED BY <2>1, <2>2
  <1>5. ASSUME NEW w0 \in Workers, WorkerTick(w0) \/ Manager(w0) PROVE UNCHANGED Admission!vars
    <2>1. CASE WorkerTick(w0)
      BY ZenonT(60), <2>1, <1>i DEF WorkerTick, deliveredVars
    <2>2. UNCHANGED workerVars => UNCHANGED Admission!vars
      BY <1>i DEF workerVars, softwareVars, deliveredVars
    <2>3. CASE HandleRequest(w0)
      BY <2>2, <2>3 DEF HandleRequest
    <2>4. CASE HandleDone(w0)
      BY <2>2, <2>4 DEF HandleDone
    <2>5. CASE HandleFinished(w0)
      BY <2>2, <2>5 DEF HandleFinished
    <2> QED BY <1>5, <2>1, <2>3, <2>4, <2>5 DEF Manager
  <1>6. CASE ScheduleOne \/ ScheduleEnd \/ UNCHANGED vars
    BY ZenonT(60), <1>6, <1>i DEF ScheduleOne, ScheduleEnd, vars, workerVars, softwareVars, deliveredVars
  <1>7. CASE Next
    BY <1>1, <1>2, <1>3, <1>4, <1>5, <1>6, <1>7
       DEF Next, Software, AllDone, Admission!Next
  <1> QED BY <1>6, <1>7

=============================================================================
