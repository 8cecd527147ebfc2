---------------------------- MODULE MemNicBridge ----------------------------
(***************************************************************************)
(* The DMA bridge in the network interface of a memory node                *)
(* (memHierarchy/memNICBase.h and memNIC.cc).                              *)
(*                                                                         *)
(* READs of the cores wait in an ingress queue for credits, in an order    *)
(* set by one of three policies; an admitted READ becomes a memory read,   *)
(* joins one that is under way for the same attention K/V chunk, or is     *)
(* answered from the chunk cache.  Responses leave through a send queue    *)
(* and return their credits.  The clock handler that admits and sends      *)
(* turns itself off when it finds nothing to do, and the handlers of the   *)
(* network and of the memory turn it on again.                             *)
(*                                                                         *)
(* Time is kept as ages: an entry of a queue is young until its collection *)
(* interval has passed, and starved after max_starvation_cycles.           *)
(***************************************************************************)
EXTENDS Integers, Sequences, FiniteSets, FiniteSetsExt, SequencesExt

CONSTANT Configs  \* the configurations and loads of the bridge

VARIABLES
  conf,     \* the configuration, fixed in Init
  nic,      \* the bridge's tables and queues
  clockOn,  \* clockOn
  sends,    \* times each READ has arrived
  told,     \* progress messages that have arrived
  plain     \* length of sendQueue, the ordinary traffic of the node

vars == <<conf, nic, clockOn, sends, told, plain>>

Reads == conf.reads                          \* the READs and DMA_WRITEs that cores send
MaxSends == conf.maxSends                    \* bound: how often each of them is sent
Progresses == conf.progresses                \* DMA_CONSUMER_PROGRESS messages
MaxPlain == conf.maxPlain                    \* bound: ordinary memory traffic in sendQueue
CreditCap == conf.creditCap                  \* golem_dma_credit_cap
WindowPriority == conf.windowPriority        \* golem_dma_window_priority_enable
AdmissionLimit == conf.admissionLimit        \* golem_dma_admission_limit
Quantum == conf.quantum                      \* golem_dma_tile_chunk_quantum
Coalesce == conf.coalesce                    \* golem_dma_kv_coalesce_enable
ExpectedConsumers == conf.expectedConsumers  \* golem_dma_kv_expected_consumers
Starvation == conf.starvation                \* the two max_starvation_cycles are not zero
ResponsePriority == conf.responsePriority    \* golem_dma_response_priority_enable
TilePriority == conf.tilePriority            \* golem_dma_response_tile_priority_enable
ResponseReorder == conf.responseReorder      \* golem_dma_response_reorder_cycles is not zero
DrainLimit == conf.drainLimit                \* golem_dma_response_drain_limit

ReadRecord ==
  [id : Nat, kind : {"kv", "prefetch", "query", "plain", "write"}, worker : 0..255,
   query : Nat, tile : Nat, slot : Nat, addr : Nat, units : Nat, at : Nat \X Nat]

ConfigRecord(reads) ==
  [reads : {reads}, maxSends : [reads -> Nat], maxPlain : Nat,
   progresses : SUBSET [worker : 0..255, at : Nat \X Nat],
   creditCap : Nat, admissionLimit : Nat, drainLimit : Nat,
   quantum : Nat \ {0}, expectedConsumers : Nat \ {0},
   windowPriority : BOOLEAN, coalesce : BOOLEAN, starvation : BOOLEAN,
   responsePriority : BOOLEAN, tilePriority : BOOLEAN, responseReorder : BOOLEAN]

\* A READ larger than the credit cap is a fatal error in doRecv.
ASSUME BridgeAssumption ==
  \A c \in Configs :
    /\ IsFiniteSet(c.reads) /\ c.reads \subseteq ReadRecord /\ c \in ConfigRecord(c.reads)
    /\ c.creditCap # 0 => \A r \in c.reads : r.units \in 1..c.creditCap

\* Attention K/V READs carry their consumer's position: isGolemAttentionKvRead.
Meta(r) == r.kind \in {"kv", "prefetch"}
Units(r) == IF CreditCap = 0 \/ r.kind = "write" THEN 0 ELSE r.units

\* golemDmaBundleKey, golemDmaKvCacheKey and golemDmaKvConsumerId
BundleKey(r) == <<Meta(r), r.worker, r.query, r.tile>>
CacheKey(r) == <<r.addr, r.tile>>
Consumer(r) == <<r.worker, r.query>>

BundleKeys == {BundleKey(r) : r \in Reads}
CacheKeys == {CacheKey(r) : r \in Reads}
Workers == {r.worker : r \in Reads}

NoBundle == [active |-> FALSE, key |-> <<FALSE, 0, 0, 0>>, window |-> <<0, 0, 0>>, count |-> 0]
Closed(b) == [b EXCEPT !.active = FALSE, !.count = 0]

\* A bundle's turn ends after golem_dma_tile_chunk_quantum of it.
TurnOver(count) == count >= Quantum

NoLoop == [made |-> 0, skipped |-> 0, ended |-> FALSE]

Init ==
  /\ conf \in Configs
  /\ nic = [ingress  |-> <<>>,  \* golem_dma_ingress_queue_, in order of arrival
            credits  |-> CreditCap,  \* golem_dma_credit_available_
            bundle   |-> NoBundle,   \* golem_dma_bundle_*
            cursor   |-> 0,          \* golem_dma_worker_cursor_
            pending  |-> <<>>,  \* golem_dma_pending, in order of event id
            waiting  |-> [k \in BundleKeys |-> 0],  \* golem_dma_response_pending_by_bundle_
            cache    |-> [k \in CacheKeys |-> {}],  \* golem_dma_kv_cache_: servedConsumers
            sendq    |-> <<>>,  \* golem_dma_send_queue_
            rbundle  |-> NoBundle,   \* golem_dma_response_bundle_*
            rcursor  |-> 0,          \* golem_dma_response_worker_cursor_
            progress |-> [w \in Workers |-> <<0, 0>>],  \* golem_dma_consumer_progress_
            admitted |-> 0,     \* golem_dma_credit_admitted_requests_
            answers  |-> [r \in Reads |-> 0],  \* responses put on the network
            loop     |-> NoLoop]     \* locals of the admission loop
  /\ clockOn = TRUE
  /\ sends = [r \in Reads |-> 0]
  /\ told = {}
  /\ plain = 0

-----------------------------------------------------------------------------
(* Orders.                                                                 *)

LexLess(a, b) == \E i \in DOMAIN a : a[i] < b[i] /\ \A j \in 1..i - 1 : a[j] = b[j]

First(S) == IF S = {} THEN 0 ELSE Min(S)
\* The index of S with the least rank; ranks differ, as they end in the index.
Best(S, rank(_)) ==
  IF S = {} THEN 0 ELSE CHOOSE i \in S : \A j \in S \ {i} : LexLess(rank(i), rank(j))

\* f applied n times to s; the singletons make TLC evaluate each turn once.
Iterate(f(_), n, s) ==
  LET it[k \in 0..n] == IF k = 0 THEN s ELSE CHOOSE y \in {f(x) : x \in {it[k - 1]}} : TRUE
  IN  it[n]

\* Workers take turns after the cursor, which is eight bits wide.
Turn(w, cursor) == (w - cursor) % 256

\* updateGolemDmaConsumerProgress
Advance(s, w, at) ==
  IF LexLess(s.progress[w], at) THEN [s EXCEPT !.progress[w] = at] ELSE s

\* golemDmaConsumerDistance: how soon the consumer needs the tile
Distance(s, r) ==
  LET p == s.progress[r.worker] IN
  IF ~Meta(r) \/ r.query > p[1] THEN 3
  ELSE IF r.query < p[1] \/ r.tile <= p[2] THEN 0
  ELSE Min({r.tile - p[2], 3})

-----------------------------------------------------------------------------
(* From an admitted READ to a memory read.                                 *)

\* A queued response; ready when it may leave at once: neither held for the
\* multicast tree nor for response_reorder_cycles.
Response(r, multicast) ==
  [read |-> r, ready |-> ~multicast /\ ~(TilePriority /\ ResponseReorder), starved |-> FALSE]
\* releaseGolemDmaCredits
ForgetfulRelease(s, r) == s
Release(s, r) == [s EXCEPT !.credits = @ + Units(r)]

\* tryServeGolemDmaKvCache: the cached chunk is sent; it is dropped with its
\* last expected consumer.
KeepingServeCache(s, r) ==
  LET served == s.cache[CacheKey(r)] \cup {Consumer(r)} IN
  [s EXCEPT !.sendq = Append(@, Response(r, FALSE)),
            !.cache[CacheKey(r)] =
               IF Cardinality(served) > ExpectedConsumers THEN {} ELSE served]
ServeCache(s, r) ==
  LET served == s.cache[CacheKey(r)] \cup {Consumer(r)} IN
  [s EXCEPT !.sendq = Append(@, Response(r, FALSE)),
            !.cache[CacheKey(r)] =
               IF Cardinality(served) >= ExpectedConsumers THEN {} ELSE served]

\* The memory reads a K/V READ may join.
Joinable(s, r) ==
  {i \in DOMAIN s.pending :
     /\ s.pending[i].shared
     /\ CacheKey(s.pending[i].subs[1]) = CacheKey(r)
     /\ s.pending[i].subs[1].query = r.query}

\* tryCoalesceGolemDmaRead once a joinable read is found: a READ that was sent
\* again and is a subscriber already gives its credits back.
UncountedJoin(s, r, i) ==
  IF r \in ToSet(s.pending[i].subs) THEN Release(s, r)
  ELSE [s EXCEPT !.pending[i].subs = Append(@, r)]
Join(s, r, i) ==
  IF r \in ToSet(s.pending[i].subs) THEN Release(s, r)
  ELSE [s EXCEPT !.pending[i].subs = Append(@, r), !.waiting[BundleKey(r)] = @ + 1]

StartRead(s, r, shared) ==
  [s EXCEPT !.pending = Append(@, [shared |-> shared, subs |-> <<r>>]),
            !.waiting[BundleKey(r)] = @ + 1,
            !.loop.made = @ + 1]

\* createGolemDmaRead
CreateRead(s, r) ==
  IF ~(Coalesce /\ Meta(r)) THEN StartRead(s, r, FALSE)
  ELSE IF s.cache[CacheKey(r)] # {} THEN ServeCache(s, r)
  ELSE IF Joinable(s, r) # {} THEN Join(s, r, First(Joinable(s, r)))
  ELSE StartRead(s, r, TRUE)

-----------------------------------------------------------------------------
(* Admission.  A pick names the index of the ingress queue to admit, 0 for  *)
(* none, with the bundle and the cursor it leaves.                         *)

ReadAt(s, i) == s.ingress[i].read
AgelessYoung(s, i) == s.ingress[i].age <= 1
Young(s, i) == s.ingress[i].age = 0
Affordable(s) == {i \in DOMAIN s.ingress : Units(ReadAt(s, i)) <= s.credits}

\* READs past golem_dma_admission_max_starvation_cycles that can pay
NoStarvedReads(s) == {}
StarvedReads(s) == {i \in Affordable(s) : Starvation /\ s.ingress[i].age = 2}

\* With consumer metadata in the queue: a starved READ first, then the bundle
\* that is being admitted, then the READ whose consumer is closest to needing it.
MetaPick(s) ==
  LET can == Affordable(s)
      starved == StarvedReads(s)
      mine == {i \in can : s.bundle.active /\ BundleKey(ReadAt(s, i)) = s.bundle.key}
      rank(i) == LET r == ReadAt(s, i) IN
                 IF Meta(r) THEN <<Distance(s, r), Turn(r.worker, s.cursor), r.query, r.tile, i>>
                            ELSE <<3, 255, 0, 0, i>>
      best == Best(can, rank)
  IN  IF starved # {} THEN [i |-> Min(starved), last |-> TRUE, bundle |-> s.bundle, cursor |-> s.cursor]
      ELSE IF mine # {} THEN [i |-> Min(mine), last |-> FALSE, bundle |-> s.bundle, cursor |-> s.cursor]
      ELSE [i |-> best, last |-> FALSE, cursor |-> s.cursor,
            bundle |-> IF best = 0 THEN Closed(s.bundle)
                       ELSE [s.bundle EXCEPT !.active = TRUE, !.count = 0,
                                             !.key = BundleKey(ReadAt(s, best))]]

WindowOf(r) == <<r.query, r.worker, r.tile>>
ArrivedWindow(s) == ReadAt(s, 1).query
OldestWindow(s) == Min({ReadAt(s, i).query : i \in DOMAIN s.ingress})
OfOldest(s) == {i \in DOMAIN s.ingress : ReadAt(s, i).query = OldestWindow(s)}

\* Without metadata: after its collection interval, the oldest window only, one
\* worker's tile at a time, workers in turn.  A bundle that waits for credits
\* holds the others of its window back.
WindowPick(s) ==
  LET b0 == IF s.bundle.active /\ s.bundle.window[1] # OldestWindow(s) THEN Closed(s.bundle) ELSE s.bundle
      mine == {i \in DOMAIN s.ingress : WindowOf(ReadAt(s, i)) = b0.window}
      cur == IF b0.active /\ mine = {} THEN (b0.window[2] + 1) % 256 ELSE s.cursor
      rankIn(i) == LET r == ReadAt(s, i) IN <<r.slot, r.addr, i>>
      rank(i) == LET r == ReadAt(s, i) IN <<Turn(r.worker, cur), r.tile, r.slot, i>>
      best == Best(OfOldest(s) \cap Affordable(s), rank)
  IN  IF Young(s, First(OfOldest(s)))
      THEN [i |-> 0, last |-> FALSE, bundle |-> s.bundle, cursor |-> s.cursor]
      ELSE IF b0.active /\ mine # {}
      THEN [i |-> Best(mine \cap Affordable(s), rankIn), last |-> FALSE, bundle |-> b0, cursor |-> cur]
      ELSE [i |-> best, last |-> FALSE, cursor |-> cur,
            bundle |-> IF best = 0 THEN Closed(b0)
                       ELSE [b0 EXCEPT !.active = TRUE, !.count = 0,
                                       !.window = WindowOf(ReadAt(s, best))]]

\* Without priorities: in order of arrival, past the READs that cannot pay.
FifoPick(s) ==
  [i |-> First({j \in Affordable(s) : j > s.loop.skipped /\ ~Young(s, j)}),
   last |-> FALSE, bundle |-> s.bundle, cursor |-> s.cursor]

Policy(s) ==
  IF ~WindowPriority THEN "fifo"
  ELSE IF \E i \in DOMAIN s.ingress : Meta(ReadAt(s, i)) THEN "meta" ELSE "window"

Pick(s, policy) ==
  CASE policy = "meta" -> MetaPick(s) [] policy = "window" -> WindowPick(s) [] OTHER -> FifoPick(s)

\* The picked READ pays and its bundle's turn ends after Quantum of them; in
\* the metadata order the cursor follows the READ, otherwise the bundle.
AdmitPicked(s, policy, p) ==
  LET r == ReadAt(s, p.i)
      count == p.bundle.count + 1
      over == policy # "fifo" /\ (TurnOver(count) \/ p.last)
      next == IF policy = "window" THEN (p.bundle.window[2] + 1) % 256
              ELSE IF Meta(r) THEN (r.worker + 1) % 256 ELSE p.cursor
  IN  CreateRead([s EXCEPT !.ingress = RemoveAt(@, p.i),
                           !.credits = @ - Units(r),
                           !.admitted = @ + 1,
                           !.bundle = IF policy = "fifo" THEN @
                                      ELSE IF over THEN Closed(p.bundle)
                                      ELSE [p.bundle EXCEPT !.count = count],
                           !.cursor = IF over THEN next ELSE p.cursor,
                           !.loop.skipped = p.i - 1], r)

\* One turn of the admission loop.
AdmitOne(s, policy) ==
  IF s.ingress = <<>> \/ s.loop.ended \/ (AdmissionLimit # 0 /\ s.loop.made >= AdmissionLimit)
  THEN s
  ELSE LET p == Pick(s, policy) IN
       IF p.i = 0 THEN [s EXCEPT !.bundle = p.bundle, !.cursor = p.cursor, !.loop.ended = TRUE]
       ELSE AdmitPicked(s, policy, p)

\* admitGolemDmaIngress
AdmitIngress(s) ==
  LET turn(t) == AdmitOne(t, Policy(s)) IN
  [Iterate(turn, Len(s.ingress) + 1, s) EXCEPT !.loop = NoLoop]

\* golemDmaIngressCanProgress
CanProgress(s) ==
  /\ s.ingress # <<>>
  /\ CASE Policy(s) = "meta"   -> Young(s, 1) \/ Affordable(s) # {}
       [] Policy(s) = "window" -> \/ Young(s, First(OfOldest(s)))
                                  \/ OfOldest(s) \cap Affordable(s) # {}
       [] OTHER -> Affordable(s) # {} \/ \E i \in DOMAIN s.ingress : Young(s, i)

-----------------------------------------------------------------------------
(* Responses.                                                              *)

\* golemDmaResponsePriority
Priority(r) ==
  CASE r.kind = "kv" -> 0 [] r.kind = "query" -> 1 [] r.kind = "write" -> 2
    [] r.kind = "prefetch" -> 3 [] OTHER -> 4

Ready(s) == {i \in DOMAIN s.sendq : s.sendq[i].ready}

\* Responses past golem_dma_response_max_starvation_cycles
StarvedResponses(s) == {i \in DOMAIN s.sendq : Starvation /\ s.sendq[i].starved}

\* The response to send next, 0 for none, and the response bundle it leaves.
DrainPick(s) ==
  LET read(i) == s.sendq[i].read
      starved == StarvedResponses(s)
      mine == {i \in Ready(s) : s.rbundle.active /\ BundleKey(read(i)) = s.rbundle.key}
      byPriority(i) == <<Priority(read(i)), i>>
      byTile(i) == <<Distance(s, read(i)), s.waiting[BundleKey(read(i))],
                     Turn(read(i).worker, s.rcursor), read(i).slot, read(i).id, i>>
      best == Best(Ready(s), byTile)
  IN  IF ~TilePriority
      THEN [i |-> IF ResponsePriority THEN Best(Ready(s), byPriority) ELSE First(Ready(s)),
            bundle |-> s.rbundle]
      ELSE IF starved # {} THEN [i |-> Min(starved), bundle |-> s.rbundle]
      ELSE IF mine # {} THEN [i |-> Min(mine), bundle |-> s.rbundle]
      ELSE [i |-> best,
            bundle |-> IF best = 0 THEN IF s.rbundle.active THEN Closed(s.rbundle) ELSE s.rbundle
                       ELSE [s.rbundle EXCEPT !.active = TRUE, !.count = 0,
                                              !.key = BundleKey(read(best))]]

\* A response leaves and its credits return.
DrainOne(s) ==
  LET p == DrainPick(s)
      r == s.sendq[p.i].read
      over == TilePriority /\ TurnOver(p.bundle.count + 1)
  IN  IF p.i = 0 THEN s
      ELSE Release([s EXCEPT !.sendq = RemoveAt(@, p.i),
                             !.answers[r] = @ + 1,
                             !.rbundle = IF ~TilePriority THEN @
                                         ELSE IF over THEN Closed(p.bundle)
                                         ELSE [p.bundle EXCEPT !.count = @ + 1],
                             !.rcursor = IF over THEN (r.worker + 1) % 256 ELSE @], r)

\* drainGolemDmaResponseQueue when the link has room for k responses: the pick
\* that the link refuses has chosen its bundle already.
Drain(s, k) ==
  LET d == Iterate(DrainOne, k, s)
      sent == Len(s.sendq) - Len(d.sendq)
  IN  IF d.sendq = <<>> \/ (DrainLimit # 0 /\ sent >= DrainLimit) THEN d
      ELSE [d EXCEPT !.rbundle = DrainPick(d).bundle]

Takes(s) == 0..(IF DrainLimit = 0 THEN Len(s.sendq) ELSE Min({DrainLimit, Len(s.sendq)}))

-----------------------------------------------------------------------------
(* Handlers.  MemNIC::recvNotify and doRecv drain the responses first, then   *)
(* take one message, and turn the clock on if READs wait.                     *)

DrowsyAwake(s) == clockOn
Awake(s) == clockOn \/ s.ingress # <<>>

\* The tail of doRecv for a READ: it queues, or without credits and priorities
\* it is created at once.
TakeRead(s, r) ==
  IF CreditCap # 0 \/ WindowPriority
  THEN [s EXCEPT !.ingress = Append(@, [read |-> r, age |-> 0])]
  ELSE [CreateRead(s, r) EXCEPT !.loop = NoLoop]

RecvRead(r) ==
  /\ r.kind # "write" /\ sends[r] < MaxSends[r]
  /\ \E k \in Takes(nic) :
       LET d == Drain(nic, k)
           a == IF Meta(r) THEN Advance(d, r.worker, r.at) ELSE d
       IN  nic' = TakeRead(a, r)
  /\ sends' = [sends EXCEPT ![r] = @ + 1]
  /\ clockOn' = Awake(nic')
  /\ UNCHANGED <<conf, told, plain>>

\* DMA_WRITE becomes a memory write at once.
RecvWrite(r) ==
  /\ r.kind = "write" /\ sends[r] < MaxSends[r]
  /\ \E k \in Takes(nic) :
       nic' = [Drain(nic, k) EXCEPT !.pending = Append(@, [shared |-> FALSE, subs |-> <<r>>])]
  /\ sends' = [sends EXCEPT ![r] = @ + 1]
  /\ clockOn' = Awake(nic')
  /\ UNCHANGED <<conf, told, plain>>

\* DMA_CONSUMER_PROGRESS
RecvProgress(p) ==
  /\ p \notin told
  /\ \E k \in Takes(nic) : nic' = Advance(Drain(nic, k), p.worker, p.at)
  /\ told' = told \cup {p}
  /\ clockOn' = Awake(nic')
  /\ UNCHANGED <<conf, sends, plain>>

\* MemNIC::clock, when the link has room for k responses and n ordinary events.
Tick(k, n) ==
  /\ clockOn
  /\ nic' = Drain(AdmitIngress(nic), k)
  /\ plain' = plain - n
  /\ clockOn' = ~(plain' = 0 /\ nic'.sendq = <<>> /\ ~CanProgress(nic'))
  /\ UNCHANGED <<conf, sends, told>>

Clock == \E k \in Takes(AdmitIngress(nic)), n \in 0..plain : Tick(k, n)

-----------------------------------------------------------------------------
(* The memory answers: MemNIC::send.                                        *)

\* What trySendGolemDmaResponse does of a read before it answers: the bundle
\* counts go down, and a shared chunk is kept for the consumers still expected.
Complete(s, p) ==
  LET lead == p.subs[1]
      served == {Consumer(r) : r \in ToSet(p.subs)}
      ofKey(k) == Len(SelectSeq(p.subs, LAMBDA r : BundleKey(r) = k))
  IN  [s EXCEPT
         !.waiting = IF lead.kind = "write" THEN @ ELSE [k \in BundleKeys |-> @[k] - ofKey(k)],
         !.cache[CacheKey(lead)] =
            IF p.shared /\ Cardinality(served) < ExpectedConsumers THEN served ELSE @]

\* trySendGolemDmaResponse: a response that nothing holds back and that the link
\* takes is sent past the empty queue, any other is queued.
DroppingRespond(s, p, room) ==
  Release(IF room THEN [s EXCEPT !.answers[p.subs[1]] = @ + 1] ELSE s, p.subs[1])
Respond(s, p, room) ==
  LET lead == p.subs[1] IN
  IF ~p.shared /\ s.sendq = <<>> /\ room
  THEN Release([s EXCEPT !.answers[lead] = @ + 1], lead)
  ELSE [s EXCEPT !.sendq = @ \o [i \in 1..Len(p.subs) |-> Response(p.subs[i], p.shared)]]

MemoryReply(i) ==
  /\ \E room \in BOOLEAN :
       LET p == nic.pending[i] IN
       nic' = Respond(Complete([nic EXCEPT !.pending = RemoveAt(@, i)], p), p, room)
  /\ clockOn' = (clockOn \/ nic'.sendq # <<>> \/ nic'.ingress # <<>>)
  /\ UNCHANGED <<conf, sends, told, plain>>

\* MemNIC::send of an ordinary event: it leaves past an empty sendQueue if the
\* link takes it, and the clock runs while it does not.
SendPlain(room) ==
  /\ plain < MaxPlain
  /\ plain' = IF plain = 0 /\ room THEN 0 ELSE plain + 1
  /\ clockOn' = (clockOn \/ plain' = 1)
  /\ UNCHANGED <<conf, nic, sends, told>>

-----------------------------------------------------------------------------
(* Time.                                                                    *)

\* READs pass their collection interval, and their starvation bound, in order
\* of arrival.
AgeIngress ==
  \E i \in DOMAIN nic.ingress :
    LET age == nic.ingress[i].age IN
    /\ age < (IF Starvation THEN 2 ELSE 1)
    /\ \A j \in 1..i - 1 : nic.ingress[j].age > age
    /\ nic' = [nic EXCEPT !.ingress[i].age = age + 1]
    /\ UNCHANGED <<conf, clockOn, sends, told, plain>>

\* A response becomes eligible.
AgeResponse ==
  \E i \in DOMAIN nic.sendq :
    /\ ~nic.sendq[i].ready
    /\ nic' = [nic EXCEPT !.sendq[i].ready = TRUE]
    /\ UNCHANGED <<conf, clockOn, sends, told, plain>>

\* A response has waited for max_starvation_cycles, in order of queueing.
StarveResponse ==
  \E i \in DOMAIN nic.sendq :
    /\ TilePriority /\ Starvation /\ ~nic.sendq[i].starved
    /\ \A j \in 1..i - 1 : nic.sendq[j].starved
    /\ nic' = [nic EXCEPT !.sendq[i].starved = TRUE]
    /\ UNCHANGED <<conf, clockOn, sends, told, plain>>

-----------------------------------------------------------------------------
Next ==
  \/ \E r \in Reads : RecvRead(r) \/ RecvWrite(r)
  \/ \E p \in Progresses : RecvProgress(p)
  \/ Clock
  \/ \E i \in DOMAIN nic.pending : MemoryReply(i)
  \/ \E room \in BOOLEAN : SendPlain(room)
  \/ AgeIngress \/ AgeResponse \/ StarveResponse

Spec == Init /\ [][Next]_vars

\* A clock tick in which the link takes what is offered.
OpenTick == Tick(Max(Takes(AdmitIngress(nic))), plain)

\* Such a tick changes something.
Work ==
  \/ Ready(nic) # {} \/ plain > 0
  \/ nic.ingress # <<>> /\ Pick(nic, Policy(nic)).i # 0

\* Time passes, the memory answers its oldest request at last, and a clock that
\* runs and has work finds room on the link again and again.  (Weak fairness of
\* OpenTick and MemoryReply, with the conditions in which they are enabled
\* written out.)
Fairness ==
  /\ <>[](clockOn /\ Work) => []<><<OpenTick>>_vars
  /\ <>[](nic.pending # <<>>) => []<><<nic.pending # <<>> /\ MemoryReply(1)>>_vars
  /\ WF_vars(AgeIngress) /\ WF_vars(AgeResponse)

FairSpec == Spec /\ Fairness

-----------------------------------------------------------------------------
(* Properties.                                                              *)

\* The READs the bridge holds, each as often as it holds them.
InIngress == [i \in DOMAIN nic.ingress |-> nic.ingress[i].read]
InPending == FlattenSeq([i \in DOMAIN nic.pending |-> nic.pending[i].subs])
InSendq == [i \in DOMAIN nic.sendq |-> nic.sendq[i].read]

Count(seq, r) == Cardinality({i \in DOMAIN seq : seq[i] = r})
UnitsOf(seq) == FoldSeq(LAMBDA r, sum : Units(r) + sum, 0, seq)
Held(r) == Count(InIngress \o InPending \o InSendq, r)

\* Credits are neither lost nor made: what is not available is held by READs
\* that the memory works on or whose response is queued, also when READs join,
\* are absorbed as duplicates or are served from the cache (the fatal error of
\* releaseGolemDmaCredits is never raised).
CreditConservation ==
  nic.credits >= 0 /\ nic.credits + UnitsOf(InPending) + UnitsOf(InSendq) = CreditCap

\* A READ or write that has arrived is held or has been answered, and is never
\* answered more often than it arrived.
NeverForgotten ==
  \A r \in Reads : sends[r] > 0 => nic.answers[r] + Held(r) \in 1..sends[r]

\* The bridge when the collection intervals of all its READs have passed
Collected(s) == [s EXCEPT !.ingress = [i \in DOMAIN @ |-> [@[i] EXCEPT !.age = Max({1, @})]]]

\* The clock is off only when nothing it could do is left: no response is
\* queued, no READ can be admitted, and a READ that waits for credits waits for a
\* memory answer, which turns the clock on.
NoLostWakeup ==
  ~clockOn => /\ nic.sendq = <<>> /\ plain = 0
              /\ nic.ingress # <<>> => Pick(Collected(nic), Policy(nic)).i = 0
              /\ nic.ingress # <<>> => \E i \in DOMAIN InPending : Units(InPending[i]) > 0

\* golem_dma_response_pending_by_bundle_, which orders the responses, counts
\* exactly the READs of each bundle that the memory has not answered.
BundleCountExact ==
  \A k \in BundleKeys :
    nic.waiting[k] = Cardinality({i \in DOMAIN InPending :
                                    InPending[i].kind # "write" /\ BundleKey(InPending[i]) = k})

\* A cached chunk has been sent, or is queued, to every consumer counted as
\* served, and is dropped when the expected number of them is reached.
CacheHonest ==
  \A k \in CacheKeys :
    /\ Cardinality(nic.cache[k]) < ExpectedConsumers
    /\ \A c \in nic.cache[k] : \E r \in Reads :
         /\ Meta(r) /\ CacheKey(r) = k /\ Consumer(r) = c
         /\ nic.answers[r] > 0 \/ Count(InSendq, r) > 0

\* Without metadata the oldest window goes first: a tick admits no READ while one
\* of an older window stays queued.
WindowOrder ==
  [][Policy(nic) = "window" /\ clockOn =>
       \A r \in Reads : Count(InIngress', r) < Count(InIngress, r) =>
         \A i \in DOMAIN nic'.ingress : nic'.ingress[i].read.query >= r.query]_vars

\* Priorities do not starve: while the oldest READ has waited for its starvation
\* bound and can pay, a tick that admits anything admits it, and once the oldest
\* queued response has waited for its bound nothing is sent before it.
StarvedFirst ==
  /\ [][nic.ingress # <<>> /\ Policy(nic) = "meta" /\ nic'.admitted > nic.admitted =>
          LET head == nic.ingress[1] IN
          head.age = 2 /\ Units(head.read) <= nic.credits =>
            Count(InIngress', head.read) < Count(InIngress, head.read)]_vars
  /\ [][nic.sendq # <<>> /\ nic'.answers # nic.answers =>
          LET head == nic.sendq[1] IN
          head.starved => nic'.answers[head.read] > nic.answers[head.read]]_vars

\* Every READ and write that arrives is answered.
EveryReadAnswered ==
  \A r \in UNION {c.reads : c \in Configs} :
    (r \in Reads /\ sends[r] > 0) ~> (r \in Reads /\ nic.answers[r] > 0)

\* "At each shared memory node, the first request for a chunk creates one HBM
\* read; concurrent requests join its subscriber list" (README of
\* attention_sequential_64): no two memory reads of one chunk are under way.
OneReadPerChunk ==
  \A i, j \in DOMAIN nic.pending :
    i # j /\ nic.pending[i].shared /\ nic.pending[j].shared =>
      CacheKey(nic.pending[i].subs[1]) # CacheKey(nic.pending[j].subs[1])

\* The statistics check of the scale test requires every enqueued response to be
\* drained: the queue of responses empties again and again.
EveryResponseDrained == []<>(nic.sendq = <<>>)

=============================================================================
