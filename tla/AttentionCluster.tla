--------------------------- MODULE AttentionCluster ---------------------------
(***************************************************************************)
(* The workers of the attention jobs of AttentionManager, in the cluster   *)
(* configuration of rocc/roccAnalog.h.  A QK worker computes the scores of *)
(* its row blocks on its command processor, forms the P windows of each    *)
(* row block by an online softmax and sends them, in order, to a PV        *)
(* worker, which multiplies each with a window of V and accumulates the    *)
(* row block.  A QK worker computes the scores of its next job ahead, and  *)
(* moves a job whose P windows are all formed aside until its row blocks   *)
(* are complete.  A PV worker keeps recent windows of V in a small cache;  *)
(* they come from memory, or from the leader of the head, which loads each *)
(* window once and hands it to the PV workers that ask, some of which pass *)
(* it on.                                                                  *)
(*                                                                         *)
(* A handler is a function on the record of its core; `out` collects the   *)
(* messages it sends.  The numbers of the softmax are left out: what       *)
(* counts is how many macro tasks of scores are done (scored), and of how  *)
(* many windows of a row block the softmax has done a first tile (begun)   *)
(* and all tiles of all slices (formed).  Instead of the cycle at which    *)
(* the next P window may enter the network, a handler that may send one    *)
(* does or does not.                                                       *)
(***************************************************************************)
EXTENDS AttentionManager

VARIABLES
    worker,   \* per QK worker: jobs active, ahead, aside and queued, and their progress
    pv,       \* per PV worker: queue, prefetch, V cache, sums, and its V entries as a leader
    assigned  \* core 0: row blocks assigned to each PV worker, and the cursor

clusterVars == <<worker, pv, assigned>>
vars == <<conf, software, job, net, early, worker, pv, assigned>>

Rows == 0 .. conf.rows - 1
Windows == 0 .. conf.windows - 1
LanesOf(q) == conf.lanes[IndexOf(ManagerOf(q))]
Cluster == conf.split # "single"

\* A window of V: the head of the job and the window (off_gemm_vec_base).
Source(j, w) == <<j, w>>
NoSource == <<None, None>>
attentionWorkerClusterVLeader(src) ==
    Min(PvWorkers) + ((src[1] - 1) % Cardinality(PvWorkers))

-----------------------------------------------------------------------------
(* QK workers *)

\* The progress of a job at a worker.  core: the PV worker of a row block.
NewProgress(q) ==
    [scored |-> 0, begun |-> [r \in Rows |-> 0], formed |-> [r \in Rows |-> 0],
     core |-> [r \in Rows |-> IF conf.dynamic THEN None
                              ELSE LanesOf(q)[(r % Len(LanesOf(q))) + 1]],
     asked |-> [r \in Rows |-> FALSE], sent |-> [r \in Rows |-> 0],
     pvCompleted |-> [r \in Rows |-> 0], cursor |-> 0]

NewWorker(q) ==
    [active |-> None, ahead |-> None, draining |-> <<>>, pending |-> <<>>,
     wcp |-> None,                                   \* the job whose scores are computed
     progress |-> [j \in Jobs |-> NewProgress(q)],
     answers |-> [j \in Jobs |-> <<>>],              \* history: completions sent
     out |-> <<>>]

Say(c, dest, msg) == [c EXCEPT !.out = Append(@, <<dest, msg>>)]
Answer(c, q, j, ok) ==
    Say([c EXCEPT !.answers[j] = Append(@, ok)], ManagerOf(q),
        [kind |-> "Complete", job |-> j, ok |-> ok])
\* The jobs js end one after the other, each in the start of the next.
AnswerAll(c, q, js, ok) == FoldLeft(LAMBDA d, j : Answer(d, q, j, ok), c, js)

\* Completes an action of core c: the record without its messages, and the
\* channels with them.
Cleared(c) == [c EXCEPT !.out = <<>>]

\* The macro tasks of a job's scores: each is a window of two row blocks, and
\* the row blocks take turns, every two of them from a window of their own on.
RowGroups == (conf.rows + 1) \div 2
MacroTasks == RowGroups * conf.windows
InTask(t, r, w) ==
    LET g == r \div 2 IN t % RowGroups = g /\ ((t \div RowGroups) + g) % conf.windows = w
ScoresIn(n, r, w) == \E t \in 0 .. n - 1 : InTask(t, r, w)

startAttentionWorkerClusterQkAhead(c) ==
    IF /\ Cluster /\ c.active # None /\ c.progress[c.active].scored = MacroTasks
       /\ c.ahead = None /\ c.pending # <<>> /\ c.wcp = None
    THEN [c EXCEPT !.ahead = Head(c.pending), !.wcp = Head(c.pending), !.pending = Tail(@)]
    ELSE c

\* A dispatch at a worker: queued behind an active job, else accepted or
\* rejected.  A command processor that still runs a failed job's list lets
\* the start fail, and with it every job queued behind.  A queue of 1024 jobs
\* and heads that do not divide, which reject a dispatch behind an active job
\* too, are left out: the managers check the heads before they dispatch.
startAttentionWorker(c, q, j, accept) ==
    IF c.active # None THEN startAttentionWorkerClusterQkAhead([c EXCEPT !.pending = Append(@, j)])
    ELSE IF ~accept THEN Answer(c, q, j, FALSE)
    ELSE IF ~Cluster THEN [c EXCEPT !.active = j]
    ELSE IF c.wcp # None THEN [AnswerAll(c, q, <<j>> \o c.pending, FALSE) EXCEPT !.pending = <<>>]
    ELSE [c EXCEPT !.active = j, !.wcp = j]

\* Mutant: a job ahead is rejected with the active one and kept.
KeptAhead(c, q, ok, accept) ==
    LET ended == [Answer(c, q, c.active, ok) EXCEPT !.active = None] IN
    IF ok /\ c.ahead # None THEN [ended EXCEPT !.active = c.ahead, !.ahead = None]
    ELSE LET alone == IF c.ahead = None THEN ended ELSE Answer(ended, q, c.ahead, FALSE) IN
         IF alone.pending = <<>> THEN alone
         ELSE startAttentionWorker([alone EXCEPT !.pending = Tail(@)], q,
                                   Head(alone.pending), accept)

\* A rejected successor is answered, and the jobs behind it stay queued.
finishAttentionWorker(c, q, ok, accept) ==
    LET ended == [Answer(c, q, c.active, ok) EXCEPT !.active = None] IN
    IF ok /\ c.ahead # None THEN [ended EXCEPT !.active = c.ahead, !.ahead = None]
    ELSE LET alone == IF c.ahead = None THEN ended
                      ELSE [Answer(ended, q, c.ahead, FALSE) EXCEPT !.ahead = None] IN
         IF alone.pending = <<>> THEN alone
         ELSE startAttentionWorker([alone EXCEPT !.pending = Tail(@)], q,
                                   Head(alone.pending), accept)

RowsFormed(c, j) == \A r \in Rows : c.progress[j].formed[r] = conf.windows
RowBlocksCompleted(c, j) ==
    FoldFunction(+, 0, c.progress[j].pvCompleted) = conf.rows

promoteAttentionWorkerClusterQkAheadForSfu(c) ==
    startAttentionWorkerClusterQkAhead(
        [c EXCEPT !.draining = Append(@, c.active), !.active = c.ahead, !.ahead = None])

\* The end of a pass of the softmax pump over the active job.
PumpEnd(c, q, accept) ==
    IF ~RowsFormed(c, c.active) THEN c
    ELSE IF RowBlocksCompleted(c, c.active) THEN finishAttentionWorker(c, q, TRUE, accept)
    ELSE IF c.ahead # None THEN promoteAttentionWorkerClusterQkAheadForSfu(c)
    ELSE c

\* Row block r may send its next window; the windows of a row block go in
\* order, and without dynamic assignment so do the row blocks of a lane.
Formed(p, r) == p.sent[r] < p.formed[r]
FirstOfLane(p, r, lanes) ==
    \A r2 \in Rows : r2 < r /\ r2 % lanes = r % lanes => p.sent[r2] = conf.windows

\* The first of 0 .. n - 1 from `cursor` on that is in S, or -1.
RoundRobin(cursor, n, S) ==
    LET found == {k \in 0 .. n - 1 : (cursor + k) % n \in S} IN
    IF found = {} THEN -1 ELSE (cursor + Min(found)) % n

SendWindow(c, q, j, r) ==
    LET p == c.progress[j] IN
    Say([c EXCEPT !.progress[j].sent[r] = @ + 1], p.core[r],
        [kind |-> "Pv", owner |-> q, job |-> j, row |-> r, window |-> p.sent[r]])

\* Dynamic: the first row block from the cursor with a window and a PV
\* worker; the row blocks with a window and no PV worker before it ask for
\* one.  Static: the first lane from the cursor whose row block has one.
dispatchAttentionReuseWindowPvAggregates(c, q, j) ==
    LET p     == c.progress[j]
        lanes == Len(LanesOf(q))
        RowOfLane(l) == CHOOSE r \in Rows : r % lanes = l /\ p.sent[r] < conf.windows
                                            /\ FirstOfLane(p, r, lanes)
        row   == RoundRobin(p.cursor, conf.rows,
                            {r \in Rows : Formed(p, r) /\ p.core[r] # None})
        lane  == RoundRobin(p.cursor, lanes,
                            {r % lanes : r \in {x \in Rows : FirstOfLane(p, x, lanes)
                                                             /\ Formed(p, x)}})
        before(r) == row = -1 \/ (r - p.cursor) % conf.rows < (row - p.cursor) % conf.rows
        asks(r) == before(r) /\ Formed(p, r) /\ p.core[r] = None /\ ~p.asked[r]
        asked == FoldLeft(LAMBDA d, r : Say([d EXCEPT !.progress[j].asked[r] = TRUE], Root,
                                            [kind |-> "Ask", job |-> j, row |-> r]),
                          c, SelectSeq([k \in 1 .. conf.rows |-> (p.cursor + k - 1) % conf.rows],
                                       asks))
    IN  IF conf.dynamic
        THEN IF row = -1 THEN asked
             ELSE [SendWindow(asked, q, j, row) EXCEPT !.progress[j].cursor = (row + 1) % conf.rows]
        ELSE IF lane = -1 THEN c
             ELSE [SendWindow(c, q, j, RowOfLane(lane)) EXCEPT
                      !.progress[j].cursor = (lane + 1) % lanes]

\* The hint that a window of V will be used, once its PV worker is known.
Hint(c, j, r, w, core) ==
    IF conf.split = "broadcast" /\ core # None
    THEN Say(c, core, [kind |-> "Hint", source |-> Source(j, w)]) ELSE c

\* A first tile of the next window of a row block.
BeginWindow(c, j, r) ==
    Hint([c EXCEPT !.progress[j].begun[r] = @ + 1], j, r, c.progress[j].begun[r],
         c.progress[j].core[r])

LiveJobs(c) == ({c.active, c.ahead} \ {None}) \union ToSet(c.draining)

handleAttentionWorkerClusterPvAllocationResponse(c, q, j, r, core) ==
    IF j \notin LiveJobs(c) \/ ~c.progress[j].asked[r] THEN c
    ELSE FoldLeft(LAMBDA d, w : Hint(d, j, r, w, core),
                  [c EXCEPT !.progress[j].asked[r] = FALSE, !.progress[j].core[r] = core],
                  [i \in 1 .. c.progress[j].begun[r] |-> i - 1])

\* Mutant: a row block of a job moved aside is not released.
ReleasedIfActive(c, q, p, j, r, accept) ==
    LET released == IF conf.dynamic /\ c.active = j
                    THEN Say(c, Root, [kind |-> "Release", core |-> p]) ELSE c
        counted  == [released EXCEPT !.progress[j].pvCompleted[r] = @ + 1] IN
    IF c.active = j
    THEN IF RowBlocksCompleted(counted, j) THEN PumpEnd(counted, q, accept) ELSE counted
    ELSE IF j \notin ToSet(c.draining) THEN released
    ELSE IF ~RowBlocksCompleted(counted, j) THEN counted
    ELSE Answer([counted EXCEPT !.draining = SelectSeq(@, LAMBDA k : k # j)], q, j, TRUE)

\* A row block is complete at PV worker p.
PvCompleted(c, q, p, j, r, accept) ==
    LET released == IF conf.dynamic THEN Say(c, Root, [kind |-> "Release", core |-> p]) ELSE c
        counted  == [released EXCEPT !.progress[j].pvCompleted[r] = @ + 1] IN
    IF c.active = j
    THEN IF RowBlocksCompleted(counted, j) THEN PumpEnd(counted, q, accept) ELSE counted
    ELSE IF j \notin ToSet(c.draining) THEN released
    ELSE IF ~RowBlocksCompleted(counted, j) THEN counted
    ELSE Answer([counted EXCEPT !.draining = SelectSeq(@, LAMBDA k : k # j)], q, j, TRUE)

-----------------------------------------------------------------------------
(* PV workers *)

Entries == 1 .. conf.entries
Torn == <<None, 1>>
NoWindow == [owner |-> None, job |-> None, row |-> None, window |-> None]
NewPv ==
    [queue |-> <<>>, busy |-> FALSE, active |-> NoWindow,
     attempted |-> FALSE, pending |-> FALSE, ready |-> FALSE, source |-> NoSource,
     resident |-> {},                                \* attentionWorkerClusterVResident_
     cache |-> [e \in Entries |-> NoSource],         \* what the entries are valid for
     recent |-> <<>>,                                \* valid entries, least recently used first
     index |-> None, hit |-> FALSE,                  \* the entry of the last window started
     install |-> None,                               \* the entry being loaded
     bytes |-> [e \in Entries |-> NoSource],         \* what the memory of an entry holds
     sums |-> {},                                    \* per row block under way, its windows so far
     loaded |-> {}, subscribers |-> {}, delivered |-> {},
                                                     \* as a leader: sources, and sources and
                                                     \* the cores that asked for them or got them
     loads |-> <<>>,                                 \* V windows to load; the first is being loaded
     out |-> <<>>]

Touch(c, e) == [c EXCEPT !.recent = Append(SelectSeq(@, LAMBDA x : x # e), e)]
MakeEntry(c, e, src) ==
    Touch([c EXCEPT !.cache[e] = src, !.bytes[e] = src], e)
CachedAt(c, src) == {e \in Entries : c.cache[e] = src}

\* The entry for a new window of V: the first that was never valid, else the
\* least recently used, among those that are free to be overwritten.
Victim(c, free) ==
    LET unused == {e \in free : c.cache[e] = NoSource} IN
    IF unused # {} THEN Min(unused)
    ELSE Head(SelectSeq(c.recent, LAMBDA e : e \in free))

\* Mutant: the entry of the current window is not spared.
UnsparedInstall(c, src) ==
    LET e == Victim(c, Entries) IN [c EXCEPT !.install = e, !.bytes[e] = Torn]

\* Loading an entry, from a delivery or by a prefetch, with a window of V
\* that is not cached (a cached one is not prefetched, and not asked for as
\* it is resident).  The old entry stays valid until the new one is
\* complete, the entry of the current window is spared.
StartInstall(c, src) ==
    LET e == Victim(c, Entries \ {c.index}) IN
    [c EXCEPT !.install = e, !.bytes[e] = Torn]

\* The destinations, without core p itself, dealt out to the groups; the first
\* of a group gets the data and the others of the group to pass it on to.
distributeAttentionWorkerClusterV(c, p, dests, src) ==
    LET others == dests \ {p}
        group(k) == {d \in others : Cardinality({x \in others : x < d}) % conf.groups = k - 1} IN
    FoldLeft(LAMBDA d, g : IF g = {} THEN d
                           ELSE Say(d, Min(g), [kind |-> "Delivery", source |-> src,
                                                relay |-> g \ {Min(g)}]),
             c, [k \in 1 .. conf.groups |-> group(k)])

handleAttentionWorkerClusterVDelivery(c, p, src, relay) ==
    IF ~c.pending \/ c.source # src THEN c
    ELSE StartInstall(distributeAttentionWorkerClusterV(c, p, relay, src), src)

Deliver(c, p, dest, src) ==
    IF dest = p THEN handleAttentionWorkerClusterVDelivery(c, p, src, {})
    ELSE Say(c, dest, [kind |-> "Delivery", source |-> src, relay |-> {}])

\* Mutant: a request while the window is loading is dropped.
DroppedRequest(c, p, from, src) ==
    IF src \in c.loaded
    THEN IF <<src, from>> \in c.delivered THEN c
         ELSE Deliver([c EXCEPT !.delivered = @ \union {<<src, from>>}], p, from, src)
    ELSE IF Contains(c.loads, src) THEN c
    ELSE [c EXCEPT !.subscribers = @ \union {<<src, from>>}, !.loads = Append(@, src)]

\* A request for a window of V at the leader p of its head.
handleAttentionWorkerClusterVRequest(c, p, from, src) ==
    IF src \in c.loaded
    THEN IF <<src, from>> \in c.delivered THEN c
         ELSE Deliver([c EXCEPT !.delivered = @ \union {<<src, from>>}], p, from, src)
    ELSE [c EXCEPT !.subscribers = @ \union {<<src, from>>},
                   !.loads = IF Contains(@, src) THEN @ ELSE Append(@, src)]

completeAttentionWorkerClusterVLoad(c, p) ==
    LET src  == Head(c.loads)
        subs == {d \in PvWorkers : <<src, d>> \in c.subscribers}
        done == [c EXCEPT !.loads = Tail(@), !.loaded = @ \union {src},
                          !.subscribers = @ \ ({src} \X subs),
                          !.delivered = @ \union ({src} \X subs)]
        own  == IF p \in subs THEN Deliver(done, p, p, src) ELSE done
    IN  distributeAttentionWorkerClusterV(own, p, subs, src)

requestAttentionWorkerClusterV(c, p, src) ==
    LET leader == attentionWorkerClusterVLeader(src)
        asked  == [c EXCEPT !.attempted = TRUE, !.source = src, !.pending = TRUE, !.ready = FALSE]
    IN  IF src \in c.resident THEN [asked EXCEPT !.pending = FALSE, !.ready = TRUE]
        ELSE IF leader = p THEN handleAttentionWorkerClusterVRequest(asked, p, p, src)
        ELSE Say(asked, leader, [kind |-> "Request", source |-> src])

NextSource(c) == Source(Head(c.queue).job, Head(c.queue).window)

\* While a window runs, the V of the next one is fetched.  (A prefetch of a
\* cached window is ready at once.)
prepareAttentionWorkerClusterPvNext(c, p) ==
    IF ~conf.prefetch \/ c.queue = <<>> \/ c.attempted THEN c
    ELSE IF conf.split = "broadcast" THEN requestAttentionWorkerClusterV(c, p, NextSource(c))
    ELSE IF CachedAt(c, NextSource(c)) # {}
    THEN Touch([c EXCEPT !.attempted = TRUE, !.ready = TRUE], Min(CachedAt(c, NextSource(c))))
    ELSE StartInstall([c EXCEPT !.attempted = TRUE, !.pending = TRUE, !.source = NextSource(c)],
                      NextSource(c))

\* The command processor starts on the V of the window: on a valid entry, or
\* on one that it fills itself.
startWindow(c, src) ==
    LET hits == CachedAt(c, src)
        e    == IF hits # {} THEN Min(hits) ELSE Victim(c, Entries) IN
    IF hits # {} THEN Touch([c EXCEPT !.index = e, !.hit = TRUE], e)
    ELSE [c EXCEPT !.index = e, !.hit = FALSE, !.bytes[e] = Torn]

\* The sum of a row block: the windows accumulated, of a key.
KeyOf(msg) == <<msg.owner, msg.job, msg.row>>
SumOf(c, key) == IF \E s \in c.sums : s.key = key
                 THEN (CHOOSE s \in c.sums : s.key = key).windows ELSE <<>>
WithSum(c, key, ws) ==
    [c EXCEPT !.sums = {s \in @ : s.key # key} \union {[key |-> key, windows |-> ws]}]

\* A window leaves the queue and starts; the first of a row block clears its sum.
RunWindow(c, p) ==
    LET msg == Head(c.queue)
        run == [c EXCEPT !.queue = Tail(@), !.active = msg, !.busy = TRUE, !.attempted = FALSE,
                         !.pending = FALSE, !.ready = FALSE, !.source = NoSource]
        sum == WithSum(startWindow(run, NextSource(c)), KeyOf(msg),
                       IF msg.window = 0 THEN <<>> ELSE SumOf(c, KeyOf(msg)))
    IN  prepareAttentionWorkerClusterPvNext(sum, p)

startAttentionWorkerClusterPv(c, p) ==
    IF c.busy THEN prepareAttentionWorkerClusterPvNext(c, p)
    ELSE IF c.queue = <<>> \/ c.pending THEN c
    ELSE IF conf.split # "broadcast" \/ (c.ready /\ c.source = NextSource(c)) THEN RunWindow(c, p)
    ELSE IF c.ready \/ ~c.attempted THEN requestAttentionWorkerClusterV(c, p, NextSource(c))
    ELSE c

handleAttentionWorkerClusterVPrefetchHint(c, p, src) ==
    IF ~conf.prefetch \/ c.attempted THEN c ELSE requestAttentionWorkerClusterV(c, p, src)

\* The window under way is complete: its product is in the sum, a V that the
\* command processor loaded is cached, and the last window of a row block is
\* reported.
CompleteWindow(c, p) ==
    LET msg  == c.active
        key  == KeyOf(msg)
        kept == IF c.hit THEN c ELSE MakeEntry(c, c.index, Source(msg.job, msg.window))
        sum  == Append(SumOf(c, key), msg.window)
        done == IF msg.window < conf.windows - 1 THEN WithSum(kept, key, sum)
                ELSE Say([kept EXCEPT !.sums = {s \in @ : s.key # key}], msg.owner,
                         [kind |-> "PvComplete", job |-> msg.job, row |-> msg.row])
    IN  startAttentionWorkerClusterPv([done EXCEPT !.busy = FALSE, !.active = NoWindow], p)

\* The entry being loaded is complete.
CompleteInstall(c, p) ==
    LET done == [MakeEntry(c, c.install, c.source) EXCEPT
                    !.install = None, !.pending = FALSE, !.ready = TRUE,
                    !.resident = IF conf.split = "broadcast" THEN @ \union {c.source} ELSE @]
    IN  IF c.busy THEN done ELSE startAttentionWorkerClusterPv(done, p)

-----------------------------------------------------------------------------
(* Core 0 *)

\* The PV workers of the asking manager in turn, or the one with fewer row
\* blocks.
handleAttentionWorkerClusterPvAllocationRequest(a, q) ==
    LET turn  == LanesOf(q)[a.cursor + 1]
        other == LanesOf(q)[2 - a.cursor] IN
    IF a.rows[other] < a.rows[turn] THEN other ELSE turn

Decreased(n) == IF n = 0 THEN 0 ELSE n - 1

-----------------------------------------------------------------------------
(* Actions *)

\* A handler of worker q, or of PV worker p, after the message of channel
\* <<from, q>> was taken out (from = None: it was not a message).
Take(from, d) == IF from = None THEN net ELSE Received(net, from, d)
WorkerStep(q, from, c) ==
    /\ \E d \in {c} : /\ worker' = [worker EXCEPT ![q] = Cleared(d)]
                     /\ net' = Sent(Take(from, q), q, d.out)
    /\ UNCHANGED <<conf, software, job, early, pv, assigned>>
PvStep(p, from, c) ==
    /\ \E d \in {c} : /\ pv' = [pv EXCEPT ![p] = Cleared(d)]
                     /\ net' = Sent(Take(from, p), p, d.out)
    /\ UNCHANGED <<conf, software, job, early, worker, assigned>>

\* Whether a worker may accept a job (it rejects one whose shape it cannot run).
Accepts == {TRUE} \union (IF "reject" \in conf.faults THEN {FALSE} ELSE {})

HasMessage(from, d, kind) == net[<<from, d>>] # <<>> /\ Head(net[<<from, d>>]).kind = kind

ReceiveDispatch(q) ==
    /\ HasMessage(ManagerOf(q), q, "Dispatch")
    /\ \E accept \in Accepts :
          WorkerStep(q, ManagerOf(q),
              startAttentionWorker(worker[q], q, Head(net[<<ManagerOf(q), q>>]).job, accept))

\* A worker that runs the job by itself has written its last query tile, or
\* fails on the way.
EndJob(q) ==
    /\ ~Cluster /\ worker[q].active # None
    /\ \E ok \in {TRUE} \union (IF "worker" \in conf.faults THEN {FALSE} ELSE {}),
          accept \in Accepts :
          WorkerStep(q, None, finishAttentionWorker(worker[q], q, ok, accept))

\* A step of the pipeline of a QK worker fails.
FailJob(q) ==
    /\ Cluster /\ "worker" \in conf.faults /\ worker[q].active # None
    /\ WorkerStep(q, None, finishAttentionWorker(worker[q], q, FALSE, TRUE))

\* The command processor has delivered the score tiles of a macro task; with
\* the last of them its list is complete.  A list whose job has failed is
\* stuck at its next tile.
CanScore(c) == c.wcp # None /\ c.wcp \in {c.active, c.ahead}
Score(q) ==
    LET c == worker[q]
        j == c.wcp
        n == c.progress[j].scored + 1 IN
    /\ CanScore(c)
    /\ WorkerStep(q, None,
          IF n < MacroTasks THEN [c EXCEPT !.progress[j].scored = n]
          ELSE LET done == [c EXCEPT !.progress[j].scored = n, !.wcp = None] IN
               IF j = c.active THEN startAttentionWorkerClusterQkAhead(done) ELSE done)

\* The record after the handler's call that sends a P window of job j: it
\* does so only when the previous one has left the network interface.
Dispatches(c, q, j) == {c, dispatchAttentionReuseWindowPvAggregates(c, q, j)}

\* The softmax begins a window of a row block of the active job, which may
\* have some of its scores, or completes one, which has them all.
CanBegin(c, r) ==
    LET p == c.progress[c.active] IN
    /\ c.active # None /\ p.begun[r] < conf.windows
    /\ ScoresIn(p.scored + (IF c.wcp = c.active THEN 1 ELSE 0), r, p.begun[r])
CanForm(c, r) ==
    LET p == c.progress[c.active] IN
    /\ c.active # None /\ p.formed[r] < p.begun[r]
    /\ ScoresIn(p.scored, r, p.formed[r])
Begin(q, r) ==
    LET j == worker[q].active IN
    /\ CanBegin(worker[q], r)
    /\ \E c \in Dispatches(BeginWindow(worker[q], j, r), q, j) : WorkerStep(q, None, c)
Form(q, r) ==
    LET j == worker[q].active IN
    /\ CanForm(worker[q], r)
    /\ \E c \in Dispatches([worker[q] EXCEPT !.progress[j].formed[r] = @ + 1], q, j) :
          WorkerStep(q, None, c)

\* The worker's tick sends a P window of the active job or of one aside ...
CanSend(p, lanes) ==
    \E r \in Rows : Formed(p, r) /\ IF conf.dynamic THEN p.core[r] # None \/ ~p.asked[r]
                                                  ELSE FirstOfLane(p, r, lanes)
Sending(q) ==
    {j \in ({worker[q].active} \ {None}) \union ToSet(worker[q].draining) :
        Cluster /\ CanSend(worker[q].progress[j], Len(LanesOf(q)))}
SendP(q) ==
    \E j \in Sending(q) :
        WorkerStep(q, None, dispatchAttentionReuseWindowPvAggregates(worker[q], q, j))

\* ... and ends the active job or moves it aside.
CanPump(c) ==
    /\ Cluster /\ c.active # None /\ RowsFormed(c, c.active)
    /\ RowBlocksCompleted(c, c.active) \/ c.ahead # None
Pump(q) ==
    /\ CanPump(worker[q])
    /\ \E c \in Dispatches(worker[q], q, worker[q].active) :
          WorkerStep(q, None, PumpEnd(c, q, TRUE))

ReceiveAllocation(q) ==
    LET msg == Head(net[<<Root, q>>])
        allocated == handleAttentionWorkerClusterPvAllocationResponse(
                         worker[q], q, msg.job, msg.row, msg.core) IN
    /\ HasMessage(Root, q, "Allocation")
    /\ \E c \in IF allocated = worker[q] THEN {allocated} ELSE Dispatches(allocated, q, msg.job) :
          WorkerStep(q, Root, c)

ReceivePvComplete(p, q) ==
    LET msg == Head(net[<<p, q>>]) IN
    /\ HasMessage(p, q, "PvComplete")
    /\ WorkerStep(q, p, PvCompleted(worker[q], q, p, msg.job, msg.row, TRUE))

ReceiveAsk(q) ==
    LET msg == Head(net[<<q, Root>>]) IN
    /\ HasMessage(q, Root, "Ask")
    /\ \E p \in {handleAttentionWorkerClusterPvAllocationRequest(assigned, q)} :
          /\ assigned' = [assigned EXCEPT !.rows[p] = @ + 1, !.cursor = 1 - @]
          /\ net' = Sent(Received(net, q, Root), Root,
                         <<<<q, [kind |-> "Allocation", job |-> msg.job, row |-> msg.row,
                                 core |-> p]>>>>)
    /\ UNCHANGED <<conf, software, job, early, worker, pv>>

ReceiveRelease(q) ==
    /\ HasMessage(q, Root, "Release")
    /\ assigned' = [assigned EXCEPT !.rows[Head(net[<<q, Root>>]).core] = Decreased(@)]
    /\ net' = Received(net, q, Root)
    /\ UNCHANGED <<conf, software, job, early, worker, pv>>

ReceivePv(q, p) ==
    LET msg == Head(net[<<q, p>>]) IN
    /\ HasMessage(q, p, "Pv")
    /\ PvStep(p, q, startAttentionWorkerClusterPv(
          [pv[p] EXCEPT !.queue = Append(@, [owner |-> q, job |-> msg.job, row |-> msg.row,
                                             window |-> msg.window])], p))

ReceiveHint(q, p) ==
    /\ HasMessage(q, p, "Hint")
    /\ PvStep(p, q, handleAttentionWorkerClusterVPrefetchHint(
                        pv[p], p, Head(net[<<q, p>>]).source))

ReceiveRequest(p2, p) ==
    /\ HasMessage(p2, p, "Request")
    /\ PvStep(p, p2, handleAttentionWorkerClusterVRequest(
                         pv[p], p, p2, Head(net[<<p2, p>>]).source))

ReceiveDelivery(p2, p) ==
    LET msg == Head(net[<<p2, p>>]) IN
    /\ HasMessage(p2, p, "Delivery")
    /\ PvStep(p, p2, handleAttentionWorkerClusterVDelivery(pv[p], p, msg.source, msg.relay))

\* The tick retries a start; a window, an entry and a load come to their end.
CanTick(c) == /\ ~c.busy /\ c.queue # <<>> /\ ~c.pending
              /\ conf.split # "broadcast" \/ c.ready \/ ~c.attempted
PvTick(p) == CanTick(pv[p]) /\ PvStep(p, None, startAttentionWorkerClusterPv(pv[p], p))
PvWindowDone(p) == pv[p].busy /\ PvStep(p, None, CompleteWindow(pv[p], p))
InstallDone(p) == pv[p].install # None /\ PvStep(p, None, CompleteInstall(pv[p], p))
VLoadDone(p) ==
    pv[p].loads # <<>> /\ PvStep(p, None, completeAttentionWorkerClusterVLoad(pv[p], p))

Init ==
    /\ ManagerInit
    /\ worker = [q \in Workers |-> NewWorker(q)]
    /\ pv = [p \in PvWorkers |-> NewPv]
    /\ assigned = [rows |-> [p \in PvWorkers |-> 0], cursor |-> 0]

Next ==
    \/ ManagerNext /\ UNCHANGED clusterVars
    \/ \E q \in DOMAIN worker :
          \/ ReceiveDispatch(q) \/ EndJob(q) \/ FailJob(q) \/ Score(q)
          \/ \E r \in Rows : Begin(q, r) \/ Form(q, r)
          \/ SendP(q) \/ Pump(q)
          \/ ReceiveAllocation(q) \/ ReceiveAsk(q) \/ ReceiveRelease(q)
          \/ \E p \in DOMAIN pv : ReceivePvComplete(p, q) \/ ReceivePv(q, p) \/ ReceiveHint(q, p)
    \/ \E p \in DOMAIN pv :
          \/ PvTick(p) \/ PvWindowDone(p) \/ InstallDone(p) \/ VLoadDone(p)
          \/ \E p2 \in DOMAIN pv \ {p} : ReceiveRequest(p2, p) \/ ReceiveDelivery(p2, p)

Spec == Init /\ [][Next]_vars

\* Some core, memory or channel has something to do.
CanStep ==
    \/ \E m \in DOMAIN software : ManagerCanStep(m)
    \/ \E c \in DOMAIN net : net[c] # <<>>
    \/ \E q \in DOMAIN worker :
          \/ ~Cluster /\ worker[q].active # None
          \/ CanScore(worker[q]) \/ Sending(q) # {} \/ CanPump(worker[q])
          \/ \E r \in Rows : CanBegin(worker[q], r) \/ CanForm(worker[q], r)
    \/ \E p \in DOMAIN pv :
          pv[p].busy \/ pv[p].install # None \/ pv[p].loads # <<>> \/ CanTick(pv[p])

\* Every core has a tick, the guest programs run, and memory and network
\* deliver: something happens as long as something can.
FairSpec ==
    /\ Spec
    /\ WF_vars((\E m \in DOMAIN software : Issue(m)) /\ UNCHANGED clusterVars)
    /\ []<>~CanStep \/ []<><<TRUE>>_vars

-----------------------------------------------------------------------------
(* Properties *)

\* Every worker of every manager in ms answered job j with success.
AllServed(ms, j) ==
    \A m \in ms : \A q \in ToSet(WorkersOf(m)) : worker[q].answers[j] = <<TRUE>>

\* When handleManagerAttentionCompletion or handleAttentionManagerBandCompletion
\* has made a manager's job a success, or tryWaitManagerAttentionJobCommand has
\* told its software so, its workers have completed the job, and for the root the
\* workers of all managers.
SuccessMeansServed ==
    \A m \in DOMAIN software, j \in Jobs :
        (\/ job[m][j].phase = "Complete" /\ job[m][j].status = "Success"
         \/ j <= software[m].waited - (IF software[m].failed THEN 1 ELSE 0))
        => AllServed(IF m = Root THEN Managers ELSE {m}, j)

\* The places of job j at worker q: on its way, queued, active, ahead or
\* aside, or answered.
Places(q, j) ==
    Cardinality({i \in DOMAIN net[<<ManagerOf(q), q>>] :
                    /\ net[<<ManagerOf(q), q>>][i].kind = "Dispatch"
                    /\ net[<<ManagerOf(q), q>>][i].job = j})
    + Cardinality({i \in DOMAIN worker[q].pending : worker[q].pending[i] = j})
    + Cardinality({i \in DOMAIN worker[q].draining : worker[q].draining[i] = j})
    + (IF worker[q].active = j THEN 1 ELSE 0) + (IF worker[q].ahead = j THEN 1 ELSE 0)
    + Len(worker[q].answers[j])

\* A job sent to a worker is in one place at it, and is answered once, however
\* startAttentionWorker, startAttentionWorkerClusterQkAhead, the promotion to
\* the softmax and finishAttentionWorker move it about.
DispatchAnsweredOnce ==
    \A q \in DOMAIN worker, j \in Jobs : Places(q, j) \in {0, 1}

\* The window that startAttentionWorkerClusterPv runs comes after exactly the
\* windows before it in the sum of its row block, on the V it names: the entry
\* in use is not the one that installAttentionPvVector overwrites, and a valid
\* entry holds what it is valid for.
RowsAccumulate ==
    \A p \in DOMAIN pv :
        LET c == pv[p] IN
        c.busy => /\ SumOf(c, KeyOf(c.active)) = [i \in 1 .. c.active.window |-> i - 1]
                  /\ c.install # c.index
                  /\ c.hit => c.bytes[c.index] = Source(c.active.job, c.active.window)

\* The row blocks that PV worker p has been assigned and has not been
\* released from: answers on their way, row blocks that are not complete at
\* their QK worker, releases on their way.
Owed(p) ==
    MapThenSumSet(LAMBDA q :
        Cardinality({i \in DOMAIN net[<<Root, q>>] :
                        net[<<Root, q>>][i].kind = "Allocation" /\ net[<<Root, q>>][i].core = p})
        + Cardinality({i \in DOMAIN net[<<q, Root>>] :
                        net[<<q, Root>>][i].kind = "Release" /\ net[<<q, Root>>][i].core = p})
        + Cardinality({<<j, r>> \in LiveJobs(worker[q]) \X Rows :
                        /\ worker[q].progress[j].core[r] = p
                        /\ worker[q].progress[j].pvCompleted[r] = 0}),
        Workers)

\* Core 0 (handleAttentionWorkerClusterPvAllocationRequest and ...Release)
\* counts exactly the row blocks under way at a PV worker, and never fewer
\* when a job failed.
AssignmentExact ==
    conf.dynamic =>
        \A p \in DOMAIN pv : IF conf.faults = {} THEN assigned.rows[p] = Owed(p)
                                                 ELSE assigned.rows[p] >= Owed(p)

\* Without faults tryWaitManagerAttentionJobCommand lets every manager's
\* software get through all its jobs: no window waits for a V that nobody
\* sends, no job for a worker.  The root's may not when a band completion was
\* early.
EveryManagerReturns ==
    <>(conf.faults = {} => \A m \in DOMAIN software :
          \/ software[m].waited = conf.jobs /\ ~software[m].failed
          \/ m = Root /\ early # {})
=============================================================================
