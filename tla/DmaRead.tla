------------------------------ MODULE DmaRead ------------------------------
(***************************************************************************)
(* The host-to-local DMA read engine of one core's GlobalMemory            *)
(* (golem/globalmemory/globalmemory.cc).                                   *)
(*                                                                         *)
(* A transfer is split into bursts.  A burst waits in dma_pending until a  *)
(* window of MaxInflight bursts has room, is sent to a memory node (or     *)
(* parked in send_retry_queue while the link is full), is re-sent when no  *)
(* reply came for RetryTicks ticks of the self link, and is given up after *)
(* MaxRetries re-sends.  A reply lands in local storage piece by piece     *)
(* through the shared local access queue, which refuses work when it is    *)
(* full.  The last burst to finish calls the transfer's callback.  An      *)
(* attention worker brackets its transfers with a generation that can be   *)
(* retired when nothing of it is left, or cancelled at any time.           *)
(* Module DmaEngine puts these actions and those of the writes together.   *)
(***************************************************************************)
EXTENDS Integers, Sequences, FiniteSets, FiniteSetsExt, SequencesExt

CONSTANT Configs  \* the parameters and loads, of which a behaviour has one

ConfigRecord ==
  [bursts : Seq(Nat \ {0}),     \* bursts of dma_burst_bytes of each transfer
   pieces : Nat \ {0},          \* local writes of localAccessMaxRequestBytes_ per burst
   tokened : SUBSET Nat,        \* transfers started by the _async call: a token, no callback
   maxInflight : Nat \ {0},     \* dma_read_max_inflight
   maxRetries : Nat,            \* dma_read_max_retries
   retryTicks : Nat \ {0},      \* dma_read_retry_ticks
   queueDepth : Nat \ {0},      \* localAccessQueueDepth_
   writePorts : Nat \ {0},      \* localAccessWritePorts_
   maxOthers : Nat,             \* bound: accesses the other local clients make
   maxGen : Nat,                \* bound: attention generations begun
   writes : Seq([addr : Nat, chunks : Seq(Nat \ {0}), pumped : BOOLEAN])]
                                \* the DMA writes of module DmaEngine

ASSUME ConfigsAssumption ==
  \A c \in Configs : c \in ConfigRecord /\ c.tokened \subseteq DOMAIN c.bursts

VARIABLES
  conf,       \* the parameters, fixed in Init
  gen,        \* op.ownerGeneration of a submitted transfer; -1 before it
  op,         \* dma_pending: state, retry_ticks_left and retry_attempts of a burst
  sendq,      \* bursts with a READ in send_retry_queue
  net,        \* READs of a burst on their way, or being answered
  land,       \* pendingDmaLandings_: "none", "stalled", "writing"
  off,        \* landing.offset, in pieces
  lq,         \* localWriteQueue_ and the writes in flight, oldest first
  others,     \* localAccessPending_ entries of the other local clients, by generation
  otherLeft,  \* accesses the other local clients will still make
  mem,        \* pieces of a burst copied into storage
  remaining,  \* ctx->remaining
  ok,         \* ctx->ok
  calls,      \* times a transfer's completion was signalled
  token,      \* dma_completion_tokens
  tickArmed,  \* dma_retry_event_scheduled
  landArmed,  \* dmaLandingRetryScheduled_
  active,     \* attentionGenerationFence_.active()
  begun,      \* generations begun so far
  cancelled   \* generations that were cancelled

opVars    == <<op, sendq, net>>
landVars  == <<land, off, lq, mem>>
otherVars == <<others, otherLeft>>
doneVars  == <<remaining, ok, calls, token>>
fenceVars == <<active, begun, cancelled>>
vars == <<conf, gen, opVars, landVars, otherVars, doneVars, tickArmed, landArmed, fenceVars>>

Transfers == DOMAIN conf.bursts
Bursts == conf.bursts
Pieces == conf.pieces
Tokened == conf.tokened
MaxInflight == conf.maxInflight
MaxRetries == conf.maxRetries
RetryTicks == conf.retryTicks
QueueDepth == conf.queueDepth
WritePorts == conf.writePorts
MaxOthers == conf.maxOthers
MaxGen == conf.maxGen

Ids == UNION {{t} \X (1..Bursts[t]) : t \in Transfers}
BurstsOf(t) == {id \in Ids : id[1] = t}
Access == [id : Ids, gen : 0..MaxGen, live : BOOLEAN]

\* A burst is not in dma_pending, not issued yet, issued but not sent, or sent.
NoOp == [st |-> "none", ticks |-> 0, tries |-> 0]
Op == [st : {"none", "waiting", "queued", "sent"}, ticks : 0..RetryTicks, tries : 0..MaxRetries]

Pending == {id \in Ids : op[id].st # "none"}
Issued(s) == {id \in Ids : s[id].st \in {"queued", "sent"}}
Waiting(s) == {id \in Ids : s[id].st = "waiting"}

Init ==
  /\ conf \in Configs
  /\ gen = [t \in Transfers |-> -1]
  /\ op = [id \in Ids |-> NoOp]
  /\ sendq = {}
  /\ net = [id \in Ids |-> 0]
  /\ land = [id \in Ids |-> "none"]
  /\ off = [id \in Ids |-> 0]
  /\ lq = <<>>
  /\ others = [g \in 0..MaxGen |-> 0]
  /\ otherLeft = MaxOthers
  /\ mem = [id \in Ids |-> {}]
  /\ remaining = [t \in Transfers |-> 0]
  /\ ok = [t \in Transfers |-> TRUE]
  /\ calls = [t \in Transfers |-> 0]
  /\ token = [t \in Transfers |-> FALSE]
  /\ tickArmed = FALSE
  /\ landArmed = FALSE
  /\ active = 0
  /\ begun = 0
  /\ cancelled = {}

-----------------------------------------------------------------------------
(* Sending.  send_retry_queue is kept as a set: each burst has at most one *)
(* READ in it, and replies come back in any order whatever the order of    *)
(* the sends.                                                              *)

\* The READs of out leave over the link: each is on its way, and its burst is
\* marked sent, with a fresh timer, if it is still pending.  The bursts are in
\* the state s, and n READs of each are on their way.
Leave(s, n, out) ==
  /\ net' = [id \in Ids |-> IF id \in out THEN n[id] + 1 ELSE n[id]]
  /\ op' = [id \in Ids |->
              IF id \in out /\ s[id].st = "queued"
              THEN [st |-> "sent", ticks |-> RetryTicks, tries |-> s[id].tries]
              ELSE s[id]]

\* try_send_or_queue for every burst of new: the link takes some of what is
\* queued, and the rest stays queued.
TrySendOrQueue(s, n, new) ==
  \E out \in SUBSET (IF new = {} THEN {} ELSE sendq \cup new) :
    /\ sendq' = (sendq \cup new) \ out
    /\ Leave(s, n, out)

\* The bursts issue_pending_dma_read_window may issue from the states s:
\* waiting bursts, in the arbitrary order of the unordered map, until the
\* window is full.
Fills(s) ==
  LET room == MaxInflight - Cardinality(Issued(s)) IN
  IF room <= 0 THEN {{}}
  ELSE IF Cardinality(Waiting(s)) <= room THEN {Waiting(s)}
  ELSE kSubset(room, Waiting(s))

\* issue_pending_dma_read_window, after the READs of again were re-sent.
IssueWindow(s, n, again) ==
  \E fill \in Fills(s) :
    TrySendOrQueue([id \in Ids |->
                      IF id \in fill
                      THEN [st |-> "queued", ticks |-> RetryTicks, tries |-> s[id].tries]
                      ELSE s[id]],
                   n, again \cup fill)

\* handle_send_available: the link has room again and takes queued READs.
HandleSendAvailable ==
  /\ \E out \in (SUBSET sendq) \ {{}} :
       /\ sendq' = sendq \ out
       /\ Leave(op, net, out)
  /\ UNCHANGED <<conf, gen, landVars, otherVars, doneVars, tickArmed, landArmed, fenceVars>>

-----------------------------------------------------------------------------
(* Completion of bursts.                                                   *)

\* As Finish, with the outcome of the last burst reported for the transfer.
LastWinsFinish(finished, good, signalsToken) ==
  LET count(t) == Cardinality({id \in finished : id[1] = t})
      left(t)  == IF remaining[t] >= count(t) THEN remaining[t] - count(t) ELSE 0
      fired    == {t \in Transfers : count(t) > 0 /\ left(t) = 0}
  IN  /\ remaining' = [t \in Transfers |-> left(t)]
      /\ ok' = [t \in Transfers |-> IF count(t) > 0 THEN good ELSE ok[t]]
      /\ calls' = [t \in Transfers |-> IF t \in fired \ Tokened THEN calls[t] + 1 ELSE calls[t]]
      /\ token' = [t \in Transfers |-> token[t] \/ (signalsToken /\ t \in fired \cap Tokened)]

\* As Finish, taking one burst out of a context however many ended.
OncePerPassFinish(finished, good, signalsToken) ==
  LET ends(t)  == \E id \in finished : id[1] = t
      left(t)  == IF ends(t) /\ remaining[t] > 0 THEN remaining[t] - 1 ELSE remaining[t]
      fired    == {t \in Transfers : ends(t) /\ left(t) = 0}
  IN  /\ remaining' = [t \in Transfers |-> left(t)]
      /\ ok' = [t \in Transfers |-> ok[t] /\ (ends(t) => good)]
      /\ calls' = [t \in Transfers |-> IF t \in fired \ Tokened THEN calls[t] + 1 ELSE calls[t]]
      /\ token' = [t \in Transfers |-> token[t] \/ (signalsToken /\ t \in fired \cap Tokened)]

\* The bursts of finished leave their transfers' contexts, with good telling
\* which of them landed; the transfers that have none left signal completion.
\* signalsToken tells whether a completion token is set as well.
Finish(finished, good, signalsToken) ==
  LET count(t) == Cardinality({id \in finished : id[1] = t})
      left(t)  == IF remaining[t] >= count(t) THEN remaining[t] - count(t) ELSE 0
      fired    == {t \in Transfers : count(t) > 0 /\ left(t) = 0}
  IN  /\ remaining' = [t \in Transfers |-> left(t)]
      /\ ok' = [t \in Transfers |-> ok[t] /\ \A id \in finished : id[1] = t => good]
      /\ calls' = [t \in Transfers |-> IF t \in fired \ Tokened THEN calls[t] + 1 ELSE calls[t]]
      /\ token' = [t \in Transfers |-> token[t] \/ (signalsToken /\ t \in fired \cap Tokened)]

-----------------------------------------------------------------------------
(* Submission and retries.                                                 *)

\* dma_read_from_host_to_globalmem: every burst enters dma_pending, the
\* window is filled and the retry event is scheduled.
Submit(t) ==
  /\ gen[t] = -1
  /\ gen' = [gen EXCEPT ![t] = active]
  /\ remaining' = [remaining EXCEPT ![t] = Bursts[t]]
  /\ IssueWindow([id \in Ids |->
                    IF id[1] = t
                    THEN [st |-> "waiting", ticks |-> RetryTicks, tries |-> 0]
                    ELSE op[id]],
                 net, {})
  /\ tickArmed' = TRUE
  /\ UNCHANGED <<conf, landVars, otherVars, ok, calls, token, landArmed, fenceVars>>

Due == {id \in Ids : op[id].st = "sent" /\ op[id].ticks = 0}
\* As Exhausted, with one re-send too many.
LateExhausted == {id \in Due : op[id].tries > MaxRetries}
Exhausted == {id \in Due : op[id].tries >= MaxRetries}

\* process_dma_read_retries on one burst: the timer of a sent burst runs, and
\* when it ran out the burst is given up or its READ is issued again.
Retried(id) ==
  IF id \in Exhausted THEN NoOp
  ELSE IF id \in Due THEN [st |-> "queued", ticks |-> 0, tries |-> op[id].tries + 1]
  ELSE IF op[id].st = "sent"
       THEN [st |-> "sent", ticks |-> op[id].ticks - 1, tries |-> op[id].tries]
  ELSE op[id]

\* As RetryTick, without the trailing refill of the window.
NoRefillRetryTick(more) ==
  /\ tickArmed
  /\ TrySendOrQueue([id \in Ids |-> Retried(id)], net, Due \ Exhausted)
  /\ Finish(Exhausted, FALSE, FALSE)
  /\ tickArmed' = (more \/ Pending \ Exhausted # {})
  /\ UNCHANGED <<conf, gen, landVars, otherVars, landArmed, fenceVars>>

\* handleSelfEvent: one tick of the retry timers.  A burst whose timer ran
\* out is sent again, or given up and reported as failed; the window is
\* refilled and the event is scheduled again while anything is pending, which
\* `more` says of the writes.
\* Giving up writes the completion flag and calls the callback, but leaves
\* the completion token alone.
RetryTick(more) ==
  /\ tickArmed
  /\ IssueWindow([id \in Ids |-> Retried(id)], net, Due \ Exhausted)
  /\ Finish(Exhausted, FALSE, FALSE)
  /\ tickArmed' = (more \/ Pending \ Exhausted # {})
  /\ UNCHANGED <<conf, gen, landVars, otherVars, landArmed, fenceVars>>

-----------------------------------------------------------------------------
(* Landing in local storage.                                               *)

\* localAccessQueueDepth_ less localAccessPending_.size(), when q is queued.
Room(q) == QueueDepth - Len(q) - SumFunction(others)
QueueHasRoom(q) == Room(q) > 0

\* localWriteAsync for the next piece of id, when the local queue is q: it is
\* queued under the generation that is active now, or refused, in which case
\* the landing waits for the landing retry event.
IssueNextPiece(id, q) ==
  IF QueueHasRoom(q)
  THEN /\ lq' = Append(q, [id |-> id, gen |-> active, live |-> TRUE])
       /\ land' = [land EXCEPT ![id] = "writing"]
       /\ UNCHANGED landArmed
  ELSE /\ lq' = q
       /\ land' = [land EXCEPT ![id] = "stalled"]
       /\ landArmed' = TRUE

Stale(g) == g # 0 /\ g # active

\* As ReceiveReply, landing every reply of a submitted transfer.
EagerReceiveReply(id, more) ==
  /\ net[id] > 0
  /\ IssueWindow([op EXCEPT ![id] = NoOp], [net EXCEPT ![id] = @ - 1], {})
  /\ IF land[id] # "none" \/ Stale(gen[id[1]])
     THEN UNCHANGED <<land, lq, landArmed>>
     ELSE IssueNextPiece(id, lq)
  /\ tickArmed' = (tickArmed \/ more \/ \E i \in Ids : op'[i].st # "none")
  /\ UNCHANGED <<conf, gen, off, mem, otherVars, doneVars, fenceVars>>

\* DMA_READ_COMPLETE: the first reply of a pending burst starts its landing,
\* unless its generation is stale; a reply of a burst that is not pending is
\* dropped.  The window is refilled and the retry event scheduled either way.
\* A READ or a reply that is lost is one that never takes this step.  `more`
\* says whether writes are pending.
ReceiveReply(id, more) ==
  /\ net[id] > 0
  /\ IssueWindow([op EXCEPT ![id] = NoOp], [net EXCEPT ![id] = @ - 1], {})
  /\ IF op[id].st = "none" \/ Stale(gen[id[1]])
     THEN UNCHANGED <<land, lq, landArmed>>
     ELSE IssueNextPiece(id, lq)
  /\ tickArmed' = (tickArmed \/ more \/ \E i \in Ids : op'[i].st # "none")
  /\ UNCHANGED <<conf, gen, off, mem, otherVars, doneVars, fenceVars>>

\* handleLocalAccessEvent for the i-th oldest local write, when it was not
\* cancelled and its generation is still active: the piece is copied, and the
\* landing goes on with its next piece or finishes its burst.
WritePiece(i) ==
  LET a == lq[i]  id == a.id  q == RemoveAt(lq, i) IN
  /\ a.live /\ ~Stale(a.gen)
  /\ mem' = [mem EXCEPT ![id] = @ \cup {off[id] + 1}]
  /\ IF land[id] = "none"
     THEN lq' = q /\ UNCHANGED <<land, off, doneVars, landArmed>>
     ELSE /\ off' = [off EXCEPT ![id] = @ + 1]
          /\ IF off[id] + 1 = Pieces
             THEN /\ land' = [land EXCEPT ![id] = "none"]
                  /\ lq' = q
                  /\ Finish({id}, TRUE, TRUE)
                  /\ UNCHANGED landArmed
             ELSE IssueNextPiece(id, q) /\ UNCHANGED doneVars

\* The same event for a write that was cancelled or is stale: nothing is
\* copied, and a landing that still waits for it fails its burst.
FailPiece(i) ==
  LET a == lq[i]  id == a.id IN
  /\ ~a.live \/ Stale(a.gen)
  /\ lq' = RemoveAt(lq, i)
  /\ IF land[id] = "none"
     THEN UNCHANGED <<land, doneVars>>
     ELSE land' = [land EXCEPT ![id] = "none"] /\ Finish({id}, FALSE, TRUE)
  /\ UNCHANGED <<off, mem, landArmed>>

\* The writes at the head of the queue are in flight, one per port, and may
\* end in any order.
LocalWriteDone ==
  /\ \E i \in DOMAIN lq : i <= WritePorts /\ (WritePiece(i) \/ FailPiece(i))
  /\ UNCHANGED <<conf, gen, opVars, otherVars, tickArmed, fenceVars>>

\* As LandingRetry, never scheduling the event again.
ForgetfulLandingRetry ==
  LET stalled == {id \in Ids : land[id] = "stalled"}
      k == IF Cardinality(stalled) <= Room(lq) THEN Cardinality(stalled) ELSE Room(lq)
  IN
  /\ landArmed
  /\ \E taken \in kSubset(k, stalled), order \in [1..k -> stalled] :
       /\ {order[i] : i \in 1..k} = taken
       /\ lq' = lq \o [i \in 1..k |-> [id |-> order[i], gen |-> active, live |-> TRUE]]
       /\ land' = [id \in Ids |-> IF id \in taken THEN "writing" ELSE land[id]]
       /\ landArmed' = FALSE
  /\ UNCHANGED <<conf, gen, opVars, off, mem, otherVars, doneVars, tickArmed, fenceVars>>

\* The landing retry event: every stalled landing tries its next piece again,
\* in the arbitrary order of the unordered map, while the queue has room; the
\* event is scheduled again when one is refused.
LandingRetry ==
  LET stalled == {id \in Ids : land[id] = "stalled"}
      k == IF Cardinality(stalled) <= Room(lq) THEN Cardinality(stalled) ELSE Room(lq)
  IN
  /\ landArmed
  /\ \E taken \in kSubset(k, stalled), order \in [1..k -> stalled] :
       /\ {order[i] : i \in 1..k} = taken
       /\ lq' = lq \o [i \in 1..k |-> [id |-> order[i], gen |-> active, live |-> TRUE]]
       /\ land' = [id \in Ids |-> IF id \in taken THEN "writing" ELSE land[id]]
       /\ landArmed' = (stalled \ taken # {})
  /\ UNCHANGED <<conf, gen, opVars, off, mem, otherVars, doneVars, tickArmed, fenceVars>>

\* Another local client takes a place in the shared local access queue, and
\* gives it back when its access is done.
OtherAccess ==
  /\ otherLeft > 0 /\ QueueHasRoom(lq)
  /\ others' = [others EXCEPT ![active] = @ + 1]
  /\ otherLeft' = otherLeft - 1
  /\ UNCHANGED <<conf, gen, opVars, landVars, doneVars, tickArmed, landArmed, fenceVars>>

OtherDone ==
  /\ \E g \in 0..MaxGen : others[g] > 0 /\ others' = [others EXCEPT ![g] = @ - 1]
  /\ UNCHANGED <<conf, gen, opVars, landVars, otherLeft, doneVars, tickArmed, landArmed, fenceVars>>

-----------------------------------------------------------------------------
(* Attention generations.                                                  *)

\* beginAttentionGeneration: only one generation is active at a time.
BeginGeneration ==
  /\ active = 0 /\ begun < MaxGen
  /\ active' = begun + 1
  /\ begun' = begun + 1
  /\ UNCHANGED <<conf, gen, opVars, landVars, otherVars, doneVars, tickArmed, landArmed, cancelled>>

OfGeneration(g) == {id \in Ids : gen[id[1]] = g}

\* attentionGenerationDrained: nothing of g is pending, landing or in the
\* local access queue.
Drained(g) ==
  /\ \A id \in OfGeneration(g) : op[id].st = "none" /\ land[id] = "none"
  /\ \A i \in DOMAIN lq : lq[i].gen # g
  /\ others[g] = 0

RetireGeneration ==
  /\ active # 0 /\ Drained(active)
  /\ active' = 0
  /\ UNCHANGED <<conf, gen, opVars, landVars, otherVars, doneVars, tickArmed, landArmed, begun, cancelled>>

\* cancelAttentionGeneration: the fence closes, the generation's bursts and
\* landings are erased without a callback, its local accesses are marked, and
\* the window is refilled.
CancelGeneration ==
  /\ active # 0
  /\ active' = 0
  /\ cancelled' = cancelled \cup {active}
  /\ land' = [id \in Ids |-> IF id \in OfGeneration(active) THEN "none" ELSE land[id]]
  /\ lq' = [i \in DOMAIN lq |->
              IF lq[i].gen = active THEN [lq[i] EXCEPT !.live = FALSE] ELSE lq[i]]
  /\ IssueWindow([id \in Ids |-> IF id \in OfGeneration(active) THEN NoOp ELSE op[id]],
                 net, {})
  /\ UNCHANGED <<conf, gen, off, mem, otherVars, doneVars, tickArmed, landArmed, begun>>

-----------------------------------------------------------------------------
(* Properties.                                                             *)

\* Every variable keeps its type, no burst is re-sent more than
\* dma_read_max_retries times, and the local access queue stays within its
\* depth.
TypeOK ==
  /\ gen \in [Transfers -> -1..MaxGen]
  /\ op \in [Ids -> Op]
  /\ sendq \subseteq Ids
  /\ net \in [Ids -> Nat]
  /\ land \in [Ids -> {"none", "stalled", "writing"}]
  /\ off \in [Ids -> 0..Pieces]
  /\ lq \in Seq(Access)
  /\ others \in [0..MaxGen -> Nat]
  /\ otherLeft \in 0..MaxOthers
  /\ mem \in [Ids -> SUBSET (1..Pieces)]
  /\ remaining \in [Transfers -> Nat]
  /\ ok \in [Transfers -> BOOLEAN]
  /\ calls \in [Transfers -> Nat]
  /\ token \in [Transfers -> BOOLEAN]
  /\ tickArmed \in BOOLEAN
  /\ landArmed \in BOOLEAN
  /\ active \in 0..MaxGen
  /\ begun \in 0..MaxGen
  /\ cancelled \subseteq 1..MaxGen

\* The window: never more than dma_read_max_inflight bursts are issued, and a
\* burst is left waiting only while that many are, whatever mix of replies,
\* time-outs, give-ups and cancellations freed the others.
WindowExact ==
  /\ Cardinality(Issued(op)) <= MaxInflight
  /\ Waiting(op) # {} => Cardinality(Issued(op)) = MaxInflight

\* A transfer that was not cancelled counts, in ctx->remaining, exactly its
\* bursts that are still pending or landing: no reply, re-send or give-up is
\* counted twice or not at all.
ContextCount ==
  \A t \in Transfers : gen[t] \notin cancelled =>
    remaining[t] = Cardinality({id \in BurstsOf(t) : op[id].st # "none" \/ land[id] # "none"})

\* A callback or a token comes once, when nothing of the transfer is left,
\* and reports success only if every piece of every burst is in local storage.
OkMeansLanded ==
  \A t \in Transfers :
    /\ calls[t] <= 1
    /\ calls[t] = 1 \/ token[t] =>
         /\ \A id \in BurstsOf(t) : op[id].st = "none" /\ land[id] = "none"
         /\ ok[t] => \A id \in BurstsOf(t) : mem[id] = 1..Pieces

\* Whatever is unfinished has an event that will take it up again: the retry
\* event while a burst is pending, a place in send_retry_queue while its READ
\* has not left, the landing retry event while a landing is stalled, and a
\* local access while it is being written.
WorkHasEvent ==
  /\ Pending # {} => tickArmed
  /\ \A id \in Ids :
       /\ op[id].st = "queued" => id \in sendq
       /\ land[id] = "stalled" => landArmed
       /\ land[id] = "writing" => \E i \in DOMAIN lq : lq[i].id = id

\* Whatever is pending or landing belongs to no generation or to the active
\* one: a generation is retired only when it left nothing behind, so the
\* silent return of completeDmaReadToLocalMemory on a stale generation, which
\* would drop the burst's callback, is never taken.
FenceSound ==
  \A id \in Ids : op[id].st # "none" \/ land[id] # "none" => ~Stale(gen[id[1]])

\* Local storage is written for a transfer neither after its generation was
\* cancelled nor after its completion was signalled, when the worker reuses
\* the buffer: late and duplicate replies change nothing.
NoLateWrite ==
  [][\A id \in Ids : mem'[id] # mem[id] =>
       /\ gen[id[1]] \notin cancelled
       /\ calls[id[1]] = 0 /\ ~token[id[1]]]_vars

\* Every transfer of any configuration
AllTransfers == UNION {DOMAIN c.bursts : c \in Configs}

\* Every transfer with a callback that was submitted has got it, unless its
\* generation was cancelled.
NoTransferOwed ==
  \A t \in Transfers \ Tokened : gen[t] # -1 => calls[t] = 1 \/ gen[t] \in cancelled

\* What the log line of the give-up path says, "forcing completion to avoid
\* deadlock", of a transfer whose submitter polls a completion token.
EveryTokenSet ==
  \A t \in AllTransfers :
    (t \in Tokened /\ gen[t] # -1) ~>
      (t \in Transfers /\ (token[t] \/ gen[t] \in cancelled))

=============================================================================
