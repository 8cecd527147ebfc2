----------------------------- MODULE DmaEngine -----------------------------
(***************************************************************************)
(* The DMA engine of one core's GlobalMemory: the reads of DmaRead and the *)
(* writes, which share dma_pending, send_retry_queue, the retry event, the *)
(* local access queue and the attention generations.                       *)
(*                                                                         *)
(* A write is a sequence of chunks, a chunk a number of bursts.  The       *)
(* bursts of a chunk are sent together and share a context.  A pumped      *)
(* write (dma_write_from_globalmem_to_host) reads each chunk from local    *)
(* storage first and goes on to the next when the memory node has          *)
(* acknowledged the last one; any other write has one chunk.  Writes are   *)
(* neither timed nor re-sent, and found again by their address alone.      *)
(***************************************************************************)
EXTENDS DmaRead

VARIABLES
  wst,      \* a write is "new", "reading" local storage, "writing" or "ended"
  chunk,    \* state->offset, in chunks
  left,     \* ctx->remaining of the chunk being written
  wpend,    \* the writes' entries of dma_pending
  wqueue,   \* DMA_WRITEs in send_retry_queue
  wnet,     \* DMA_WRITEs on their way to memory
  wack,     \* DMA_WRITE_COMPLETEs on their way back
  landed,   \* history: bursts that were written to memory
  rgen,     \* generation of the local read a pumped write waits for
  wok,      \* the outcome reported to the client: "none", "ok" or "failed"
  cut       \* history: writes that lost an entry to a cancellation

writeVars == <<wst, chunk, left, wpend, wqueue, wnet, wack, landed, rgen, wok, cut>>
allVars == <<vars, writeVars>>

Writes == DOMAIN conf.writes
Chunks(w) == Len(conf.writes[w].chunks)
Pumped(w) == conf.writes[w].pumped

\* The bursts of chunk c of write w; the address is the key in dma_pending.
ChunkBursts(w, c) == {<<w, c, b>> : b \in 1..conf.writes[w].chunks[c]}
WriteBursts(w) == UNION {ChunkBursts(w, c) : c \in 1..Chunks(w)}
Addr(x) == <<conf.writes[x[1]].addr, x[2], x[3]>>

WriteInit ==
  /\ Init
  /\ wst = [w \in Writes |-> "new"]
  /\ chunk = [w \in Writes |-> 0]
  /\ left = [w \in Writes |-> 0]
  /\ wpend = {} /\ wqueue = {} /\ wnet = {} /\ wack = {}
  /\ landed = {}
  /\ rgen = [w \in Writes |-> 0]
  /\ wok = [w \in Writes |-> "none"]
  /\ cut = {}

-----------------------------------------------------------------------------
\* dma_write_to_host_impl for chunk c of write w, when p is pending: every
\* burst enters dma_pending, in place of one with the same address, and its
\* message is sent or queued.  (A message that is sent at once is one that
\* leaves the queue next.)
WriteChunk(w, c, p) ==
  LET bursts == ChunkBursts(w, c)
  IN  /\ wst' = [wst EXCEPT ![w] = "writing"]
      /\ left' = [left EXCEPT ![w] = Cardinality(bursts)]
      /\ wpend' = {e \in p : \A x \in bursts : Addr(x) # Addr(e.burst)}
                  \cup {[burst |-> x, gen |-> active] : x \in bursts}
      /\ wqueue' = wqueue \cup {[burst |-> x, gen |-> active] : x \in bursts}

EndWrite(w, outcome) ==
  /\ wst' = [wst EXCEPT ![w] = "ended"]
  /\ wok' = [wok EXCEPT ![w] = outcome]

\* As Pump, giving up in silence when the local queue is full.
SilentPump(w) ==
  IF QueueHasRoom(lq)
  THEN /\ wst' = [wst EXCEPT ![w] = "reading"]
       /\ others' = [others EXCEPT ![active] = @ + 1]
       /\ rgen' = [rgen EXCEPT ![w] = active]
       /\ UNCHANGED wok
  ELSE UNCHANGED <<wst, others, rgen, wok>>

\* The pump reads the next chunk from local storage; the whole write fails if
\* the local access queue is full.
Pump(w) ==
  IF QueueHasRoom(lq)
  THEN /\ wst' = [wst EXCEPT ![w] = "reading"]
       /\ others' = [others EXCEPT ![active] = @ + 1]
       /\ rgen' = [rgen EXCEPT ![w] = active]
       /\ UNCHANGED wok
  ELSE EndWrite(w, "failed") /\ UNCHANGED <<others, rgen>>

\* A client writes no address it is still writing: it waits for the callback,
\* or its generation was cancelled.
Settled(w) ==
  \A v \in Writes : v < w /\ conf.writes[v].addr = conf.writes[w].addr =>
    wst[v] = "ended" \/ v \in cut

SubmitWrite(w) ==
  /\ wst[w] = "new" /\ Settled(w)
  /\ IF Pumped(w)
     THEN Pump(w) /\ UNCHANGED <<left, wpend, wqueue>>
     ELSE WriteChunk(w, 1, wpend) /\ UNCHANGED <<others, rgen, wok>>
  /\ UNCHANGED <<conf, gen, opVars, landVars, otherLeft, doneVars, tickArmed, landArmed, fenceVars,
                 chunk, wnet, wack, landed, cut>>

\* The local read of a pumped write ends: its chunk is written, or the write
\* fails if the generation it was issued under is over.
LocalReadDone(w) ==
  /\ wst[w] = "reading"
  /\ others' = [others EXCEPT ![rgen[w]] = @ - 1]
  /\ IF Stale(rgen[w])
     THEN EndWrite(w, "failed") /\ UNCHANGED <<left, wpend, wqueue>>
     ELSE WriteChunk(w, chunk[w] + 1, wpend) /\ UNCHANGED wok
  /\ UNCHANGED <<conf, gen, opVars, landVars, otherLeft, doneVars, tickArmed, landArmed, fenceVars,
                 chunk, wnet, wack, landed, rgen, cut>>

\* The link takes a queued DMA_WRITE,
WriteLeaves ==
  /\ \E m \in wqueue : wqueue' = wqueue \ {m} /\ wnet' = wnet \cup {m.burst}
  /\ UNCHANGED <<vars, wst, chunk, left, wpend, wack, landed, rgen, wok, cut>>

\* and the memory node writes it and answers; it does not look at generations.
MemoryWrites ==
  /\ \E x \in wnet : wnet' = wnet \ {x} /\ wack' = wack \cup {x} /\ landed' = landed \cup {x}
  /\ UNCHANGED <<vars, wst, chunk, left, wpend, wqueue, rgen, wok, cut>>

Entry(x) == {e \in wpend : Addr(e.burst) = Addr(x)}

\* The write w has one burst less to wait for; with the last one of a chunk it
\* goes on to the next, or calls back.
FinishBurst(w) ==
  /\ left' = [left EXCEPT ![w] = IF @ > 0 THEN @ - 1 ELSE 0]
  /\ IF left[w] > 1
     THEN UNCHANGED <<wst, chunk, wok, others, rgen>>
     ELSE /\ chunk' = [chunk EXCEPT ![w] = @ + 1]
          /\ IF chunk[w] + 1 = Chunks(w)
             THEN EndWrite(w, "ok") /\ UNCHANGED <<others, rgen>>
             ELSE Pump(w)

\* DMA_WRITE_COMPLETE: the entry with the acknowledged address, if any, is
\* taken out of dma_pending and counted; then the window is refilled and the
\* retry event scheduled while anything is pending.
WriteComplete(x) ==
  /\ x \in wack
  /\ wack' = wack \ {x}
  /\ wpend' = wpend \ Entry(x)
  /\ IF Entry(x) = {}
     THEN UNCHANGED <<wst, chunk, left, wok, others, rgen>>
     ELSE \E e \in Entry(x) : FinishBurst(e.burst[1])
  /\ IssueWindow(op, net, {})
  /\ tickArmed' = (tickArmed \/ wpend' # {} \/ Pending # {})
  /\ UNCHANGED <<conf, gen, landVars, otherLeft, doneVars, landArmed, fenceVars,
                 wqueue, wnet, landed, cut>>

\* As CancelWrites, leaving the queued messages alone.
LeakyCancelWrites(g) ==
  /\ wpend' = {e \in wpend : e.gen # g}
  /\ cut' = cut \cup {e.burst[1] : e \in wpend \ wpend'}
  /\ UNCHANGED <<wst, chunk, left, wqueue, wnet, wack, landed, rgen, wok>>

\* The part of cancelAttentionGeneration about writes: queued messages and
\* pending entries of the generation are erased, without a callback.
CancelWrites(g) ==
  /\ wqueue' = {m \in wqueue : m.gen # g}
  /\ wpend' = {e \in wpend : e.gen # g}
  /\ cut' = cut \cup {e.burst[1] : e \in wpend \ wpend'}
  /\ UNCHANGED <<wst, chunk, left, wnet, wack, landed, rgen, wok>>

NoPendingWrite(g) == \A e \in wpend : e.gen # g
WritesPending == wpend # {}
\* Local accesses of clients other than the pumped writes
Foreign(g) == others[g] > Cardinality({w \in Writes : wst[w] = "reading" /\ rgen[w] = g})
OtherEnds == (\E g \in 0..MaxGen : Foreign(g) /\ others' = [others EXCEPT ![g] = @ - 1]) /\ OtherDone

ReadStep ==
  /\ \/ \E t \in Transfers : Submit(t)
     \/ HandleSendAvailable
     \/ \E id \in Ids : ReceiveReply(id, WritesPending)
     \/ LocalWriteDone
     \/ LandingRetry
     \/ OtherAccess \/ OtherEnds
     \/ BeginGeneration
     \/ RetireGeneration /\ NoPendingWrite(active)
  /\ UNCHANGED writeVars
Tick == RetryTick(WritesPending) /\ UNCHANGED writeVars
Cancel == CancelGeneration /\ CancelWrites(active)

EngineNext ==
  \/ ReadStep \/ Tick \/ Cancel
  \/ \E w \in Writes : SubmitWrite(w) \/ LocalReadDone(w)
  \/ WriteLeaves \/ MemoryWrites
  \/ \E x \in wack : WriteComplete(x)

EngineSpec == WriteInit /\ [][EngineNext]_allVars

(* Fairness: the self links deliver their events, the link drains, local   *)
(* accesses end and memory nodes answer WRITEs.  Nothing is assumed of the *)
(* replies to READs.  It is weak fairness, with the states in which the    *)
(* action changes something written out where those are long to compute.   *)

TickStirs == tickArmed /\ ((Pending = {} /\ wpend = {}) \/ \E id \in Ids : op[id].st = "sent")
LandingStirs == landArmed /\ (QueueHasRoom(lq) \/ \A id \in Ids : land[id] # "stalled")

LocalReadEnds == \E w \in Writes : LocalReadDone(w)
WriteAcked == \E x \in wack : WriteComplete(x)

EngineFairness ==
  /\ <>[]TickStirs => []<><<Tick>>_allVars
  /\ <>[](sendq # {}) => []<><<HandleSendAvailable>>_allVars
  /\ <>[](lq # <<>>) => []<><<LocalWriteDone>>_allVars
  /\ <>[]LandingStirs => []<><<LandingRetry>>_allVars
  /\ <>[](\E g \in 0..MaxGen : Foreign(g)) => []<><<OtherEnds>>_allVars
  /\ <>[](\E w \in Writes : wst[w] = "reading") => []<><<LocalReadEnds>>_allVars
  /\ WF_allVars(WriteLeaves)
  /\ WF_allVars(MemoryWrites)
  /\ WF_allVars(WriteAcked)

EngineFairSpec == EngineSpec /\ EngineFairness

-----------------------------------------------------------------------------
(* Properties.                                                             *)

BurstIds == UNION {WriteBursts(w) : w \in Writes}
WriteEntry == [burst : BurstIds, gen : 0..MaxGen]

\* The types of the read engine's and the writes' state.
EngineTypeOK ==
  /\ TypeOK
  /\ wst \in [Writes -> {"new", "reading", "writing", "ended"}]
  /\ chunk \in [Writes -> Nat] /\ \A w \in Writes : chunk[w] <= Chunks(w)
  /\ left \in [Writes -> Nat]
  /\ wpend \subseteq WriteEntry /\ wqueue \subseteq WriteEntry
  /\ wnet \subseteq BurstIds /\ wack \subseteq BurstIds /\ landed \subseteq BurstIds
  /\ rgen \in [Writes -> 0..MaxGen]
  /\ wok \in [Writes -> {"none", "ok", "failed"}]
  /\ cut \subseteq Writes

\* A cancelled write was on its way to the address of w.
Aliased(w) == \E v \in cut \ {w} : conf.writes[v].addr = conf.writes[w].addr

\* A callback reports success only when the data is there: every piece of every
\* burst of a read is in local memory (finishDmaReadLanding), every burst of every
\* chunk of a write in host memory (dma_write_from_globalmem_to_host,
\* dma_write_to_host_impl).  The exception is a write to an address an earlier,
\* cancelled write was on its way to: a DMA_WRITE_COMPLETE is matched by address,
\* and the earlier one's ends it.
SuccessMeansDone ==
  /\ OkMeansLanded
  /\ \A w \in Writes : wok[w] = "ok" /\ ~Aliased(w) => WriteBursts(w) \subseteq landed

\* Cancelling leaves nothing of the generation in dma_pending, in the landings or
\* in send_retry_queue, and retiring waits until nothing is: what is pending is of
\* no generation or of the active one, and a queued DMA_WRITE is pending (with the
\* exception of SuccessMeansDone).
GenerationFenceSound ==
  /\ FenceSound
  /\ \A e \in wpend : ~Stale(e.gen)
  /\ \A m \in wqueue : m \in wpend \/ Aliased(m.burst[1])

\* Every read with a callback and every write calls back, although any READ or
\* reply may be lost and whatever the local queue does, unless its generation is
\* cancelled.  Each is submitted once and stays submitted, so that it is enough
\* that again and again none is owed.
EveryCallbackComes ==
  []<>(/\ NoTransferOwed
       /\ \A w \in Writes : wst[w] # "new" => wst[w] = "ended" \/ w \in cut)

=============================================================================
