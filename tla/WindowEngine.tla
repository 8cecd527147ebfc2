---------------------------- MODULE WindowEngine ----------------------------
(***************************************************************************)
(* The tile pipeline of a worker command processor                         *)
(* (workercmdproc/workercmdproc.h): a task list of C tiles, each the sum   *)
(* over k of an A tile times a B tile.                                     *)
(*                                                                         *)
(* Operands are read by transactions of the request scheduler into slots   *)
(* of local memory.  Without reuse in both directions one transaction is   *)
(* under way at a time.  With it the C tiles of a macro task share the     *)
(* operands of a window of k tiles: the engine computes every C tile on    *)
(* the active window, parks partial sums in the C buffer, and meanwhile    *)
(* has the next windows, and the next macro task's first one, read into    *)
(* other buffers.                                                          *)
(*                                                                         *)
(* A tile is named by its coordinates, and a sum is the bag of products    *)
(* added up in it.  The scheduler and the memory are external: a panel     *)
(* lands at any time, in any order.                                        *)
(***************************************************************************)
EXTENDS Integers, Sequences, FiniteSets, FiniteSetsExt, SequencesExt, Bags, BagsExt

CONSTANT Configs  \* the task lists and parameters

VARIABLES
  conf,    \* the task list and the parameters, fixed in Init
  wcp,     \* the command processor, with the scheduler's transactions
  local,   \* the operand slots of local memory
  acked,   \* DMA writes whose completion token is set
  output   \* the C tiles handed over, with their sums, in order

vars == <<conf, wcp, local, acked, output>>

ReuseM == conf.reuseM          \* b_reuse_m_tiles
ReuseN == conf.reuseN          \* a_reuse_n_tiles
MTiles == conf.mTiles          \* m / block_m
NTiles == conf.nTiles          \* n / block_n
KTiles == conf.kTiles          \* k / block_k, totalKTileCount_
Workers == conf.workers        \* active_worker_cores
WorkerSlot == conf.slot        \* worker_slot
TaskCount == conf.tasks        \* task_count
Slots == conf.slots            \* local_slot_count
WindowKTiles == conf.windowK   \* window_k_tiles
Depth == conf.depth            \* prefetch_windows
CrossMacro == conf.cross       \* cross_macro_prefetch
Arrays == conf.arrays          \* block_n
MicroSteps == conf.steps       \* microKStepCount
ToHbm == conf.hbm              \* output_mode is "hbm", else "fusion"

ConfigRecord ==
  [reuseM : Nat \ {0}, reuseN : Nat \ {0}, mTiles : Nat \ {0}, nTiles : Nat \ {0},
   kTiles : Nat \ {0}, workers : Nat \ {0}, slot : Nat, tasks : Nat \ {0}, slots : Nat \ {0},
   windowK : Nat \ {0}, depth : Nat \ {0}, cross : BOOLEAN, arrays : Nat \ {0},
   steps : Nat \ {0}, hbm : BOOLEAN]

ASSUME ConfigsAssumption == Configs \subseteq ConfigRecord

Least(a, b) == IF a < b THEN a ELSE b
Most(a, b) == IF a > b THEN a ELSE b
CeilDiv(a, b) == (a + b - 1) \div b

-----------------------------------------------------------------------------
(* The shape of the task list, and of the window buffers.                  *)

TwoD == ReuseM > 1 /\ ReuseN > 1

\* deriveTask: the macro task's block of C tiles, first tile and size.
BlockAt(mGroup, nGroup) ==
  [m0 |-> mGroup * ReuseM, n0 |-> nGroup * ReuseN,
   mCount |-> Least(ReuseM, MTiles - mGroup * ReuseM),
   nCount |-> Least(ReuseN, NTiles - nGroup * ReuseN)]
MacroTask(task) ==
  LET id == WorkerSlot + task * Workers
      mGroups == CeilDiv(MTiles, ReuseM)
  IN  BlockAt(id % mGroups, ((id \div mGroups) + (id % mGroups)) % CeilDiv(NTiles, ReuseN))

Buffers ==
  LET base == Most(Depth + 1, 2)
      more == CrossMacro /\ Slots >= (base + 1) * Most(ReuseM, ReuseN) * WindowKTiles
  IN  IF more THEN base + 1 ELSE base

ResidentK(buffers) ==
  Least(WindowKTiles, Least(Slots \div (buffers * ReuseM), Slots \div (buffers * ReuseN)))

\* residentKTileCount_: the k tiles of a full window
WindowK == Least(ResidentK(Buffers), KTiles)

\* What startWindow accepts.
Accepted ==
  /\ TwoD => ResidentK(Buffers) > 0
  /\ ~TwoD /\ (ReuseN > 1 \/ ReuseM > 1) => KTiles <= Slots

Cur(w) == MacroTask(w.task)
CTile(w) == <<Cur(w).m0 + w.reM, Cur(w).n0 + w.reN>>
ReuseCount(w) == Cur(w).mCount * Cur(w).nCount
ReuseIndex(w, m, n) == m * Cur(w).nCount + n
PartialIndex(w) == w.reM * ReuseN + w.reN
FinalWindow(w) == ~TwoD \/ w.kBegin + w.kCount >= KTiles
AllReuseDone(w) == w.doneSize = ReuseCount(w) /\ Cardinality(w.reuseDone) = w.doneSize

NoTile == -1
NoMacro == [task |-> 0, k |-> 0, n |-> 0, buffer |-> 0, txn |-> 0]

\* resetComputeOnlyStateForNextTile
SumKeepingReset(w) ==
  [w EXCEPT !.scheduled = FALSE, !.running = FALSE, !.tile = NoTile, !.arraysLeft = 0,
            !.tileDone = {}, !.scan = 0, !.step = 0, !.payload = <<>>]
ResetCompute(w) ==
  [w EXCEPT !.scheduled = FALSE, !.running = FALSE, !.tile = NoTile, !.arraysLeft = 0,
            !.tileDone = {}, !.scan = 0, !.step = 0, !.accInit = FALSE, !.payload = <<>>]

\* resetPipelineState
ResetPipeline(w) ==
  [ResetCompute(w) EXCEPT
     !.txn = 0, !.tileCount = 0, !.txnK = 0, !.prefK = 0,
     !.kBegin = 0, !.kCount = IF TwoD THEN WindowK ELSE KTiles, !.buffer = 0, !.valid = FALSE,
     !.nextK = IF TwoD THEN WindowK ELSE 0, !.prefetch = <<>>,
     !.partial = <<>>, !.cread = <<>>,
     !.reuseDone = {}, !.doneSize = IF TwoD THEN ReuseM * ReuseN ELSE 0]

\* startWindow, once it has accepted the list
Started ==
  ResetPipeline(
    [phase |-> "RUN",        \* phase_
     task |-> 0,             \* taskIndex_
     reM |-> 0,              \* reuseMIndex_
     reN |-> 0,              \* reuseNIndex_
     kBegin |-> 0,           \* activeWindowKBegin_
     kCount |-> 0,           \* activeWindowKCount_
     buffer |-> 0,           \* activeWindowBuffer_
     valid |-> FALSE,        \* activeWindowValid_
     nextK |-> 0,            \* next2DPrefetchK_
     prefK |-> 0,            \* nextPrefetchK_
     txn |-> 0,              \* activeTxnId_, the one element of active2DTxnIds_
     txnK |-> 0,             \* activeTxnKBegin_
     tileCount |-> 0,        \* activeTxnTileCount_
     prefetch |-> <<>>,      \* prefetch2DWindows_
     macro |-> NoMacro,      \* nextMacroPrefetch_
     reuseDone |-> {},       \* windowReuseDone_ (the flags set, and its length)
     doneSize |-> 0,
     scheduled |-> FALSE,    \* allTilesScheduled_
     running |-> FALSE,      \* computeInFlight_
     tile |-> NoTile,        \* activeComputeTileIndex_
     arraysLeft |-> 0,       \* pendingArrays_
     step |-> 0,             \* activeTileMicroOpCursor_
     payload |-> <<>>,       \* activeMatPayload_ and activeVecPayload_, once loaded
     accInit |-> FALSE,      \* taskAccumInitialized_
     acc |-> EmptyBag,       \* the arrays' output registers
     tileDone |-> {},        \* activeTxnTileRetired_
     scan |-> 0,             \* nextReadyScanCursor_
     partial |-> <<>>,       \* the valid partial sums in the C buffer, by index
     cread |-> <<>>,         \* cBufferPrefetches_
     tokens |-> {},          \* pendingWritebackTokens_
     live |-> {},            \* the scheduler's workerWindowTxns_
     nextTxn |-> 1,          \* the scheduler's nextWindowTxnId_
     flight |-> {}])         \* panel reads registered and not landed

Init ==
  /\ conf \in Configs
  /\ Accepted
  /\ wcp = Started
  /\ local = [x \in {"A", "B"} \X (0..Slots - 1) |-> <<>>]
  /\ acked = {}
  /\ output = <<>>

-----------------------------------------------------------------------------
(* Transactions.  A panel is an A tile <<m, k>> or a B tile <<n, k>>.      *)

\* submitWindowTransaction and enqueueWindowTiles, for the given panels
Submit(w, panels) ==
  [w EXCEPT !.nextTxn = @ + 1, !.live = @ \cup {w.nextTxn}, !.flight = @ \cup panels]

Panel(w, side, i, slot, tile) ==
  [txn |-> w.nextTxn, side |-> side, i |-> i, slot |-> slot, tile |-> tile]

\* The panels of a window of n k tiles from k, in the given buffer: slots
\* number the reuse groups, and the k tiles of a group consecutively.
WindowPanels(w, task, k, n, buffer) ==
  LET t == MacroTask(task)
      slotOf(reuse, i) == buffer * reuse * Most(WindowK, n) + i
  IN  {Panel(w, "A", i, slotOf(ReuseM, i), <<t.m0 + i \div n, k + (i % n)>>) :
         i \in 0..t.mCount * n - 1}
      \cup
      {Panel(w, "B", i, slotOf(ReuseN, i), <<t.n0 + i \div n, k + (i % n)>>) :
         i \in 0..t.nCount * n - 1}

Pending(w, txn, side, i) == \E p \in w.flight : p.txn = txn /\ p.side = side /\ p.i = i

\* isTileReady, and getTileKStepReadiness for both operands
TileReady(w, txn, i) ==
  txn \in w.live /\ ~Pending(w, txn, "A", i) /\ ~Pending(w, txn, "B", i)

\* isTransactionDone, are2DTransactionsReady
TxnDone(w, txn) == txn \in w.live /\ \A p \in w.flight : p.txn # txn

\* retireTransaction, of a transaction that is done
Retire(w, txn) == IF TxnDone(w, txn) THEN [w EXCEPT !.live = @ \ {txn}] ELSE w

\* is2DComputeTileReadyFor
OneSidedReady(w, i, m, n) ==
  w.txn = 0 \/ (w.txn \in w.live /\ ~Pending(w, w.txn, "A", m * w.kCount + i))
ComputeTileReady(w, i, m, n) ==
  \/ w.txn = 0
  \/ /\ w.txn \in w.live
     /\ ~Pending(w, w.txn, "A", m * w.kCount + i)
     /\ ~Pending(w, w.txn, "B", n * w.kCount + i)

-----------------------------------------------------------------------------
(* Window prefetching.                                                     *)

\* allocatePrefetchWindowBuffer: the set of the first free buffer, or {}
NextBuffer(w) == {(w.buffer + 1) % Buffers}
FreeBuffer(w) ==
  LET taken == {w.buffer} \cup {w.prefetch[i].buffer : i \in DOMAIN w.prefetch}
      free == {off \in 1..Buffers - 1 : (w.buffer + off) % Buffers \notin taken}
  IN  IF free = {} THEN {} ELSE {(w.buffer + Min(free)) % Buffers}

ShyFillable(w) == Len(w.prefetch) < Depth /\ w.nextK + WindowK < KTiles /\ FreeBuffer(w) # {}
Fillable(w) == Len(w.prefetch) < Depth /\ w.nextK < KTiles /\ FreeBuffer(w) # {}

\* One turn of fill2DPrefetchQueue's loop
FillOne(w) ==
  LET buffer == CHOOSE b \in FreeBuffer(w) : TRUE
      n == Least(WindowK, KTiles - w.nextK)
  IN  [Submit(w, WindowPanels(w, w.task, w.nextK, n, buffer)) EXCEPT
         !.prefetch = Append(@, [k |-> w.nextK, n |-> n, buffer |-> buffer, txn |-> w.nextTxn]),
         !.nextK = @ + n]

\* fill2DPrefetchQueue
Fill(w) ==
  FoldLeft(LAMBDA v, i : IF Fillable(v) THEN FillOne(v) ELSE v, w, [i \in 1..Depth |-> i])

\* tryIssueNextMacroPrefetch
MacroPrefetch(w) ==
  LET submitted == /\ w.nextK >= KTiles
                   /\ w.prefetch # <<>>
                   /\ Last(w.prefetch).k + Last(w.prefetch).n >= KTiles
      buffer == CHOOSE b \in FreeBuffer(w) : TRUE
  IN  IF /\ CrossMacro
         /\ w.macro = NoMacro
         /\ w.valid
         /\ FinalWindow(w) \/ submitted
         /\ w.task + 1 < TaskCount
         /\ FreeBuffer(w) # {}
      THEN [Submit(w, WindowPanels(w, w.task + 1, 0, WindowK, buffer)) EXCEPT
              !.macro = [task |-> w.task + 1, k |-> 0, n |-> WindowK,
                         buffer |-> buffer, txn |-> w.nextTxn]]
      ELSE w

\* adoptNextMacroPrefetch
AdoptMacro(w) ==
  IF w.macro # NoMacro /\ w.macro.task = w.task
  THEN [w EXCEPT !.macro = NoMacro, !.kBegin = w.macro.k, !.kCount = w.macro.n,
                 !.buffer = w.macro.buffer, !.valid = FALSE, !.nextK = w.macro.k + w.macro.n,
                 !.txn = w.macro.txn, !.tileCount = w.macro.n, !.tileDone = {},
                 !.scheduled = FALSE]
  ELSE w

\* selectNextReuseForActiveWindow: the set of the C tile to compute next, or {}.
\* The scan starts after the current one and prefers one with a ready operand pair.
ReuseFrom(w, requireReady, first, nCount, count) ==
  LET flat(off) == (first + off) % count
      coords(off) == <<flat(off) \div nCount, flat(off) % nCount>>
      undone == {off \in 0..count - 1 : flat(off) \notin w.reuseDone}
      ready == {off \in undone : \E k \in 0..w.kCount - 1 :
                  ComputeTileReady(w, k, coords(off)[1], coords(off)[2])}
  IN  CASE w.doneSize # count -> {}
        [] w.doneSize = count /\ ready # {} -> {coords(Min(ready))}
        [] w.doneSize = count /\ ready = {} /\ undone # {} /\ ~requireReady -> {coords(Min(undone))}
        [] OTHER -> {}
NextReuse(w, requireReady) ==
  ReuseFrom(w, requireReady, ReuseIndex(w, w.reM, w.reN) + 1, Cur(w).nCount, ReuseCount(w))

WithReuse(w, r) == [w EXCEPT !.reM = r[1], !.reN = r[2]]

\* activate2DWindow
Activate(w, k, n, buffer) ==
  [w EXCEPT !.kBegin = k, !.kCount = n, !.buffer = buffer, !.valid = TRUE, !.tileCount = n,
            !.tileDone = {}, !.reuseDone = {}, !.doneSize = ReuseCount(w), !.scan = 0,
            !.txnK = k, !.scheduled = TRUE]

\* The C tile an inactive window starts with: the next that is ready, or the
\* current one, which matters when windowReuseDone_ still has the length of a
\* full macro task.
NextReady(w) == NextReuse(w, TRUE)
FirstReuse(w) ==
  IF NextReuse(w, TRUE) = {} /\ ComputeTileReady(w, 0, w.reM, w.reN)
  THEN {<<w.reM, w.reN>>} ELSE NextReuse(w, TRUE)
ActivateWith(w, reuses) ==
  IF reuses = {} THEN w
  ELSE Activate(WithReuse(w, CHOOSE r \in reuses : TRUE), w.kBegin, w.kCount, w.buffer)

\* The first half of tryIssue2DWindowPrefetches: submit the active window
\* unless that is done, and activate it once an operand pair is ready (its last
\* alternative, that every tile is ready, is a case of the others).
SubmitActive(w) ==
  IF w.txn # 0 THEN w
  ELSE [Submit(w, WindowPanels(w, w.task, w.kBegin, w.kCount, w.buffer)) EXCEPT
          !.txn = w.nextTxn, !.tileCount = w.kCount]
ActivateReady(w) ==
  LET v == SubmitActive(w)
  IN  ActivateWith(v, FirstReuse(v))

\* The rest of tryIssuePrefetches, for reuse in one direction or none: one
\* transaction of at most WindowKTiles tiles at a time, its slots numbered from 0.
\* Operands an earlier C tile of the macro task has read are not read again.
IssueTiles(w) ==
  LET n == Least(WindowKTiles, KTiles - w.prefK)
      skipMat == ReuseN > 1 /\ w.reN > 0
      skipVec == ReuseM > 1 /\ w.reM > 0
      panels(side, tile, skip) ==
        {Panel(w, side, i, i % Slots, <<tile, w.prefK + i>>) : i \in IF skip THEN {} ELSE 0..n - 1}
  IN  [Submit(w, panels("A", CTile(w)[1], skipMat) \cup panels("B", CTile(w)[2], skipVec)) EXCEPT
         !.txn = w.nextTxn, !.tileCount = n, !.tileDone = {}, !.scan = 0, !.txnK = w.prefK,
         !.prefK = @ + n, !.scheduled = w.prefK + n >= KTiles]

\* tryIssuePrefetches
TryIssue(w) ==
  CASE TwoD /\ ~w.valid -> MacroPrefetch(Fill(ActivateReady(w)))
    [] TwoD /\ w.valid -> MacroPrefetch(Fill(w))
    [] ~TwoD /\ w.txn = 0 /\ w.prefK < KTiles -> IssueTiles(w)
    [] ~TwoD /\ w.txn = 0 /\ w.prefK >= KTiles -> [w EXCEPT !.scheduled = TRUE]
    [] OTHER -> w

-----------------------------------------------------------------------------
(* Reading partial sums back from the C buffer.  The data is copied when   *)
(* the read is issued and can be used when its transfer time has passed.   *)

\* findCBufferPrefetch
IsRead(r, k, idx) == r.k = k /\ r.idx = idx
FindRead(w, k, idx) == SelectInSeq(w.cread, LAMBDA r : IsRead(r, k, idx))

\* issueCBufferPrefetch: at most two reads are held; those of past windows go
\* first, then for a read of the active window another read of the active window.
IssueRead(w, k, idx) ==
  LET kept == SelectSeq(w.cread, LAMBDA r : r.k >= w.kBegin)
      victim == SelectInSeq(kept, LAMBDA r : r.k = w.kBegin /\ r.idx # idx)
      held == IF Len(kept) >= 2 /\ k = w.kBegin /\ victim # 0 THEN RemoveAt(kept, victim) ELSE kept
      read == [k |-> k, idx |-> idx, data |-> w.partial[idx], ready |-> FALSE]
  IN  IF idx \notin DOMAIN w.partial \/ FindRead(w, k, idx) # 0 THEN w
      ELSE [w EXCEPT !.cread = IF Len(held) < 2 THEN Append(held, read) ELSE held]

\* loadCurrentPartialCWhenReady: accInit says that the sum has been loaded.
TakeRead(w, at) ==
  IF at # 0 /\ w.cread[at].ready
  THEN [w EXCEPT !.acc = w.cread[at].data, !.accInit = TRUE, !.cread = RemoveAt(@, at)]
  ELSE w
LoadPartial(w) ==
  LET v == IF FindRead(w, w.kBegin, PartialIndex(w)) # 0 THEN w
           ELSE IssueRead(w, w.kBegin, PartialIndex(w))
  IN  TakeRead(v, FindRead(v, w.kBegin, PartialIndex(w)))

\* prefetchNextPartialForCurrentWindow
ReadReuse(w, reuses) ==
  IF reuses = {} THEN w
  ELSE LET r == CHOOSE x \in reuses : TRUE
       IN  IssueRead(w, w.kBegin, ReuseIndex(w, r[1], r[2]))
ReadNextPartial(w) ==
  IF TwoD /\ w.kBegin > 0 /\ w.step = 0
  THEN ReadReuse(w, NextReuse(w, FALSE) \ {<<w.reM, w.reN>>}) ELSE w

\* prefetchFirstPartialForNextWindow
ReadFirstPartial(w) ==
  LET nextK == w.kBegin + w.kCount
      others == 0..w.doneSize - 1 \ {PartialIndex(w)}
  IN  IF TwoD /\ nextK < KTiles /\ others \subseteq w.reuseDone
      THEN IssueRead(w, nextK, 0) ELSE w

-----------------------------------------------------------------------------
(* Computing.                                                              *)

\* selectNextTile: leaves tile at NoTile if no tile is ready.  Before anything
\* of a C tile is computed the engine may turn to another one that is ready.
ReadyTiles(w) == {i \in 0..w.kCount - 1 \ w.tileDone : ComputeTileReady(w, i, w.reM, w.reN)}
TakeFirst(w, tiles) == IF tiles = {} THEN w ELSE [w EXCEPT !.tile = Min(tiles)]
TurnTo(w, reuses) ==
  IF reuses = {} THEN w
  ELSE LET v == [ResetCompute(WithReuse(w, CHOOSE r \in reuses : TRUE)) EXCEPT !.scheduled = TRUE]
       IN  TakeFirst(v, ReadyTiles(v))
SelectTile(w) ==
  LET offs == {off \in 0..w.tileCount - 1 :
                 LET i == (w.scan + off) % w.tileCount
                 IN  i \notin w.tileDone /\ TileReady(w, w.txn, i)}
      scanned == (w.scan + Min(offs)) % w.tileCount
  IN  CASE w.tile # NoTile -> w
        [] w.tile = NoTile /\ TwoD /\ w.valid /\ ReadyTiles(w) # {} -> TakeFirst(w, ReadyTiles(w))
        [] /\ w.tile = NoTile /\ TwoD /\ w.valid /\ ReadyTiles(w) = {}
           /\ w.tileDone = {} /\ ~w.accInit /\ w.payload = <<>> ->
             TurnTo(w, NextReuse(w, TRUE) \ {<<w.reM, w.reN>>})
        [] w.tile = NoTile /\ ~TwoD /\ w.txn # 0 /\ offs # {} ->
             [w EXCEPT !.tile = scanned, !.scan = (scanned + 1) % w.tileCount]
        [] OTHER -> w

\* groupMatSlotFor, groupVecSlotFor
OperandSlot(w, reuse, index) ==
  IF TwoD THEN w.buffer * WindowK * reuse + index * w.kCount + w.tile ELSE w.tile % Slots

\* loadTilePayload.  It fails, and the list ends, only in the layout of PV panels,
\* which is not among the layouts here.
LoadPayload(w) ==
  IF w.payload # <<>> THEN w
  ELSE [w EXCEPT !.payload = <<local[<<"A", OperandSlot(w, ReuseM, w.reM)>>],
                               local[<<"B", OperandSlot(w, ReuseN, w.reN)>>]>>]

\* issueActiveMicroTile and what follows it: the arrays add the product to
\* their output registers, or start a new sum.
IssueStep(w) ==
  LET product == Append(w.payload, w.step)
  IN  ReadFirstPartial(ReadNextPartial(
        [w EXCEPT !.acc = IF w.accInit THEN BagAdd(@, product) ELSE SetToBag({product}),
                  !.accInit = TRUE, !.running = TRUE, !.arraysLeft = Arrays]))

\* tryLaunchNextReadyTile, tryLaunchActiveMicroTile
IssueIfLoaded(w) == IF TwoD /\ w.kBegin > 0 /\ ~w.accInit THEN w ELSE IssueStep(w)
LoadAndIssue(w) == IssueIfLoaded(IF TwoD /\ w.kBegin > 0 /\ ~w.accInit THEN LoadPartial(w) ELSE w)
Launch(w) == IF w.running \/ w.tile = NoTile THEN w ELSE LoadAndIssue(LoadPayload(w))
TryLaunch(w) == Launch(IF w.running THEN w ELSE SelectTile(w))

\* completeActiveMicroTile
CompleteStep(w) ==
  IF w.step + 1 < MicroSteps
  THEN [w EXCEPT !.running = FALSE, !.step = @ + 1, !.payload = <<>>]
  ELSE [w EXCEPT !.running = FALSE, !.step = 0, !.payload = <<>>,
                 !.tileDone = @ \cup {w.tile}, !.tile = NoTile]

AllTilesDone(w) == Cardinality(w.tileDone) >= w.tileCount
Summed(w) == w.scheduled /\ ~w.running /\ w.tile = NoTile /\ AllTilesDone(w)
ToWriteback(w) == IF Summed(w) THEN [w EXCEPT !.phase = "WRITEBACK"] ELSE w

-----------------------------------------------------------------------------
(* Moving on when the sum of a C tile over the active window is complete.  *)

\* savePartialCFromArray
SavePartial(w) ==
  [w EXCEPT !.partial = [i \in DOMAIN @ \cup {PartialIndex(w)} |->
                           IF i = PartialIndex(w) THEN w.acc ELSE @[i]]]

\* markCurrentReuseDone
MarkReuseDone(w) ==
  LET done == IF w.doneSize = ReuseCount(w) THEN w.reuseDone ELSE {}
  IN  IF TwoD
      THEN [w EXCEPT !.doneSize = ReuseCount(w), !.reuseDone = done \cup {ReuseIndex(w, w.reM, w.reN)}]
      ELSE w

\* drainPendingWritebacks, finishOrDrainWritebacks
HastyDrain(w) == [w EXCEPT !.tokens = @ \ acked, !.phase = "DONE"]
DrainWritebacks(w) ==
  [w EXCEPT !.tokens = @ \ acked, !.phase = IF w.tokens \subseteq acked THEN "DONE" ELSE "WRITEBACK_WAIT"]

\* The next macro task of the list, if any
NextTask(w) ==
  IF w.task + 1 < TaskCount
  THEN AdoptMacro(ResetPipeline([w EXCEPT !.task = @ + 1, !.reM = 0, !.reN = 0, !.phase = "RUN"]))
  ELSE DrainWritebacks(w)

\* advance2DWindowEngine, after the last C tile of a window that is not the
\* last: take the next window from the queue, activate it if all of it is there.
NextWindow(w) ==
  LET next == Head(w.prefetch)
      v == [w EXCEPT !.reM = 0, !.reN = 0, !.phase = "RUN", !.prefetch = Tail(@)]
      waiting == [v EXCEPT !.valid = FALSE, !.txn = next.txn, !.tileCount = next.n,
                           !.kBegin = next.k, !.kCount = next.n, !.buffer = next.buffer,
                           !.reuseDone = {}, !.doneSize = ReuseCount(v)]
      active == Activate([Retire(v, next.txn) EXCEPT !.txn = 0], next.k, next.n, next.buffer)
      k == w.kBegin + w.kCount
      n == Least(WindowK, KTiles - k)
      buffer == FreeBuffer(w) \cup (IF FreeBuffer(w) = {} THEN {(w.buffer + 1) % Buffers} ELSE {})
      unfetched == [w EXCEPT !.reM = 0, !.reN = 0, !.phase = "RUN", !.valid = FALSE, !.kBegin = k,
                             !.kCount = n, !.buffer = CHOOSE b \in buffer : TRUE, !.reuseDone = {},
                             !.doneSize = ReuseCount(w), !.nextK = k + n]
  IN  CASE w.prefetch = <<>> -> ResetCompute(unfetched)
        [] w.prefetch # <<>> /\ ~TxnDone(w, next.txn) -> ResetCompute(waiting)
        [] w.prefetch # <<>> /\ TxnDone(w, next.txn) ->
             [ResetCompute(active) EXCEPT !.scheduled = TRUE]

\* advance2DWindowEngine, with C tiles of the active window left
NextReuseTile(w) ==
  [ResetCompute(WithReuse(w, CHOOSE x \in NextReuse(w, FALSE) : TRUE)) EXCEPT
     !.scheduled = TRUE, !.phase = "RUN"]

\* retireActiveTransactions and what the callers do next
RetireActive(w) == IF TxnDone(w, w.txn) THEN [Retire(w, w.txn) EXCEPT !.txn = 0] ELSE w

\* advanceAfterWriteback
Advance(w) ==
  CASE TwoD /\ ~AllReuseDone(w) -> NextReuseTile(w)
    [] TwoD /\ AllReuseDone(w) /\ ~FinalWindow(w) -> NextWindow(w)
    [] TwoD /\ AllReuseDone(w) /\ FinalWindow(w) -> NextTask(RetireActive(w))
    [] ~TwoD /\ w.reN + 1 < Cur(w).nCount ->
         ResetPipeline([w EXCEPT !.reN = @ + 1, !.phase = "RUN"])
    [] ~TwoD /\ w.reN + 1 >= Cur(w).nCount /\ w.reM + 1 < Cur(w).mCount ->
         ResetPipeline([w EXCEPT !.reM = @ + 1, !.reN = 0, !.phase = "RUN"])
    [] OTHER -> NextTask(w)

IssueAndLaunch(w) == IF w.phase = "RUN" THEN TryLaunch(TryIssue(w)) ELSE w
AdvanceAndLaunch(w) == IssueAndLaunch(Advance(MarkReuseDone(w)))

-----------------------------------------------------------------------------
(* tick, one action per phase, and the callbacks.                          *)

\* tick in RUN
RetireOrWait(w) ==
  CASE w.running -> w
    [] ~w.running /\ Summed(w) -> ToWriteback(w)
    [] /\ ~w.running /\ ~Summed(w)
       /\ w.txn # 0 /\ AllTilesDone(w) /\ (TwoD => AllReuseDone(w)) /\ TxnDone(w, w.txn) ->
         [RetireActive(w) EXCEPT !.tileCount = 0]
    [] OTHER -> w
LaunchOrRetire(w) == IF w.running THEN w ELSE RetireOrWait(TryLaunch(w))
RunStep(w) == LaunchOrRetire(TryIssue(w))

TickRun ==
  /\ wcp.phase = "RUN"
  /\ wcp' = RunStep(wcp)
  /\ UNCHANGED <<conf, local, acked, output>>

\* tick in WRITEBACK, before the last window of k
TickSavePartial ==
  /\ wcp.phase = "WRITEBACK"
  /\ ~FinalWindow(wcp)
  /\ wcp' = AdvanceAndLaunch(SavePartial(wcp))
  /\ UNCHANGED <<conf, local, acked, output>>

\* tick in WRITEBACK, with the complete sum: a DMA write, or the fusion
\* callback (one that returns false has tick try again, which changes nothing).
TickOutput ==
  /\ wcp.phase = "WRITEBACK"
  /\ FinalWindow(wcp)
  /\ output' = Append(output, [tile |-> CTile(wcp), sum |-> wcp.acc])
  /\ wcp' = AdvanceAndLaunch([wcp EXCEPT !.tokens = IF ToHbm THEN @ \cup {Len(output')} ELSE @])
  /\ UNCHANGED <<conf, local, acked>>

TickWritebackWait ==
  /\ wcp.phase = "WRITEBACK_WAIT"
  /\ wcp' = DrainWritebacks(wcp)
  /\ UNCHANGED <<conf, local, acked, output>>

\* The completion callback, and the mailbox of the host, are told.
TickDone ==
  /\ wcp.phase = "DONE"
  /\ wcp' = [wcp EXCEPT !.phase = "IDLE"]
  /\ UNCHANGED <<conf, local, acked, output>>

\* handleArrayDone
WritebackUnlessRunning(w) == IF w.running THEN w ELSE ToWriteback(w)
ArrayDoneStep(w) ==
  IF w.arraysLeft > 1 THEN [w EXCEPT !.arraysLeft = @ - 1]
  ELSE WritebackUnlessRunning(TryLaunch(CompleteStep([w EXCEPT !.arraysLeft = 0])))

ArrayDone ==
  /\ wcp.running
  /\ wcp' = ArrayDoneStep(wcp)
  /\ UNCHANGED <<conf, local, acked, output>>

\* The last data of a panel read arrives (handle_receives): its slot is written,
\* and ctrlIsReadRequestPending says that the request is no longer pending.
Land(p) ==
  /\ local' = [local EXCEPT ![<<p.side, p.slot>>] = p.tile]
  /\ wcp' = [wcp EXCEPT !.flight = @ \ {p}]
  /\ UNCHANGED <<conf, acked, output>>

\* Reads of the C buffer share a port, so their data is usable in order.
CBufferReady ==
  /\ \E i \in DOMAIN wcp.cread :
       /\ ~wcp.cread[i].ready
       /\ \A j \in 1..i - 1 : wcp.cread[j].ready
       /\ wcp' = [wcp EXCEPT !.cread[i].ready = TRUE]
  /\ UNCHANGED <<conf, local, acked, output>>

\* The last acknowledgement of a write arrives (handle_receives): from now on
\* dma_completion_done finds its token.
WriteAck(t) ==
  /\ acked' = acked \cup {t}
  /\ UNCHANGED <<conf, wcp, local, output>>

\* tick of an idle command processor
TickIdle ==
  /\ wcp.phase = "IDLE"
  /\ UNCHANGED vars

LandSome == \E p \in wcp.flight : Land(p)
AckSome == \E t \in wcp.tokens \ acked : WriteAck(t)

Next ==
  \/ TickRun \/ TickSavePartial \/ TickOutput \/ TickWritebackWait \/ TickDone \/ TickIdle
  \/ ArrayDone \/ LandSome \/ CBufferReady \/ AckSome

Spec == Init /\ [][Next]_vars

(* Fairness: the clock ticks, and arrays, memory reads, C-buffer reads and *)
(* DMA writes end.  It is weak fairness, with the states in which an       *)
(* action would change something written out.                              *)

Ticks == TickRun \/ TickSavePartial \/ TickOutput \/ TickWritebackWait \/ TickDone

TickChanges ==
  \/ wcp.phase \in {"WRITEBACK", "DONE"}
  \/ wcp.phase = "RUN" /\ RunStep(wcp) # wcp
  \/ wcp.phase = "WRITEBACK_WAIT" /\ DrainWritebacks(wcp) # wcp

Reading == \E i \in DOMAIN wcp.cread : ~wcp.cread[i].ready
Unacked == wcp.tokens \ acked # {}

Fairness ==
  /\ <>[]TickChanges => []<><<Ticks>>_vars
  /\ <>[]wcp.running => []<><<ArrayDone>>_vars
  /\ <>[](wcp.flight # {}) => []<><<LandSome>>_vars
  /\ <>[]Reading => []<><<CBufferReady>>_vars
  /\ <>[]Unacked => []<><<AckSome>>_vars

FairSpec == Spec /\ Fairness

-----------------------------------------------------------------------------
(* Properties.                                                             *)

Products(m, n) == {<<<<m, k>>, <<n, k>>, s>> : k \in 0..KTiles - 1, s \in 0..MicroSteps - 1}

\* The C tiles of the worker's task list.
ListTiles ==
  UNION {LET t == MacroTask(i)
         IN  (t.m0 .. t.m0 + t.mCount - 1) \X (t.n0 .. t.n0 + t.nCount - 1) : i \in 0..TaskCount - 1}

\* Every C tile handed over is the sum of all its products, each added once
\* (workercmdproc.h: accumulation in the arrays, across windows through the C buffer).
SumExact ==
  \A i \in DOMAIN output :
    output[i].sum = SetToBag(Products(output[i].tile[1], output[i].tile[2]))

Windows == CeilDiv(KTiles, WindowK)
FirstTiles == {<<MacroTask(i).m0, MacroTask(i).n0>> : i \in 0..TaskCount - 1}

\* As SumExact, but not for the first C tile of a macro task computed in three or
\* more windows, whose partial sum the C-buffer prefetch may take too early; even
\* there no product is foreign and none is added twice.
SumExactButFirst ==
  \A i \in DOMAIN output :
    LET t == output[i].tile
        all == SetToBag(Products(t[1], t[2]))
    IN  IF TwoD /\ Windows >= 3 /\ t \in FirstTiles
        THEN output[i].sum \sqsubseteq all ELSE output[i].sum = all

\* The operands the arrays are loaded with are the A and B tiles of the C tile
\* being computed, at the k of the active tile (loadTilePayload): a slot is
\* neither read before its panel lands nor overwritten before its last use.
OperandsOwn ==
  wcp.payload # <<>> =>
    wcp.payload = <<<<CTile(wcp)[1], wcp.txnK + wcp.tile>>, <<CTile(wcp)[2], wcp.txnK + wcp.tile>>>>

\* No two reads under way write one slot, and none of another window writes the
\* active window's buffer (allocatePrefetchWindowBuffer).
BuffersApart ==
  /\ \A p, q \in wcp.flight : p.side = q.side /\ p.slot = q.slot => p = q
  /\ TwoD /\ wcp.valid =>
       \A p \in wcp.flight :
         p.txn # wcp.txn =>
           p.slot \div (WindowK * (IF p.side = "A" THEN ReuseM ELSE ReuseN)) # wcp.buffer

\* When a window other than the last is finished the next one has been
\* submitted, so advance2DWindowEngine never takes the branch
\* ADVANCE_NO_PREFETCH, which would reuse the finished window's transaction.
NextWindowQueued ==
  wcp.phase = "WRITEBACK" /\ ~FinalWindow(wcp) =>
    wcp.prefetch # <<>> /\ Head(wcp.prefetch).k = wcp.kBegin + wcp.kCount

\* When the worker reports the list finished, every C tile of it has been
\* handed over once, every DMA write has been acknowledged, and no read is
\* under way that could write a slot of the next list.
FinishedMeansWritten ==
  wcp.phase \in {"DONE", "IDLE"} =>
    /\ {output[i].tile : i \in DOMAIN output} = ListTiles
    /\ Len(output) = Cardinality(ListTiles)
    /\ ToHbm => acked = 1..Len(output)
    /\ wcp.flight = {}

\* The task list is finished eventually.
ListFinishes == <>(wcp.phase = "IDLE")

=============================================================================
