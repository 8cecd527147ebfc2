-------------------------- MODULE MCRequestScheduler --------------------------
(***************************************************************************)
(* Configurations of RequestScheduler.  A panel is one or two chunks of    *)
(* one byte, and neighbouring panels lie on different memory nodes.        *)
(***************************************************************************)
EXTENDS RequestScheduler

Panels(base, size, tiles) ==
    [base |-> base, stride |-> size, skip |-> FALSE, tiles |-> tiles,
     rows |-> 0, rowStride |-> 0, groupStride |-> 0]

\* A transaction of `tiles` tiles with A panels of matSize and B panels of vecSize.
Window(tiles, matSize, vecSize) ==
    [kTiles |-> tiles, kWindow |-> 1, totalK |-> tiles, nodeSize |-> 2, independent |-> FALSE,
     rowMajor |-> FALSE, rowBytes |-> 0, kSlice |-> 0,
     mat |-> Panels(0, matSize, tiles), vec |-> Panels(2, vecSize, tiles)]

Base ==
    [workers |-> 2, nodes |-> 2, queueDepth |-> 3, creditCap |-> 0, budget |-> 2, quantum |-> 1,
     chunkBytes |-> 1, submitBatch |-> 2, doneBatch |-> 2, groupRoundRobin |-> FALSE,
     eventDriven |-> FALSE, reuseM |-> 1, reuseN |-> 1, windowK |-> 1, slots |-> 2, prefetch |-> 1,
     txnTags |-> 4, tileTags |-> 4, rowTags |-> 2, held |-> 1, drops |-> FALSE,
     plans |-> <<<<>>, <<>>>>, pairs |-> 0, slotBytes |-> <<1, 1>>]

\* Node by node, two workers, the A panel in two chunks.
ByNode == [Base EXCEPT !.plans = <<<<Window(1, 2, 1)>>, <<Window(1, 1, 0)>>>>]
\* Worker by worker.
ByWorker == [Base EXCEPT !.groupRoundRobin = TRUE, !.nodes = 1, !.budget = 1, !.queueDepth = 4,
                         !.plans = <<<<Window(1, 2, 2)>>, <<Window(1, 1, 1)>>>>]
\* One worker with two windows under way, credit for both, woken by events.
Prefetching == [Base EXCEPT !.workers = 1, !.eventDriven = TRUE, !.held = 2,
                            !.budget = 1, !.queueDepth = 4,
                            !.plans = <<<<Window(1, 1, 1), Window(1, 1, 1), Window(1, 1, 0)>>>>]
\* One credit, and transactions dropped without being retired.
Frugal == [Base EXCEPT !.workers = 1, !.creditCap = 1, !.drops = TRUE,
                       !.plans = <<<<Window(1, 2, 1), Window(1, 1, 1)>>>>]
\* Row-major panels; identifiers wrap right after the rows, tiles and
\* transactions that are under way together.
RowPanels(tiles, rows, skip) ==
    [base |-> 0, stride |-> 2, skip |-> skip, tiles |-> tiles, rows |-> rows,
     rowStride |-> 2, groupStride |-> 1]
RowWindow(tiles, rows, skipMat, skipVec) ==
    [kTiles |-> tiles, kWindow |-> 1, totalK |-> 1, nodeSize |-> 2, independent |-> TRUE,
     rowMajor |-> TRUE, rowBytes |-> 1, kSlice |-> 1,
     mat |-> RowPanels(tiles, rows, skipMat), vec |-> RowPanels(1, rows, skipVec)]
Rows == [Base EXCEPT !.workers = 1, !.nodes = 1, !.txnTags = 2, !.tileTags = 4, !.held = 2,
          !.creditCap = 2, !.queueDepth = 5, !.budget = 1, !.submitBatch = 4, !.doneBatch = 1,
          !.plans = <<<<RowWindow(2, 2, FALSE, TRUE), RowWindow(1, 1, TRUE, FALSE),
                        RowWindow(1, 1, FALSE, TRUE)>>>>]
\* The mailbox.
Mailbox == [Base EXCEPT !.workers = 1, !.plans = <<<<>>>>, !.pairs = 2, !.slotBytes = <<2, 1>>]

\* A turn of two rounds, two tiles on two nodes.
ByTile == [ByWorker EXCEPT !.workers = 1, !.nodes = 2, !.quantum = 2, !.budget = 3, !.windowK = 2,
                           !.plans = <<<<Window(2, 2, 1)>>>>]
\* Two windows under way as in Prefetching, and credit for one read.
Starved == [Prefetching EXCEPT !.creditCap = 1, !.plans = <<<<Window(1, 1, 1), Window(1, 1, 1)>>>>]

Reads == {ByNode, ByWorker, ByTile, Prefetching, Frugal, Rows, Mailbox}
Wakeup == {Starved}
=============================================================================
