--------------------------- MODULE MCWindowEngine ---------------------------
(* Instances of WindowEngine for TLC. *)
EXTENDS WindowEngine

\* A macro task of two by two C tiles, computed in two windows of one k tile,
\* with one window prefetched.
Square ==
  [reuseM |-> 2, reuseN |-> 2, mTiles |-> 2, nTiles |-> 2, kTiles |-> 2, workers |-> 1, slot |-> 0,
   tasks |-> 1, slots |-> 4, windowK |-> 1, depth |-> 1, cross |-> FALSE, arrays |-> 1,
   steps |-> 1, hbm |-> FALSE]

\* The same, with the C tiles written to memory
Written == [Square EXCEPT !.hbm = TRUE]

\* Three windows, with one or two of them prefetched
Longer == [Square EXCEPT !.kTiles = 3]
Deeper == [Longer EXCEPT !.depth = 2, !.slots = 6]

\* Windows of two k tiles and of one
Wider == [Square EXCEPT !.kTiles = 3, !.windowK = 2, !.slots = 8]

\* Two macro tasks, of two by two and of one by two C tiles, the second one's
\* first window read ahead: into a buffer of its own, and, with no room for
\* one, into the buffer left free at the end
Crossing == [Square EXCEPT !.mTiles = 3, !.tasks = 2, !.slots = 6, !.cross = TRUE]
CrossingTight == [Crossing EXCEPT !.slots = 4]

\* The second of two workers, whose macro task is at the edge of the matrix:
\* two by one C tiles
Edge == [Longer EXCEPT !.nTiles = 3, !.workers = 2, !.slot = 1]

\* A read once for two B tiles, B once for two A tiles, and nothing shared
ReuseA == [Square EXCEPT !.reuseM = 1, !.mTiles = 1, !.nTiles = 3, !.tasks = 2, !.windowK = 2,
                         !.slots = 2, !.arrays = 2, !.steps = 2, !.hbm = TRUE]
ReuseB == [ReuseA EXCEPT !.reuseM = 2, !.reuseN = 1, !.mTiles = 2, !.nTiles = 2]
NoReuse == [ReuseA EXCEPT !.reuseN = 1, !.nTiles = 2, !.kTiles = 3]

Lists == {Square, Written, Longer, Deeper, Wider, Crossing, CrossingTight, Edge, ReuseA, ReuseB, NoReuse}

ThreeWindows == {Longer}

\* A reused, with transactions shorter than the sum
ReuseShort == {[ReuseA EXCEPT !.windowK = 1]}
=============================================================================
