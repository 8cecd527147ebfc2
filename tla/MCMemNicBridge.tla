--------------------------- MODULE MCMemNicBridge ---------------------------
(* READs, writes and progress messages for model checking MemNicBridge.       *)
EXTENDS MemNicBridge

Kv(id, kind, worker, query, tile, units, at) ==
  [id |-> id, kind |-> kind, worker |-> worker, query |-> query, tile |-> tile,
   slot |-> 0, addr |-> tile, units |-> units, at |-> at]

Tile(id, kind, worker, window, tile, slot, units) ==
  [id |-> id, kind |-> kind, worker |-> worker, query |-> window, tile |-> tile,
   slot |-> slot, addr |-> slot, units |-> units, at |-> <<0, 0>>]

\* The workers' cores announce that they have moved on.
KvProgress == {[worker |-> 0, at |-> <<1, 0>>]}

\* Two tiles of one window, one READ of an older and one of a later window,
\* with different sizes.
WindowReads ==
  {Tile(1, "plain", 0, 1, 0, 0, 1), Tile(2, "plain", 0, 1, 0, 1, 2),
   Tile(3, "plain", 255, 0, 0, 0, 2), Tile(4, "query", 1, 1, 0, 0, 1)}

\* Two workers read one chunk; a write is under way besides.
PairReads == {Kv(1, "kv", 0, 0, 0, 1, <<0, 0>>), Kv(2, "kv", 1, 0, 0, 1, <<0, 0>>)}
PairAndWrite == PairReads \cup {Tile(4, "write", 1, 0, 0, 0, 1)}

\* The chunk is read for two query tiles of one worker and by another worker.
TwoQueries ==
  {Kv(1, "kv", 0, 0, 0, 1, <<0, 0>>), Kv(2, "prefetch", 0, 1, 0, 1, <<0, 0>>),
   Kv(3, "kv", 1, 0, 0, 1, <<0, 0>>)}

Twice(reads, ids) == [r \in reads |-> IF r.id \in ids THEN 2 ELSE 1]

\* Admission by consumer metadata and credits, responses by tile.
Attention(reads, resent) ==
  [reads |-> reads, maxSends |-> Twice(reads, resent), progresses |-> {}, maxPlain |-> 0,
   creditCap |-> 2, windowPriority |-> TRUE, admissionLimit |-> 0, quantum |-> 2,
   coalesce |-> TRUE, expectedConsumers |-> 3, starvation |-> FALSE,
   responsePriority |-> FALSE, tilePriority |-> TRUE, responseReorder |-> TRUE, drainLimit |-> 0]

\* Admission by window, one READ and one response per cycle.
Windows ==
  [Attention(WindowReads, {}) EXCEPT !.maxPlain = 1, !.coalesce = FALSE, !.tilePriority = FALSE,
     !.responsePriority = TRUE, !.responseReorder = FALSE, !.admissionLimit = 1, !.drainLimit = 1]

\* Admission in order of arrival.
Arrivals ==
  [Attention(WindowReads, {}) EXCEPT !.maxPlain = 1, !.coalesce = FALSE, !.tilePriority = FALSE,
     !.responseReorder = FALSE, !.windowPriority = FALSE]

\* Starvation bounds, one READ and one response per cycle.
Starving ==
  [Attention(TwoQueries, {}) EXCEPT !.starvation = TRUE, !.admissionLimit = 1, !.drainLimit = 1]

\* The defaults, with coalescing: no credits and no priorities.
Uncredited ==
  [Attention(PairReads, {}) EXCEPT !.creditCap = 0, !.windowPriority = FALSE,
     !.tilePriority = FALSE, !.responseReorder = FALSE, !.expectedConsumers = 16]

ReadConfigs ==
  {[Attention(reads, {1}) EXCEPT !.progresses = KvProgress] : reads \in {PairAndWrite, TwoQueries}}
  \cup {Windows, Arrivals, Starving}
ChunkConfigs == {Attention(TwoQueries, {})}
UncreditedConfigs == {Uncredited}

=============================================================================
