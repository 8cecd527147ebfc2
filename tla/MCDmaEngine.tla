---------------------------- MODULE MCDmaEngine ----------------------------
(* Configurations of DmaEngine for TLC. *)
EXTENDS DmaEngine

\* Two transfers, one of two bursts, without generations.
Retries ==
  [bursts |-> <<2, 1>>, pieces |-> 2, tokened |-> {2}, maxInflight |-> 2, maxRetries |-> 1,
   retryTicks |-> 1, queueDepth |-> 2, writePorts |-> 1, maxOthers |-> 0, maxGen |-> 0,
   writes |-> <<>>]

\* A transfer of two bursts in a generation, another client in the local queue.
Crowded == [Retries EXCEPT !.bursts = <<2>>, !.tokened = {}, !.maxOthers = 1, !.maxGen = 1]

\* Two transfers, two generations, and a local queue of one place.
Generations ==
  [Retries EXCEPT !.bursts = <<1, 1>>, !.maxInflight = 1, !.queueDepth = 1, !.maxGen = 2]

\* A pumped write of two chunks, the first of two bursts, beside a transfer.
Write(addr, chunks, pumped) == [addr |-> addr, chunks |-> chunks, pumped |-> pumped]
Pumping ==
  [Retries EXCEPT !.bursts = <<1>>, !.pieces = 1, !.tokened = {}, !.maxRetries = 0, !.queueDepth = 1,
                  !.maxGen = 1, !.writes = <<Write(0, <<2, 1>>, TRUE)>>]

\* A write of two bursts handed over, and a pumped one to the same address.
Again ==
  [Pumping EXCEPT !.bursts = <<>>, !.maxGen = 2, !.maxOthers = 1,
                  !.writes = <<Write(0, <<2>>, FALSE), Write(0, <<1, 1>>, TRUE)>>]

Loads == {Retries, Crowded, Generations, Pumping, Again}

\* One transfer of two bursts, polled through its token
Polled == {[Retries EXCEPT !.bursts = <<2>>, !.pieces = 1, !.tokened = {1}, !.maxOthers = 1]}
=============================================================================
