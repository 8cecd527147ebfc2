--------------------------- MODULE AttentionManager ---------------------------
(***************************************************************************)
(* Attention jobs at the manager cores (rocc/roccAnalog.h).  The software  *)
(* of a manager issues one job per key/value head and waits for them in    *)
(* order; the accelerator reads the descriptor and the topology of a job,  *)
(* dispatches it to the manager's workers one by one and collects their    *)
(* completions; every manager reports its band to the root manager, whose  *)
(* job succeeds when all bands are complete.                               *)
(*                                                                         *)
(* Jobs are numbered in the order of issue (the tag and the job id of the  *)
(* code, which are different for every head).  A message names its sender  *)
(* by its channel; channels are reliable and keep the order of sending.    *)
(***************************************************************************)
EXTENDS Integers, Sequences, FiniteSets, SequencesExt, FiniteSetsExt

CONSTANT Configs

None == 0

\* managers: their cores, the root first.  workers, lanes: per manager, the
\* cores of its QK workers and of its PV workers.  rows, windows: row blocks
\* of a worker's part of a job and V windows of a head.  split: where the PV
\* workers get V from, or "single" when a worker runs the whole job by itself.
\* prefetch: V is fetched ahead (in the code, with two QK workers per manager).
\* dynamic: row blocks are assigned to PV workers by core 0.  entries: size
\* of a PV worker's V cache.  groups: into how many groups a window of V is
\* distributed (2 in the code).  faults: what may go wrong.
ConfigRecord ==
    [managers: Seq(Nat \ {0}), workers: Seq(Seq(Nat \ {0})), lanes: Seq(Seq(Nat \ {0})),
     jobs: Nat \ {0}, rows: Nat, windows: Nat, entries: Nat, groups: Nat \ {0},
     split: {"single", "memory", "broadcast"}, prefetch: BOOLEAN, dynamic: BOOLEAN,
     faults: SUBSET {"descriptor", "reject", "worker"}]

\* Every core has one role, and every manager of a cluster has PV workers.
\* Dynamic assignment chooses between two of them, and the V cache has an
\* entry to load while another is in use.
ASSUME ConfigsAssumption ==
    /\ Configs \subseteq ConfigRecord
    /\ \A c \in Configs :
          /\ Len(c.workers) = Len(c.managers) /\ Len(c.lanes) = Len(c.managers)
          /\ IsInjective(c.managers \o FlattenSeq(c.workers) \o FlattenSeq(c.lanes))
          /\ \A i \in DOMAIN c.managers : c.workers[i] # <<>>
          /\ c.split # "single" => /\ c.rows > 0 /\ c.windows > 0 /\ c.entries > 1
                                   /\ \A i \in DOMAIN c.lanes : c.lanes[i] # <<>>
          /\ c.dynamic => \A i \in DOMAIN c.lanes : Len(c.lanes[i]) = 2

VARIABLES
    conf,      \* the parameters, chosen once
    software,  \* per manager: jobs issued and waited for, and whether one failed
    job,       \* per manager and job: the entry of managerAttentionJobs_
    net,       \* control messages on their way, per channel
    early      \* history: jobs with a band completion ahead of the root's descriptor

managerVars == <<conf, software, job, net, early>>

Jobs == 1 .. conf.jobs
Managers == ToSet(conf.managers)
Root == Head(conf.managers)
IndexOf(m) == CHOOSE i \in DOMAIN conf.managers : conf.managers[i] = m
WorkersOf(m) == conf.workers[IndexOf(m)]
ManagerOf(q) == CHOOSE m \in Managers : Contains(WorkersOf(m), q)
Workers == UNION {ToSet(conf.workers[i]) : i \in DOMAIN conf.workers}
PvWorkers == UNION {ToSet(conf.lanes[i]) : i \in DOMAIN conf.lanes}

\* Managers talk to the root and to QK workers, QK workers to PV workers, and
\* these to each other.
Channels ==
    LET pairs(A, B) == {<<a, b>> \in (A \X B) \union (B \X A) : a # b} IN
    pairs(Managers, {Root} \union Workers) \union pairs(PvWorkers, Workers \union PvWorkers)

\* The channels after core c sent the messages of `out`, pairs of a
\* destination and a message, in this order.
Sent(channels, c, out) ==
    FoldLeft(LAMBDA n, m : [n EXCEPT ![<<c, m[1]>>] = Append(@, m[2])], channels, out)
Received(channels, c, d) == [channels EXCEPT ![<<c, d>>] = Tail(@)]

-----------------------------------------------------------------------------
\* The entry of a job.  `read` is the local read under way for it: a failed
\* job forgets it, the memory does not.  `known` says that desc was read.
NoJob == [phase |-> "None", read |-> "None", known |-> FALSE, dispatched |-> 0,
          completed |-> {}, bands |-> {}, status |-> "Pending"]

failManagerAttentionJob(e) == [e EXCEPT !.status = "Invalid", !.phase = "Complete"]
Succeeded(e) == [e EXCEPT !.status = "Success", !.phase = "Complete"]

\* The guest program: it issues a job for every head ...
Issue(m) ==
    /\ software[m].issued < conf.jobs
    /\ software' = [software EXCEPT ![m].issued = @ + 1]
    /\ job' = [job EXCEPT ![m][software[m].issued + 1].phase = "ReadDescriptor"]
    /\ UNCHANGED <<conf, net, early>>

\* ... and waits for them in order, until one fails.
CanWait(m) ==
    LET j == software[m].waited + 1 IN
    /\ software[m].issued = conf.jobs /\ j \in Jobs /\ ~software[m].failed
    /\ job[m][j].phase = "Complete"

Wait(m) ==
    LET j == software[m].waited + 1 IN
    /\ CanWait(m)
    /\ software' = [software EXCEPT ![m].waited = j,
                                    ![m].failed = job[m][j].status # "Success"]
    /\ job' = [job EXCEPT ![m][j] = [NoJob EXCEPT !.read = job[m][j].read]]
    /\ UNCHANGED <<conf, net, early>>

\* A pass of the manager's tick over one job: it starts a read ...
StartRead(m, j) ==
    /\ job[m][j].phase \in {"ReadDescriptor", "ReadTopology"} /\ job[m][j].read = "None"
    /\ job' = [job EXCEPT ![m][j].read = job[m][j].phase]
    /\ UNCHANGED <<conf, software, net, early>>

\* ... or sends the job to its next worker.
Dispatch(m, j) ==
    LET n == job[m][j].dispatched + 1 IN
    /\ job[m][j].phase = "Dispatch"
    /\ job' = [job EXCEPT ![m][j].dispatched = n,
                          ![m][j].phase = IF n = Len(WorkersOf(m)) THEN "Running" ELSE @]
    /\ net' = Sent(net, m, <<<<WorkersOf(m)[n], [kind |-> "Dispatch", job |-> j]>>>>)
    /\ UNCHANGED <<conf, software, early>>

\* The callback of a read.  It finds the job by its tag and looks neither at
\* the phase nor at readInflight, so it also moves on a job that has failed
\* in between.
ReadReturned(e, ok) ==
    LET done == [e EXCEPT !.read = "None"] IN
    IF e.phase = "None" THEN done
    ELSE IF ~ok THEN failManagerAttentionJob(done)
    ELSE IF e.read = "ReadDescriptor" THEN [done EXCEPT !.known = TRUE, !.phase = "ReadTopology"]
    ELSE [done EXCEPT !.phase = "Dispatch"]

ReadReturns(m, j) ==
    /\ job[m][j].read # "None"
    /\ \E ok \in {TRUE} \union (IF "descriptor" \in conf.faults THEN {FALSE} ELSE {}) :
          job' = [job EXCEPT ![m][j] = ReadReturned(@, ok)]
    /\ UNCHANGED <<conf, software, net, early>>

-----------------------------------------------------------------------------
\* A band completion of manager m at the root's entry e of the job.
handleAttentionManagerBandCompletion(e, m) ==
    IF e.phase = "None" THEN e
    ELSE IF ~e.known \/ m \in e.bands THEN failManagerAttentionJob(e)
    ELSE LET counted == [e EXCEPT !.bands = @ \union {m}] IN
         IF counted.bands = Managers THEN Succeeded(counted) ELSE counted

\* Mutant: the root's job succeeds with its own band.
OwnBandSucceeds(e, m, q, ok) ==
    IF e.phase = "None" THEN [entry |-> e, band |-> FALSE]
    ELSE IF e.phase \notin {"Dispatch", "Running"} \/ q \in e.completed \/ ~ok
    THEN [entry |-> failManagerAttentionJob(e), band |-> FALSE]
    ELSE LET counted == [e EXCEPT !.completed = @ \union {q}] IN
         IF counted.completed # ToSet(WorkersOf(m)) THEN [entry |-> counted, band |-> FALSE]
         ELSE [entry |-> Succeeded(counted), band |-> TRUE]

\* A worker's completion at its manager's entry e: the entry afterwards, and
\* whether the band is complete now.
handleManagerAttentionCompletion(e, m, q, ok) ==
    IF e.phase = "None" THEN [entry |-> e, band |-> FALSE]
    ELSE IF e.phase \notin {"Dispatch", "Running"} \/ q \in e.completed \/ ~ok
    THEN [entry |-> failManagerAttentionJob(e), band |-> FALSE]
    ELSE LET counted == [e EXCEPT !.completed = @ \union {q}] IN
         IF counted.completed # ToSet(WorkersOf(m)) THEN [entry |-> counted, band |-> FALSE]
         ELSE [entry |-> IF Len(conf.managers) = 1 \/ m # Root THEN Succeeded(counted)
                         ELSE handleAttentionManagerBandCompletion(counted, m),
               band |-> TRUE]

ReceiveCompletion(q, m) ==
    LET msg == Head(net[<<q, m>>]) IN
    /\ net[<<q, m>>] # <<>> /\ msg.kind = "Complete"
    /\ \E r \in {handleManagerAttentionCompletion(job[m][msg.job], m, q, msg.ok)} :
          /\ job' = [job EXCEPT ![m][msg.job] = r.entry]
          /\ net' = Sent(Received(net, q, m), m,
                         IF r.band /\ m # Root
                         THEN <<<<Root, [kind |-> "Band", job |-> msg.job]>>>> ELSE <<>>)
    /\ UNCHANGED <<conf, software, early>>

ReceiveBand(m) ==
    LET msg == Head(net[<<m, Root>>])
        e   == job[Root][msg.job] IN
    /\ net[<<m, Root>>] # <<>> /\ msg.kind = "Band"
    /\ job' = [job EXCEPT ![Root][msg.job] = handleAttentionManagerBandCompletion(e, m)]
    /\ net' = Received(net, m, Root)
    /\ early' = IF e.known THEN early ELSE early \union {msg.job}
    /\ UNCHANGED <<conf, software>>

\* A manager, or a read for one, has something to do.
ManagerCanStep(m) ==
    \/ software[m].issued < conf.jobs \/ CanWait(m)
    \/ \E j \in Jobs : \/ job[m][j].read # "None"
                       \/ job[m][j].phase \in {"ReadDescriptor", "ReadTopology", "Dispatch"}

ManagerInit ==
    /\ conf \in Configs
    /\ software = [m \in Managers |-> [issued |-> 0, waited |-> 0, failed |-> FALSE]]
    /\ job = [m \in Managers |-> [j \in Jobs |-> NoJob]]
    /\ net = [c \in Channels |-> <<>>]
    /\ early = {}

ManagerNext ==
    \/ \E m \in DOMAIN software : Issue(m) \/ Wait(m)
    \/ \E m \in DOMAIN software, j \in Jobs : StartRead(m, j) \/ Dispatch(m, j) \/ ReadReturns(m, j)
    \/ \E m \in DOMAIN software : \E q \in ToSet(WorkersOf(m)) : ReceiveCompletion(q, m)
    \/ \E m \in DOMAIN software \ {Root} : ReceiveBand(m)
=============================================================================
