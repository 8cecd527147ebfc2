-------------------------- MODULE MCAttentionCluster --------------------------
(***************************************************************************)
(* Configurations of AttentionCluster: cores are numbers, core 1 is the    *)
(* root manager, and the V cache of a PV worker has two entries.           *)
(***************************************************************************)
EXTENDS AttentionCluster

\* One manager with a QK worker and two PV workers.
Base == [managers |-> <<1>>, workers |-> <<<<2>>>>, lanes |-> <<<<4, 5>>>>, jobs |-> 2,
         rows |-> 2, windows |-> 2, entries |-> 2, groups |-> 2, split |-> "broadcast",
         prefetch |-> TRUE, dynamic |-> FALSE, faults |-> {}]
AllFaults == {"descriptor", "reject", "worker"}

\* Two managers whose workers run their jobs by themselves, without faults;
\* with faults; and one manager with two such workers.
Bands == [Base EXCEPT !.managers = <<1, 2>>, !.workers = <<<<3>>, <<4>>>>, !.lanes = <<<<>>, <<>>>>,
                      !.split = "single", !.rows = 0]
FaultyBands == [Bands EXCEPT !.faults = AllFaults]
Pair == [Bands EXCEPT !.managers = <<1>>, !.workers = <<<<3, 4>>>>, !.lanes = <<<<>>>>,
                      !.faults = AllFaults]
PairOnce == [Pair EXCEPT !.jobs = 1, !.faults = {}]

\* Two jobs of one row block, statically or dynamically assigned; two row
\* blocks of one job, with V from memory; and two jobs of a single window whose
\* pipeline may fail.
Static == [Base EXCEPT !.rows = 1]
Dynamic == [Static EXCEPT !.dynamic = TRUE]
FromMemory(c) == [c EXCEPT !.split = "memory", !.prefetch = FALSE]
DynamicRows == [FromMemory(Base) EXCEPT !.jobs = 1, !.dynamic = TRUE]
FaultyDynamic == [Dynamic EXCEPT !.windows = 1, !.faults = {"worker"}]

\* Three jobs of one row block and one window, one active, one ahead and one
\* queued: dynamically assigned, or with a failing pipeline.
Three == [FromMemory(Dynamic) EXCEPT !.jobs = 3, !.windows = 1]
FaultyThree == [Three EXCEPT !.lanes = <<<<4>>>>, !.dynamic = FALSE, !.faults = {"worker"}]

\* One PV worker with more windows of V than entries, for the four ways of
\* loading V.
Evict(split, prefetch) == [Base EXCEPT !.jobs = 1, !.lanes = <<<<4>>>>, !.windows = 3,
                                       !.split = split, !.prefetch = prefetch]

\* Two QK workers that share one PV worker, or two.
Shared(split) == [Base EXCEPT !.jobs = 1, !.workers = <<<<2, 3>>>>, !.lanes = <<<<4>>>>, !.rows = 1,
                              !.split = split]
SharedDynamic == [Shared("broadcast") EXCEPT !.lanes = <<<<4, 5>>>>, !.dynamic = TRUE,
                                             !.windows = 1]

\* Two or three PV workers that ask for the same window; with three, the leader
\* sends it to one group, and one of them passes it on.
SameWindow == [Base EXCEPT !.jobs = 1, !.windows = 1]
Relay == [SameWindow EXCEPT !.lanes = <<<<4, 5, 6>>>>, !.rows = 3, !.groups = 1]

JobsConfigs ==
    {Bands, FaultyBands, Pair, PairOnce, Static, Dynamic, DynamicRows, FaultyDynamic,
     Three, FaultyThree,
     Evict("broadcast", TRUE), Evict("broadcast", FALSE), Evict("memory", TRUE),
     Evict("memory", FALSE), Shared("broadcast"), Shared("memory"), SharedDynamic,
     SameWindow, Relay}
=============================================================================
