--------------------------- MODULE NodeAdmission ----------------------------
(***************************************************************************)
(* What the group controller promises the cores of a group, with no        *)
(* manager, mailbox or message in sight: a core uses at most one memory    *)
(* node at a time, a node is used by at most Capacity cores at a time, and *)
(* a core is told that the group is done only after every core finished.   *)
(***************************************************************************)
EXTENDS Integers, FiniteSets

CONSTANTS Workers, Nodes, Capacity

\* The value of "using" for a core that uses no node.
NoNode == -1

VARIABLES
    using,     \* the node each core reads from, or NoNode
    stopped,   \* the cores that have finished
    told       \* the cores that know the group is done

vars == <<using, stopped, told>>

Users(n) == {w \in Workers : using[w] = n}

Init ==
    /\ using = [w \in Workers |-> NoNode]
    /\ stopped = {}
    /\ told = {}

\* Core w is admitted to node n.
Acquire(w, n) ==
    /\ using[w] = NoNode
    /\ w \notin stopped
    /\ Cardinality(Users(n)) < Capacity
    /\ using' = [using EXCEPT ![w] = n]
    /\ UNCHANGED <<stopped, told>>

\* Core w has read its batch.
Release(w) ==
    /\ using[w] # NoNode
    /\ using' = [using EXCEPT ![w] = NoNode]
    /\ UNCHANGED <<stopped, told>>

\* Core w has no more batches.
Stop(w) ==
    /\ using[w] = NoNode
    /\ stopped' = stopped \cup {w}
    /\ UNCHANGED <<using, told>>

\* Core w learns that the whole group has finished.
Tell(w) ==
    /\ stopped = Workers
    /\ told' = told \cup {w}
    /\ UNCHANGED <<using, stopped>>

Next ==
    \E w \in Workers :
        \/ \E n \in Nodes : Acquire(w, n)
        \/ Release(w)
        \/ Stop(w)
        \/ Tell(w)

Spec == Init /\ [][Next]_vars
=============================================================================
