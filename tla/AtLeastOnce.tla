---------------------------- MODULE AtLeastOnce ----------------------------
(***************************************************************************)
(* What a consumer group promises about its committed offsets, whatever    *)
(* its members do: they only grow, and they cover only messages that are   *)
(* done.  A member that fails leaves the rest to be delivered again.       *)
(***************************************************************************)
EXTENDS Integers

CONSTANTS
    Partitions,
    Message,    \* <<partition, offset>> pairs
    NoOffset    \* below every offset: nothing committed yet

VARIABLES
    produced,   \* partition -> messages it holds
    committed,  \* partition -> committed offset
    done        \* messages nobody has to look at again

Covered(p, offset) == {m \in Message : m[1] = p /\ m[2] < offset}

Init ==
    /\ produced = [p \in Partitions |-> 0]
    /\ committed = [p \in Partitions |-> NoOffset]
    /\ done = {}

Produce ==
    /\ \A p \in Partitions : produced[p] <= produced'[p]
    /\ UNCHANGED <<committed, done>>

\* Messages that were produced get done.
Finish ==
    /\ done \subseteq done'
    /\ \A m \in done' \ done : m[2] < produced[m[1]]
    /\ UNCHANGED <<produced, committed>>

\* Offsets move forward, over messages that are done (perhaps just now).
Advance ==
    /\ done \subseteq done'
    /\ \A m \in done' \ done : m[2] < produced[m[1]]
    /\ \A p \in Partitions :
        /\ committed[p] <= committed'[p]
        /\ Covered(p, committed'[p]) \subseteq done'
    /\ UNCHANGED produced

Next == Produce \/ Finish \/ Advance

Spec == Init /\ [][Next]_<<produced, committed, done>>
=============================================================================
