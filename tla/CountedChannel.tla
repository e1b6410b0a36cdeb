--------------------------- MODULE CountedChannel ---------------------------
(***************************************************************************)
(* What a best-effort channel promises that may drop messages and may      *)
(* deliver them again, but counts what it drops: nothing arrives that was  *)
(* not sent, nothing that it reported as dropped arrives later, and the    *)
(* count is the number of messages it has dropped.                         *)
(***************************************************************************)
EXTENDS Integers, FiniteSets

CONSTANT Messages

VARIABLES
    taken,    \* messages the channel has taken over
    arrived,  \* messages that have reached the other end
    gone,     \* messages it has given up
    count     \* what it says of their number

Init == taken = {} /\ arrived = {} /\ gone = {} /\ count = 0

Take(m) ==
    /\ m \notin taken
    /\ taken' = taken \cup {m}
    /\ UNCHANGED <<arrived, gone, count>>

Arrive(m) ==
    /\ m \in taken \ gone
    /\ arrived' = arrived \cup {m}
    /\ UNCHANGED <<taken, gone, count>>

\* A message may be given up after a copy has arrived unnoticed.
GiveUp(m) ==
    /\ m \in taken \ gone
    /\ gone' = gone \cup {m}
    /\ count' = count + 1
    /\ UNCHANGED <<taken, arrived>>

\* A message that finds no room is taken and given up at once.
Refuse(m) ==
    /\ m \notin taken
    /\ taken' = taken \cup {m} /\ gone' = gone \cup {m}
    /\ count' = count + 1
    /\ UNCHANGED arrived

Next == \E m \in Messages : Take(m) \/ Arrive(m) \/ GiveUp(m) \/ Refuse(m)

Spec == Init /\ [][Next]_<<taken, arrived, gone, count>>
=============================================================================
