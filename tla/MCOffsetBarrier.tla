-------------------------- MODULE MCOffsetBarrier --------------------------
(***************************************************************************)
(* Small instances of OffsetBarrier for TLC.                               *)
(***************************************************************************)
EXTENDS OffsetBarrier, TLC

CONSTANTS p1, p2

\* One partition: a round can start once offset 1 is processed, with a row of
\* another table still to come; one flush may send both tables.
OnePartition == {p1}
RecordThenRows == p1 :> <<"record", "ebpf", "heartbeat">>

\* Two partitions, claimed together or apart.
TwoPartitions == {p1, p2}
TwoLogs == p1 :> <<"unknown", "ebpf">> @@ p2 :> <<"memory", "fim">>
AnyAssignment == {{p1}, {p1, p2}}
WholeAssignment == {Partitions}
\* A row behind an offset that can be committed.
OneRow == p1 :> <<"record", "ebpf">>
=============================================================================
