----------------------------- MODULE MCScanTask -----------------------------
(***************************************************************************)
(* Small instances of ScanTask for TLC.                                    *)
(***************************************************************************)
EXTENDS ScanTask, TLC

\* Every set of processes is symmetric in the specification.
Symmetry == Permutations(Hosts) \cup Permutations(Dispatchers)
            \cup Permutations(Timers) \cup Permutations(Users)
=============================================================================
