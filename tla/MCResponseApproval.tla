------------------------- MODULE MCResponseApproval -------------------------
(***************************************************************************)
(* Small instances of ResponseApproval for TLC.                            *)
(***************************************************************************)
EXTENDS ResponseApproval, TLC

\* Keys, users and calls are symmetric in the specification.
Symmetry == Permutations(Keys) \cup Permutations(Users) \cup Permutations(Calls)
=============================================================================
