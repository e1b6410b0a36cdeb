--------------------------- MODULE MCPluginTasks ---------------------------
(***************************************************************************)
(* Small instances of PluginTasks for TLC.                                 *)
(***************************************************************************)
EXTENDS PluginTasks, TLC

\* The slots are symmetric in the specification.
Symmetry == Permutations(Slots)
=============================================================================
