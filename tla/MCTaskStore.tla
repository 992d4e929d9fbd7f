----------------------------- MODULE MCTaskStore -----------------------------
(* Instances of TaskStore for TLC. *)
EXTENDS TaskStore, TLC

\* Tasks, command ids and outputs are interchangeable in TaskStore.
Symmetry ==
  Permutations(Tasks) \cup Permutations(CommandIds) \cup Permutations(Outputs)

=============================================================================
