---------------------------- MODULE MCEffectLedger ----------------------------
(* Instances of EffectLedger for TLC. *)
EXTENDS EffectLedger, TLC

\* Executions, requests and results are interchangeable in EffectLedger.
Symmetry ==
  Permutations(Executions) \cup Permutations(Requests) \cup Permutations(Results)

=============================================================================
