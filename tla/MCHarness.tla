----------------------------- MODULE MCHarness -----------------------------
(* Instances of Harness that TLC checks. *)
EXTENDS Harness, TLC

Processes == Permutations(Workers) \cup Permutations(Deliveries)
=============================================================================
