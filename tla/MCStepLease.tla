---------------------------- MODULE MCStepLease ----------------------------
(* Three keys, one per contract, so that every branch of _resolve_acquire  *)
(* is reached; the read-only key is called with side_effecting = FALSE as  *)
(* guided_hybrid_collection.py does.                                       *)
EXTENDS StepLease, TLC

CONSTANTS kRead, kStable, kUnstable

MCContract ==
  [k \in Keys |-> CASE k = kRead -> RO [] k = kStable -> Stable [] OTHER -> Unstable]

MCSideEffecting == [k \in Keys |-> k # kRead]

WorkerSymmetry == Permutations(Workers)
=============================================================================
