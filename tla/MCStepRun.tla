------------------------------ MODULE MCStepRun ------------------------------
(* One key of the contract that offers least: a side-effecting operation   *)
(* the external system cannot deduplicate.                                 *)
EXTENDS StepRun

MCContract == [k \in Keys |-> Unstable]
MCSideEffecting == [k \in Keys |-> TRUE]
=============================================================================
