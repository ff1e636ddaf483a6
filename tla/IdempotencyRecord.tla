-------------------------- MODULE IdempotencyRecord --------------------------
(***************************************************************************)
(* One row of the table canonical_execution_idempotency and the decisions  *)
(* canonical_execution_idempotency.py takes on it.  A row belongs to one   *)
(* idempotency key (plan, handoff, version, step, operation).              *)
(*                                                                         *)
(* The executions of one key are numbered 1, 2, ... in the order in which  *)
(* they are granted.  lease_owner and lease_expires_at are written as a    *)
(* pair and cleared as a pair: the field "lease" holds the number of the   *)
(* grant that wrote them, 0 standing for NULL.  "result" holds the number  *)
(* of the execution whose result (or error) the row stores, 0 for {}.      *)
(* Rows of a key whose contract is Stable always carry the downstream key, *)
(* because the insert derives it from the key itself; it is not a field.   *)
(***************************************************************************)
EXTENDS Naturals

RO       == "read_only_retryable"
Stable   == "side_effecting_with_stable_idempotency"
Unstable == "side_effecting_without_stable_idempotency"

Contracts == {RO, Stable, Unstable}

Statuses == {"pending", "running", "completed",
             "failed_retryable", "failed_terminal", "execution_uncertain"}

Outcomes == {"execute", "replay", "in_progress", "requires_reconciliation"}

Record == [status : Statuses \cup {"absent"}, lease : Nat, result : Nat]

(* The key has no row in the table.                                        *)
NoRow == [status |-> "absent", lease |-> 0, result |-> 0]

PendingRow == [status |-> "pending", lease |-> 0, result |-> 0]

(* The row an INSERT ... ON CONFLICT DO NOTHING leaves to look at.         *)
RowFor(row) == IF row = NoRow THEN PendingRow ELSE row

(* Grants 1..lapsed of the key have an expiry time in the past; a NULL     *)
(* expiry counts as expired.                                               *)
LeaseExpired(rec, lapsed) == rec.lease <= lapsed

(* Fault: the contract of the operation is not looked at.                  *)
ExecutableUnderAnyContract(rec, contract, lapsed) ==
  \/ rec.status \in {"pending", "failed_retryable"}
  \/ rec.status = "running" /\ LeaseExpired(rec, lapsed)

(* A row that may be handed out for (another) execution.                   *)
Executable(rec, contract, lapsed) ==
  \/ rec.status = "pending"
  \/ rec.status = "running" /\ LeaseExpired(rec, lapsed) /\ contract # Unstable
  \/ rec.status = "failed_retryable" /\ contract # Unstable

(* Fault: a completed row is executed again.                               *)
ResolveWithoutReplay(rec, contract, lapsed) ==
  IF rec.status = "running" /\ ~LeaseExpired(rec, lapsed) THEN "in_progress"
  ELSE IF rec.status \in {"failed_terminal", "execution_uncertain"} THEN "requires_reconciliation"
  ELSE "execute"

ResolveAcquire(rec, contract, lapsed) ==
  IF rec.status \in {"completed", "failed_terminal"} THEN "replay"
  ELSE IF rec.status = "running" /\ ~LeaseExpired(rec, lapsed) THEN "in_progress"
  ELSE IF Executable(rec, contract, lapsed) THEN "execute"
  ELSE "requires_reconciliation"

(* Fault: the row gets the status of the first schema, "started".          *)
StartedRow(rec, grant) == [rec EXCEPT !.status = "started", !.lease = grant]

GrantedRow(rec, grant) == [rec EXCEPT !.status = "running", !.lease = grant]

CompletedRow(n) == [status |-> "completed", lease |-> 0, result |-> n]

(* Fault: a failed row is reset so that it can be tried again.             *)
ResetOnFailure(sideEffecting, contract) == "pending"

(* The status run_idempotent_execution_step stores when execute() raises.  *)
FailStatus(sideEffecting, contract) ==
  IF sideEffecting /\ contract = Unstable THEN "execution_uncertain"
  ELSE IF sideEffecting THEN "failed_terminal"
  ELSE "failed_retryable"

FailedRow(n, status) == [status |-> status, lease |-> 0, result |-> n]
=============================================================================
