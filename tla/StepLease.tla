------------------------------ MODULE StepLease ------------------------------
(***************************************************************************)
(* The lease protocol of canonical_execution_idempotency.py when acquire,  *)
(* complete and fail each commit on their own: the functions               *)
(* acquire_execution_step, complete_execution_step, fail_execution_step    *)
(* and run_idempotent_execution_step on the in-memory store.  Another      *)
(* worker may run between any two of these steps, a worker may die between *)
(* them, and a lease may lapse at any time.                                *)
(*                                                                         *)
(* complete and fail name the row by its key only: nothing checks that the *)
(* caller still holds the lease.                                           *)
(***************************************************************************)
EXTENDS IdempotencyRecord

CONSTANTS
  Workers,        \* threads or processes that call run_idempotent_execution_step
  Keys,           \* idempotency keys
  Contract,       \* Contract[k]: the operation contract every caller passes for k
  SideEffecting,  \* SideEffecting[k]: the flag every caller passes for k
  MaxAttempts     \* bound on the executions granted per key

ASSUME ContractAssumption ==
  /\ Keys # {}
  /\ Contract \in [Keys -> Contracts]
  /\ SideEffecting \in [Keys -> BOOLEAN]
  /\ \A k \in Keys : Contract[k] # RO => SideEffecting[k]
ASSUME MaxAttemptsAssumption == MaxAttempts \in Nat

VARIABLES
  row,        \* row[k]: the stored row
  grants,     \* grants[k]: executions granted so far
  lapsed,     \* lapsed[k]: grants 1..lapsed[k] are past their expiry time
  pc,         \* pc[w]: where the worker is in run_idempotent_execution_step
  key,        \* key[w]: the key it works on
  grant,      \* grant[w]: the number of its grant
  effects,    \* effects[k]: calls that reached the external system
  delivered   \* delivered[k]: executions whose result a caller was given

vars == <<row, grants, lapsed, pc, key, grant, effects, delivered>>

Init ==
  /\ row = [k \in Keys |-> NoRow]
  /\ grants = [k \in Keys |-> 0]
  /\ lapsed = [k \in Keys |-> 0]
  /\ pc = [w \in Workers |-> "idle"]
  /\ key = [w \in Workers |-> CHOOSE k \in Keys : TRUE]
  /\ grant = [w \in Workers |-> 0]
  /\ effects = [k \in Keys |-> 0]
  /\ delivered = [k \in Keys |-> {}]

Outcome(k) == ResolveAcquire(RowFor(row[k]), Contract[k], lapsed[k])

(* acquire with outcome EXECUTE: the row is marked running before the call *)
(* to the external system.                                                 *)
Acquire(w, k) ==
  /\ pc[w] = "idle"
  /\ Outcome(k) = "execute"
  /\ grants[k] < MaxAttempts
  /\ grants' = [grants EXCEPT ![k] = @ + 1]
  /\ row' = [row EXCEPT ![k] = GrantedRow(RowFor(@), grants[k] + 1)]
  /\ pc' = [pc EXCEPT ![w] = "executing"]
  /\ key' = [key EXCEPT ![w] = k]
  /\ grant' = [grant EXCEPT ![w] = grants[k] + 1]
  /\ UNCHANGED <<lapsed, effects, delivered>>

(* acquire with outcome REPLAY on a completed row gives the caller the     *)
(* stored result.  The other outcomes change nothing.                      *)
Replay(w, k) ==
  /\ pc[w] = "idle"
  /\ Outcome(k) = "replay"
  /\ row[k].status = "completed"
  /\ delivered' = [delivered EXCEPT ![k] = @ \cup {row[k].result}]
  /\ UNCHANGED <<row, grants, lapsed, pc, key, grant, effects>>

(* execute() returns: the external system has done the work.               *)
ExecuteReturns(w) ==
  /\ pc[w] = "executing"
  /\ effects' = [effects EXCEPT ![key[w]] = @ + 1]
  /\ pc' = [pc EXCEPT ![w] = "returned"]
  /\ UNCHANGED <<row, grants, lapsed, key, grant, delivered>>

(* execute() raises, before or after the external system did the work.     *)
ExecuteRaises(w) ==
  /\ pc[w] = "executing"
  /\ \E done \in {0, 1} : effects' = [effects EXCEPT ![key[w]] = @ + done]
  /\ pc' = [pc EXCEPT ![w] = "raised"]
  /\ UNCHANGED <<row, grants, lapsed, key, grant, delivered>>

(* Fault: the row is completed while the call is still being made.         *)
CompleteEarly(w) ==
  /\ pc[w] \in {"executing", "returned"}
  /\ row' = [row EXCEPT ![key[w]] = CompletedRow(grant[w])]
  /\ pc' = [pc EXCEPT ![w] = "idle"]
  /\ delivered' = [delivered EXCEPT ![key[w]] = @ \cup {grant[w]}]
  /\ UNCHANGED <<grants, lapsed, key, grant, effects>>

Complete(w) ==
  /\ pc[w] = "returned"
  /\ row' = [row EXCEPT ![key[w]] = CompletedRow(grant[w])]
  /\ pc' = [pc EXCEPT ![w] = "idle"]
  /\ delivered' = [delivered EXCEPT ![key[w]] = @ \cup {grant[w]}]
  /\ UNCHANGED <<grants, lapsed, key, grant, effects>>

Fail(w) ==
  /\ pc[w] = "raised"
  /\ row' = [row EXCEPT ![key[w]] =
               FailedRow(grant[w], FailStatus(SideEffecting[key[w]], Contract[key[w]]))]
  /\ pc' = [pc EXCEPT ![w] = "idle"]
  /\ UNCHANGED <<grants, lapsed, key, grant, effects, delivered>>

(* The worker dies and is restarted; the row keeps whatever was committed. *)
(* A call that was in flight may have reached the external system.         *)
Crash(w) ==
  /\ pc[w] # "idle"
  /\ \E done \in IF pc[w] = "executing" THEN {0, 1} ELSE {0} :
       effects' = [effects EXCEPT ![key[w]] = @ + done]
  /\ pc' = [pc EXCEPT ![w] = "idle"]
  /\ UNCHANGED <<row, grants, lapsed, key, grant, delivered>>

(* Time passes: every lease has the same length, so they lapse in order.   *)
LeaseLapses(k) ==
  /\ lapsed[k] < grants[k]
  /\ lapsed' = [lapsed EXCEPT ![k] = @ + 1]
  /\ UNCHANGED <<row, grants, pc, key, grant, effects, delivered>>

Next ==
  \/ \E w \in Workers, k \in Keys : Acquire(w, k) \/ Replay(w, k)
  \/ \E w \in Workers : \/ ExecuteReturns(w) \/ ExecuteRaises(w)
                        \/ Complete(w) \/ Fail(w) \/ Crash(w)
  \/ \E k \in Keys : LeaseLapses(k)

Spec == Init /\ [][Next]_vars

-----------------------------------------------------------------------------
TypeOK ==
  /\ row \in [Keys -> Record]
  /\ grants \in [Keys -> Nat]
  /\ lapsed \in [Keys -> Nat]
  /\ pc \in [Workers -> {"idle", "executing", "returned", "raised"}]
  /\ key \in [Workers -> Keys]
  /\ grant \in [Workers -> Nat]
  /\ effects \in [Keys -> Nat]
  /\ delivered \in [Keys -> SUBSET Nat]

(* An operation whose contract gives no way to repeat it safely reaches    *)
(* the external system at most once, whatever crashes, lapses or raises    *)
(* (plan item 20: "at most one side effect"; _resolve_acquire).            *)
UnstableAtMostOnce ==
  \A k \in Keys : Contract[k] = Unstable => effects[k] <= 1

(* An operation without stable idempotency whose call was made and whose   *)
(* result was not stored is never handed out again: the caller is told to  *)
(* reconcile, or that the call is still in progress.                       *)
UncertainNotExecutable ==
  \A k \in Keys :
    (Contract[k] = Unstable /\ grants[k] > 0) => Outcome(k) # "execute"

(* A stored success is the result of a call that really was made: no       *)
(* schedule of crashes and stale writers makes a replay report work that   *)
(* was never done.                                                         *)
NoFalseSuccess ==
  \A k \in Keys :
    row[k].status = "completed" => effects[k] > 0

(* Under that contract callers are promised the same without a transaction *)
(* around the call as with one: the key settles on one result, which every *)
(* caller that is given one is given, although a lease may lapse under its *)
(* worker and complete does not ask who holds it.  Keys of the other       *)
(* contracts are promised nothing: a stale worker overwrites their result. *)
UnstableKeys == {k \in Keys : Contract[k] = Unstable}

Stored(k) == IF row[k].status = "completed" THEN row[k].result ELSE 0

Promise == INSTANCE SingleOutcome WITH
             Operations <- UnstableKeys, Results <- 1..MaxAttempts, Unsettled <- 0,
             outcome <- [k \in UnstableKeys |-> Stored(k)],
             seen <- [k \in UnstableKeys |-> delivered[k]]

UnstablePromiseSpec == Promise!Spec
=============================================================================
