------------------------------- MODULE StepRun -------------------------------
(***************************************************************************)
(* run_idempotent_execution_step on Postgres: acquire, execute() and       *)
(* complete or fail run inside ONE unit of work (run_in_canonical_unit_of_ *)
(* work), so the row another caller sees changes only at the commit.       *)
(*                                                                         *)
(*  - INSERT ... ON CONFLICT and SELECT ... FOR UPDATE make a second call  *)
(*    on the key wait until the first transaction ends;                    *)
(*  - an exception that leaves the unit of work rolls it back, and the     *)
(*    except branch re-raises after fail_step_execution;                   *)
(*  - the caller waits 30 s for the coroutine and may give up while the    *)
(*    coroutine goes on.                                                   *)
(*                                                                         *)
(* A worker stands for one call in flight, in any backend process.         *)
(***************************************************************************)
EXTENDS IdempotencyRecord

CONSTANTS
  Workers, Keys, Contract, SideEffecting,
  MaxAttempts     \* bound on the executions started per key

ASSUME StepRunAssumption ==
  /\ Keys # {}
  /\ Contract \in [Keys -> Contracts]
  /\ SideEffecting \in [Keys -> BOOLEAN]
  /\ MaxAttempts \in Nat

VARIABLES
  table,      \* table[k]: the committed row
  txn,        \* txn[w]: the row as the open transaction of w has written it
  pc, key,
  attempts,   \* attempts[k]: executions started
  attempt,    \* attempt[w]: the number of the execution w runs
  effects,    \* effects[k]: calls that reached the external system
  delivered,  \* delivered[k]: executions whose result a caller was given
  abandoned   \* abandoned[w]: the caller of w has stopped waiting

vars == <<table, txn, pc, key, attempts, attempt, effects, delivered, abandoned>>

Init ==
  /\ table = [k \in Keys |-> NoRow]
  /\ txn = [w \in Workers |-> NoRow]
  /\ pc = [w \in Workers |-> "idle"]
  /\ key \in [Workers -> Keys]
  /\ attempts = [k \in Keys |-> 0]
  /\ attempt = [w \in Workers |-> 0]
  /\ effects = [k \in Keys |-> 0]
  /\ delivered = [k \in Keys |-> {}]
  /\ abandoned = [w \in Workers |-> FALSE]

(* The row lock (or the uncommitted unique entry) of k is held.            *)
InTransaction(w) == pc[w] \in {"executing", "committing", "raising"}
(* Fault: the row is read without FOR UPDATE.                              *)
NeverLocked(k) == FALSE

Locked(k) == \E w \in Workers : InTransaction(w) /\ key[w] = k

(* The clock is read once; grants up to the chosen number have lapsed.     *)
OutcomeAt(k, lapsed) == ResolveAcquire(RowFor(table[k]), Contract[k], lapsed)

Give(w, k, n) ==
  delivered' = IF abandoned[w] THEN delivered
               ELSE [delivered EXCEPT ![k] = @ \cup {n}]

(* The call ends; w is free for another one.                               *)
End(w) ==
  /\ pc' = [pc EXCEPT ![w] = "idle"]
  /\ txn' = [txn EXCEPT ![w] = NoRow]
  /\ abandoned' = [abandoned EXCEPT ![w] = FALSE]
  /\ UNCHANGED <<key, attempts, attempt>>

Call(w, k) ==
  /\ pc[w] = "idle"
  /\ pc' = [pc EXCEPT ![w] = "waiting"]
  /\ key' = [key EXCEPT ![w] = k]
  /\ UNCHANGED <<table, txn, attempts, attempt, effects, delivered, abandoned>>

AcquireGranted(w) ==
  LET k == key[w] IN
  /\ pc[w] = "waiting"
  /\ ~Locked(k)
  /\ \E lapsed \in 0..attempts[k] : OutcomeAt(k, lapsed) = "execute"
  /\ attempts[k] < MaxAttempts
  /\ attempts' = [attempts EXCEPT ![k] = @ + 1]
  /\ attempt' = [attempt EXCEPT ![w] = attempts[k] + 1]
  /\ txn' = [txn EXCEPT ![w] = GrantedRow(RowFor(table[k]), attempts[k] + 1)]
  /\ pc' = [pc EXCEPT ![w] = "executing"]
  /\ UNCHANGED <<table, key, effects, delivered, abandoned>>

(* Every other outcome returns at once: a replay with the stored result.   *)
AcquireReturns(w) ==
  LET k == key[w] IN
  /\ pc[w] = "waiting"
  /\ ~Locked(k)
  /\ \E lapsed \in 0..attempts[k] :
       /\ OutcomeAt(k, lapsed) # "execute"
       /\ IF OutcomeAt(k, lapsed) = "replay" /\ table[k].status = "completed"
          THEN Give(w, k, table[k].result)
          ELSE UNCHANGED delivered
  /\ End(w)
  /\ UNCHANGED <<table, effects>>

(* command_timeout: waiting for the other transaction took too long.       *)
LockTimeout(w) ==
  /\ pc[w] = "waiting"
  /\ Locked(key[w])
  /\ End(w)
  /\ UNCHANGED <<table, effects, delivered>>

(* execute() returns and complete_step_execution updates the row.          *)
ExecuteReturns(w) ==
  /\ pc[w] = "executing"
  /\ effects' = [effects EXCEPT ![key[w]] = @ + 1]
  /\ txn' = [txn EXCEPT ![w] = CompletedRow(attempt[w])]
  /\ pc' = [pc EXCEPT ![w] = "committing"]
  /\ UNCHANGED <<table, key, attempts, attempt, delivered, abandoned>>

(* Fault: an error is stored as the result of the step.                    *)
RaiseSwallowed(w) ==
  /\ pc[w] = "executing"
  /\ \E done \in {0, 1} : effects' = [effects EXCEPT ![key[w]] = @ + done]
  /\ txn' = [txn EXCEPT ![w] = CompletedRow(attempt[w])]
  /\ pc' = [pc EXCEPT ![w] = "committing"]
  /\ UNCHANGED <<table, key, attempts, attempt, delivered, abandoned>>

(* execute() raises, before or after the external system did the work, and *)
(* fail_step_execution updates the row.                                    *)
ExecuteRaises(w) ==
  LET k == key[w] IN
  /\ pc[w] = "executing"
  /\ \E done \in {0, 1} : effects' = [effects EXCEPT ![k] = @ + done]
  /\ txn' = [txn EXCEPT ![w] =
               FailedRow(attempt[w], FailStatus(SideEffecting[k], Contract[k]))]
  /\ pc' = [pc EXCEPT ![w] = "raising"]
  /\ UNCHANGED <<table, key, attempts, attempt, delivered, abandoned>>

Commit(w) ==
  /\ pc[w] = "committing"
  /\ table' = [table EXCEPT ![key[w]] = txn[w]]
  /\ Give(w, key[w], attempt[w])
  /\ End(w)
  /\ UNCHANGED <<effects>>

(* Fault: the transaction of a call that raised is left open.              *)
LeftOpen(w) == pc[w] = "raising" /\ UNCHANGED vars

(* The re-raised exception leaves conn.transaction(): the update of        *)
(* fail_step_execution is undone with the rest.                            *)
RollbackOnRaise(w) ==
  /\ pc[w] = "raising"
  /\ End(w)
  /\ UNCHANGED <<table, effects, delivered>>

(* The connection is lost at the update or at the commit.                  *)
CommitFails(w) ==
  /\ pc[w] = "committing"
  /\ End(w)
  /\ UNCHANGED <<table, effects, delivered>>

(* The process dies; Postgres rolls the transaction back.                  *)
Crash(w) ==
  /\ pc[w] # "idle"
  /\ \E done \in IF pc[w] = "executing" THEN {0, 1} ELSE {0} :
       effects' = [effects EXCEPT ![key[w]] = @ + done]
  /\ End(w)
  /\ UNCHANGED <<table, delivered>>

(* future.result(timeout=30) expires; the coroutine is not cancelled.      *)
CallerGivesUp(w) ==
  /\ pc[w] # "idle"
  /\ ~abandoned[w]
  /\ abandoned' = [abandoned EXCEPT ![w] = TRUE]
  /\ UNCHANGED <<table, txn, pc, key, attempts, attempt, effects, delivered>>

Step(w) ==
  \/ AcquireGranted(w) \/ AcquireReturns(w) \/ LockTimeout(w)
  \/ ExecuteReturns(w) \/ ExecuteRaises(w)
  \/ Commit(w) \/ RollbackOnRaise(w) \/ CommitFails(w)

Next ==
  \E w \in Workers : \/ Step(w) \/ Crash(w) \/ CallerGivesUp(w)
                     \/ \E k \in Keys : Call(w, k)

Spec == Init /\ [][Next]_vars

(* A running backend process keeps executing its coroutines, Postgres      *)
(* answers or the command times out, and the connector returns or raises.  *)
Fairness == \A w \in Workers : WF_vars(Step(w))
FairSpec == Spec /\ Fairness

-----------------------------------------------------------------------------
TypeOK ==
  /\ table \in [Keys -> Record]
  /\ txn \in [Workers -> Record]
  /\ pc \in [Workers -> {"idle", "waiting", "executing", "committing", "raising"}]
  /\ key \in [Workers -> Keys]
  /\ attempts \in [Keys -> 0..MaxAttempts]
  /\ attempt \in [Workers -> 0..MaxAttempts]
  /\ effects \in [Keys -> Nat]
  /\ delivered \in [Keys -> SUBSET (1..MaxAttempts)]
  /\ abandoned \in [Workers -> BOOLEAN]

(* What callers are given implements SingleOutcome: the committed result   *)
(* of a key is written once, and every EXECUTE or REPLAY answer is that    *)
(* result, although callers time out, workers crash and commits fail.      *)
Promise == INSTANCE SingleOutcome WITH
             Operations <- Keys, Results <- 1..MaxAttempts, Unsettled <- 0,
             outcome <- [k \in Keys |-> table[k].result], seen <- delivered

PromiseSpec == Promise!Spec

(* Once a result is committed, no call reaches the external system for the *)
(* key again, not even one that was already waiting (replay instead of     *)
(* execute, acquire_step_for_execution).                                   *)
NoEffectAfterCompletion ==
  [][\A k \in Keys : table[k].status = "completed" => effects'[k] = effects[k]]_vars

(* A committed result belongs to a call that did reach the external system.*)
SettledWasExecuted ==
  \A k \in Keys : table[k].status = "completed" => effects[k] > 0

(* Every call comes back, to its caller or to nobody: a lock is released   *)
(* or the wait for it times out.                                           *)
EveryCallReturns ==
  \A w \in Workers :
    pc[w] # "idle" ~> (pc[w] = "idle" \/ attempts[key[w]] = MaxAttempts)

(* "A committed ResourcePlan step can produce at most one side effect", for*)
(* the operations whose contract offers no other protection.               *)
AtMostOneSideEffect ==
  \A k \in Keys : Contract[k] = Unstable => effects[k] <= 1
=============================================================================
