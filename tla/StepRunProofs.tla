---------------------------- MODULE StepRunProofs ----------------------------
(***************************************************************************)
(* For any number of calls, keys and attempts, the unit of work of         *)
(* run_idempotent_execution_step makes the replay keep its promise.        *)
(*                                                                         *)
(* Type correctness is not inductive (what a caller is given comes from    *)
(* the table), nor is any property alone.  The strengthening says what the *)
(* row lock gives: a transaction excludes every other one on its key, the  *)
(* committed row it has read cannot change under it, and it will commit a  *)
(* completed row or nothing.                                               *)
(***************************************************************************)
EXTENDS StepRun, TLAPS

(* One transaction per key.                                                *)
RowLockExcludes ==
  \A v, w \in Workers :
    InTransaction(v) /\ InTransaction(w) /\ key[v] = key[w] => v = w

(* A committed row is the completed row of an execution that was made:     *)
(* pending, running, failed and uncertain rows are never seen by another   *)
(* transaction.                                                            *)
CommittedRows ==
  \A k \in Keys :
    \/ table[k] = NoRow
    \/ /\ \E n \in 1..MaxAttempts : table[k] = CompletedRow(n)
       /\ effects[k] > 0

(* A transaction runs an execution of a key that has no committed row.     *)
OpenTransactions ==
  \A w \in Workers : InTransaction(w) =>
    /\ table[key[w]] = NoRow
    /\ attempt[w] \in 1..MaxAttempts

(* What is about to be committed.                                          *)
PendingCommits ==
  \A w \in Workers : pc[w] = "committing" =>
    txn[w] = CompletedRow(attempt[w]) /\ effects[key[w]] > 0

(* Callers were given what the table holds.                                *)
GivenIsCommitted ==
  \A k \in Keys : \A n \in delivered[k] : table[k] = CompletedRow(n)

IInv ==
  /\ TypeOK
  /\ RowLockExcludes
  /\ CommittedRows
  /\ OpenTransactions
  /\ PendingCommits
  /\ GivenIsCommitted
-----------------------------------------------------------------------------
(* The rows this path writes are records of the table, and a completed row *)
(* differs from none.                                                      *)
LEMMA RowFacts ==
  /\ NoRow \in Record
  /\ \A n \in Nat : CompletedRow(n) \in Record /\ CompletedRow(n) # NoRow
  /\ \A n \in Nat : GrantedRow(RowFor(NoRow), n) \in Record
  /\ \A n \in Nat, s \in BOOLEAN, c \in Contracts : FailedRow(n, FailStatus(s, c)) \in Record
BY DEF NoRow, Record, Statuses, CompletedRow, GrantedRow, RowFor, PendingRow,
       FailedRow, FailStatus, Contracts, RO, Stable, Unstable

(* A completed row is replayed, whatever the contract and the clock.       *)
LEMMA CompletedIsReplayed ==
  ASSUME NEW n, NEW contract, NEW lapsed
  PROVE  ResolveAcquire(RowFor(CompletedRow(n)), contract, lapsed) = "replay"
BY DEF ResolveAcquire, RowFor, CompletedRow, NoRow

(* The initial states satisfy the invariant.                               *)
LEMMA InitInv == Init => IInv
<1> SUFFICES ASSUME Init PROVE IInv
  OBVIOUS
<1>1. TypeOK
  BY RowFacts, StepRunAssumption DEF Init, TypeOK
<1>2. RowLockExcludes /\ OpenTransactions /\ PendingCommits
  BY DEF Init, RowLockExcludes, OpenTransactions, PendingCommits, InTransaction
<1>3. CommittedRows /\ GivenIsCommitted
  BY DEF Init, CommittedRows, GivenIsCommitted
<1> QED
  BY <1>1, <1>2, <1>3 DEF IInv

(* What the end of a call does to the workers: the other transactions stay *)
(* as they are.                                                            *)
LEMMA EndFacts ==
  ASSUME IInv, NEW w \in Workers, End(w)
  PROVE  /\ pc' \in [Workers -> {"idle", "waiting", "executing", "committing", "raising"}]
         /\ txn' \in [Workers -> Record]
         /\ abandoned' \in [Workers -> BOOLEAN]
         /\ key' = key /\ attempts' = attempts /\ attempt' = attempt
         /\ ~InTransaction(w)'
         /\ \A v \in Workers : v # w =>
              pc'[v] = pc[v] /\ txn'[v] = txn[v] /\ InTransaction(v)' = InTransaction(v)
<1> USE DEF IInv, TypeOK, End
<1>1. pc' \in [Workers -> {"idle", "waiting", "executing", "committing", "raising"}]
  OBVIOUS
<1>2. txn' \in [Workers -> Record]
  BY RowFacts
<1>3. abandoned' \in [Workers -> BOOLEAN]
  OBVIOUS
<1>4. pc'[w] = "idle" /\ \A v \in Workers : v # w => pc'[v] = pc[v] /\ txn'[v] = txn[v]
  OBVIOUS
<1> QED
  BY <1>1, <1>2, <1>3, <1>4 DEF InTransaction

(* A call that ends without writing the table, and without adding to what  *)
(* callers were given, preserves the invariant; the external system may    *)
(* have done its work.                                                     *)
LEMMA EndPreserves ==
  ASSUME IInv, NEW w \in Workers, End(w), table' = table, delivered' = delivered,
         NEW done \in {0, 1}, effects' = [effects EXCEPT ![key[w]] = @ + done]
  PROVE  IInv'
<1> USE EndFacts
<1>0. \A k \in Keys : effects'[k] \in Nat /\ effects'[k] >= effects[k]
  BY DEF IInv, TypeOK
<1>1. TypeOK'
  BY DEF IInv, TypeOK
<1>2. RowLockExcludes'
  BY DEF IInv, RowLockExcludes
<1>3. CommittedRows'
  <2> SUFFICES ASSUME NEW k \in Keys, table[k] # NoRow PROVE effects'[k] > 0
    BY DEF IInv, CommittedRows
  <2> QED
    BY <1>0 DEF IInv, TypeOK, CommittedRows
<1>4. OpenTransactions'
  BY DEF IInv, OpenTransactions
<1>5. PendingCommits'
  <2> SUFFICES ASSUME NEW v \in Workers, pc'[v] = "committing"
               PROVE  txn'[v] = CompletedRow(attempt[v]) /\ effects'[key[v]] > 0
    BY DEF PendingCommits
  <2>1. v # w
    BY DEF InTransaction
  <2>2. txn[v] = CompletedRow(attempt[v]) /\ effects[key[v]] > 0 /\ key[v] \in Keys
    BY <2>1 DEF IInv, TypeOK, PendingCommits
  <2> QED
    BY <1>0, <2>1, <2>2 DEF IInv, TypeOK
<1>6. GivenIsCommitted'
  BY DEF IInv, GivenIsCommitted
<1> QED
  BY <1>1, <1>2, <1>3, <1>4, <1>5, <1>6 DEF IInv

(* A call only joins the queue for the row.                                *)
LEMMA CallPreserves ==
  ASSUME IInv, NEW w \in Workers, NEW k \in Keys, Call(w, k)
  PROVE  IInv'
<1> USE DEF Call
<1>1. \A v \in Workers : InTransaction(v)' = InTransaction(v)
                         /\ (InTransaction(v) => key'[v] = key[v])
                         /\ (pc'[v] = "committing" => pc[v] = "committing" /\ key'[v] = key[v])
  BY DEF InTransaction, IInv, TypeOK
<1>2. TypeOK'
  BY DEF IInv, TypeOK
<1>3. RowLockExcludes' /\ OpenTransactions' /\ PendingCommits'
  BY <1>1 DEF IInv, RowLockExcludes, OpenTransactions, PendingCommits
<1>4. CommittedRows' /\ GivenIsCommitted'
  BY DEF IInv, CommittedRows, GivenIsCommitted
<1> QED
  BY <1>2, <1>3, <1>4 DEF IInv

(* An execution is granted only on a key without a committed row, and only *)
(* when no other transaction holds it.                                     *)
LEMMA AcquireGrantedPreserves ==
  ASSUME IInv, NEW w \in Workers, AcquireGranted(w)
  PROVE  IInv'
<1> DEFINE k == key[w]
           n == attempts[k] + 1
<1>1. k \in Keys /\ n \in 1..MaxAttempts
  BY StepRunAssumption DEF IInv, TypeOK, AcquireGranted
<1>2. table[k] = NoRow
  <2> SUFFICES ASSUME NEW m \in 1..MaxAttempts, table[k] = CompletedRow(m) PROVE FALSE
    BY <1>1 DEF IInv, CommittedRows
  <2>1. \A lapsed : OutcomeAt(k, lapsed) = "replay"
    BY CompletedIsReplayed DEF OutcomeAt
  <2> QED
    BY <2>1 DEF AcquireGranted
<1>3. pc'[w] = "executing" /\ attempt'[w] = n /\ key' = key
      /\ \A v \in Workers : v # w =>
            pc'[v] = pc[v] /\ txn'[v] = txn[v] /\ attempt'[v] = attempt[v]
  BY DEF AcquireGranted, IInv, TypeOK
<1>4. \A v \in Workers : InTransaction(v) => key[v] # k
  BY DEF AcquireGranted, Locked
<1>5. TypeOK'
  <2>1. txn' \in [Workers -> Record]
    BY <1>1, <1>2, RowFacts DEF AcquireGranted, IInv, TypeOK
  <2> QED
    BY <1>1, <2>1 DEF AcquireGranted, IInv, TypeOK
<1>6. RowLockExcludes'
  BY <1>3, <1>4 DEF IInv, RowLockExcludes, InTransaction
<1>7. OpenTransactions'
  BY <1>1, <1>2, <1>3 DEF IInv, OpenTransactions, InTransaction, AcquireGranted
<1>8. PendingCommits'
  BY <1>3 DEF IInv, PendingCommits, AcquireGranted
<1>9. CommittedRows' /\ GivenIsCommitted'
  BY DEF AcquireGranted, IInv, CommittedRows, GivenIsCommitted
<1> QED
  BY <1>5, <1>6, <1>7, <1>8, <1>9 DEF IInv

(* What a caller is given when nothing is executed is the committed result.*)
LEMMA AcquireReturnsPreserves ==
  ASSUME IInv, NEW w \in Workers, AcquireReturns(w)
  PROVE  IInv'
<1> DEFINE k == key[w]
<1> USE EndFacts
<1>0. End(w) /\ table' = table /\ effects' = effects /\ k \in Keys
  BY DEF AcquireReturns, IInv, TypeOK
<1>1. CASE delivered' = delivered
  <2>1. effects' = [effects EXCEPT ![key[w]] = @ + 0]
    BY <1>0 DEF IInv, TypeOK
  <2> QED
    BY <1>0, <1>1, <2>1, EndPreserves
<1>2. CASE delivered' # delivered
  <2>1. PICK m \in 1..MaxAttempts : table[k] = CompletedRow(m)
    BY <1>0, <1>2, StepRunAssumption DEF AcquireReturns, IInv, CommittedRows, NoRow
  <2>2. table[k].result = m
    BY <2>1 DEF CompletedRow
  <2>3. delivered' = [delivered EXCEPT ![k] = @ \cup {m}]
    BY <1>2, <2>2 DEF AcquireReturns, Give
  <2>4. TypeOK'
    BY <1>0, <2>3 DEF IInv, TypeOK
  <2>5. GivenIsCommitted'
    BY <1>0, <2>1, <2>3 DEF IInv, GivenIsCommitted, TypeOK
  <2>6. RowLockExcludes' /\ OpenTransactions' /\ CommittedRows'
    BY <1>0 DEF IInv, RowLockExcludes, OpenTransactions, CommittedRows
  <2>7. PendingCommits'
    BY <1>0 DEF IInv, PendingCommits, InTransaction
  <2> QED
    BY <2>4, <2>5, <2>6, <2>7 DEF IInv
<1> QED
  BY <1>1, <1>2

(* execute() returned: its transaction is about to commit a completed row. *)
LEMMA ExecuteReturnsPreserves ==
  ASSUME IInv, NEW w \in Workers, ExecuteReturns(w)
  PROVE  IInv'
<1> USE DEF ExecuteReturns
<1>1. key[w] \in Keys /\ table[key[w]] = NoRow /\ attempt[w] \in 1..MaxAttempts
  BY DEF IInv, TypeOK, OpenTransactions, InTransaction
<1>2. \A v \in Workers : InTransaction(v)' = InTransaction(v)
  BY DEF IInv, TypeOK, InTransaction
<1>3. \A k \in Keys : effects'[k] \in Nat /\ effects'[k] >= effects[k]
  BY <1>1 DEF IInv, TypeOK
<1>4. TypeOK'
  BY <1>1, RowFacts DEF IInv, TypeOK
<1>5. RowLockExcludes' /\ OpenTransactions'
  BY <1>2 DEF IInv, RowLockExcludes, OpenTransactions
<1>6. CommittedRows'
  <2> SUFFICES ASSUME NEW k \in Keys, table[k] # NoRow PROVE effects'[k] > 0
    BY DEF IInv, CommittedRows
  <2> QED
    BY <1>3 DEF IInv, TypeOK, CommittedRows
<1>7. PendingCommits'
  <2> SUFFICES ASSUME NEW v \in Workers, pc'[v] = "committing"
               PROVE  txn'[v] = CompletedRow(attempt[v]) /\ effects'[key[v]] > 0
    BY DEF PendingCommits
  <2>1. CASE v = w
    BY <1>1, <2>1 DEF IInv, TypeOK
  <2>2. CASE v # w
    <3>1. key[v] \in Keys /\ txn[v] = CompletedRow(attempt[v]) /\ effects[key[v]] > 0
      BY <2>2 DEF IInv, TypeOK, PendingCommits
    <3> QED
      BY <1>3, <2>2, <3>1 DEF IInv, TypeOK
  <2> QED
    BY <2>1, <2>2
<1>8. GivenIsCommitted'
  BY DEF IInv, GivenIsCommitted
<1> QED
  BY <1>4, <1>5, <1>6, <1>7, <1>8 DEF IInv

(* execute() raised: the row written next is one nobody will see.          *)
LEMMA ExecuteRaisesPreserves ==
  ASSUME IInv, NEW w \in Workers, ExecuteRaises(w)
  PROVE  IInv'
<1> USE DEF ExecuteRaises
<1>1. key[w] \in Keys /\ attempt[w] \in Nat
  BY StepRunAssumption DEF IInv, TypeOK
<1>2. \A v \in Workers : InTransaction(v)' = InTransaction(v)
  BY DEF IInv, TypeOK, InTransaction
<1>3. \A k \in Keys : effects'[k] \in Nat /\ effects'[k] >= effects[k]
  BY <1>1 DEF IInv, TypeOK
<1>4. TypeOK'
  <2>1. FailedRow(attempt[w], FailStatus(SideEffecting[key[w]], Contract[key[w]])) \in Record
    BY <1>1, RowFacts, StepRunAssumption
  <2> QED
    BY <1>1, <2>1 DEF IInv, TypeOK
<1>5. RowLockExcludes' /\ OpenTransactions'
  BY <1>2 DEF IInv, RowLockExcludes, OpenTransactions
<1>6. CommittedRows'
  <2> SUFFICES ASSUME NEW k \in Keys, table[k] # NoRow PROVE effects'[k] > 0
    BY DEF IInv, CommittedRows
  <2> QED
    BY <1>3 DEF IInv, TypeOK, CommittedRows
<1>7. PendingCommits'
  <2> SUFFICES ASSUME NEW v \in Workers, pc'[v] = "committing"
               PROVE  txn'[v] = CompletedRow(attempt[v]) /\ effects'[key[v]] > 0
    BY DEF PendingCommits
  <2>1. v # w
    BY DEF IInv, TypeOK
  <2>2. key[v] \in Keys /\ txn[v] = CompletedRow(attempt[v]) /\ effects[key[v]] > 0
    BY <2>1 DEF IInv, TypeOK, PendingCommits
  <2> QED
    BY <1>3, <2>1, <2>2 DEF IInv, TypeOK
<1>8. GivenIsCommitted'
  BY DEF IInv, GivenIsCommitted
<1> QED
  BY <1>4, <1>5, <1>6, <1>7, <1>8 DEF IInv

(* The commit: the key had no row, and no other transaction is on it.      *)
LEMMA CommitPreserves ==
  ASSUME IInv, NEW w \in Workers, Commit(w)
  PROVE  IInv'
<1> DEFINE k == key[w]
           n == attempt[w]
<1>1. /\ k \in Keys /\ n \in 1..MaxAttempts /\ txn[w] = CompletedRow(n)
      /\ table[k] = NoRow /\ effects[k] > 0 /\ InTransaction(w)
  BY DEF IInv, TypeOK, OpenTransactions, PendingCommits, InTransaction, Commit
<1>2. /\ End(w) /\ effects' = effects
      /\ table' = [table EXCEPT ![k] = CompletedRow(n)]
      /\ delivered' \in {delivered, [delivered EXCEPT ![k] = @ \cup {n}]}
  BY <1>1 DEF Commit, Give
<1>3. delivered[k] = {}
  BY <1>1, RowFacts, StepRunAssumption DEF IInv, GivenIsCommitted, TypeOK
<1> USE EndFacts
<1>4. TypeOK'
  <2>1. table' \in [Keys -> Record]
    BY <1>1, <1>2, RowFacts DEF IInv, TypeOK
  <2>2. delivered' \in [Keys -> SUBSET (1..MaxAttempts)]
    BY <1>1, <1>2 DEF IInv, TypeOK
  <2> QED
    BY <1>2, <2>1, <2>2 DEF IInv, TypeOK
<1>5. RowLockExcludes'
  BY <1>2 DEF IInv, RowLockExcludes
<1>6. CommittedRows'
  BY <1>1, <1>2 DEF IInv, CommittedRows, TypeOK
<1>7. OpenTransactions'
  <2> SUFFICES ASSUME NEW v \in Workers, InTransaction(v)'
               PROVE  table'[key[v]] = NoRow /\ attempt[v] \in 1..MaxAttempts
    BY <1>2 DEF OpenTransactions
  <2>1. v # w /\ InTransaction(v)
    BY <1>2
  <2>2. key[v] # k
    BY <1>1, <2>1 DEF IInv, RowLockExcludes
  <2> QED
    BY <1>1, <1>2, <2>1, <2>2 DEF IInv, OpenTransactions, TypeOK
<1>8. PendingCommits'
  BY <1>2 DEF IInv, PendingCommits, InTransaction
<1>9. GivenIsCommitted'
  BY <1>1, <1>2, <1>3 DEF IInv, GivenIsCommitted, TypeOK
<1> QED
  BY <1>4, <1>5, <1>6, <1>7, <1>8, <1>9 DEF IInv

(* Every step preserves the invariant.                                     *)
LEMMA NextInv == IInv /\ [Next]_vars => IInv'
<1> SUFFICES ASSUME IInv, [Next]_vars PROVE IInv'
  OBVIOUS
<1>1. ASSUME NEW w \in Workers, NEW k \in Keys, Call(w, k) PROVE IInv'
  BY <1>1, CallPreserves
<1>2. ASSUME NEW w \in Workers, Step(w) PROVE IInv'
  <2>1. CASE AcquireGranted(w)
    BY <2>1, AcquireGrantedPreserves
  <2>2. CASE AcquireReturns(w)
    BY <2>2, AcquireReturnsPreserves
  <2>3. CASE ExecuteReturns(w)
    BY <2>3, ExecuteReturnsPreserves
  <2>4. CASE ExecuteRaises(w)
    BY <2>4, ExecuteRaisesPreserves
  <2>5. CASE Commit(w)
    BY <2>5, CommitPreserves
  <2>6. CASE LockTimeout(w) \/ RollbackOnRaise(w) \/ CommitFails(w)
    <3>1. End(w) /\ table' = table /\ effects' = effects /\ delivered' = delivered
      BY <2>6 DEF LockTimeout, RollbackOnRaise, CommitFails
    <3>2. effects' = [effects EXCEPT ![key[w]] = @ + 0]
      BY <3>1 DEF IInv, TypeOK
    <3> QED
      BY <3>1, <3>2, EndPreserves
  <2> QED
    BY <1>2, <2>1, <2>2, <2>3, <2>4, <2>5, <2>6 DEF Step
<1>3. ASSUME NEW w \in Workers, Crash(w) PROVE IInv'
  <2>1. PICK done \in {0, 1} : effects' = [effects EXCEPT ![key[w]] = @ + done]
    BY <1>3 DEF Crash
  <2> QED
    BY <1>3, <2>1, EndPreserves DEF Crash
<1>4. ASSUME NEW w \in Workers, CallerGivesUp(w) PROVE IInv'
  BY <1>4 DEF CallerGivesUp, IInv, TypeOK, RowLockExcludes, CommittedRows,
              OpenTransactions, PendingCommits, GivenIsCommitted, InTransaction
<1>5. CASE UNCHANGED vars
  BY <1>5 DEF vars, IInv, TypeOK, RowLockExcludes, CommittedRows,
              OpenTransactions, PendingCommits, GivenIsCommitted, InTransaction
<1> QED
  BY <1>1, <1>2, <1>3, <1>4, <1>5 DEF Next

(* The invariant holds in every reachable state.                           *)
THEOREM Invariance == Spec => []IInv
BY InitInv, NextInv, PTL DEF Spec

(* Every variable keeps its type: a caller is only ever given the number   *)
(* of an execution.                                                        *)
THEOREM TypeCorrect == Spec => []TypeOK
BY Invariance, PTL DEF IInv

(* A committed success is the result of a call that reached the external   *)
(* system (complete_step_execution after execute()).                       *)
THEOREM SuccessIsReal == Spec => []SettledWasExecuted
<1>1. IInv => SettledWasExecuted
  BY DEF IInv, CommittedRows, SettledWasExecuted, NoRow
<1> QED
  BY <1>1, Invariance, PTL

(* No transaction but the one that wrote it ever sees a row that is        *)
(* pending, running, failed or uncertain: on this path IN_PROGRESS and     *)
(* REQUIRES_RECONCILIATION are never answered, and the lease is never used.*)
THEOREM OnlyCompletedRowsAreSeen ==
  Spec => [](\A k \in Keys : \A lapsed : OutcomeAt(k, lapsed) \in {"execute", "replay"})
<1>1. IInv => \A k \in Keys : \A lapsed : OutcomeAt(k, lapsed) \in {"execute", "replay"}
  <2> SUFFICES ASSUME IInv, NEW k \in Keys, NEW lapsed
               PROVE  OutcomeAt(k, lapsed) \in {"execute", "replay"}
    OBVIOUS
  <2>1. CASE table[k] = NoRow
    BY <2>1 DEF OutcomeAt, RowFor, PendingRow, ResolveAcquire, Executable
  <2>2. CASE table[k] # NoRow
    BY <2>2, CompletedIsReplayed DEF IInv, CommittedRows, OutcomeAt
  <2> QED
    BY <2>1, <2>2
<1> QED
  BY <1>1, Invariance, PTL

(* The external system is not called for a key that has a committed result,*)
(* not even by a call that was waiting for the row when it was committed.  *)
THEOREM NothingAfterCompletion == Spec => NoEffectAfterCompletion
<1>1. ASSUME IInv, [Next]_vars
      PROVE  [\A k \in Keys : table[k].status = "completed" => effects'[k] = effects[k]]_vars
  <2> SUFFICES ASSUME Next, NEW k \in Keys, table[k].status = "completed"
               PROVE  effects'[k] = effects[k]
    BY <1>1
  <2>1. \A w \in Workers : InTransaction(w) => key[w] # k
    BY <1>1 DEF IInv, OpenTransactions, NoRow
  <2>2. ASSUME NEW w \in Workers, Crash(w) PROVE effects'[k] = effects[k]
    BY <1>1, <2>1, <2>2 DEF Crash, InTransaction, IInv, TypeOK
  <2>3. ASSUME NEW w \in Workers, Step(w) PROVE effects'[k] = effects[k]
    BY <1>1, <2>1, <2>3 DEF Step, AcquireGranted, AcquireReturns, LockTimeout, ExecuteReturns,
       ExecuteRaises, Commit, RollbackOnRaise, CommitFails, InTransaction, IInv, TypeOK
  <2> QED
    BY <2>2, <2>3 DEF Next, CallerGivesUp, Call
<1> QED
  BY <1>1, Invariance, PTL DEF Spec, NoEffectAfterCompletion

-----------------------------------------------------------------------------
(* Refinement of SingleOutcome: the outcome of a key is the result in its  *)
(* committed row.                                                          *)

(* The initial states map to initial states.                               *)
LEMMA PromiseInit == Init => Promise!Init
BY DEF Init, Promise!Init, NoRow

(* A commit settles the key, a replay shows its outcome, and every other   *)
(* step changes neither.                                                   *)
LEMMA PromiseStep ==
  IInv /\ [Next]_vars =>
    [Promise!Next]_<<[k \in Keys |-> table[k].result], delivered>>
<1> DEFINE outcome == [k \in Keys |-> table[k].result]
<1> SUFFICES ASSUME IInv, [Next]_vars,
                    ~ (table' = table /\ delivered' = delivered)
             PROVE  Promise!Next
  OBVIOUS
<1>1. ASSUME NEW w \in Workers, Commit(w) PROVE Promise!Next
  <2> DEFINE k == key[w]
             n == attempt[w]
  <2>1. /\ k \in Keys /\ n \in (1..MaxAttempts) \ {0} /\ txn[w] = CompletedRow(n)
        /\ table[k] = NoRow
    BY <1>1 DEF IInv, TypeOK, OpenTransactions, PendingCommits, InTransaction, Commit
  <2>2. outcome[k] = 0 /\ outcome' = [outcome EXCEPT ![k] = n]
    <3>1. table' = [table EXCEPT ![k] = CompletedRow(n)]
      BY <1>1, <2>1 DEF Commit
    <3>2. \A j \in Keys : table'[j].result = IF j = k THEN n ELSE outcome[j]
      BY <2>1, <3>1 DEF CompletedRow, IInv, TypeOK
    <3> QED
      BY <2>1, <3>2 DEF NoRow
  <2>3. UNCHANGED delivered \/ delivered' = [delivered EXCEPT ![k] = @ \cup {n}]
    BY <1>1 DEF Commit, Give
  <2>4. Promise!Settle(k, n)
    BY <2>2, <2>3 DEF Promise!Settle
  <2>5. \E r \in (1..MaxAttempts) \ {0} : Promise!Settle(k, r)
    BY <2>1, <2>4 DEF Promise!Settle
  <2> QED
    BY <2>1, <2>5 DEF Promise!Next
<1>2. ASSUME NEW w \in Workers, AcquireReturns(w) PROVE Promise!Next
  <2> DEFINE k == key[w]
  <2>1. table' = table /\ k \in Keys /\ delivered' # delivered
    BY <1>2 DEF AcquireReturns, IInv, TypeOK
  <2>2. PICK m \in 1..MaxAttempts : table[k] = CompletedRow(m)
    BY <1>2, <2>1, StepRunAssumption DEF AcquireReturns, IInv, CommittedRows, NoRow
  <2>3. outcome[k] = m /\ m # 0 /\ outcome' = outcome
    BY <2>1, <2>2 DEF CompletedRow
  <2>4. delivered' = [delivered EXCEPT ![k] = @ \cup {outcome[k]}]
    BY <1>2, <2>1, <2>2 DEF AcquireReturns, Give
  <2>5. Promise!Show(k)
    BY <2>3, <2>4 DEF Promise!Show
  <2> QED
    BY <2>1, <2>5 DEF Promise!Next
<1>3. \E w \in Workers : Commit(w) \/ AcquireReturns(w)
  BY DEF Next, Step, vars, Call, CallerGivesUp, Crash, AcquireGranted, LockTimeout,
         ExecuteReturns, ExecuteRaises, RollbackOnRaise, CommitFails
<1> QED
  BY <1>1, <1>2, <1>3

(* Idempotent execution keeps the promise of SingleOutcome: a key settles  *)
(* on one result, and every EXECUTE or REPLAY answer is that result.       *)
THEOREM KeepsPromise == Spec => PromiseSpec
<1> USE DEF PromiseSpec, Promise!Spec
<1> QED
  BY PromiseInit, PromiseStep, Invariance, PTL DEF Spec

(* All callers of a key, whenever they ask and whatever fails in between,  *)
(* are given the same result.                                              *)
THEOREM CallersAgree == Spec => []Promise!Agreement
<1>1. IInv => Promise!Agreement
  <2> SUFFICES ASSUME IInv, NEW k \in Keys, NEW n \in delivered[k]
               PROVE  n = table[k].result /\ n # 0
    BY DEF Promise!Agreement
  <2> QED
    BY StepRunAssumption DEF IInv, TypeOK, GivenIsCommitted, CompletedRow
<1> QED
  BY <1>1, Invariance, PTL

-----------------------------------------------------------------------------
(* Every call of the external system was granted: it is reached at most    *)
(* once for each execution started (acquire_step_for_execution before      *)
(* execute()), although calls raise, crash and are given up.               *)
CallsAreGranted == \A k \in Keys : effects[k] <= attempts[k]

(* The execution that is under way is still to be counted.                 *)
OneToCome ==
  \A w \in Workers : pc[w] = "executing" => effects[key[w]] < attempts[key[w]]

(* Nothing is counted twice: the lock keeps a key to one execution.        *)
LEMMA GrantsCover ==
  ASSUME IInv, CallsAreGranted, OneToCome, [Next]_vars
  PROVE  CallsAreGranted' /\ OneToCome'
<1>0. /\ effects \in [Keys -> Nat] /\ attempts \in [Keys -> Nat] /\ key \in [Workers -> Keys]
      /\ pc \in [Workers -> {"idle", "waiting", "executing", "committing", "raising"}]
  BY StepRunAssumption DEF IInv, TypeOK
<1>1. \A v, w \in Workers :
        pc[v] = "executing" /\ pc[w] \in {"executing", "committing", "raising"} /\ key[v] = key[w]
          => v = w
  BY DEF IInv, RowLockExcludes, InTransaction
<1>2. CASE UNCHANGED vars
  BY <1>2 DEF vars, CallsAreGranted, OneToCome
<1>3. ASSUME NEW w \in Workers, NEW k \in Keys, Call(w, k) PROVE CallsAreGranted' /\ OneToCome'
  BY <1>0, <1>3 DEF Call, CallsAreGranted, OneToCome
<1>4. ASSUME NEW w \in Workers, AcquireGranted(w) PROVE CallsAreGranted' /\ OneToCome'
  <2>1. /\ attempts' = [attempts EXCEPT ![key[w]] = @ + 1]
        /\ pc' = [pc EXCEPT ![w] = "executing"]
        /\ UNCHANGED <<key, effects>>
    BY <1>4 DEF AcquireGranted
  <2>2. key[w] \in Keys
    BY <1>0
  <2>3. \A k \in Keys : attempts'[k] \in Nat /\ attempts'[k] >= attempts[k]
    BY <1>0, <2>1, <2>2
  <2>4. attempts'[key[w]] = attempts[key[w]] + 1
    BY <1>0, <2>1, <2>2
  <2>5. CallsAreGranted'
    BY <1>0, <2>1, <2>3 DEF CallsAreGranted
  <2>6. OneToCome'
    <3> SUFFICES ASSUME NEW v \in Workers, pc'[v] = "executing"
                 PROVE  effects[key[v]] < attempts'[key[v]]
      BY <2>1 DEF OneToCome
    <3>1. CASE v = w
      BY <3>1, <2>2, <2>4, <1>0 DEF CallsAreGranted
    <3>2. CASE v # w
      BY <3>2, <2>1, <2>3, <1>0 DEF OneToCome
    <3> QED
      BY <3>1, <3>2
  <2> QED
    BY <2>5, <2>6
<1>5. ASSUME NEW w \in Workers, NEW done \in {0, 1}, NEW place,
             done = 1 => pc[w] = "executing",
             effects' = [effects EXCEPT ![key[w]] = @ + done],
             pc' = [pc EXCEPT ![w] = place], place # "executing",
             UNCHANGED <<key, attempts>>
      PROVE  CallsAreGranted' /\ OneToCome'
  <2>1. key[w] \in Keys /\ effects'[key[w]] = effects[key[w]] + done
        /\ \A k \in Keys : k # key[w] => effects'[k] = effects[k]
    BY <1>0, <1>5
  <2>2. done = 1 => effects[key[w]] < attempts[key[w]]
    BY <1>5 DEF OneToCome
  <2>3. effects'[key[w]] <= attempts[key[w]]
    BY <2>1, <2>2, <1>0 DEF CallsAreGranted
  <2>4. CallsAreGranted'
    BY <1>0, <1>5, <2>1, <2>3 DEF CallsAreGranted
  <2>5. OneToCome'
    <3> SUFFICES ASSUME NEW v \in Workers, pc'[v] = "executing"
                 PROVE  effects'[key[v]] < attempts[key[v]]
      BY <1>5 DEF OneToCome
    <3>1. v # w /\ pc[v] = "executing"
      BY <1>0, <1>5
    <3>2. CASE key[v] = key[w]
      <4>1. done = 0
        BY <1>1, <1>5, <3>1, <3>2
      <4>2. effects'[key[v]] = effects[key[v]]
        BY <4>1, <3>2, <2>1, <1>0
      <4> QED
        BY <4>2, <3>1 DEF OneToCome
    <3>3. CASE key[v] # key[w]
      BY <3>1, <3>3, <2>1, <1>0 DEF OneToCome
    <3> QED
      BY <3>2, <3>3
  <2> QED
    BY <2>4, <2>5
<1>6. ASSUME NEW w \in Workers, UNCHANGED effects, End(w) PROVE CallsAreGranted' /\ OneToCome'
  <2>1. /\ pc' = [pc EXCEPT ![w] = "idle"] /\ UNCHANGED <<key, attempts, effects>>
    BY <1>6 DEF End
  <2> QED
    BY <1>0, <2>1 DEF CallsAreGranted, OneToCome
<1>7. ASSUME NEW w \in Workers,
             \/ AcquireReturns(w) \/ LockTimeout(w) \/ Commit(w)
             \/ RollbackOnRaise(w) \/ CommitFails(w)
      PROVE  CallsAreGranted' /\ OneToCome'
  BY <1>6, <1>7 DEF AcquireReturns, LockTimeout, Commit, RollbackOnRaise, CommitFails
<1>8. ASSUME NEW w \in Workers, ExecuteReturns(w) \/ ExecuteRaises(w) \/ Crash(w)
      PROVE  CallsAreGranted' /\ OneToCome'
  <2>1. \E done \in {0, 1}, place \in {"committing", "raising", "idle"} :
          /\ done = 1 => pc[w] = "executing"
          /\ effects' = [effects EXCEPT ![key[w]] = @ + done]
          /\ pc' = [pc EXCEPT ![w] = place]
          /\ UNCHANGED <<key, attempts>>
    <3>1. CASE ExecuteReturns(w)
      BY <3>1 DEF ExecuteReturns
    <3>2. CASE ExecuteRaises(w)
      BY <3>2 DEF ExecuteRaises
    <3>3. CASE Crash(w)
      <4>1. PICK done \in {0, 1} :
              /\ done = 1 => pc[w] = "executing"
              /\ effects' = [effects EXCEPT ![key[w]] = @ + done]
        <5>1. PICK done \in IF pc[w] = "executing" THEN {0, 1} ELSE {0} :
                effects' = [effects EXCEPT ![key[w]] = @ + done]
          BY <3>3 DEF Crash
        <5>2. done \in {0, 1} /\ (done = 1 => pc[w] = "executing")
          BY <5>1
        <5> QED
          BY <5>1, <5>2
      <4> QED
        BY <3>3, <4>1 DEF Crash, End
    <3> QED
      BY <1>8, <3>1, <3>2, <3>3
  <2> QED
    BY <2>1, <1>5
<1>9. ASSUME NEW w \in Workers, CallerGivesUp(w) PROVE CallsAreGranted' /\ OneToCome'
  BY <1>9 DEF CallerGivesUp, CallsAreGranted, OneToCome
<1> QED
  BY <1>2, <1>3, <1>4, <1>7, <1>8, <1>9 DEF Next, Step

(* The external system is reached at most once per granted execution.      *)
THEOREM EveryEffectIsGranted == Spec => []CallsAreGranted
<1>1. Init => CallsAreGranted /\ OneToCome
  BY DEF Init, CallsAreGranted, OneToCome
<1>2. IInv /\ CallsAreGranted /\ OneToCome /\ [Next]_vars => CallsAreGranted' /\ OneToCome'
  BY GrantsCover
<1> QED
  BY <1>1, <1>2, Invariance, PTL DEF Spec
=============================================================================
