--------------------------- MODULE StepLeaseProofs ---------------------------
(***************************************************************************)
(* For any number of workers, keys and grants, and although nothing fences *)
(* a stale worker off, an operation that cannot be repeated safely is made *)
(* at most once, and no replay reports work that was never done.           *)
(*                                                                         *)
(* The reason is not the lease: it is that a key of such an operation is   *)
(* granted once.  The strengthening follows its row from the first grant   *)
(* on through the three statuses that resolve to anything but EXECUTE.     *)
(*                                                                         *)
(* From the same invariant the rows of those keys keep the promise of      *)
(* SingleOutcome: the result is settled once, and callers agree on it.     *)
(***************************************************************************)
EXTENDS StepLease, TLAPS

WorksOn(w, k) == pc[w] # "idle" /\ key[w] = k

(* A result is reported after the call was made.                           *)
ReturnedWasMade ==
  \A w \in Workers : pc[w] = "returned" => effects[key[w]] > 0

(* A key without stable idempotency before its only grant, and after it.   *)
NeverGranted(k) ==
  /\ grants[k] = 0
  /\ row[k] = NoRow
  /\ effects[k] = 0
  /\ \A w \in Workers : ~WorksOn(w, k)

GrantedOnce(k) ==
  /\ grants[k] > 0
  /\ row[k].status \in {"running", "completed", "execution_uncertain"}
  /\ effects[k] <= 1
  /\ \A v, w \in Workers : WorksOn(v, k) /\ WorksOn(w, k) => v = w
  /\ \A w \in Workers : WorksOn(w, k) /\ pc[w] = "executing" => effects[k] = 0

UnstableIsGrantedOnce ==
  \A k \in Keys : Contract[k] = Unstable => NeverGranted(k) \/ GrantedOnce(k)

(* An execution has the number of its grant.                               *)
GrantsNumbered ==
  \A w \in Workers : pc[w] # "idle" => grant[w] \in 1..MaxAttempts

(* A key without stable idempotency is worked on while its row is running; *)
(* what callers were given is what the row then says, and goes on saying.  *)
SettlesOnce(k) ==
  /\ \A w \in Workers : WorksOn(w, k) => row[k].status = "running"
  /\ row[k].status = "completed" => row[k].result \in 1..MaxAttempts
  /\ \A n \in delivered[k] : row[k].status = "completed" /\ row[k].result = n

PromiseInv == GrantsNumbered /\ \A k \in UnstableKeys : SettlesOnce(k)

IInv ==
  /\ TypeOK
  /\ ReturnedWasMade
  /\ NoFalseSuccess
  /\ UnstableIsGrantedOnce
-----------------------------------------------------------------------------
(* The rows the protocol writes are records of the table.                  *)
LEMMA RowFacts ==
  /\ NoRow \in Record
  /\ \A r \in Record, n \in Nat : GrantedRow(RowFor(r), n) \in Record
  /\ \A n \in Nat : CompletedRow(n) \in Record
  /\ \A n \in Nat, s \in BOOLEAN, c \in Contracts : FailedRow(n, FailStatus(s, c)) \in Record
BY DEF NoRow, Record, Statuses, CompletedRow, GrantedRow, RowFor, PendingRow,
       FailedRow, FailStatus, Contracts, RO, Stable, Unstable

(* After its first grant an operation without stable idempotency is not    *)
(* resolved to EXECUTE, whatever the clock says (_resolve_acquire).        *)
LEMMA NotGrantedAgain ==
  ASSUME NEW k \in Keys, Contract[k] = Unstable, GrantedOnce(k)
  PROVE  Outcome(k) # "execute"
<1>1. RowFor(row[k]) = row[k]
  BY DEF GrantedOnce, RowFor, NoRow
<1> QED
  BY <1>1 DEF GrantedOnce, Outcome, ResolveAcquire, Executable

(* The error of a side-effecting operation that cannot be repeated is      *)
(* stored as execution_uncertain.                                          *)
LEMMA UnstableFailsUncertain ==
  ASSUME NEW k \in Keys, Contract[k] = Unstable
  PROVE  FailStatus(SideEffecting[k], Contract[k]) = "execution_uncertain"
BY ContractAssumption DEF FailStatus, RO, Unstable

(* The initial states satisfy the invariant.                               *)
LEMMA InitInv == Init => IInv
<1> SUFFICES ASSUME Init PROVE IInv
  OBVIOUS
<1>1. TypeOK
  BY RowFacts, ContractAssumption DEF Init, TypeOK
<1>2. ReturnedWasMade /\ NoFalseSuccess
  BY DEF Init, ReturnedWasMade, NoFalseSuccess, NoRow
<1>3. UnstableIsGrantedOnce
  BY DEF Init, UnstableIsGrantedOnce, NeverGranted, WorksOn
<1> QED
  BY <1>1, <1>2, <1>3 DEF IInv

(* A grant is the first one of the key, or the contract allows another.    *)
LEMMA AcquirePreserves ==
  ASSUME IInv, NEW w \in Workers, NEW k \in Keys, Acquire(w, k)
  PROVE  IInv'
<1> USE DEF IInv, TypeOK
<1>1. TypeOK'
  <2>1. row' \in [Keys -> Record]
    BY RowFacts DEF Acquire
  <2> QED
    BY <2>1 DEF Acquire
<1>2. ReturnedWasMade'
  BY DEF Acquire, ReturnedWasMade
<1>3. NoFalseSuccess'
  <2> SUFFICES ASSUME NEW j \in Keys, row'[j].status = "completed"
               PROVE  effects'[j] > 0
    BY DEF NoFalseSuccess
  <2>1. j # k
    BY DEF Acquire, GrantedRow, RowFor, PendingRow, Record
  <2> QED
    BY <2>1 DEF Acquire, NoFalseSuccess
<1>4. UnstableIsGrantedOnce'
  <2> SUFFICES ASSUME NEW j \in Keys, Contract[j] = Unstable
               PROVE  (NeverGranted(j) \/ GrantedOnce(j))'
    BY DEF UnstableIsGrantedOnce
  <2>1. CASE j = k
    <3>1. NeverGranted(k)
      BY <2>1, NotGrantedAgain DEF Acquire, UnstableIsGrantedOnce
    <3>2. row'[k].status = "running" /\ grants'[k] = 1 /\ effects'[k] = 0
      BY <3>1 DEF NeverGranted, Acquire, GrantedRow, RowFor, PendingRow, NoRow
    <3>3. \A v \in Workers : v # w => ~WorksOn(v, k)'
      BY <3>1 DEF NeverGranted, WorksOn, Acquire
    <3> QED
      BY <2>1, <3>2, <3>3 DEF GrantedOnce
  <2>2. CASE j # k
    <3>1. row'[j] = row[j] /\ grants'[j] = grants[j] /\ effects'[j] = effects[j]
      BY <2>2 DEF Acquire
    <3>2. \A v \in Workers : WorksOn(v, j)' => WorksOn(v, j) /\ pc'[v] = pc[v]
      BY <2>2 DEF Acquire, WorksOn
    <3> QED
      BY <3>1, <3>2 DEF UnstableIsGrantedOnce, NeverGranted, GrantedOnce
  <2> QED
    BY <2>1, <2>2
<1> QED
  BY <1>1, <1>2, <1>3, <1>4

(* A worker that leaves execute() (it returned, raised, or the worker died)*)
(* or that stores what it has, writes the row of its own key only, and can *)
(* have added one call to those made.                                      *)
LEMMA WorkerPreserves ==
  ASSUME IInv, TypeOK', NEW w \in Workers, pc[w] # "idle",
         NEW to \in {"idle", "returned", "raised"}, pc' = [pc EXCEPT ![w] = to],
         grants' = grants, key' = key,
         \A j \in Keys \ {key[w]} : row'[j] = row[j] /\ effects'[j] = effects[j],
         \/ effects'[key[w]] = effects[key[w]]
         \/ pc[w] = "executing" /\ effects'[key[w]] = effects[key[w]] + 1,
         to = "returned" => effects'[key[w]] > 0,
         row'[key[w]].status = "completed" => effects'[key[w]] > 0,
         Contract[key[w]] = Unstable =>
           row'[key[w]] = row[key[w]]
             \/ row'[key[w]].status \in {"completed", "execution_uncertain"}
  PROVE  IInv'
<1> USE DEF IInv, TypeOK
<1> DEFINE k == key[w]
<1>1. \A j \in Keys : effects'[j] >= effects[j]
  OBVIOUS
<1>2. \A v \in Workers : v # w => pc'[v] = pc[v]
  OBVIOUS
<1>3. ReturnedWasMade'
  BY <1>1, <1>2 DEF ReturnedWasMade
<1>4. NoFalseSuccess'
  BY DEF NoFalseSuccess
<1>5. \A v \in Workers, j \in Keys : WorksOn(v, j)' => WorksOn(v, j)
  BY DEF WorksOn
<1>6. UnstableIsGrantedOnce'
  <2> SUFFICES ASSUME NEW j \in Keys, Contract[j] = Unstable
               PROVE  (NeverGranted(j) \/ GrantedOnce(j))'
    BY DEF UnstableIsGrantedOnce
  <2>1. CASE j # k
    <3>1. \A v \in Workers : WorksOn(v, j) => pc'[v] = pc[v]
      BY <2>1 DEF WorksOn
    <3> QED
      BY <2>1, <3>1, <1>5 DEF UnstableIsGrantedOnce, NeverGranted, GrantedOnce
  <2>2. CASE j = k
    <3>1. GrantedOnce(k)
      BY <2>2 DEF UnstableIsGrantedOnce, NeverGranted, WorksOn
    <3>2. effects'[k] <= 1
      BY <3>1, <2>2 DEF GrantedOnce, WorksOn
    <3>3. row'[k].status \in {"running", "completed", "execution_uncertain"}
      BY <3>1, <2>2 DEF GrantedOnce
    <3>4. \A v \in Workers : ~(WorksOn(v, k) /\ pc[v] = "executing")'
      BY <3>1, <1>2, <1>5 DEF GrantedOnce, WorksOn
    <3> QED
      BY <2>2, <3>1, <3>2, <3>3, <3>4, <1>5 DEF GrantedOnce
  <2> QED
    BY <2>1, <2>2
<1> QED
  BY <1>3, <1>4, <1>6

(* Every step preserves the invariant.                                     *)
LEMMA NextInv == IInv /\ [Next]_vars => IInv'
<1> SUFFICES ASSUME IInv, [Next]_vars PROVE IInv'
  OBVIOUS
<1> USE DEF IInv, TypeOK
<1>1. ASSUME NEW w \in Workers, NEW k \in Keys, Replay(w, k) PROVE IInv'
  BY <1>1 DEF Replay, ReturnedWasMade, NoFalseSuccess, UnstableIsGrantedOnce, NeverGranted,
              GrantedOnce, WorksOn, Record
<1>2. ASSUME NEW w \in Workers, ExecuteReturns(w) PROVE IInv'
  <2>1. TypeOK'
    BY <1>2 DEF ExecuteReturns
  <2>2. effects'[key[w]] = effects[key[w]] + 1 /\ effects'[key[w]] > 0
    BY <1>2 DEF ExecuteReturns
  <2>3. row'[key[w]].status = "completed" => effects'[key[w]] > 0
    BY <1>2, <2>2 DEF ExecuteReturns, NoFalseSuccess
  <2>4. pc[w] # "idle" /\ pc' = [pc EXCEPT ![w] = "returned"]
    BY <1>2 DEF ExecuteReturns
  <2> QED
    BY <1>2, <2>1, <2>2, <2>3, <2>4, WorkerPreserves DEF ExecuteReturns
<1>3. ASSUME NEW w \in Workers, ExecuteRaises(w) PROVE IInv'
  <2>1. TypeOK'
    BY <1>3 DEF ExecuteRaises
  <2>2. \/ effects'[key[w]] = effects[key[w]]
        \/ pc[w] = "executing" /\ effects'[key[w]] = effects[key[w]] + 1
    BY <1>3 DEF ExecuteRaises
  <2>3. row'[key[w]].status = "completed" => effects'[key[w]] > 0
    BY <1>3, <2>2 DEF ExecuteRaises, NoFalseSuccess
  <2>4. pc[w] # "idle" /\ pc' = [pc EXCEPT ![w] = "raised"]
    BY <1>3 DEF ExecuteRaises
  <2> QED
    BY <1>3, <2>1, <2>2, <2>3, <2>4, WorkerPreserves DEF ExecuteRaises
<1>4. ASSUME NEW w \in Workers, Complete(w) PROVE IInv'
  <2>1. row' \in [Keys -> Record]
    BY <1>4, RowFacts DEF Complete
  <2>2. TypeOK'
    BY <1>4, <2>1 DEF Complete
  <2>3. row'[key[w]].status = "completed" /\ effects'[key[w]] > 0
    BY <1>4 DEF Complete, CompletedRow, ReturnedWasMade
  <2> QED
    BY <1>4, <2>2, <2>3, WorkerPreserves DEF Complete
<1>5. ASSUME NEW w \in Workers, Fail(w) PROVE IInv'
  <2>1. row' \in [Keys -> Record]
    BY <1>5, RowFacts, ContractAssumption DEF Fail
  <2>2. TypeOK'
    BY <1>5, <2>1 DEF Fail
  <2>3. row'[key[w]].status = FailStatus(SideEffecting[key[w]], Contract[key[w]])
    BY <1>5 DEF Fail, FailedRow
  <2>4. row'[key[w]].status # "completed"
    BY <2>3 DEF FailStatus
  <2> QED
    BY <1>5, <2>2, <2>3, <2>4, WorkerPreserves, UnstableFailsUncertain DEF Fail
<1>6. ASSUME NEW w \in Workers, Crash(w) PROVE IInv'
  <2>1. TypeOK'
    BY <1>6 DEF Crash
  <2>2. \/ effects'[key[w]] = effects[key[w]]
        \/ pc[w] = "executing" /\ effects'[key[w]] = effects[key[w]] + 1
    BY <1>6 DEF Crash
  <2>3. row'[key[w]].status = "completed" => effects'[key[w]] > 0
    BY <1>6, <2>2 DEF Crash, NoFalseSuccess
  <2>4. pc[w] # "idle" /\ pc' = [pc EXCEPT ![w] = "idle"]
    BY <1>6 DEF Crash
  <2> QED
    BY <1>6, <2>1, <2>2, <2>3, <2>4, WorkerPreserves DEF Crash
<1>7. ASSUME NEW k \in Keys, LeaseLapses(k) PROVE IInv'
  BY <1>7 DEF LeaseLapses, ReturnedWasMade, NoFalseSuccess, UnstableIsGrantedOnce, NeverGranted,
              GrantedOnce, WorksOn
<1>8. CASE UNCHANGED vars
  BY <1>8 DEF vars, ReturnedWasMade, NoFalseSuccess, UnstableIsGrantedOnce, NeverGranted,
              GrantedOnce, WorksOn
<1> QED
  BY AcquirePreserves, <1>1, <1>2, <1>3, <1>4, <1>5, <1>6, <1>7, <1>8 DEF Next

-----------------------------------------------------------------------------
(* The invariant holds in every reachable state.                           *)
LEMMA Invariance == Spec => []IInv
BY InitInv, NextInv, PTL DEF Spec

(* Rows, grants and workers are always what their declarations say.        *)
THEOREM TypeCorrect == Spec => []TypeOK
<1>1. IInv => TypeOK
  BY DEF IInv
<1> QED
  BY <1>1, Invariance, PTL

(* Under the contract side_effecting_without_stable_idempotency the        *)
(* external system is reached at most once, however many workers share the *)
(* key, crash, outlive their lease or write over one another.              *)
THEOREM AtMostOnce == Spec => []UnstableAtMostOnce
<1>1. IInv => UnstableAtMostOnce
  BY DEF IInv, TypeOK, UnstableAtMostOnce, UnstableIsGrantedOnce, NeverGranted, GrantedOnce
<1> QED
  BY <1>1, Invariance, PTL

(* Once granted, such a key is never resolved to EXECUTE again.            *)
THEOREM NeverHandedOutAgain == Spec => []UncertainNotExecutable
<1>1. IInv => UncertainNotExecutable
  BY NotGrantedAgain DEF IInv, TypeOK, UncertainNotExecutable, UnstableIsGrantedOnce, NeverGranted
<1> QED
  BY <1>1, Invariance, PTL

(* A stored success, whoever wrote it last, is the result of a call made.  *)
THEOREM SuccessIsReal == Spec => []NoFalseSuccess
<1>1. IInv => NoFalseSuccess
  BY DEF IInv
<1> QED
  BY <1>1, Invariance, PTL

-----------------------------------------------------------------------------
(* Refinement of SingleOutcome for the keys whose contract is Unstable:    *)
(* the outcome of a key is the result in its row.  It has to be shown that *)
(* the row, which nothing protects from a stale worker, is completed at    *)
(* most once, and that a replay cannot come before or in between.          *)

(* No row has been completed yet.                                          *)
LEMMA InitPromiseInv == Init => PromiseInv
BY DEF Init, PromiseInv, GrantsNumbered, SettlesOnce, UnstableKeys, WorksOn, NoRow

(* A step that writes no row, gives nobody a result and starts no worker   *)
(* disturbs nothing.                                                       *)
LEMMA QuietPreserves ==
  ASSUME IInv, PromiseInv, row' = row, delivered' = delivered, key' = key, grant' = grant,
         \A w \in Workers : pc'[w] # "idle" => pc[w] # "idle"
  PROVE  PromiseInv'
<1>1. GrantsNumbered'
  BY DEF PromiseInv, GrantsNumbered
<1>2. ASSUME NEW k \in UnstableKeys PROVE SettlesOnce(k)'
  <2>1. SettlesOnce(k)
    BY DEF PromiseInv
  <2>2. \A w \in Workers : WorksOn(w, k)' => WorksOn(w, k)
    BY DEF WorksOn
  <2> QED
    BY <2>1, <2>2 DEF SettlesOnce
<1> QED
  BY <1>1, <1>2 DEF PromiseInv, UnstableKeys

(* The one worker of an unstable key finds its row running, so that no     *)
(* caller has been given a result yet.                                     *)
LEMMA WorkerIsAlone ==
  ASSUME IInv, PromiseInv, NEW w \in Workers, pc[w] # "idle", Contract[key[w]] = Unstable
  PROVE  /\ key[w] \in UnstableKeys
         /\ grant[w] \in 1..MaxAttempts
         /\ row[key[w]].status = "running"
         /\ delivered[key[w]] = {}
         /\ \A v \in Workers \ {w} : ~WorksOn(v, key[w])
<1> USE DEF IInv, TypeOK
<1>1. key[w] \in UnstableKeys /\ WorksOn(w, key[w])
  BY DEF UnstableKeys, WorksOn
<1>2. SettlesOnce(key[w])
  BY <1>1 DEF PromiseInv
<1>3. GrantedOnce(key[w])
  BY <1>1 DEF UnstableIsGrantedOnce, UnstableKeys, NeverGranted
<1> QED
  BY <1>1, <1>2, <1>3 DEF SettlesOnce, GrantedOnce, PromiseInv, GrantsNumbered

(* A step that writes the row of one key leaves the others as they were.   *)
LEMMA OthersSettle ==
  ASSUME IInv, PromiseInv, NEW k \in UnstableKeys,
         row'[k] = row[k], delivered'[k] = delivered[k],
         \A w \in Workers : WorksOn(w, k)' => WorksOn(w, k)
  PROVE  SettlesOnce(k)'
BY DEF PromiseInv, SettlesOnce

(* Every step preserves what the refinement needs.                         *)
LEMMA NextPromiseInv == IInv /\ PromiseInv /\ [Next]_vars => PromiseInv'
<1> SUFFICES ASSUME IInv, PromiseInv, [Next]_vars PROVE PromiseInv'
  OBVIOUS
<1> USE DEF IInv, TypeOK
<1>1. ASSUME NEW w \in Workers, NEW k \in Keys, Acquire(w, k) PROVE PromiseInv'
  <2>1. GrantsNumbered'
    <3>1. grants[k] + 1 \in 1..MaxAttempts
      BY <1>1, MaxAttemptsAssumption DEF Acquire
    <3> QED
      BY <1>1, <3>1 DEF Acquire, PromiseInv, GrantsNumbered
  <2>2. ASSUME NEW j \in UnstableKeys, j # k PROVE SettlesOnce(j)'
    <3>1. row'[j] = row[j] /\ delivered'[j] = delivered[j]
      BY <1>1, <2>2 DEF Acquire, UnstableKeys
    <3>2. \A v \in Workers : WorksOn(v, j)' => WorksOn(v, j)
      BY <1>1, <2>2 DEF Acquire, WorksOn
    <3> QED
      BY <3>1, <3>2, OthersSettle
  <2>3. ASSUME k \in UnstableKeys PROVE SettlesOnce(k)'
    <3>1. NeverGranted(k)
      BY <1>1, <2>3, NotGrantedAgain DEF Acquire, UnstableIsGrantedOnce, UnstableKeys
    <3>2. row'[k].status = "running"
      BY <1>1 DEF Acquire, GrantedRow, RowFor, PendingRow, Record
    <3>3. delivered'[k] = {}
      BY <1>1, <2>3, <3>1 DEF Acquire, PromiseInv, SettlesOnce, NeverGranted, NoRow
    <3> QED
      BY <3>2, <3>3 DEF SettlesOnce
  <2> QED
    BY <2>1, <2>2, <2>3 DEF PromiseInv, UnstableKeys
<1>2. ASSUME NEW w \in Workers, NEW k \in Keys, Replay(w, k) PROVE PromiseInv'
  <2>1. GrantsNumbered'
    BY <1>2 DEF Replay, PromiseInv, GrantsNumbered
  <2>2. ASSUME NEW j \in UnstableKeys PROVE SettlesOnce(j)'
    <3>1. SettlesOnce(j)
      BY DEF PromiseInv
    <3>2. delivered'[j] \subseteq delivered[j] \cup {row[j].result}
          /\ (j # k => delivered'[j] = delivered[j])
      BY <1>2 DEF Replay, UnstableKeys
    <3>3. row' = row /\ row[k].status = "completed"
      BY <1>2 DEF Replay
    <3>4. \A v \in Workers : WorksOn(v, j)' = WorksOn(v, j)
      BY <1>2 DEF Replay, WorksOn
    <3> QED
      BY <3>1, <3>2, <3>3, <3>4 DEF SettlesOnce
  <2> QED
    BY <2>1, <2>2 DEF PromiseInv, UnstableKeys
<1>3. ASSUME NEW w \in Workers, ExecuteReturns(w) \/ ExecuteRaises(w) \/ Crash(w)
      PROVE  PromiseInv'
  BY <1>3, QuietPreserves DEF ExecuteReturns, ExecuteRaises, Crash
<1>4. ASSUME NEW w \in Workers, Complete(w) PROVE PromiseInv'
  <2>1. GrantsNumbered'
    BY <1>4 DEF Complete, PromiseInv, GrantsNumbered
  <2>2. ASSUME NEW j \in UnstableKeys, j # key[w] PROVE SettlesOnce(j)'
    <3>1. row'[j] = row[j] /\ delivered'[j] = delivered[j]
      BY <1>4, <2>2 DEF Complete, UnstableKeys
    <3>2. \A v \in Workers : WorksOn(v, j)' => WorksOn(v, j)
      BY <1>4 DEF Complete, WorksOn
    <3> QED
      BY <3>1, <3>2, OthersSettle
  <2>3. ASSUME key[w] \in UnstableKeys PROVE SettlesOnce(key[w])'
    <3> DEFINE k == key[w]
    <3>1. /\ grant[w] \in 1..MaxAttempts
          /\ delivered[k] = {}
          /\ \A v \in Workers \ {w} : ~WorksOn(v, k)
      BY <1>4, <2>3, WorkerIsAlone DEF Complete, UnstableKeys
    <3>2. row'[k] = CompletedRow(grant[w]) /\ delivered'[k] = {grant[w]}
      BY <1>4, <3>1 DEF Complete
    <3>3. row'[k].status = "completed" /\ row'[k].result = grant[w]
      BY <3>2 DEF CompletedRow
    <3>4. \A j : j = k => \A v \in Workers : ~WorksOn(v, j)'
      BY <1>4, <3>1 DEF Complete, WorksOn
    <3>5. \A j : j = k => SettlesOnce(j)'
      BY <3>1, <3>2, <3>3, <3>4 DEF SettlesOnce
    <3>6. k' = k
      BY <1>4 DEF Complete
    <3> QED
      BY <3>5, <3>6
  <2>4. key' = key
    BY <1>4 DEF Complete
  <2> QED
    BY <2>1, <2>2, <2>3, <2>4 DEF PromiseInv, UnstableKeys
<1>5. ASSUME NEW w \in Workers, Fail(w) PROVE PromiseInv'
  <2>1. GrantsNumbered'
    BY <1>5 DEF Fail, PromiseInv, GrantsNumbered
  <2>2. ASSUME NEW j \in UnstableKeys, j # key[w] PROVE SettlesOnce(j)'
    <3>1. row'[j] = row[j] /\ delivered'[j] = delivered[j]
      BY <1>5, <2>2 DEF Fail, UnstableKeys
    <3>2. \A v \in Workers : WorksOn(v, j)' => WorksOn(v, j)
      BY <1>5 DEF Fail, WorksOn
    <3> QED
      BY <3>1, <3>2, OthersSettle
  <2>3. ASSUME NEW j \in UnstableKeys, j = key[w] PROVE SettlesOnce(j)'
    <3>1. delivered[j] = {} /\ \A v \in Workers \ {w} : ~WorksOn(v, j)
      BY <1>5, <2>3, WorkerIsAlone DEF Fail, UnstableKeys
    <3>2. row'[j].status = "execution_uncertain" /\ delivered'[j] = {}
      BY <1>5, <2>3, <3>1, UnstableFailsUncertain DEF Fail, FailedRow, UnstableKeys
    <3>3. \A v \in Workers : ~WorksOn(v, j)'
      BY <1>5, <3>1 DEF Fail, WorksOn
    <3> QED
      BY <3>2, <3>3 DEF SettlesOnce
  <2> QED
    BY <2>1, <2>2, <2>3 DEF PromiseInv, UnstableKeys
<1>6. ASSUME NEW k \in Keys, LeaseLapses(k) PROVE PromiseInv'
  BY <1>6, QuietPreserves DEF LeaseLapses
<1>7. CASE UNCHANGED vars
  BY <1>7, QuietPreserves DEF vars
<1> QED
  BY <1>1, <1>2, <1>3, <1>4, <1>5, <1>6, <1>7 DEF Next

(* The initial states map to initial states.                               *)
LEMMA PromiseInit == Init => Promise!Init
BY DEF Init, Promise!Init, Stored, UnstableKeys, NoRow

(* The only completion of an unstable key settles it, a replay shows what  *)
(* it settled on, and every other step changes neither.                    *)
LEMMA PromiseStep ==
  IInv /\ PromiseInv /\ [Next]_vars =>
    [Promise!Next]_<<[k \in UnstableKeys |-> Stored(k)],
                     [k \in UnstableKeys |-> delivered[k]]>>
<1> DEFINE outcome == [k \in UnstableKeys |-> Stored(k)]
           seen == [k \in UnstableKeys |-> delivered[k]]
<1> SUFFICES ASSUME IInv, PromiseInv, [Next]_vars, ~ (outcome' = outcome /\ seen' = seen)
             PROVE  Promise!Next
  OBVIOUS
<1> USE DEF IInv, TypeOK
<1>0. UnstableKeys \subseteq Keys
  BY DEF UnstableKeys
<1>1. ASSUME NEW w \in Workers, Complete(w) PROVE Promise!Next
  <2> DEFINE k == key[w]
             n == grant[w]
  <2>1. k \in UnstableKeys
    <3>1. ASSUME k \notin UnstableKeys PROVE \A j \in UnstableKeys : row'[j] = row[j] /\ delivered'[j] = delivered[j]
      BY <1>1, <3>1, <1>0 DEF Complete
    <3>2. ASSUME k \notin UnstableKeys PROVE outcome' = outcome /\ seen' = seen
      BY <3>1, <3>2 DEF Stored
    <3> QED
      BY <3>2
  <2>2. n \in (1..MaxAttempts) \ {0} /\ row[k].status = "running" /\ delivered[k] = {}
    BY <1>1, <2>1, WorkerIsAlone DEF Complete, UnstableKeys
  <2>3. outcome[k] = 0
    BY <2>1, <2>2 DEF Stored
  <2>4. outcome' = [outcome EXCEPT ![k] = n]
    <3>1. \A j \in UnstableKeys : row'[j] = IF j = k THEN CompletedRow(n) ELSE row[j]
      BY <1>1, <1>0 DEF Complete
    <3>2. \A j \in UnstableKeys : Stored(j)' = IF j = k THEN n ELSE Stored(j)
      BY <3>1 DEF Stored, CompletedRow
    <3> QED
      BY <2>1, <3>2
  <2>5. seen' = [seen EXCEPT ![k] = @ \cup {n}]
    BY <1>1, <1>0, <2>1 DEF Complete
  <2>6. Promise!Settle(k, n)
    BY <2>3, <2>4, <2>5 DEF Promise!Settle
  <2>7. \E r \in (1..MaxAttempts) \ {0} : Promise!Settle(k, r)
    BY <2>2, <2>6 DEF Promise!Settle
  <2> QED
    BY <2>1, <2>7 DEF Promise!Next
<1>2. ASSUME NEW w \in Workers, NEW k \in Keys, Replay(w, k) PROVE Promise!Next
  <2>1. row' = row /\ outcome' = outcome
    BY <1>2 DEF Replay, Stored
  <2>2. k \in UnstableKeys
    <3>1. ASSUME k \notin UnstableKeys PROVE seen' = seen
      BY <1>2, <3>1, <1>0 DEF Replay
    <3> QED
      BY <2>1, <3>1
  <2>3. outcome[k] = row[k].result /\ row[k].result \in 1..MaxAttempts
    BY <1>2, <2>2 DEF Replay, Stored, PromiseInv, SettlesOnce
  <2>4. seen' = [seen EXCEPT ![k] = @ \cup {outcome[k]}]
    BY <1>2, <1>0, <2>2, <2>3 DEF Replay
  <2>5. Promise!Show(k)
    BY <2>1, <2>3, <2>4 DEF Promise!Show
  <2> QED
    BY <2>2, <2>5 DEF Promise!Next
<1>3. ASSUME NEW w \in Workers, Fail(w) PROVE FALSE
  <2>1. \A j \in UnstableKeys : Stored(j)' = Stored(j)
    <3> SUFFICES ASSUME NEW j \in UnstableKeys PROVE Stored(j)' = Stored(j)
      OBVIOUS
    <3>1. CASE j = key[w]
      <4>1. row[j].status = "running"
        BY <1>3, <3>1, WorkerIsAlone DEF Fail, UnstableKeys
      <4>2. row'[j].status = "execution_uncertain"
        BY <1>3, <3>1, UnstableFailsUncertain DEF Fail, FailedRow, UnstableKeys
      <4> QED
        BY <4>1, <4>2 DEF Stored
    <3>2. CASE j # key[w]
      BY <1>3, <3>2, <1>0 DEF Fail, Stored
    <3> QED
      BY <3>1, <3>2
  <2>2. delivered' = delivered
    BY <1>3 DEF Fail
  <2> QED
    BY <2>1, <2>2
<1>4. ASSUME NEW w \in Workers, NEW k \in Keys, Acquire(w, k) PROVE FALSE
  <2>1. \A j \in UnstableKeys : Stored(j)' = Stored(j)
    <3> SUFFICES ASSUME NEW j \in UnstableKeys PROVE Stored(j)' = Stored(j)
      OBVIOUS
    <3>1. CASE j = k
      <4>1. NeverGranted(k)
        BY <1>4, <3>1, NotGrantedAgain DEF Acquire, UnstableIsGrantedOnce, UnstableKeys
      <4>2. row'[k].status = "running"
        BY <1>4 DEF Acquire, GrantedRow, RowFor, PendingRow, Record
      <4> QED
        BY <3>1, <4>1, <4>2 DEF Stored, NeverGranted, NoRow
    <3>2. CASE j # k
      BY <1>4, <3>2, <1>0 DEF Acquire, Stored
    <3> QED
      BY <3>1, <3>2
  <2>2. delivered' = delivered
    BY <1>4 DEF Acquire
  <2> QED
    BY <2>1, <2>2
<1>5. \/ \E w \in Workers : Complete(w) \/ Fail(w)
      \/ \E w \in Workers, k \in Keys : Acquire(w, k) \/ Replay(w, k)
  <2>1. ~ (row' = row /\ delivered' = delivered)
    BY DEF Stored
  <2> QED
    BY <2>1 DEF Next, vars, ExecuteReturns, ExecuteRaises, Crash, LeaseLapses
<1> QED
  BY <1>1, <1>2, <1>3, <1>4, <1>5

(* Both invariants hold in every reachable state.                          *)
LEMMA PromiseInvariance == Spec => [](IInv /\ PromiseInv)
BY InitInv, NextInv, InitPromiseInv, NextPromiseInv, PTL DEF Spec

(* A key without stable idempotency keeps the promise of SingleOutcome     *)
(* also when every store operation commits on its own: leases lapse and    *)
(* stale workers write, and still it settles on one result.                *)
THEOREM UnstableKeepsPromise == Spec => UnstablePromiseSpec
<1> USE DEF UnstablePromiseSpec, Promise!Spec
<1> QED
  BY PromiseInit, PromiseStep, PromiseInvariance, PTL DEF Spec

(* All callers of such a key are given the same result.                    *)
THEOREM UnstableCallersAgree == Spec => []Promise!Agreement
<1>1. PromiseInv => Promise!Agreement
  BY DEF PromiseInv, SettlesOnce, Promise!Agreement, Stored
<1> QED
  BY <1>1, PromiseInvariance, PTL
=============================================================================
