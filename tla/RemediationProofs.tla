--------------------------- MODULE RemediationProofs ---------------------------
(***************************************************************************)
(* For any number of turns, any plan and any number of attempts: the turns *)
(* of a session that approve the same plan show the same receipts, a SUCCESS*)
(* stands for a mail, and no mail follows a receipt.                       *)
(*                                                                         *)
(* The invariant of StepRun is used as it is proved in StepRunProofs: every*)
(* step of Remediation is a step of the unit of work below it, or leaves it*)
(* alone.  On top of it stands what ties a receipt to the committed row: a *)
(* turn that waits for a call waits for that of its own step, its receipts *)
(* are those of the steps before, and each repeats the report of the       *)
(* execution whose result is committed.                                    *)
(***************************************************************************)
EXTENDS Remediation, TLAPS

Proved == INSTANCE StepRunProofs WITH
            Workers <- Turns, Keys <- Sends,
            Contract <- [s \in Sends |-> "side_effecting_with_stable_idempotency"],
            SideEffecting <- [s \in Sends |-> TRUE]

(* What StepRun assumes of its constants holds here.                       *)
LEMMA StepAssumption == Proved!StepRunAssumption
BY RemediationAssumption DEF Proved!StepRunAssumption, Proved!Contracts, Proved!Stable

(* The two instances of StepRun have the same actions.                     *)
LEMMA SameActions ==
  ASSUME NEW w
  PROVE  /\ \A k : Run!Call(w, k) <=> Proved!Call(w, k)
         /\ Run!AcquireGranted(w) <=> Proved!AcquireGranted(w)
         /\ Run!AcquireReturns(w) <=> Proved!AcquireReturns(w)
         /\ Run!LockTimeout(w) <=> Proved!LockTimeout(w)
         /\ Run!ExecuteReturns(w) <=> Proved!ExecuteReturns(w)
         /\ Run!ExecuteRaises(w) <=> Proved!ExecuteRaises(w)
         /\ Run!Commit(w) <=> Proved!Commit(w)
         /\ Run!RollbackOnRaise(w) <=> Proved!RollbackOnRaise(w)
         /\ Run!CommitFails(w) <=> Proved!CommitFails(w)
         /\ Run!Crash(w) <=> Proved!Crash(w)
         /\ Run!CallerGivesUp(w) <=> Proved!CallerGivesUp(w)
<1> USE DEF
         Run!InTransaction, Proved!InTransaction, Run!Locked, Proved!Locked, Run!OutcomeAt,
         Proved!OutcomeAt, Run!ResolveAcquire, Proved!ResolveAcquire, Run!RowFor,
         Proved!RowFor, Run!NoRow, Proved!NoRow, Run!PendingRow, Proved!PendingRow,
         Run!LeaseExpired, Proved!LeaseExpired, Run!Executable, Proved!Executable,
         Run!Unstable, Proved!Unstable, Run!GrantedRow, Proved!GrantedRow, Run!CompletedRow,
         Proved!CompletedRow, Run!FailStatus, Proved!FailStatus, Run!FailedRow,
         Proved!FailedRow, Run!Give, Proved!Give, Run!End, Proved!End
<1>1. \A k : Run!Call(w, k) <=> Proved!Call(w, k)
  BY DEF Run!Call, Proved!Call
<1>2. Run!AcquireGranted(w) <=> Proved!AcquireGranted(w)
  BY DEF Run!AcquireGranted, Proved!AcquireGranted
<1>3. Run!AcquireReturns(w) <=> Proved!AcquireReturns(w)
  BY DEF Run!AcquireReturns, Proved!AcquireReturns
<1>4. Run!LockTimeout(w) <=> Proved!LockTimeout(w)
  BY DEF Run!LockTimeout, Proved!LockTimeout
<1>5. Run!ExecuteReturns(w) <=> Proved!ExecuteReturns(w)
  BY DEF Run!ExecuteReturns, Proved!ExecuteReturns
<1>6. Run!ExecuteRaises(w) <=> Proved!ExecuteRaises(w)
  BY DEF Run!ExecuteRaises, Proved!ExecuteRaises
<1>7. Run!Commit(w) <=> Proved!Commit(w)
  BY DEF Run!Commit, Proved!Commit
<1>8. Run!RollbackOnRaise(w) <=> Proved!RollbackOnRaise(w)
  BY DEF Run!RollbackOnRaise, Proved!RollbackOnRaise
<1>9. Run!CommitFails(w) <=> Proved!CommitFails(w)
  BY DEF Run!CommitFails, Proved!CommitFails
<1>10. Run!Crash(w) <=> Proved!Crash(w)
  BY DEF Run!Crash, Proved!Crash
<1>11. Run!CallerGivesUp(w) <=> Proved!CallerGivesUp(w)
  BY DEF Run!CallerGivesUp, Proved!CallerGivesUp
<1> QED
  BY <1>1, <1>2, <1>3, <1>4, <1>5, <1>6, <1>7, <1>8, <1>9, <1>10, <1>11

-----------------------------------------------------------------------------
(* A turn waits for a call exactly while its call runs and it has not given*)
(* up, and the call is that of its step.                                   *)
CallInv ==
  \A t \in Turns :
    /\ turn[t] = "calling" <=> pc[t] # "idle" /\ ~abandoned[t]
    /\ pc[t] = "idle" => ~abandoned[t]
    /\ turn[t] = "calling" => key[t] = step[t]

(* A turn on its walk has the receipts of the steps it has passed.         *)
WalkInv ==
  \A t \in Turns :
    /\ turn[t] \in {"idle", "reviewing"} => receipts[t] = <<>> /\ step[t] = 1
    /\ turn[t] = "failed" => receipts[t] = <<>>
    /\ turn[t] \in {"running", "calling"} => Len(receipts[t]) = step[t] - 1

(* A receipt says what the report of the committed execution says, or why  *)
(* no call was made.                                                       *)
Truth(s, receipt) ==
  IF s \in Sends
  THEN /\ table[s].status = "completed"
       /\ receipt.status = report[s][table[s].result].status
       /\ receipt.effect = report[s][table[s].result].effect
  ELSE receipt.status = SkipStatus[Plan[s]] /\ receipt.effect = FALSE

HeldInv ==
  \A t \in Turns : \A s \in DOMAIN receipts[t] : s \in Steps /\ Truth(s, receipts[t][s])

(* A SUCCESS that is committed, or about to be, has had its mail.          *)
MailInv ==
  /\ \A s \in Sends :
       table[s].status = "completed" /\ report[s][table[s].result].status = "SUCCESS"
         => mails[s] > 0
  /\ \A t \in Turns :
       pc[t] = "committing" /\ report[key[t]][attempt[t]].status = "SUCCESS"
         => mails[key[t]] > 0

IInv == Proved!IInv /\ TypeOK /\ CallInv /\ WalkInv /\ HeldInv /\ MailInv

-----------------------------------------------------------------------------
Open(t) == pc[t] \in {"executing", "committing", "raising"}

(* What the invariant of StepRun says in the words of this module.         *)
LEMMA RunFacts ==
  ASSUME Proved!IInv
  PROVE  /\ pc \in [Turns -> {"idle", "waiting", "executing", "committing", "raising"}]
         /\ key \in [Turns -> Sends]
         /\ abandoned \in [Turns -> BOOLEAN]
         /\ effects \in [Sends -> Nat]
         /\ DOMAIN table = Sends
         /\ DOMAIN attempt = Turns
         /\ \A t \in Turns : Open(t) =>
              attempt[t] \in 1..MaxAttempts /\ table[key[t]].status = "absent"
         /\ \A t, u \in Turns : Open(t) /\ Open(u) /\ key[t] = key[u] => t = u
         /\ \A t \in Turns : pc[t] = "committing" =>
              txn[t].status = "completed" /\ txn[t].result = attempt[t]
         /\ \A s \in Sends : table[s].status \in {"absent", "completed"}
         /\ \A s \in Sends : table[s].status = "completed" => table[s].result \in 1..MaxAttempts
<1> USE DEF Proved!IInv
<1>0. /\ Proved!NoRow.status = "absent"
      /\ \A n : Proved!CompletedRow(n).status = "completed" /\ Proved!CompletedRow(n).result = n
  BY DEF Proved!NoRow, Proved!CompletedRow
<1>1. /\ pc \in [Turns -> {"idle", "waiting", "executing", "committing", "raising"}]
      /\ key \in [Turns -> Sends]
      /\ abandoned \in [Turns -> BOOLEAN]
      /\ effects \in [Sends -> Nat]
      /\ DOMAIN table = Sends
      /\ DOMAIN attempt = Turns
  BY DEF Proved!TypeOK
<1>2. \A t \in Turns : Open(t) =>
        attempt[t] \in 1..MaxAttempts /\ table[key[t]].status = "absent"
  BY <1>0 DEF Proved!OpenTransactions, Proved!InTransaction, Open
<1>3. \A t, u \in Turns : Open(t) /\ Open(u) /\ key[t] = key[u] => t = u
  BY DEF Proved!RowLockExcludes, Proved!InTransaction, Open
<1>4. \A t \in Turns : pc[t] = "committing" =>
        txn[t].status = "completed" /\ txn[t].result = attempt[t]
  BY <1>0 DEF Proved!PendingCommits
<1>5. /\ \A s \in Sends : table[s].status \in {"absent", "completed"}
      /\ \A s \in Sends : table[s].status = "completed" => table[s].result \in 1..MaxAttempts
  BY <1>0 DEF Proved!CommittedRows
<1> QED
  BY <1>1, <1>2, <1>3, <1>4, <1>5

(* The invariant of StepRun is kept by the steps taken through it.         *)
LEMMA StepNext == Proved!IInv /\ [Run!Next]_runVars => Proved!IInv'
<1>1. Run!Next => Proved!Next
  BY SameActions DEF Run!Next, Proved!Next, Run!Step, Proved!Step
<1> QED
  BY <1>1, StepAssumption, Proved!NextInv DEF runVars, Proved!vars

(* Every step is a step of StepRun, or one that leaves its variables alone.*)
LEMMA NextIsRunNext == TypeOK /\ [Next]_vars => [Run!Next]_runVars
<1> SUFFICES ASSUME TypeOK, [Next]_vars PROVE [Run!Next]_runVars
  OBVIOUS
<1>1. ASSUME NEW t \in Turns, NEW k \in Kinds, Start(t, k) PROVE UNCHANGED runVars
  BY <1>1 DEF Start
<1>2. ASSUME NEW t \in Turns, Review(t) \/ Refuse(t) \/ EndTurn(t) \/ SkipStep(t)
      PROVE  UNCHANGED runVars
  BY <1>2 DEF Review, Refuse, EndTurn, SkipStep
<1>3. ASSUME NEW t \in Turns, RunStep(t) PROVE Run!Next
  <2>1. step[t] \in Sends /\ Run!Call(t, step[t])
    BY <1>3 DEF RunStep, Sends, TypeOK
  <2> QED
    BY <2>1 DEF Run!Next
<1>4. ASSUME NEW t \in Turns,
             \/ Granted(t) \/ Send(t) \/ SendRaises(t) \/ Executed(t) \/ Replayed(t)
             \/ CallRaises(t)
      PROVE  Run!Next
  BY <1>4 DEF Granted, Send, SendRaises, Executed, Replayed, CallRaises, Run!Next, Run!Step
<1>5. ASSUME NEW t \in Turns, CallTimesOut(t) \/ Crash(t) PROVE Run!Next
  BY <1>5 DEF CallTimesOut, Crash, Run!Next
<1>6. CASE UNCHANGED vars
  BY <1>6 DEF vars
<1> QED
  BY <1>1, <1>2, <1>3, <1>4, <1>5, <1>6 DEF Next

(* The part of TypeOK about the turns.                                     *)
TurnType ==
  /\ kind \in [Turns -> Kinds]
  /\ held \in [Turns -> BOOLEAN]
  /\ turn \in [Turns -> {"idle", "reviewing", "running", "calling", "done", "failed"}]
  /\ step \in [Turns -> 1..(Len(Plan) + 1)]
  /\ \A t \in Turns : turn[t] \in {"running", "calling"} => step[t] \in Steps
  /\ receipts \in [Turns -> Seq(Receipt)]

(* The plan has at least one step, numbered from 1.                        *)
LEMMA PlanFacts ==
  /\ Steps = 1..Len(Plan) /\ Len(Plan) \in Nat /\ 1 \in Steps
  /\ Sends \subseteq Steps
  /\ \A s \in Steps : s \notin Sends => Plan[s] \in DOMAIN SkipStatus
<1>1. Steps = 1..Len(Plan) /\ Len(Plan) \in Nat
  BY RemediationAssumption DEF Steps
<1>2. Sends \subseteq Steps /\ Sends # {}
  BY RemediationAssumption DEF Sends
<1>3. \A s \in Steps : s \notin Sends => Plan[s] \in DOMAIN SkipStatus
  BY RemediationAssumption, <1>1 DEF Sends, Steps
<1>4. 1 \in Steps
  <2>1. PICK s \in Sends : s \in 1..Len(Plan)
    BY <1>1, <1>2
  <2> QED
    BY <1>1, <2>1
<1> QED
  BY <1>1, <1>2, <1>3, <1>4

(* One more receipt.                                                       *)
LEMMA AppendFacts ==
  ASSUME NEW q \in Seq(Receipt), NEW receipt \in Receipt
  PROVE  /\ Append(q, receipt) \in Seq(Receipt)
         /\ Len(Append(q, receipt)) = Len(q) + 1
         /\ Len(q) \in Nat
         /\ DOMAIN Append(q, receipt) = DOMAIN q \cup {Len(q) + 1}
         /\ \A s \in DOMAIN q : Append(q, receipt)[s] = q[s]
         /\ Append(q, receipt)[Len(q) + 1] = receipt
OBVIOUS

(* Committed rows and their reports stay as they are.                      *)
Kept ==
  \A s \in Sends : table[s].status = "completed" =>
    table'[s] = table[s] /\ report'[s][table[s].result] = report[s][table[s].result]

(* The turn gets the receipt of its step and goes on.                      *)
LEMMA RecordStep ==
  ASSUME IInv, NEW t \in Turns, NEW n \in Steps, n = step[t], NEW receipt \in Receipt,
         turn[t] \in {"running", "calling"}, Record(t, receipt),
         Kept, Truth(n, receipt)'
  PROVE  TurnType' /\ WalkInv' /\ HeldInv'
<1>1. TurnType /\ receipts[t] \in Seq(Receipt) /\ step[t] \in 1..Len(Plan)
  BY PlanFacts DEF IInv, TypeOK, TurnType
<1>2. /\ receipts' = [receipts EXCEPT ![t] = Append(receipts[t], receipt)]
      /\ step' = [step EXCEPT ![t] = step[t] + 1]
      /\ turn' = [turn EXCEPT ![t] = IF step[t] = Len(Plan) THEN "done" ELSE "running"]
      /\ kind' = kind /\ held' = held
  BY DEF Record, Goto
<1>3. Len(receipts[t]) = step[t] - 1
  BY DEF IInv, WalkInv
<1>4. TurnType'
  <2>1. receipts' \in [Turns -> Seq(Receipt)]
    BY <1>1, <1>2, AppendFacts DEF TurnType
  <2>2. step' \in [Turns -> 1..(Len(Plan) + 1)]
    BY <1>1, <1>2, PlanFacts DEF TurnType
  <2>3. \A u \in Turns : turn'[u] \in {"running", "calling"} => step'[u] \in Steps
    BY <1>1, <1>2, PlanFacts DEF TurnType
  <2> QED
    BY <1>1, <1>2, <2>1, <2>2, <2>3 DEF TurnType
<1>5. WalkInv'
  <2> SUFFICES ASSUME NEW u \in Turns
               PROVE  /\ turn'[u] \in {"idle", "reviewing"} => receipts'[u] = <<>> /\ step'[u] = 1
                      /\ turn'[u] = "failed" => receipts'[u] = <<>>
                      /\ turn'[u] \in {"running", "calling"} => Len(receipts'[u]) = step'[u] - 1
    BY DEF WalkInv
  <2>1. CASE u = t
    BY <1>1, <1>2, <1>3, <2>1, AppendFacts, PlanFacts DEF TurnType
  <2>2. CASE u # t
    BY <1>1, <1>2, <2>2 DEF IInv, WalkInv, TurnType
  <2> QED
    BY <2>1, <2>2
<1>6. HeldInv'
  <2> SUFFICES ASSUME NEW u \in Turns, NEW s \in DOMAIN receipts'[u]
               PROVE  s \in Steps /\ Truth(s, receipts[u][s])'
    BY DEF HeldInv
  <2>1. CASE u = t /\ s = step[t]
    <3>1. receipts'[u][s] = receipt
      BY <1>1, <1>2, <1>3, <2>1, AppendFacts DEF TurnType
    <3> QED
      BY <1>1, <2>1, <3>1, PlanFacts DEF Truth
  <2>2. CASE ~(u = t /\ s = step[t])
    <3>1. s \in DOMAIN receipts[u] /\ receipts'[u][s] = receipts[u][s]
      BY <1>1, <1>2, <1>3, <2>2, AppendFacts DEF TurnType
    <3>2. s \in Steps /\ Truth(s, receipts[u][s])
      BY <3>1 DEF IInv, HeldInv
    <3> QED
      BY <3>1, <3>2 DEF Kept, Truth
  <2> QED
    BY <2>1, <2>2
<1> QED
  BY <1>4, <1>5, <1>6

(* A step that records nothing: receipts are kept or dropped.              *)
LEMMA NothingRecorded ==
  ASSUME IInv, Kept, TurnType',
         \A t \in Turns :
           \/ turn'[t] = turn[t] /\ step'[t] = step[t] /\ receipts'[t] = receipts[t]
           \/ turn'[t] # "reviewing" /\ receipts'[t] = <<>> /\ step'[t] = 1
           \/ turn'[t] = "failed" /\ receipts'[t] = <<>>
           \/ turn'[t] \in {"reviewing", "running", "failed", "done"} /\ step[t] = 1
              /\ receipts[t] = <<>> /\ receipts'[t] = receipts[t] /\ step'[t] = step[t]
           \/ turn[t] = "running" /\ turn'[t] = "calling"
              /\ receipts'[t] = receipts[t] /\ step'[t] = step[t]
  PROVE  WalkInv' /\ HeldInv'
<1>1. WalkInv'
  BY DEF IInv, WalkInv
<1>2. HeldInv'
  <2> SUFFICES ASSUME NEW t \in Turns, NEW s \in DOMAIN receipts'[t]
               PROVE  s \in Steps /\ Truth(s, receipts[t][s])'
    BY DEF HeldInv
  <2>1. receipts'[t] = receipts[t]
    OBVIOUS
  <2>2. s \in Steps /\ Truth(s, receipts[t][s])
    BY <2>1 DEF IInv, HeldInv
  <2> QED
    BY <2>1, <2>2 DEF Kept, Truth
<1> QED
  BY <1>1, <1>2

-----------------------------------------------------------------------------
(* The parts of the invariant that are about this module's own variables.  *)
OwnInv == TypeOK /\ CallInv /\ WalkInv /\ HeldInv /\ MailInv

DataType ==
  /\ report \in [Sends -> [1..MaxAttempts -> Receipt]]
  /\ mails \in [Sends -> Nat]
  /\ pin \in BOOLEAN

(* TypeOK in two parts.                                                    *)
LEMMA TypeParts == TypeOK <=> DataType /\ TurnType
BY DEF TypeOK, DataType, TurnType

(* The invariant holds initially.                                          *)
LEMMA InitInv == Init => IInv
<1> SUFFICES ASSUME Init PROVE IInv
  OBVIOUS
<1>1. Proved!IInv
  <2>1. Proved!Init
    BY DEF Init, Run!Init, Proved!Init, Run!NoRow, Proved!NoRow
  <2> QED
    BY <2>1, StepAssumption, Proved!InitInv
<1>2. DataType
  BY DEF Init, DataType, NoReport, NotSent, Receipt
<1>3. TurnType
  BY PlanFacts DEF Init, TurnType, Kinds
<1>4. CallInv
  BY DEF Init, Run!Init, CallInv
<1>5. WalkInv /\ HeldInv
  BY DEF Init, WalkInv, HeldInv
<1>6. MailInv
  BY DEF Init, Run!Init, Run!NoRow, MailInv
<1> QED
  BY <1>1, <1>2, <1>3, <1>4, <1>5, <1>6, TypeParts DEF IInv

(* A turn that has no call in flight moves; nothing of its calls changes.  *)
LEMMA TurnStep ==
  ASSUME IInv, NEW t \in Turns, NEW k \in Kinds,
         Start(t, k) \/ Review(t) \/ Refuse(t) \/ EndTurn(t)
  PROVE  OwnInv'
<1> USE DEF Start, Review, Refuse, EndTurn, Goto, runVars
<1>1. DataType /\ TurnType /\ WalkInv /\ CallInv
  BY TypeParts DEF IInv
<1>2. DataType'
  <2>1. pin' \in BOOLEAN
    BY <1>1 DEF DataType, TurnType, PinAfter
  <2> QED
    BY <1>1, <2>1 DEF DataType
<1>3. TurnType'
  <2>1. held' \in [Turns -> BOOLEAN]
    BY <1>1 DEF TurnType, DataType
  <2>2. step' \in [Turns -> 1..(Len(Plan) + 1)] /\ receipts' \in [Turns -> Seq(Receipt)]
    <3>1. 1 \in 1..(Len(Plan) + 1) /\ <<>> \in Seq(Receipt)
      BY PlanFacts
    <3>2. \/ step' = step /\ receipts' = receipts
          \/ step' = [step EXCEPT ![t] = 1] /\ receipts' = [receipts EXCEPT ![t] = <<>>]
      BY Zenon
    <3> QED
      BY <1>1, <3>1, <3>2 DEF TurnType
  <2>3. kind' \in [Turns -> Kinds]
    BY <1>1 DEF TurnType, Kinds
  <2>4. turn' \in [Turns -> {"idle", "reviewing", "running", "calling", "done", "failed"}]
    <3>1. \E label \in {"idle", "reviewing", "running", "done", "failed"} :
            turn' = [turn EXCEPT ![t] = label]
      <4>1. CASE Start(t, k)
        BY <4>1, Zenon
      <4>2. CASE Review(t)
        BY <4>2, Zenon
      <4>3. CASE Refuse(t) \/ EndTurn(t)
        BY <4>3, Zenon
      <4> QED
        BY <4>1, <4>2, <4>3
    <3> QED
      BY <1>1, <3>1 DEF TurnType
  <2>5. \A u \in Turns : turn'[u] \in {"running", "calling"} => step'[u] \in Steps
    <3>1. \A u \in Turns : u # t => turn'[u] = turn[u] /\ step'[u] = step[u]
      BY <1>1 DEF TurnType
    <3>2. turn'[t] \in {"running", "calling"} => step'[t] = 1
      BY <1>1 DEF TurnType, WalkInv
    <3> QED
      BY <1>1, <3>1, <3>2, PlanFacts DEF TurnType
  <2> QED
    BY <2>1, <2>2, <2>3, <2>4, <2>5 DEF TurnType
<1>4. CallInv'
  BY <1>1 DEF CallInv, TurnType
<1>5. WalkInv' /\ HeldInv'
  <2>1. Kept
    BY DEF Kept
  <2>2. \A u \in Turns : u # t =>
          turn'[u] = turn[u] /\ step'[u] = step[u] /\ receipts'[u] = receipts[u]
    BY <1>1 DEF TurnType
  <2>3. CASE Start(t, k) \/ Review(t) \/ Refuse(t)
    <3>1. /\ turn'[t] \in {"reviewing", "running", "failed", "done"}
          /\ step[t] = 1 /\ receipts[t] = <<>>
          /\ receipts'[t] = receipts[t] /\ step'[t] = step[t]
      BY <1>1, <2>3 DEF WalkInv, TurnType
    <3> QED
      BY <1>3, <2>1, <2>2, <3>1, NothingRecorded
  <2>4. CASE EndTurn(t)
    <3>1. turn'[t] # "reviewing" /\ receipts'[t] = <<>> /\ step'[t] = 1
      BY <1>1, <2>4 DEF TurnType
    <3> QED
      BY <1>3, <2>1, <2>2, <3>1, NothingRecorded
  <2> QED
    BY <2>3, <2>4
<1>6. MailInv'
  BY DEF IInv, MailInv
<1> QED
  BY <1>2, <1>3, <1>4, <1>5, <1>6, TypeParts DEF OwnInv, TypeOK, DataType, TurnType

(* A step without a call leaves its receipt.                               *)
LEMMA SkipStepStep ==
  ASSUME IInv, NEW t \in Turns, SkipStep(t)
  PROVE  OwnInv'
<1> USE DEF SkipStep, runVars
<1>1. DataType /\ TurnType /\ CallInv
  BY TypeParts DEF IInv
<1>2. PICK n \in Steps : n = step[t] /\ n \notin Sends
  BY <1>1 DEF TurnType, Sends
<1> DEFINE receipt == [status |-> SkipStatus[Plan[n]], effect |-> FALSE, replayed |-> FALSE]
<1>3. receipt \in Receipt
  BY <1>2, PlanFacts DEF Receipt, SkipStatus
<1>4. Kept
  BY DEF Kept
<1>5. Truth(n, receipt)'
  BY <1>2, <1>3 DEF Truth
<1>6. Record(t, receipt)
  BY <1>2
<1>7. TurnType' /\ WalkInv' /\ HeldInv'
  BY <1>2, <1>3, <1>4, <1>5, <1>6, RecordStep
<1>8. CallInv'
  BY <1>1, <1>6 DEF CallInv, TurnType, Record, Goto
<1>9. DataType' /\ MailInv'
  BY <1>1 DEF DataType, IInv, MailInv
<1> QED
  BY <1>7, <1>8, <1>9, TypeParts DEF OwnInv, TypeOK, DataType, TurnType

-----------------------------------------------------------------------------
(* A step of a call that ends it or not, with what it leaves of the turn:  *)
(* the shape every remaining step has.                                     *)
LEMMA CallInvKept ==
  ASSUME IInv, TurnType', NEW t \in Turns,
         \A u \in Turns : u # t => turn'[u] = turn[u] /\ step'[u] = step[u],
         \A u \in Turns : u # t =>
           pc'[u] = pc[u] /\ abandoned'[u] = abandoned[u] /\ key'[u] = key[u],
         turn'[t] = "calling" <=> pc'[t] # "idle" /\ ~abandoned'[t],
         pc'[t] = "idle" => ~abandoned'[t],
         turn'[t] = "calling" => key'[t] = step'[t]
  PROVE  CallInv'
BY DEF IInv, CallInv

(* The call is made.                                                       *)
LEMMA RunStepStep ==
  ASSUME IInv, NEW t \in Turns, RunStep(t)
  PROVE  OwnInv'
<1> USE DEF RunStep, Goto, Run!Call
<1>1. DataType /\ TurnType /\ CallInv /\ Proved!IInv
  BY TypeParts DEF IInv
<1>2. /\ turn' = [turn EXCEPT ![t] = "calling"] /\ turn[t] = "running"
      /\ pc' = [pc EXCEPT ![t] = "waiting"] /\ pc[t] = "idle"
      /\ key' = [key EXCEPT ![t] = step[t]]
      /\ UNCHANGED <<table, attempt, abandoned, report, mails, pin, kind, held, step, receipts>>
  OBVIOUS
<1>3. TurnType'
  BY <1>1, <1>2 DEF TurnType
<1>4. CallInv'
  BY <1>1, <1>2, <1>3, RunFacts, CallInvKept DEF CallInv, TurnType
<1>5. WalkInv' /\ HeldInv'
  <2>1. Kept
    BY <1>2 DEF Kept
  <2> QED
    BY <1>1, <1>2, <1>3, <2>1, NothingRecorded DEF TurnType
<1>6. DataType' /\ MailInv'
  BY <1>1, <1>2, RunFacts DEF DataType, IInv, MailInv
<1> QED
  BY <1>3, <1>4, <1>5, <1>6, TypeParts DEF OwnInv, TypeOK, DataType, TurnType

(* The row is granted.                                                     *)
LEMMA GrantedStep ==
  ASSUME IInv, NEW t \in Turns, Granted(t)
  PROVE  OwnInv'
<1>1. DataType /\ TurnType /\ CallInv /\ Proved!IInv
  BY TypeParts DEF IInv
<1>2. /\ pc' = [pc EXCEPT ![t] = "executing"] /\ pc[t] = "waiting"
      /\ DOMAIN attempt' = Turns /\ \A u \in Turns : u # t => attempt'[u] = attempt[u]
      /\ UNCHANGED <<table, key, abandoned, turnVars, report, mails, pin>>
  BY <1>1, RunFacts DEF Granted, Run!AcquireGranted
<1> USE DEF turnVars
<1>3. TurnType'
  BY <1>1, <1>2 DEF TurnType
<1>4. CallInv'
  BY <1>1, <1>2, <1>3, RunFacts, CallInvKept DEF CallInv
<1>5. WalkInv' /\ HeldInv'
  <2>1. Kept
    BY <1>2 DEF Kept
  <2> QED
    BY <1>2, <1>3, <2>1, NothingRecorded
<1>6. DataType' /\ MailInv'
  BY <1>1, <1>2, RunFacts DEF DataType, IInv, MailInv
<1> QED
  BY <1>3, <1>4, <1>5, <1>6, TypeParts DEF OwnInv, TypeOK, DataType, TurnType

(* The adapter returns: its report is that of this execution only, whose   *)
(* row is not committed yet, and a SUCCESS has sent its mail.              *)
LEMMA SendStep ==
  ASSUME IInv, NEW t \in Turns, Send(t)
  PROVE  OwnInv'
<1>1. DataType /\ TurnType /\ CallInv /\ MailInv /\ Proved!IInv
  BY TypeParts DEF IInv
<1>2. /\ pc' = [pc EXCEPT ![t] = "committing"] /\ pc[t] = "executing"
      /\ UNCHANGED <<table, key, attempt, abandoned, turnVars, pin>>
  BY DEF Send, Run!ExecuteReturns
<1>3. PICK sending \in Sendings :
        /\ report' = [report EXCEPT ![key[t]][attempt[t]] = sending.receipt]
        /\ mails' = [mails EXCEPT ![key[t]] = @ + sending.mails]
  BY DEF Send
<1>4. /\ sending.receipt \in Receipt /\ sending.mails \in {0, 1}
      /\ sending.receipt.status = "SUCCESS" => sending.mails = 1
  <2>1. CASE sending = Sent
    BY <2>1 DEF Sent, Receipt
  <2>2. CASE sending = NotSent(0)
    BY <2>2 DEF NotSent, Receipt
  <2>3. CASE sending = NotSent(1)
    BY <2>3 DEF NotSent, Receipt
  <2> QED
    BY <2>1, <2>2, <2>3 DEF Sendings
<1>5. key[t] \in Sends /\ attempt[t] \in 1..MaxAttempts /\ table[key[t]].status = "absent"
  BY <1>1, <1>2, RunFacts DEF Open
<1> USE DEF turnVars
<1>6. TurnType'
  BY <1>1, <1>2 DEF TurnType
<1>7. CallInv'
  BY <1>1, <1>2, <1>6, RunFacts, CallInvKept DEF CallInv
<1>8. \A s \in Sends : s # key[t] => report'[s] = report[s]
  BY <1>1, <1>3, <1>5 DEF DataType
<1>9. Kept
  BY <1>2, <1>5, <1>8 DEF Kept
<1>10. WalkInv' /\ HeldInv'
  BY <1>2, <1>6, <1>9, NothingRecorded
<1>11. DataType'
  BY <1>1, <1>2, <1>3, <1>4, <1>5 DEF DataType
<1>12. \A s \in Sends : mails'[s] >= mails[s] /\ mails[s] \in Nat /\ mails'[s] \in Nat
  BY <1>1, <1>3, <1>4, <1>5 DEF DataType
<1>13. MailInv'
  <2>1. \A s \in Sends :
          table'[s].status = "completed" /\ report'[s][table'[s].result].status = "SUCCESS"
            => mails'[s] > 0
    BY <1>1, <1>2, <1>9, <1>12 DEF MailInv, Kept
  <2>2. ASSUME NEW u \in Turns, pc'[u] = "committing",
               report'[key'[u]][attempt'[u]].status = "SUCCESS"
        PROVE  mails'[key'[u]] > 0
    <3>1. CASE u = t
      <4>1. report'[key[t]][attempt[t]] = sending.receipt
        BY <1>1, <1>3, <1>5 DEF DataType
      <4>2. mails'[key[t]] = mails[key[t]] + sending.mails
        BY <1>1, <1>3, <1>5 DEF DataType
      <4> QED
        BY <1>2, <1>4, <1>5, <1>12, <2>2, <3>1, <4>1, <4>2
    <3>2. CASE u # t
      <4>1. pc[u] = "committing" /\ key[u] \in Sends
        BY <1>1, <1>2, <2>2, <3>2, RunFacts
      <4>2. key[u] # key[t]
        BY <1>1, <1>2, <3>2, <4>1, RunFacts DEF Open
      <4> QED
        BY <1>1, <1>2, <1>8, <1>12, <2>2, <4>1, <4>2 DEF MailInv
    <3> QED
      BY <3>1, <3>2
  <2> QED
    BY <2>1, <2>2 DEF MailInv
<1> QED
  BY <1>6, <1>7, <1>10, <1>11, <1>13, TypeParts DEF OwnInv, TypeOK, DataType, TurnType

(* Mails grow with the calls that reach the provider.                      *)
LEMMA MailsGrow ==
  ASSUME IInv, MailsFollow, NEW s \in Sends, NEW done \in {0, 1},
         effects' = [effects EXCEPT ![s] = @ + done]
  PROVE  /\ mails' \in [Sends -> Nat]
         /\ \A r \in Sends : mails'[r] >= mails[r]
<1>1. effects \in [Sends -> Nat] /\ mails \in [Sends -> Nat]
  BY RunFacts, TypeParts DEF IInv, DataType
<1>2. \A r \in Sends : effects'[r] - effects[r] \in {0, 1}
  BY <1>1
<1>3. \A r \in Sends : mails[r] + effects'[r] - effects[r] \in Nat
  BY <1>1, <1>2
<1> QED
  BY <1>1, <1>2, <1>3 DEF MailsFollow

(* More mails than before make no committed or pending SUCCESS untrue.     *)
LEMMA MailInvKept ==
  ASSUME IInv, table' = table, report' = report, mails \in [Sends -> Nat],
         mails' \in [Sends -> Nat], \A s \in Sends : mails'[s] >= mails[s],
         \A u \in Turns : pc'[u] = "committing" =>
           pc[u] = "committing" /\ key'[u] = key[u] /\ attempt'[u] = attempt[u] /\ key[u] \in Sends
  PROVE  MailInv'
<1>1. \A s \in Sends : mails[s] > 0 => mails'[s] > 0
  OBVIOUS
<1> QED
  BY <1>1 DEF IInv, MailInv

(* Something raises in execute().                                          *)
LEMMA SendRaisesStep ==
  ASSUME IInv, NEW t \in Turns, SendRaises(t)
  PROVE  OwnInv'
<1>1. DataType /\ TurnType /\ CallInv /\ Proved!IInv
  BY TypeParts DEF IInv
<1>2. /\ pc' = [pc EXCEPT ![t] = "raising"] /\ pc[t] = "executing"
      /\ UNCHANGED <<table, key, attempt, abandoned, turnVars, report, pin>>
  BY DEF SendRaises, Run!ExecuteRaises
<1>3. mails' \in [Sends -> Nat] /\ \A s \in Sends : mails'[s] >= mails[s]
  <2>1. \E done \in {0, 1} : effects' = [effects EXCEPT ![key[t]] = @ + done]
    BY DEF SendRaises, Run!ExecuteRaises
  <2>2. MailsFollow /\ key[t] \in Sends
    BY <1>1, RunFacts DEF SendRaises
  <2> QED
    BY <2>1, <2>2, MailsGrow
<1> USE DEF turnVars
<1>4. TurnType'
  BY <1>1, <1>2 DEF TurnType
<1>5. CallInv'
  BY <1>1, <1>2, <1>4, RunFacts, CallInvKept DEF CallInv
<1>6. WalkInv' /\ HeldInv'
  <2>1. Kept
    BY <1>2 DEF Kept
  <2> QED
    BY <1>2, <1>4, <2>1, NothingRecorded
<1>7. DataType' /\ MailInv'
  BY <1>1, <1>2, <1>3, RunFacts, MailInvKept DEF DataType
<1> QED
  BY <1>4, <1>5, <1>6, <1>7, TypeParts DEF OwnInv, TypeOK, DataType, TurnType

-----------------------------------------------------------------------------
(* A call that ends.                                                       *)
Ends(t) ==
  /\ pc[t] # "idle"
  /\ pc' = [pc EXCEPT ![t] = "idle"]
  /\ abandoned' = [abandoned EXCEPT ![t] = FALSE]
  /\ UNCHANGED <<key, attempt>>

(* The turn drops what it has and reports a failure.                       *)
LEMMA FailsType ==
  ASSUME IInv, NEW t \in Turns, Fails(t)
  PROVE  TurnType'
BY TypeParts DEF IInv, TurnType, Fails, Goto

(* A call ends with an exception: its turn, if it still waits, fails.      *)
LEMMA CallRaisesStep ==
  ASSUME IInv, NEW t \in Turns, CallRaises(t)
  PROVE  OwnInv'
<1>1. DataType /\ TurnType /\ CallInv /\ Proved!IInv
  BY TypeParts DEF IInv
<1>2. Ends(t) /\ UNCHANGED <<table, report, mails, pin>>
  BY DEF CallRaises, Ends, Run!LockTimeout, Run!RollbackOnRaise, Run!CommitFails, Run!End
<1>3. IF abandoned[t] THEN UNCHANGED turnVars ELSE Fails(t)
  BY DEF CallRaises
<1> USE DEF turnVars, Fails, Goto, Ends
<1>4. TurnType'
  <2>1. CASE abandoned[t]
    BY <1>1, <1>3, <2>1 DEF TurnType
  <2>2. CASE ~abandoned[t]
    BY <1>3, <2>2, FailsType
  <2> QED
    BY <2>1, <2>2
<1>5. CallInv'
  <2>1. \A u \in Turns : u # t => turn'[u] = turn[u] /\ step'[u] = step[u]
    BY <1>1, <1>3 DEF TurnType
  <2>2. turn'[t] # "calling"
    BY <1>1, <1>3 DEF TurnType, CallInv
  <2> QED
    BY <1>1, <1>2, <1>4, <2>1, <2>2, RunFacts, CallInvKept
<1>6. WalkInv' /\ HeldInv'
  <2>1. Kept
    BY <1>2 DEF Kept
  <2>2. CASE abandoned[t]
    BY <1>3, <1>4, <2>1, <2>2, NothingRecorded
  <2>3. CASE ~abandoned[t]
    <3>1. \A u \in Turns :
            \/ turn'[u] = turn[u] /\ step'[u] = step[u] /\ receipts'[u] = receipts[u]
            \/ turn'[u] = "failed" /\ receipts'[u] = <<>>
      BY <1>1, <1>3, <2>3 DEF TurnType
    <3> QED
      BY <1>4, <2>1, <3>1, NothingRecorded
  <2> QED
    BY <2>2, <2>3
<1>7. DataType' /\ MailInv'
  BY <1>1, <1>2, RunFacts, MailInvKept DEF DataType
<1> QED
  BY <1>4, <1>5, <1>6, <1>7, TypeParts DEF OwnInv, TypeOK, DataType, TurnType

(* The turn stops waiting; its call goes on.                               *)
LEMMA CallTimesOutStep ==
  ASSUME IInv, NEW t \in Turns, CallTimesOut(t)
  PROVE  OwnInv'
<1>1. DataType /\ TurnType /\ CallInv /\ Proved!IInv
  BY TypeParts DEF IInv
<1>2. /\ pc[t] # "idle" /\ abandoned' = [abandoned EXCEPT ![t] = TRUE]
      /\ UNCHANGED <<pc, key, attempt, table, report, mails, pin>>
  BY DEF CallTimesOut, Run!CallerGivesUp
<1>3. Fails(t)
  BY DEF CallTimesOut
<1>4. TurnType'
  BY <1>3, FailsType
<1> USE DEF Fails, Goto
<1>5. CallInv'
  <2>1. \A u \in Turns : u # t => turn'[u] = turn[u] /\ step'[u] = step[u]
    BY <1>1, <1>3 DEF TurnType
  <2>2. turn'[t] # "calling"
    BY <1>1, <1>3 DEF TurnType
  <2> QED
    BY <1>1, <1>2, <1>4, <2>1, <2>2, RunFacts, CallInvKept
<1>6. WalkInv' /\ HeldInv'
  <2>1. Kept
    BY <1>2 DEF Kept
  <2>2. \A u \in Turns :
          \/ turn'[u] = turn[u] /\ step'[u] = step[u] /\ receipts'[u] = receipts[u]
          \/ turn'[u] = "failed" /\ receipts'[u] = <<>>
    BY <1>1, <1>3 DEF TurnType
  <2> QED
    BY <1>4, <2>1, <2>2, NothingRecorded
<1>7. DataType' /\ MailInv'
  BY <1>1, <1>2, RunFacts, MailInvKept DEF DataType
<1> QED
  BY <1>4, <1>5, <1>6, <1>7, TypeParts DEF OwnInv, TypeOK, DataType, TurnType

(* The process dies with its turn; a mail may have gone out.               *)
LEMMA CrashStep ==
  ASSUME IInv, NEW t \in Turns, Crash(t)
  PROVE  OwnInv'
<1>1. DataType /\ TurnType /\ CallInv /\ Proved!IInv
  BY TypeParts DEF IInv
<1>2. Ends(t) /\ UNCHANGED <<table, report, pin>>
  BY DEF Crash, Ends, Run!Crash, Run!End
<1>3. mails' \in [Sends -> Nat] /\ \A s \in Sends : mails'[s] >= mails[s]
  <2>1. \E done \in {0, 1} : effects' = [effects EXCEPT ![key[t]] = @ + done]
    BY DEF Crash, Run!Crash
  <2>2. MailsFollow /\ key[t] \in Sends
    BY <1>1, RunFacts DEF Crash
  <2> QED
    BY <2>1, <2>2, MailsGrow
<1>4. /\ turn' = [turn EXCEPT ![t] = "idle"]
      /\ step' = [step EXCEPT ![t] = 1]
      /\ receipts' = [receipts EXCEPT ![t] = <<>>]
      /\ kind' = [kind EXCEPT ![t] = "other"]
      /\ held' = [held EXCEPT ![t] = FALSE]
  BY DEF Crash, Goto
<1>5. TurnType'
  BY <1>1, <1>4, PlanFacts DEF TurnType, Kinds
<1>6. CallInv'
  <2>1. \A u \in Turns : u # t => turn'[u] = turn[u] /\ step'[u] = step[u]
    BY <1>1, <1>4 DEF TurnType
  <2>2. turn'[t] # "calling"
    BY <1>1, <1>4 DEF TurnType
  <2>3. /\ \A u \in Turns : u # t => pc'[u] = pc[u] /\ abandoned'[u] = abandoned[u]
        /\ key' = key /\ pc'[t] = "idle" /\ ~abandoned'[t]
    BY <1>1, <1>2, RunFacts DEF Ends
  <2> QED
    BY <1>5, <2>1, <2>2, <2>3, CallInvKept
<1>7. WalkInv' /\ HeldInv'
  <2>1. Kept
    BY <1>2 DEF Kept
  <2>2. \A u \in Turns :
          \/ turn'[u] = turn[u] /\ step'[u] = step[u] /\ receipts'[u] = receipts[u]
          \/ turn'[u] # "reviewing" /\ receipts'[u] = <<>> /\ step'[u] = 1
    BY <1>1, <1>4 DEF TurnType
  <2> QED
    BY <1>5, <2>1, <2>2, NothingRecorded
<1>8. DataType' /\ MailInv'
  BY <1>1, <1>2, <1>3, RunFacts, MailInvKept DEF DataType, Ends
<1> QED
  BY <1>5, <1>6, <1>7, <1>8, TypeParts DEF OwnInv, TypeOK, DataType, TurnType

-----------------------------------------------------------------------------
(* A call that ends with a receipt.                                        *)
LEMMA CallReturns ==
  ASSUME IInv, NEW t \in Turns, Ends(t), NEW receipt \in Receipt, CallerGets(t, receipt),
         Kept, NEW n \in Sends, n = key[t], Truth(n, receipt)'
  PROVE  TurnType' /\ CallInv' /\ WalkInv' /\ HeldInv'
<1>1. TurnType /\ CallInv /\ Proved!IInv
  BY TypeParts DEF IInv
<1>2. /\ \A u \in Turns : u # t =>
           pc'[u] = pc[u] /\ abandoned'[u] = abandoned[u] /\ key'[u] = key[u]
      /\ pc'[t] = "idle" /\ ~abandoned'[t]
  BY <1>1, RunFacts DEF Ends
<1>3. CASE abandoned[t]
  <2>1. UNCHANGED turnVars
    BY <1>3 DEF CallerGets
  <2> USE DEF turnVars
  <2>2. TurnType'
    BY <1>1, <2>1 DEF TurnType
  <2>3. WalkInv' /\ HeldInv'
    BY <2>1, <2>2, NothingRecorded
  <2>4. CallInv'
    <3>1. turn'[t] # "calling"
      BY <1>1, <1>3, <2>1 DEF CallInv
    <3> QED
      BY <1>2, <2>1, <2>2, <3>1, CallInvKept
  <2> QED
    BY <2>2, <2>3, <2>4
<1>4. CASE ~abandoned[t]
  <2>1. Record(t, receipt)
    BY <1>4 DEF CallerGets
  <2>2. turn[t] = "calling" /\ n = step[t] /\ n \in Steps
    BY <1>1, <1>4, PlanFacts DEF CallInv, Ends
  <2>3. TurnType' /\ WalkInv' /\ HeldInv'
    BY <2>1, <2>2, RecordStep
  <2>4. CallInv'
    <3>1. turn' = [turn EXCEPT ![t] = IF step[t] = Len(Plan) THEN "done" ELSE "running"]
          /\ step' = [step EXCEPT ![t] = @ + 1]
      BY <2>1 DEF Record, Goto
    <3>2. turn'[t] # "calling" /\ \A u \in Turns : u # t => turn'[u] = turn[u] /\ step'[u] = step[u]
      BY <1>1, <3>1 DEF TurnType
    <3> QED
      BY <1>2, <2>3, <3>2, CallInvKept
  <2> QED
    BY <2>3, <2>4
<1> QED
  BY <1>3, <1>4

(* The execution commits and its receipt is the first one of the step.     *)
LEMMA ExecutedStep ==
  ASSUME IInv, NEW t \in Turns, Executed(t)
  PROVE  OwnInv'
<1>1. DataType /\ TurnType /\ CallInv /\ MailInv /\ Proved!IInv
  BY TypeParts DEF IInv
<1>2. /\ Ends(t) /\ pc[t] = "committing"
      /\ table' = [table EXCEPT ![key[t]] = txn[t]]
      /\ UNCHANGED <<report, mails, pin>>
  BY DEF Executed, Ends, Run!Commit, Run!End
<1>3. PICK n \in Sends : n = key[t]
  BY <1>1, RunFacts
<1>4. PICK i \in 1..MaxAttempts : i = attempt[t]
  BY <1>1, <1>2, RunFacts DEF Open
<1>5. table[n].status = "absent" /\ table'[n].status = "completed" /\ table'[n].result = i
  BY <1>1, <1>2, <1>3, <1>4, RunFacts DEF Open
<1>6. Kept
  BY <1>1, <1>2, <1>3, <1>5, RunFacts DEF Kept
<1>7. PICK receipt \in Receipt : receipt = report[n][i]
  BY <1>1 DEF DataType
<1>8. CallerGets(t, receipt)
  BY <1>3, <1>4, <1>7 DEF Executed
<1>9. Truth(n, receipt)'
  BY <1>2, <1>5, <1>7 DEF Truth
<1>10. TurnType' /\ CallInv' /\ WalkInv' /\ HeldInv'
  BY <1>2, <1>3, <1>6, <1>8, <1>9, CallReturns
<1>11. MailInv'
  <2>1. ASSUME NEW s \in Sends, table'[s].status = "completed",
               report'[s][table'[s].result].status = "SUCCESS"
        PROVE  mails'[s] > 0
    <3>1. CASE s = n
      BY <1>1, <1>2, <1>3, <1>4, <1>5, <2>1, <3>1 DEF MailInv
    <3>2. CASE s # n
      BY <1>1, <1>2, <1>3, <2>1, <3>2, RunFacts DEF MailInv
    <3> QED
      BY <3>1, <3>2
  <2>2. \A u \in Turns : pc'[u] = "committing" => pc[u] = "committing"
    BY <1>1, <1>2, RunFacts DEF Ends
  <2> QED
    BY <1>1, <1>2, <2>1, <2>2 DEF MailInv, Ends
<1>12. DataType'
  BY <1>1, <1>2 DEF DataType
<1> QED
  BY <1>10, <1>11, <1>12, TypeParts DEF OwnInv, TypeOK, DataType, TurnType

(* The key has a committed row: the call repeats its report.               *)
LEMMA ReplayedStep ==
  ASSUME IInv, NEW t \in Turns, Replayed(t)
  PROVE  OwnInv'
<1>1. DataType /\ TurnType /\ CallInv /\ Proved!IInv
  BY TypeParts DEF IInv
<1>2. /\ Ends(t) /\ UNCHANGED <<table, report, mails, pin>>
      /\ \E lapsed : Run!OutcomeAt(key[t], lapsed) # "execute"
  BY DEF Replayed, Ends, Run!AcquireReturns, Run!End
<1>3. PICK n \in Sends : n = key[t]
  BY <1>1, RunFacts
<1>4. table[n].status = "completed" /\ table[n].result \in 1..MaxAttempts
  <2>1. table[n] # Proved!NoRow
    BY <1>2, <1>3 DEF Proved!NoRow, Run!OutcomeAt, Run!ResolveAcquire, Run!RowFor, Run!NoRow,
       Run!PendingRow, Run!Executable
  <2>2. \A i : Proved!CompletedRow(i).status = "completed"
    BY DEF Proved!CompletedRow
  <2> QED
    BY <1>1, <2>1, <2>2, RunFacts DEF Proved!IInv, Proved!CommittedRows
<1>5. PICK i \in 1..MaxAttempts : i = table[n].result
  BY <1>4
<1>6. report[n][i] \in Receipt
  BY <1>1 DEF DataType
<1>7. PICK receipt \in Receipt : receipt = [report[n][i] EXCEPT !.replayed = TRUE]
  BY <1>6 DEF Receipt
<1>8. CallerGets(t, receipt)
  BY <1>3, <1>5, <1>7 DEF Replayed
<1>9. Kept
  BY <1>2 DEF Kept
<1>10. Truth(n, receipt)'
  BY <1>2, <1>4, <1>5, <1>6, <1>7 DEF Truth, Receipt
<1>11. TurnType' /\ CallInv' /\ WalkInv' /\ HeldInv'
  BY <1>2, <1>3, <1>8, <1>9, <1>10, CallReturns
<1>12. DataType' /\ MailInv'
  BY <1>1, <1>2, RunFacts, MailInvKept DEF DataType, Ends
<1> QED
  BY <1>11, <1>12, TypeParts DEF OwnInv, TypeOK, DataType, TurnType

-----------------------------------------------------------------------------
(* Every step preserves the invariant.                                     *)
LEMMA NextInv == IInv /\ [Next]_vars => IInv'
<1> SUFFICES ASSUME IInv, [Next]_vars PROVE IInv'
  OBVIOUS
<1>1. Proved!IInv'
  BY NextIsRunNext, StepNext DEF IInv
<1>2. ASSUME NEW t \in Turns, NEW k \in Kinds, Start(t, k) PROVE OwnInv'
  BY <1>2, TurnStep
<1>3. ASSUME NEW t \in Turns, Review(t) \/ Refuse(t) \/ EndTurn(t) PROVE OwnInv'
  <2>1. "other" \in Kinds
    BY DEF Kinds
  <2> QED
    BY <1>3, <2>1, TurnStep
<1>4. ASSUME NEW t \in Turns, SkipStep(t) \/ RunStep(t) \/ Granted(t) \/ Send(t) PROVE OwnInv'
  BY <1>4, SkipStepStep, RunStepStep, GrantedStep, SendStep
<1>5. ASSUME NEW t \in Turns,
             \/ SendRaises(t) \/ Executed(t) \/ Replayed(t)
             \/ CallRaises(t) \/ CallTimesOut(t) \/ Crash(t)
      PROVE  OwnInv'
  BY <1>5, SendRaisesStep, ExecutedStep, ReplayedStep, CallRaisesStep, CallTimesOutStep, CrashStep
<1>6. ASSUME UNCHANGED vars PROVE OwnInv'
  <2> USE <1>6 DEF vars, runVars, turnVars, IInv
  <2>1. TypeOK'
    BY DEF TypeOK
  <2>2. CallInv' /\ WalkInv'
    BY DEF CallInv, WalkInv
  <2>3. HeldInv'
    BY DEF HeldInv, Truth
  <2>4. MailInv'
    BY DEF MailInv
  <2> QED
    BY <2>1, <2>2, <2>3, <2>4 DEF OwnInv
<1>7. OwnInv'
  <2>1. CASE Next
    BY <1>2, <1>3, <1>4, <1>5, <2>1 DEF Next
  <2> QED
    BY <1>6, <2>1
<1> QED
  BY <1>1, <1>7 DEF IInv, OwnInv

(* The invariant holds in every reachable state.                           *)
LEMMA Invariance == Spec => []IInv
BY InitInv, NextInv, PTL DEF Spec

(* Turns, pins, receipts, reports and the number of mails keep their types:*)
(* the walk of a turn does not run past the plan.                          *)
THEOREM TypeCorrect == Spec => []TypeOK
BY Invariance, PTL DEF IInv

(* Two turns that approved the same plan show the same receipts, for any   *)
(* plan and however often they were interrupted.                           *)
THEOREM SameReceipts == Spec => []ReceiptsAgree
<1>1. IInv => ReceiptsAgree
  <2> SUFFICES ASSUME IInv, NEW t \in Turns, NEW u \in Turns, NEW s \in Steps,
                      Holds(t, s), Holds(u, s)
               PROVE  /\ receipts[t][s].status = receipts[u][s].status
                      /\ receipts[t][s].effect = receipts[u][s].effect
    BY DEF ReceiptsAgree
  <2>1. Truth(s, receipts[t][s]) /\ Truth(s, receipts[u][s])
    BY DEF IInv, HeldInv, Holds
  <2> QED
    BY <2>1 DEF Truth
<1> QED
  BY <1>1, Invariance, PTL

(* A SUCCESS that is shown stands for a mail.                              *)
THEOREM ShownWasSent == Spec => []SuccessWasSent
<1>1. IInv => SuccessWasSent
  <2> SUFFICES ASSUME IInv, NEW t \in Turns, NEW s \in Sends,
                      Holds(t, s), receipts[t][s].status = "SUCCESS"
               PROVE  mails[s] > 0
    BY DEF SuccessWasSent
  <2>1. Truth(s, receipts[t][s])
    BY DEF IInv, HeldInv, Holds
  <2> QED
    BY <2>1 DEF Truth, IInv, MailInv
<1> QED
  BY <1>1, Invariance, PTL

(* Mails go out only where a transaction is open, which no row with a      *)
(* receipt has.                                                            *)
THEOREM NoMailAfterItsReceipt == Spec => NoMailAfterReceipt
<1>1. ASSUME IInv, [Next]_vars, NEW s \in Sends, NEW t \in Turns, Holds(t, s)
      PROVE  mails'[s] = mails[s]
  <2>1. table[s].status = "completed"
    BY <1>1 DEF IInv, HeldInv, Holds, Truth
  <2>2. DataType /\ Proved!IInv
    BY <1>1, TypeParts DEF IInv
  <2>3. ASSUME NEW u \in Turns, Send(u) PROVE mails'[s] = mails[s]
    <3>1. key[u] # s
      BY <2>1, <2>2, <2>3, RunFacts DEF Send, Run!ExecuteReturns, Open
    <3> QED
      BY <2>2, <2>3, <3>1 DEF Send, DataType
  <2>4. ASSUME NEW u \in Turns, SendRaises(u) \/ Crash(u) PROVE mails'[s] = mails[s]
    <3>1. effects'[s] = effects[s] /\ effects[s] \in Nat
      <4>1. CASE SendRaises(u)
        <5>1. key[u] # s
          BY <2>1, <2>2, <4>1, RunFacts DEF SendRaises, Run!ExecuteRaises, Open
        <5> QED
          BY <2>2, <4>1, <5>1, RunFacts DEF SendRaises, Run!ExecuteRaises
      <4>2. CASE Crash(u) /\ pc[u] = "executing"
        <5>1. key[u] # s
          BY <2>1, <2>2, <4>2, RunFacts DEF Open
        <5> QED
          BY <2>2, <4>2, <5>1, RunFacts DEF Crash, Run!Crash
      <4>3. CASE Crash(u) /\ pc[u] # "executing"
        <5>1. effects' = [effects EXCEPT ![key[u]] = @ + 0]
          BY <4>3 DEF Crash, Run!Crash
        <5> QED
          BY <2>2, <5>1, RunFacts
      <4> QED
        BY <2>4, <4>1, <4>2, <4>3
    <3>2. mails'[s] = mails[s] + effects'[s] - effects[s] /\ mails[s] \in Nat
      BY <2>2, <2>4 DEF SendRaises, Crash, MailsFollow, DataType
    <3> QED
      BY <3>1, <3>2
  <2>5. ASSUME NEW u \in Turns,
               \/ \E k \in Kinds : Start(u, k)
               \/ Review(u) \/ Refuse(u) \/ EndTurn(u) \/ SkipStep(u) \/ RunStep(u)
               \/ Granted(u) \/ Executed(u) \/ Replayed(u) \/ CallRaises(u) \/ CallTimesOut(u)
        PROVE  mails'[s] = mails[s]
    BY <2>5 DEF Start, Review, Refuse, EndTurn, SkipStep, RunStep, Granted, Executed, Replayed,
       CallRaises, CallTimesOut
  <2> QED
    BY <1>1, <2>3, <2>4, <2>5 DEF Next, vars
<1>2. IInv /\ [Next]_vars =>
        [\A s \in Sends : (\E t \in Turns : Holds(t, s)) => mails'[s] = mails[s]]_vars
  BY <1>1
<1> QED
  BY <1>2, Invariance, PTL DEF Spec, NoMailAfterReceipt

-----------------------------------------------------------------------------
(* What a turn has passed stays done.                                      *)

(* A call that returns without executing has found a completed row.        *)
LEMMA ReturnsFindResult ==
  ASSUME Proved!IInv, NEW t \in Turns, Run!AcquireReturns(t)
  PROVE  /\ key[t] \in Sends
         /\ table[key[t]].status = "completed"
         /\ table[key[t]].result \in 1..MaxAttempts
<1>1. key[t] \in Sends /\ \E lapsed : Run!OutcomeAt(key[t], lapsed) # "execute"
  BY RunFacts DEF Run!AcquireReturns
<1>2. table[key[t]] # Proved!NoRow
  BY <1>1 DEF Proved!NoRow, Run!OutcomeAt, Run!ResolveAcquire, Run!RowFor, Run!NoRow,
     Run!PendingRow, Run!Executable
<1>3. \A i : Proved!CompletedRow(i).status = "completed"
  BY DEF Proved!CompletedRow
<1> QED
  BY <1>1, <1>2, <1>3, RunFacts DEF Proved!IInv, Proved!CommittedRows

(* A commit turns the absent row of its key into a completed one.          *)
LEMMA CommitFacts ==
  ASSUME Proved!IInv, NEW t \in Turns, Run!Commit(t)
  PROVE  /\ key[t] \in Sends /\ attempt[t] \in 1..MaxAttempts
         /\ table[key[t]].status = "absent"
         /\ table'[key[t]].status = "completed" /\ table'[key[t]].result = attempt[t]
         /\ \A s \in Sends : s # key[t] => table'[s] = table[s]
<1>1. pc[t] = "committing" /\ table' = [table EXCEPT ![key[t]] = txn[t]]
  BY DEF Run!Commit
<1> QED
  BY <1>1, RunFacts DEF Open

(* Only a commit writes the table.                                         *)
LEMMA RowsStay ==
  ASSUME Next, ~ \E t \in Turns : Executed(t)
  PROVE  table' = table
BY DEF Next, Start, Review, Refuse, EndTurn, SkipStep, RunStep, Run!Call, Granted,
       Run!AcquireGranted, Send, Run!ExecuteReturns, SendRaises, Run!ExecuteRaises, Replayed,
       Run!AcquireReturns, CallRaises, Run!LockTimeout, Run!RollbackOnRaise, Run!CommitFails,
       CallTimesOut, Run!CallerGivesUp, Crash, Run!Crash, runVars

(* A turn moves to the next step when it has the receipt of its step, and  *)
(* a mail step has one only with a committed row; else it stays where it is*)
(* or starts again.                                                        *)
LEMMA StepsAdvance ==
  ASSUME IInv, [Next]_vars, NEW t \in Turns
  PROVE  \/ step'[t] = step[t]
         \/ step'[t] = 1
         \/ /\ step'[t] = step[t] + 1
            /\ step[t] \in Sends => table'[step[t]].status = "completed"
<1>0. /\ TurnType /\ CallInv /\ Proved!IInv
      /\ step \in [Turns -> 1..(Len(Plan) + 1)]
  BY TypeParts DEF IInv, TurnType
<1>1. ASSUME NEW u \in Turns, NEW receipt, Record(u, receipt),
             step[u] \in Sends => table'[step[u]].status = "completed"
      PROVE  \/ step'[t] = step[t]
             \/ step'[t] = step[t] + 1 /\ (step[t] \in Sends => table'[step[t]].status = "completed")
  BY <1>0, <1>1 DEF Record
<1>2. ASSUME NEW u \in Turns, SkipStep(u)
      PROVE  \/ step'[t] = step[t]
             \/ step'[t] = step[t] + 1 /\ (step[t] \in Sends => table'[step[t]].status = "completed")
  <2>1. step[u] \notin Sends
    BY <1>2 DEF SkipStep, Sends
  <2> QED
    BY <1>1, <1>2, <2>1 DEF SkipStep
<1>3. ASSUME NEW u \in Turns, NEW receipt, CallerGets(u, receipt), pc[u] # "idle",
             table'[key[u]].status = "completed"
      PROVE  \/ step'[t] = step[t]
             \/ step'[t] = step[t] + 1 /\ (step[t] \in Sends => table'[step[t]].status = "completed")
  <2>1. CASE abandoned[u]
    BY <1>3, <2>1 DEF CallerGets, turnVars
  <2>2. CASE ~abandoned[u]
    <3>1. key[u] = step[u]
      BY <1>0, <1>3, <2>2 DEF CallInv
    <3> QED
      BY <1>1, <1>3, <2>2, <3>1 DEF CallerGets
  <2> QED
    BY <2>1, <2>2
<1>4. ASSUME NEW u \in Turns, Executed(u)
      PROVE  \/ step'[t] = step[t]
             \/ step'[t] = step[t] + 1 /\ (step[t] \in Sends => table'[step[t]].status = "completed")
  <2>1. pc[u] # "idle" /\ table'[key[u]].status = "completed"
    BY <1>0, <1>4, CommitFacts DEF Executed, Run!Commit
  <2> QED
    BY <1>3, <1>4, <2>1 DEF Executed
<1>5. ASSUME NEW u \in Turns, Replayed(u)
      PROVE  \/ step'[t] = step[t]
             \/ step'[t] = step[t] + 1 /\ (step[t] \in Sends => table'[step[t]].status = "completed")
  <2>1. pc[u] # "idle" /\ table' = table
    BY <1>5 DEF Replayed, Run!AcquireReturns
  <2>2. table'[key[u]].status = "completed"
    BY <1>0, <1>5, <2>1, ReturnsFindResult DEF Replayed
  <2> QED
    BY <1>3, <1>5, <2>1, <2>2 DEF Replayed
<1>6. ASSUME NEW u \in Turns, Crash(u) \/ EndTurn(u)
      PROVE  step'[t] = step[t] \/ step'[t] = 1
  BY <1>0, <1>6 DEF Crash, EndTurn
<1>7. ASSUME NEW u \in Turns,
             \/ \E k \in Kinds : Start(u, k)
             \/ Review(u) \/ Refuse(u) \/ RunStep(u) \/ Granted(u) \/ Send(u) \/ SendRaises(u)
             \/ CallRaises(u) \/ CallTimesOut(u)
      PROVE  step'[t] = step[t]
  BY <1>7 DEF Start, Review, Refuse, RunStep, Granted, Send, SendRaises, CallRaises,
     CallTimesOut, Fails, turnVars
<1>8. CASE UNCHANGED vars
  BY <1>8 DEF vars, turnVars
<1> QED
  BY <1>2, <1>4, <1>5, <1>6, <1>7, <1>8 DEF Next

(* A mail step that has a committed row keeps it.                          *)
LEMMA CompletedStays ==
  ASSUME IInv, [Next]_vars, NEW s \in Sends, table[s].status = "completed"
  PROVE  table'[s] = table[s]
<1>1. CASE \E t \in Turns : Executed(t)
  BY <1>1, CommitFacts DEF Executed, IInv
<1>2. CASE ~ \E t \in Turns : Executed(t)
  BY <1>2, RowsStay DEF vars, runVars
<1> QED
  BY <1>1, <1>2

(* However the walk of a turn ends, the mail steps before the one it has   *)
(* reached are done for good: approving the plan again replays them.       *)
THEOREM PassedStaysDone == Spec => []PassedIsCommitted
<1>1. Init => PassedIsCommitted
  <2> SUFFICES ASSUME Init, NEW t \in Turns, NEW s \in Sends, s < step[t] PROVE FALSE
    BY DEF PassedIsCommitted
  <2>1. s \in 1..Len(Plan) /\ Len(Plan) \in Nat /\ step[t] = 1
    BY PlanFacts DEF Init
  <2> QED
    BY <2>1
<1>2. IInv /\ PassedIsCommitted /\ [Next]_vars => PassedIsCommitted'
  <2> SUFFICES ASSUME IInv, PassedIsCommitted, [Next]_vars,
                      NEW t \in Turns, NEW s \in Sends, s < step'[t]
               PROVE  table'[s].status = "completed"
    BY DEF PassedIsCommitted
  <2>1. /\ s \in Nat /\ s >= 1
        /\ step[t] \in Nat
    BY PlanFacts DEF IInv, TypeOK
  <2>2. s < step[t] \/ (s = step[t] /\ table'[step[t]].status = "completed")
    BY <2>1, StepsAdvance
  <2> QED
    BY <2>2, CompletedStays DEF PassedIsCommitted
<1> QED
  BY <1>1, <1>2, Invariance, PTL DEF Spec

-----------------------------------------------------------------------------
(* Refinement of SingleOutcome: the outcome of a mail step is the receipt  *)
(* that the execution with the committed row has returned.                 *)

(* What callers were given is the number in the committed row.             *)
LEMMA GivenFacts ==
  ASSUME Proved!IInv
  PROVE  /\ DOMAIN delivered = Sends
         /\ \A s \in Sends : \A n \in delivered[s] :
              /\ n \in 1..MaxAttempts
              /\ table[s].status = "completed" /\ table[s].result = n
<1>1. \A n : Proved!CompletedRow(n).status = "completed" /\ Proved!CompletedRow(n).result = n
  BY DEF Proved!CompletedRow
<1> QED
  BY <1>1 DEF Proved!IInv, Proved!TypeOK, Proved!GivenIsCommitted

(* The initial states map to initial states.                               *)
LEMMA PromiseInit == Init => Promise!Init
BY DEF Init, Run!Init, Run!NoRow, Promise!Init, Settled

(* A step that commits nothing and gives nobody a result is invisible: the *)
(* one report it may write is that of a row that is not committed.         *)
LEMMA QuietStep ==
  ASSUME IInv, table' = table, delivered' = delivered,
         report' = report \/ \E t \in Turns : Send(t)
  PROVE  \A s \in Sends : /\ Settled(s)' = Settled(s)
                          /\ {report[s][n] : n \in delivered[s]}' = {report[s][n] : n \in delivered[s]}
<1>1. CASE report' = report
  BY <1>1 DEF Settled
<1>2. ASSUME NEW t \in Turns, Send(t), NEW s \in Sends
      PROVE  /\ Settled(s)' = Settled(s)
             /\ {report[s][n] : n \in delivered[s]}' = {report[s][n] : n \in delivered[s]}
  <2>1. DataType /\ Proved!IInv
    BY TypeParts DEF IInv
  <2>2. key[t] \in Sends /\ table[key[t]].status = "absent"
    BY <1>2, <2>1, RunFacts DEF Send, Run!ExecuteReturns, Open
  <2>3. CASE s = key[t]
    <3>1. delivered[s] = {}
      BY <2>1, <2>2, <2>3, GivenFacts
    <3> QED
      BY <2>2, <2>3, <3>1 DEF Settled
  <2>4. CASE s # key[t]
    <3>1. report'[s] = report[s]
      BY <1>2, <2>1, <2>2, <2>4 DEF Send, DataType
    <3> QED
      BY <3>1 DEF Settled
  <2> QED
    BY <2>3, <2>4
<1> QED
  BY <1>1, <1>2

(* What the callers of a mail step were given.                             *)
Given(s) == {report[s][n] : n \in delivered[s]}

(* A commit settles its step, whether the turn still waits or not; a replay*)
(* shows what it settled on; every other step changes neither.             *)
LEMMA PromiseStep ==
  IInv /\ [Next]_vars =>
    [Promise!Next]_<<[s \in Sends |-> Settled(s)],
                     [s \in Sends |-> {report[s][n] : n \in delivered[s]}]>>
<1> DEFINE outcome == [s \in Sends |-> Settled(s)]
           seen == [s \in Sends |-> {report[s][n] : n \in delivered[s]}]
<1> SUFFICES ASSUME IInv, [Next]_vars, ~ (outcome' = outcome /\ seen' = seen)
             PROVE  Promise!Next
  OBVIOUS
<1>0. DataType /\ Proved!IInv
  BY TypeParts DEF IInv
<1>1. ASSUME NEW t \in Turns, Executed(t) PROVE Promise!Next
  <2>0. Run!Commit(t) /\ report' = report
    BY <1>1 DEF Executed
  <2>1. PICK s \in Sends : s = key[t]
    BY <1>0, <2>0, CommitFacts
  <2>2. PICK i \in 1..MaxAttempts : i = attempt[t]
    BY <1>0, <2>0, CommitFacts
  <2>3. /\ table[s].status = "absent"
        /\ table'[s].status = "completed" /\ table'[s].result = i
        /\ \A r \in Sends : r # s => table'[r] = table[r]
    BY <1>0, <2>0, <2>1, <2>2, CommitFacts
  <2>4. PICK receipt \in Receipt : receipt = report[s][i]
    BY <1>0 DEF DataType
  <2>5. outcome[s] = NoReceipt /\ receipt # NoReceipt
    BY <2>3 DEF Settled, Receipt, NoReceipt
  <2>6. outcome' = [outcome EXCEPT ![s] = receipt]
    <3>1. \A r \in Sends : Settled(r)' = IF r = s THEN receipt ELSE Settled(r)
      BY <2>0, <2>3, <2>4 DEF Settled
    <3> QED
      BY <3>1
  <2>7. UNCHANGED seen \/ seen' = [seen EXCEPT ![s] = @ \cup {receipt}]
    <3>1. CASE delivered' = delivered
      BY <2>0, <3>1
    <3>2. CASE delivered' = [delivered EXCEPT ![s] = delivered[s] \cup {i}]
      <4>1. /\ delivered'[s] = delivered[s] \cup {i}
            /\ \A r \in Sends : r # s => delivered'[r] = delivered[r]
        BY <1>0, <3>2, GivenFacts
      <4>2. \A r \in Sends :
              Given(r)' = IF r = s THEN Given(r) \cup {receipt} ELSE Given(r)
        BY <2>0, <2>4, <4>1 DEF Given
      <4>3. seen = [r \in Sends |-> Given(r)] /\ seen' = [r \in Sends |-> Given(r)']
        BY DEF Given
      <4> HIDE DEF seen
      <4> QED
        BY <4>2, <4>3
    <3> QED
      BY <2>0, <2>1, <2>2, <3>1, <3>2 DEF Run!Commit, Run!Give
  <2>8. Promise!Settle(s, receipt)
    BY <2>5, <2>6, <2>7 DEF Promise!Settle
  <2>9. \E r \in Receipt \ {NoReceipt} : Promise!Settle(s, r)
    BY <2>5, <2>8 DEF Promise!Settle
  <2> QED
    BY <2>9 DEF Promise!Next
<1>2. ASSUME NEW t \in Turns, Replayed(t) PROVE Promise!Next
  <2>0. Run!AcquireReturns(t) /\ report' = report /\ table' = table
    BY <1>2 DEF Replayed, Run!AcquireReturns
  <2>1. PICK s \in Sends : s = key[t]
    BY <1>0, <2>0, ReturnsFindResult
  <2>2. PICK i \in 1..MaxAttempts : i = table[s].result
    BY <1>0, <2>0, <2>1, ReturnsFindResult
  <2>3. outcome[s] = report[s][i] /\ outcome[s] # NoReceipt /\ outcome' = outcome
    <3>1. report[s][i] \in Receipt
      BY <1>0 DEF DataType
    <3>2. table[s].status = "completed"
      BY <1>0, <2>0, <2>1, ReturnsFindResult
    <3> QED
      BY <2>0, <2>2, <3>1, <3>2 DEF Settled, Receipt, NoReceipt
  <2>4. delivered' = [delivered EXCEPT ![s] = delivered[s] \cup {i}]
    <3>1. delivered' # delivered
      BY <2>0, <2>3
    <3> QED
      BY <2>0, <2>1, <2>2, <3>1 DEF Run!AcquireReturns, Run!Give
  <2>5. seen' = [seen EXCEPT ![s] = @ \cup {outcome[s]}]
    <3>1. /\ delivered'[s] = delivered[s] \cup {i}
          /\ \A r \in Sends : r # s => delivered'[r] = delivered[r]
      BY <1>0, <2>4, GivenFacts
    <3>2. \A r \in Sends :
            Given(r)' = IF r = s THEN Given(r) \cup {outcome[s]} ELSE Given(r)
      BY <2>0, <2>3, <3>1 DEF Given
    <3>3. seen = [r \in Sends |-> Given(r)] /\ seen' = [r \in Sends |-> Given(r)']
      BY DEF Given
    <3> HIDE DEF seen, outcome
    <3> QED
      BY <3>2, <3>3
  <2>6. Promise!Show(s)
    BY <2>3, <2>5 DEF Promise!Show
  <2> QED
    BY <2>6 DEF Promise!Next
<1>3. CASE ~ \E t \in Turns : Executed(t) \/ Replayed(t)
  <2>1. table' = table /\ delivered' = delivered /\ (report' = report \/ \E t \in Turns : Send(t))
    BY <1>3 DEF Next, Start, Review, Refuse, EndTurn, SkipStep, RunStep, Run!Call, Granted,
       Run!AcquireGranted, Send, Run!ExecuteReturns, SendRaises, Run!ExecuteRaises,
       CallRaises, Run!LockTimeout, Run!RollbackOnRaise, Run!CommitFails,
       CallTimesOut, Run!CallerGivesUp, Crash, Run!Crash, runVars, vars
  <2>2. outcome' = outcome /\ seen' = seen
    BY <2>1, QuietStep
  <2> QED
    BY <2>2
<1> QED
  BY <1>1, <1>2, <1>3

(* A mail step settles on one receipt, which every call of it is given,    *)
(* although turns give up, crash, raise and approve the same plan twice.   *)
THEOREM ReceiptsKeepTheirPromise == Spec => ReceiptPromiseSpec
<1> USE DEF ReceiptPromiseSpec, Promise!Spec
<1> QED
  BY PromiseInit, PromiseStep, Invariance, PTL DEF Spec

-----------------------------------------------------------------------------
(* Composition with StepRun.                                               *)

(* Remediation uses the unit of work as StepRun says: each of its steps is *)
(* one of StepRun, for the mails of the plan, or leaves it alone.          *)
THEOREM RemediationUsesStepRun == Spec => Run!Spec
<1>1. Init => Run!Init
  BY DEF Init
<1>2. IInv /\ [Next]_vars => [Run!Next]_(Run!vars)
  BY NextIsRunNext DEF IInv, runVars, Run!vars
<1> QED
  BY <1>1, <1>2, Invariance, PTL DEF Spec, Run!Spec

(* What StepRun promises for every use of it therefore holds of the mails: *)
(* no execution reaches the provider for a step that has a committed row,  *)
(* and all callers of a step are given the result of the same execution.   *)
THEOREM RemediationInherits ==
  Spec => /\ Proved!PromiseSpec
          /\ Proved!NoEffectAfterCompletion
          /\ []Proved!SettledWasExecuted
          /\ []Proved!CallsAreGranted
<1>1. Init => Proved!Init
  BY DEF Init, Run!Init, Proved!Init, Run!NoRow, Proved!NoRow
<1>2. IInv /\ [Next]_vars => [Proved!Next]_(Proved!vars)
  <2>1. Run!Next => Proved!Next
    BY SameActions DEF Run!Next, Proved!Next, Run!Step, Proved!Step
  <2> QED
    BY <2>1, NextIsRunNext DEF IInv, runVars, Proved!vars
<1>3. Spec => Proved!Spec
  BY <1>1, <1>2, Invariance, PTL DEF Spec, Proved!Spec
<1>4. Proved!Spec => Proved!PromiseSpec
  BY StepAssumption, Proved!KeepsPromise
<1>5. Proved!Spec => Proved!NoEffectAfterCompletion
  BY StepAssumption, Proved!NothingAfterCompletion
<1>6. Proved!Spec => []Proved!SettledWasExecuted
  BY StepAssumption, Proved!SuccessIsReal
<1>7. Proved!Spec => []Proved!CallsAreGranted
  BY StepAssumption, Proved!EveryEffectIsGranted
<1> QED
  BY <1>3, <1>4, <1>5, <1>6, <1>7, PTL

(* A mail is sent by an execution that reached the provider.               *)
MailsAreSent == \A s \in Sends : mails[s] <= effects[s]

(* Each step that sends mail is a call that reaches the provider.          *)
LEMMA MailsFollowEffects ==
  ASSUME IInv, MailsAreSent, [Next]_vars PROVE MailsAreSent'
<1>0. /\ mails \in [Sends -> Nat] /\ effects \in [Sends -> Nat] /\ key \in [Turns -> Sends]
  BY DEF IInv, TypeOK, Proved!IInv, Proved!TypeOK
<1>1. CASE UNCHANGED <<mails, effects>>
  BY <1>1 DEF MailsAreSent
<1>2. ASSUME NEW t \in Turns, Send(t) PROVE MailsAreSent'
  <2>1. PICK n \in {0, 1} : mails' = [mails EXCEPT ![key[t]] = @ + n]
    <3>1. PICK sending \in Sendings : mails' = [mails EXCEPT ![key[t]] = @ + sending.mails]
      BY <1>2 DEF Send
    <3>2. sending.mails \in {0, 1}
      BY DEF Sendings, Sent, NotSent
    <3> QED
      BY <3>1, <3>2
  <2>2. effects' = [effects EXCEPT ![key[t]] = @ + 1]
    BY <1>2 DEF Send, Run!ExecuteReturns
  <2> SUFFICES ASSUME NEW s \in Sends PROVE mails'[s] <= effects'[s]
    BY DEF MailsAreSent
  <2>3. CASE s = key[t]
    <3>1. mails'[s] = mails[s] + n /\ effects'[s] = effects[s] + 1
      BY <2>1, <2>2, <2>3, <1>0
    <3> QED
      BY <3>1, <1>0 DEF MailsAreSent
  <2>4. CASE s # key[t]
    BY <2>1, <2>2, <2>4, <1>0 DEF MailsAreSent
  <2> QED
    BY <2>3, <2>4
<1>3. ASSUME NEW t \in Turns, SendRaises(t) \/ Crash(t) PROVE MailsAreSent'
  <2>1. PICK n \in {0, 1} : effects' = [effects EXCEPT ![key[t]] = @ + n]
    <3>1. CASE SendRaises(t)
      BY <3>1 DEF SendRaises, Run!ExecuteRaises
    <3>2. CASE Crash(t)
      <4>1. PICK n \in IF pc[t] = "executing" THEN {0, 1} ELSE {0} :
              effects' = [effects EXCEPT ![key[t]] = @ + n]
        BY <3>2 DEF Crash, Run!Crash
      <4>2. n \in {0, 1}
        BY <4>1
      <4> QED
        BY <4>1, <4>2
    <3> QED
      BY <1>3, <3>1, <3>2
  <2>2. \A s \in Sends : effects'[s] \in Nat
    BY <2>1, <1>0
  <2> SUFFICES ASSUME NEW s \in Sends PROVE mails'[s] <= effects'[s]
    BY DEF MailsAreSent
  <2>3. mails'[s] = mails[s] + effects'[s] - effects[s]
    BY <1>3 DEF SendRaises, Crash, MailsFollow
  <2> QED
    BY <2>2, <2>3, <1>0 DEF MailsAreSent
<1>4. ASSUME NEW t \in Turns, ~Send(t), ~SendRaises(t), ~Crash(t), Next,
             \/ \E k \in Kinds : Start(t, k)
             \/ Review(t) \/ Refuse(t) \/ EndTurn(t) \/ SkipStep(t) \/ RunStep(t)
             \/ Granted(t) \/ Executed(t) \/ Replayed(t) \/ CallRaises(t) \/ CallTimesOut(t)
      PROVE  UNCHANGED <<mails, effects>>
  BY <1>4 DEF Start, Review, Refuse, EndTurn, SkipStep, RunStep, Granted, Executed, Replayed,
     CallRaises, CallTimesOut, runVars, Run!Call, Run!AcquireGranted, Run!Commit,
     Run!AcquireReturns, Run!LockTimeout, Run!RollbackOnRaise, Run!CommitFails, Run!CallerGivesUp
<1>5. CASE UNCHANGED vars
  BY <1>1, <1>5 DEF vars, runVars
<1> QED
  BY <1>1, <1>2, <1>3, <1>4, <1>5 DEF Next

(* The provider accepts at most one mail for each execution that was       *)
(* granted to the step, however often its plan is approved.                *)
MailsAreGranted == \A s \in Sends : mails[s] <= attempts[s]

(* No mail is sent beside the grants of acquire_step_for_execution.        *)
THEOREM NoMailWithoutGrant == Spec => []MailsAreGranted
<1>1. Init => MailsAreSent
  BY DEF Init, Run!Init, MailsAreSent
<1>2. IInv /\ MailsAreSent /\ [Next]_vars => MailsAreSent'
  BY MailsFollowEffects
<1>3. Spec => []MailsAreSent
  BY <1>1, <1>2, Invariance, PTL DEF Spec
<1>4. IInv /\ MailsAreSent /\ Proved!CallsAreGranted => MailsAreGranted
  <2> SUFFICES ASSUME IInv, MailsAreSent, Proved!CallsAreGranted, NEW s \in Sends
               PROVE  mails[s] <= attempts[s]
    BY DEF MailsAreGranted
  <2>1. mails[s] \in Nat /\ effects[s] \in Nat /\ attempts[s] \in Nat
    BY RemediationAssumption DEF IInv, TypeOK, Proved!IInv, Proved!TypeOK
  <2> QED
    BY <2>1 DEF MailsAreSent, Proved!CallsAreGranted
<1> QED
  BY <1>3, <1>4, RemediationInherits, Invariance, PTL
=============================================================================
