------------------------------ MODULE Remediation ------------------------------
(***************************************************************************)
(* Approved remediation: the chat turns of one session that create, cancel *)
(* and approve a plan, and execute_approved_remediation, which walks the   *)
(* steps of the approved envelope and runs each through StepRun.           *)
(*                                                                         *)
(* The plan an analyst looks at is a pin of the session.  A turn reads the *)
(* pins when it starts and writes all of them when it ends.  The envelope  *)
(* of a plan always has the same version and fingerprint, so approving the *)
(* same plan again uses the same idempotency keys.                         *)
(*                                                                         *)
(* The only registered adapter sends an e-mail.  It catches every error of *)
(* the transport: execute() then returns, with a receipt that says FAILED, *)
(* and that receipt is stored as the completed result.  A mail is lost or  *)
(* accepted at such an error.                                              *)
(***************************************************************************)
EXTENDS Integers, Sequences

CONSTANTS
  Turns,          \* requests of the session in flight
  Plan,           \* Plan[s]: "send", or why step s has no call to make
  MaxAttempts     \* bound on the executions started per step

(* The receipt of a step without a call: it is manual, its capability has  *)
(* no adapter, or it was not available when the plan was approved.         *)
SkipStatus == [manual |-> "SKIPPED_MANUAL", unregistered |-> "UNAVAILABLE",
               unavailable |-> "FAILED"]

Steps == DOMAIN Plan
Sends == {s \in Steps : Plan[s] = "send"}

ASSUME RemediationAssumption ==
  /\ Plan \in Seq({"send"} \cup DOMAIN SkipStatus)
  /\ Sends # {}
  /\ MaxAttempts \in Nat

VARIABLES
  table, txn, pc, key, attempts, attempt, effects, delivered, abandoned,  \* of StepRun
  report,     \* report[s][n]: the receipt execution n of step s returned
  mails,      \* mails[s]: mails the provider has accepted for step s
  pin,        \* the session shows a pending plan
  kind,       \* kind[t]: what the turn was asked for
  held,       \* held[t]: the pin as the turn has read it
  turn,       \* turn[t]: where the turn is
  step,       \* step[t]: the step it works on
  receipts    \* receipts[t]: the receipts it can show

runVars == <<table, txn, pc, key, attempts, attempt, effects, delivered, abandoned>>
turnVars == <<kind, held, turn, step, receipts>>
vars == <<runVars, turnVars, report, mails, pin>>

Run == INSTANCE StepRun WITH
         Workers <- Turns, Keys <- Sends,
         Contract <- [s \in Sends |-> "side_effecting_with_stable_idempotency"],
         SideEffecting <- [s \in Sends |-> TRUE]

Kinds == {"create", "approve", "cancel", "other"}

Receipt == [status : {"SUCCESS", "FAILED", "UNAVAILABLE", "SKIPPED_MANUAL"},
            effect : BOOLEAN, replayed : BOOLEAN]

Sent ==
  [receipt |-> [status |-> "SUCCESS", effect |-> TRUE, replayed |-> FALSE], mails |-> 1]

(* Fault: an error of the transport is swallowed.                          *)
SentAnyway(n) ==
  [receipt |-> [status |-> "SUCCESS", effect |-> FALSE, replayed |-> FALSE], mails |-> n]

NotSent(n) ==
  [receipt |-> [status |-> "FAILED", effect |-> FALSE, replayed |-> FALSE], mails |-> n]

(* What the e-mail adapter returns, and how many mails went out: a gate    *)
(* refuses, or the transport fails before or after the provider has        *)
(* accepted the mail, or it succeeds.  With one recipient smtplib raises   *)
(* where it could report refused recipients.                               *)
Sendings == {Sent, NotSent(0), NotSent(1)}

NoReport == NotSent(0).receipt

Init ==
  /\ Run!Init
  /\ report = [s \in Sends |-> [n \in 1..MaxAttempts |-> NoReport]]
  /\ mails = [s \in Sends |-> 0]
  /\ pin = TRUE
  /\ kind = [t \in Turns |-> "other"]
  /\ held = [t \in Turns |-> FALSE]
  /\ turn = [t \in Turns |-> "idle"]
  /\ step = [t \in Turns |-> 1]
  /\ receipts = [t \in Turns |-> <<>>]

Goto(t, label) == turn' = [turn EXCEPT ![t] = label]

-----------------------------------------------------------------------------
(* A turn and its pins.                                                    *)

Start(t, k) ==
  /\ turn[t] = "idle" /\ pc[t] = "idle"
  /\ Goto(t, IF k = "approve" THEN "reviewing" ELSE "done")
  /\ kind' = [kind EXCEPT ![t] = k]
  /\ held' = [held EXCEPT ![t] = pin]
  /\ UNCHANGED <<runVars, report, mails, pin, step, receipts>>

(* _load_pending_plan reads the pins afresh; without a plan it raises.     *)
Review(t) ==
  /\ turn[t] = "reviewing"
  /\ Goto(t, IF pin THEN "running" ELSE "failed")
  /\ UNCHANGED <<runVars, report, mails, pin, kind, held, step, receipts>>

(* The role may not execute actions, or the question forbids it.           *)
Refuse(t) ==
  /\ turn[t] = "reviewing"
  /\ pin
  /\ Goto(t, "done")
  /\ UNCHANGED <<runVars, report, mails, pin, kind, held, step, receipts>>

(* pins_from_pipeline_state: a review that failed left no approval behind. *)
PinAfter(t) ==
  IF turn[t] = "failed" \/ kind[t] = "other" THEN held[t] ELSE kind[t] = "create"

EndTurn(t) ==
  /\ turn[t] \in {"done", "failed"}
  /\ pin' = PinAfter(t)
  /\ Goto(t, "idle")
  /\ step' = [step EXCEPT ![t] = 1]
  /\ receipts' = [receipts EXCEPT ![t] = <<>>]
  /\ kind' = [kind EXCEPT ![t] = "other"]
  /\ held' = [held EXCEPT ![t] = FALSE]
  /\ UNCHANGED <<runVars, report, mails>>

-----------------------------------------------------------------------------
(* execute_approved_remediation.                                           *)

(* Fault: the loop runs once more than there are steps.                    *)
RecordPastEnd(t, receipt) ==
  /\ receipts' = [receipts EXCEPT ![t] = Append(@, receipt)]
  /\ step' = [step EXCEPT ![t] = @ + 1]
  /\ Goto(t, IF step[t] > Len(Plan) THEN "done" ELSE "running")
  /\ UNCHANGED <<kind, held>>

Record(t, receipt) ==
  /\ receipts' = [receipts EXCEPT ![t] = Append(@, receipt)]
  /\ step' = [step EXCEPT ![t] = @ + 1]
  /\ Goto(t, IF step[t] = Len(Plan) THEN "done" ELSE "running")
  /\ UNCHANGED <<kind, held>>

SkipStep(t) ==
  /\ turn[t] = "running"
  /\ Plan[step[t]] # "send"
  /\ Record(t, [status |-> SkipStatus[Plan[step[t]]], effect |-> FALSE, replayed |-> FALSE])
  /\ UNCHANGED <<runVars, report, mails, pin>>

RunStep(t) ==
  /\ turn[t] = "running"
  /\ Plan[step[t]] = "send"
  /\ Run!Call(t, step[t])
  /\ Goto(t, "calling")
  /\ UNCHANGED <<report, mails, pin, kind, held, step, receipts>>

Granted(t) ==
  /\ Run!AcquireGranted(t)
  /\ UNCHANGED <<turnVars, report, mails, pin>>

Send(t) ==
  /\ Run!ExecuteReturns(t)
  /\ \E sending \in Sendings :
       /\ report' = [report EXCEPT ![key[t]][attempt[t]] = sending.receipt]
       /\ mails' = [mails EXCEPT ![key[t]] = @ + sending.mails]
  /\ UNCHANGED <<turnVars, pin>>

(* A mail goes out with each call that reached the provider.               *)
MailsFollow == mails' = [s \in Sends |-> mails[s] + effects'[s] - effects[s]]

(* Something raises beside the transport: the update of the row does after *)
(* the mail was sent, building the message does before.                    *)
SendRaises(t) ==
  /\ Run!ExecuteRaises(t)
  /\ MailsFollow
  /\ UNCHANGED <<turnVars, report, pin>>

(* The caller of the step, if it still waits, has the receipt.             *)
CallerGets(t, receipt) ==
  IF abandoned[t] THEN UNCHANGED turnVars ELSE Record(t, receipt)

Executed(t) ==
  /\ Run!Commit(t)
  /\ CallerGets(t, report[key[t]][attempt[t]])
  /\ UNCHANGED <<report, mails, pin>>

Replayed(t) ==
  /\ Run!AcquireReturns(t)
  /\ CallerGets(t, [report[key[t]][table[key[t]].result] EXCEPT !.replayed = TRUE])
  /\ UNCHANGED <<report, mails, pin>>

(* Fault: the error of a call becomes a receipt and the walk goes on.      *)
FailsWithReceipt(t) ==
  Record(t, NoReport)

(* Only ExecutionIdempotencyError becomes a receipt.  Any other exception  *)
(* reaches _apply_remediation_lifecycle, which drops the result with the   *)
(* receipts in it.                                                         *)
Fails(t) ==
  /\ Goto(t, "failed")
  /\ receipts' = [receipts EXCEPT ![t] = <<>>]
  /\ UNCHANGED <<kind, held, step>>

CallRaises(t) ==
  /\ Run!LockTimeout(t) \/ Run!RollbackOnRaise(t) \/ Run!CommitFails(t)
  /\ IF abandoned[t] THEN UNCHANGED turnVars ELSE Fails(t)
  /\ UNCHANGED <<report, mails, pin>>

(* The turn has waited 30 s; the call goes on without it.                  *)
CallTimesOut(t) ==
  /\ Run!CallerGivesUp(t)
  /\ Fails(t)
  /\ UNCHANGED <<report, mails, pin>>

(* The process of the turn dies.                                           *)
Crash(t) ==
  /\ Run!Crash(t)
  /\ MailsFollow
  /\ Goto(t, "idle")
  /\ step' = [step EXCEPT ![t] = 1]
  /\ receipts' = [receipts EXCEPT ![t] = <<>>]
  /\ kind' = [kind EXCEPT ![t] = "other"]
  /\ held' = [held EXCEPT ![t] = FALSE]
  /\ UNCHANGED <<report, pin>>

Next ==
  \E t \in Turns :
    \/ \E k \in Kinds : Start(t, k)
    \/ Review(t) \/ Refuse(t) \/ EndTurn(t) \/ SkipStep(t) \/ RunStep(t)
    \/ Granted(t) \/ Send(t) \/ SendRaises(t) \/ Executed(t) \/ Replayed(t)
    \/ CallRaises(t) \/ CallTimesOut(t) \/ Crash(t)

Spec == Init /\ [][Next]_vars

-----------------------------------------------------------------------------
TypeOK ==
  /\ report \in [Sends -> [1..MaxAttempts -> Receipt]]
  /\ mails \in [Sends -> Nat]
  /\ pin \in BOOLEAN
  /\ kind \in [Turns -> Kinds]
  /\ held \in [Turns -> BOOLEAN]
  /\ turn \in [Turns -> {"idle", "reviewing", "running", "calling", "done", "failed"}]
  /\ step \in [Turns -> 1..(Len(Plan) + 1)]
  /\ \A t \in Turns : turn[t] \in {"running", "calling"} => step[t] \in Steps
  /\ receipts \in [Turns -> Seq(Receipt)]

Holds(t, s) == s \in DOMAIN receipts[t]

(* Two turns that approved the same plan show the same receipts, whatever  *)
(* failed, timed out or crashed before: they differ in the replayed flag   *)
(* only.  The key of a step is "Stable per (approved plan, step)".         *)
ReceiptsAgree ==
  \A t, u \in Turns, s \in Steps : Holds(t, s) /\ Holds(u, s) =>
    /\ receipts[t][s].status = receipts[u][s].status
    /\ receipts[t][s].effect = receipts[u][s].effect

(* Once a turn holds the receipt of a step, no turn sends a mail for it    *)
(* any more, not even one that is in the middle of its approval            *)
(* (test_duplicate_approval_replays_receipt_without_a_second_send).        *)
NoMailAfterReceipt ==
  [][\A s \in Sends : (\E t \in Turns : Holds(t, s)) => mails'[s] = mails[s]]_vars

(* A SUCCESS that an analyst is shown stands for a mail the provider has   *)
(* accepted, also when it is replayed from an execution that the analyst's *)
(* own turn gave up waiting for.                                           *)
SuccessWasSent ==
  \A t \in Turns, s \in Sends :
    Holds(t, s) /\ receipts[t][s].status = "SUCCESS" => mails[s] > 0

(* What a turn has passed stays done: also when its walk fails, times out  *)
(* or loses its receipts, each mail step before the one it stopped at has a*)
(* committed row, so that approving the plan again replays these steps and *)
(* goes on with the one that failed.                                       *)
PassedIsCommitted ==
  \A t \in Turns, s \in Sends : s < step[t] => table[s].status = "completed"

(* A mail step settles on one receipt, which every call of it is given: an *)
(* execution whose own turn has gone settles it too, and no later one takes*)
(* it back ("Stable per (approved plan, step)").                           *)
NoReceipt == [status |-> "none", effect |-> FALSE, replayed |-> FALSE]

Settled(s) ==
  IF table[s].status = "completed" THEN report[s][table[s].result] ELSE NoReceipt

Promise == INSTANCE SingleOutcome WITH
             Operations <- Sends, Results <- Receipt, Unsettled <- NoReceipt,
             outcome <- [s \in Sends |-> Settled(s)],
             seen <- [s \in Sends |-> {report[s][n] : n \in delivered[s]}]

ReceiptPromiseSpec == Promise!Spec

(* "every attempt yields a receipt, including refusals, so nothing is      *)
(* silent": when the walk is over, a step that was passed has a receipt.   *)
EveryAttemptHasReceipt ==
  \A t \in Turns : turn[t] \in {"done", "failed"} =>
    \A s \in Steps : s < step[t] => Holds(t, s)
=============================================================================
