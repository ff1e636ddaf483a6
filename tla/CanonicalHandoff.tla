--------------------------- MODULE CanonicalHandoff ---------------------------
(***************************************************************************)
(* The versions of one canonical handoff in Postgres, and the chat turns   *)
(* that read and write them: canonical_handoff_store.py, _repository.py,   *)
(* _resumption.py, the planning stages of canonical_planning_orchestrator  *)
(* .py and the review of investigation_envelope_runtime.py.                *)
(*                                                                         *)
(* A clarification answer or a review decision on version v locks row v,   *)
(* looks for row v+1 and writes both in one transaction.  Everything else  *)
(* (saving the planning state, committing the plan) reads a row in one     *)
(* transaction and overwrites it in another: persist_handoff_record is an  *)
(* upsert of the whole row and checks no status.                           *)
(*                                                                         *)
(* A turn is one request; the same message may be sent twice, so several   *)
(* turns may answer or decide the same version.                            *)
(*                                                                         *)
(* The retention job of canonical_retention.py deletes expired rows.       *)
(***************************************************************************)
EXTENDS Integers, FiniteSets

CONSTANTS
  Turns,        \* requests in flight
  MaxVersion,   \* bound on the versions (get_latest_handoff stops at 100)
  MaxPlans      \* bound on the plan ids drawn by plan_evidence_from_canonical

ASSUME HandoffAssumption == MaxVersion \in Nat \ {0} /\ MaxPlans \in Nat

Versions == 1..MaxVersion
Actions == {"run", "cancel", "edit"}

(* rp:<uuid> is drawn afresh by every call of plan_evidence_from_canonical;*)
(* rp:investigation:<digest> is a function of the approved envelope.       *)
NoPlan == <<"none", 0>>
Drawn(n) == <<"drawn", n>>
OfEnvelope(v) == <<"envelope", v>>
Plans == {NoPlan} \cup {Drawn(n) : n \in 1..MaxPlans} \cup {OfEnvelope(v) : v \in Versions}

(* "hil" stands for canonical_planning_input holding the validated plan    *)
(* that an analyst is shown, "decision" for the requested_action in it.    *)
Row == [status : {"absent", "created", "in_progress", "awaiting_clarification",
                  "awaiting_investigation_plan", "investigation_approved",
                  "investigation_cancelled", "resumed", "plan_committed"},
        hil : BOOLEAN, decision : Actions \cup {"none"}, plan : Plans]

NewRow(status) == [status |-> status, hil |-> FALSE, decision |-> "none", plan |-> NoPlan]
Absent == NewRow("absent")

VARIABLES
  row,      \* row[v]: the stored row
  live,     \* the versions that have not expired
  lane,     \* lane[v]: what planning on version v ends in
  pc, ver,  \* where a turn is and the version it works on
  asked,    \* asked[t]: "answer" or the review action the request carries
  snap,     \* snap[t]: the row the turn read last
  plan,     \* plan[t]: the plan the turn goes on to execute
  drawn,    \* plan ids drawn
  advances  \* advances[v]: transactions of this handoff that superseded v

vars == <<row, live, lane, pc, ver, asked, snap, plan, drawn, advances>>

Init ==
  /\ row = [v \in Versions |-> Absent]
  /\ live = {}
  /\ lane \in [Versions -> {"clarify", "plan", "wait"}]
  /\ pc = [t \in Turns |-> "idle"]
  /\ ver = [t \in Turns |-> 1]
  /\ asked = [t \in Turns |-> "answer"]
  /\ snap = [t \in Turns |-> Absent]
  /\ plan = [t \in Turns |-> NoPlan]
  /\ drawn = 0
  /\ advances = [v \in Versions |-> 0]

Live(v) == v \in live

(* load_handoff_record and get_handoff do not see an expired row.          *)
Read(v) == IF v \in Versions /\ Live(v) THEN row[v] ELSE Absent

(* SELECT ... FOR UPDATE holds row v until the transaction ends.           *)
HoldsLock(t, v) == pc[t] \in {"locked", "deciding"} /\ ver[t] = v
Locked(v) == \E t \in Turns : HoldsLock(t, v)

Goto(t, label) == pc' = [pc EXCEPT ![t] = label]

(* Every turn ends in the same local state.                                *)
End(t) ==
  /\ Goto(t, "idle")
  /\ ver' = [ver EXCEPT ![t] = 1]
  /\ asked' = [asked EXCEPT ![t] = "answer"]
  /\ snap' = [snap EXCEPT ![t] = Absent]
  /\ plan' = [plan EXCEPT ![t] = NoPlan]

(* The upsert of save_handoff, with a fresh expiry time.                   *)
Save(v, r) ==
  /\ ~Locked(v)
  /\ row' = [row EXCEPT ![v] = r]
  /\ live' = live \cup {v}

-----------------------------------------------------------------------------
(* A turn starts.                                                          *)

(* A new handoff: its id is a fresh uuid, so one turn knows it.            *)
Begin(t) ==
  /\ \A u \in Turns : pc[u] = "idle"
  /\ \A v \in Versions : row[v] = Absent
  /\ Goto(t, "planning")
  /\ advances' = [v \in Versions |-> 0]
  /\ UNCHANGED <<row, live, lane, ver, asked, snap, plan, drawn>>

(* The session's pins name version v and it waits for an answer.           *)
Answer(t, v) ==
  /\ pc[t] = "idle"
  /\ Read(v).status = "awaiting_clarification"
  /\ Goto(t, "requested")
  /\ ver' = [ver EXCEPT ![t] = v]
  /\ UNCHANGED <<row, live, lane, asked, snap, plan, drawn, advances>>

(* The request names a version whose plan was shown, and an action.        *)
Decide(t, v, action) ==
  /\ pc[t] = "idle"
  /\ row[v].hil
  /\ Goto(t, "requested")
  /\ ver' = [ver EXCEPT ![t] = v]
  /\ asked' = [asked EXCEPT ![t] = action]
  /\ UNCHANGED <<row, live, lane, snap, plan, drawn, advances>>

(* Confirm or deny of a call of an approved investigation: its plan is     *)
(* compiled and committed again.                                           *)
Confirm(t, v) ==
  /\ pc[t] = "idle"
  /\ Read(v).status \in {"investigation_approved", "plan_committed"}
  /\ row[v].decision = "run"
  /\ Goto(t, "committing")
  /\ ver' = [ver EXCEPT ![t] = v]
  /\ plan' = [plan EXCEPT ![t] = OfEnvelope(v)]
  /\ UNCHANGED <<row, live, lane, asked, snap, drawn, advances>>

-----------------------------------------------------------------------------
(* Answering or deciding version v, in one transaction.                    *)

LockPending(t) ==
  /\ pc[t] = "requested"
  /\ ~Locked(ver[t])
  /\ Goto(t, "locked")
  /\ UNCHANGED <<row, live, lane, ver, asked, snap, plan, drawn, advances>>

LookupSuccessor(t) ==
  /\ pc[t] = "locked"
  /\ snap' = [snap EXCEPT ![t] = Read(ver[t] + 1)]
  /\ Goto(t, "deciding")
  /\ UNCHANGED <<row, live, lane, ver, asked, plan, drawn, advances>>

(* Fault: the plan is compiled from the version that was approved, not     *)
(* from the one the approval has written.                                  *)
ProceedWithPending(t) ==
  /\ ver' = [ver EXCEPT ![t] = @ + 1]
  /\ IF asked[t] = "run"
     THEN /\ Goto(t, "committing")
          /\ plan' = [plan EXCEPT ![t] = OfEnvelope(ver[t])]
     ELSE Goto(t, "planning") /\ UNCHANGED plan
  /\ UNCHANGED <<asked, drawn, lane>>

(* Where the turn goes on when v+1 exists or has been written.             *)
Proceed(t) ==
  /\ ver' = [ver EXCEPT ![t] = @ + 1]
  /\ IF asked[t] = "run"
     THEN /\ Goto(t, "committing")
          /\ plan' = [plan EXCEPT ![t] = OfEnvelope(ver[t] + 1)]
     ELSE Goto(t, "planning") /\ UNCHANGED plan
  /\ UNCHANGED <<asked, drawn, lane>>

(* Fault: a review action is not compared with the one that was taken.     *)
ReplayAnyAction(t) ==
  /\ pc[t] = "deciding"
  /\ snap[t] # Absent
  /\ Live(ver[t])
  /\ IF asked[t] \in {"answer", "run"} THEN Proceed(t) /\ UNCHANGED snap
     ELSE End(t) /\ UNCHANGED <<lane, drawn>>
  /\ UNCHANGED <<row, live, advances>>

(* A duplicate: an answer is not compared with the one that was merged, a  *)
(* review action is.                                                       *)
Replay(t) ==
  /\ pc[t] = "deciding"
  /\ snap[t] # Absent
  /\ Live(ver[t])
  /\ asked[t] \in {"answer", snap[t].decision}
  /\ IF asked[t] \in {"answer", "run"} THEN Proceed(t) /\ UNCHANGED snap
     ELSE End(t) /\ UNCHANGED <<lane, drawn>>
  /\ UNCHANGED <<row, live, advances>>

(* Fault: the status is checked before the successor is looked at.         *)
PendingFirst(t) ==
  /\ Read(ver[t]).status = IF asked[t] = "answer" THEN "awaiting_clarification"
                           ELSE "awaiting_investigation_plan"
  /\ asked[t] # "answer" => row[ver[t]].hil

Pending(t) ==
  /\ snap[t] = Absent
  /\ Read(ver[t]).status = IF asked[t] = "answer" THEN "awaiting_clarification"
                           ELSE "awaiting_investigation_plan"
  /\ asked[t] # "answer" => row[ver[t]].hil

(* build_resumed_record and _successor_for_action; an edit that changes    *)
(* the material scope has to be clarified first.                           *)
Successors(t) ==
  LET pending == row[ver[t]] IN
  CASE asked[t] = "answer" -> {[pending EXCEPT !.status = "in_progress", !.plan = NoPlan]}
    [] asked[t] = "run" -> {[pending EXCEPT !.status = "investigation_approved",
                                            !.decision = "run", !.plan = NoPlan]}
    [] asked[t] = "cancel" -> {[pending EXCEPT !.status = "investigation_cancelled",
                                               !.decision = "cancel", !.plan = NoPlan]}
    [] asked[t] = "edit" -> {[pending EXCEPT !.status = s, !.decision = "edit", !.plan = NoPlan] :
                               s \in {"awaiting_investigation_plan", "awaiting_clarification"}}

(* Fault: the version is superseded in a transaction of its own.           *)
SupersedeOnly(t) ==
  /\ pc[t] = "deciding"
  /\ Pending(t)
  /\ row' = [row EXCEPT ![ver[t]].status = "resumed"]
  /\ End(t)
  /\ UNCHANGED <<live, lane, drawn, advances>>

Advance(t) ==
  LET v == ver[t] IN
  /\ pc[t] = "deciding"
  /\ Pending(t)
  /\ v < MaxVersion
  /\ ~Locked(v + 1)
  /\ \E next \in Successors(t) :
       row' = [row EXCEPT ![v].status = "resumed", ![v + 1] = next]
  /\ live' = live \cup {v + 1}
  /\ advances' = [advances EXCEPT ![v] = @ + 1]
  /\ IF asked[t] \in {"answer", "run"} THEN Proceed(t) /\ UNCHANGED snap
     ELSE End(t) /\ UNCHANGED <<lane, drawn>>

(* not found, expired, not pending, already decided.                       *)
Refuse(t) ==
  /\ pc[t] = "deciding"
  /\ IF snap[t] = Absent THEN ~Pending(t)
     ELSE ~Live(ver[t]) \/ asked[t] \notin {"answer", snap[t].decision}
  /\ End(t)
  /\ UNCHANGED <<row, live, lane, drawn, advances>>

-----------------------------------------------------------------------------
(* Planning on version v.  Its last stage depends on lane[v]: two turns    *)
(* that plan the same version are assumed to plan it the same way.         *)

(* record_duplicate_call_hash around a detail tool, and the read of        *)
(* save_clarification_handoff.                                             *)
ReadForUpdate(t, label) ==
  /\ pc[t] = "planning"
  /\ snap' = [snap EXCEPT ![t] = Read(ver[t])]
  /\ Goto(t, label)
  /\ UNCHANGED <<row, live, lane, ver, asked, plan, drawn, advances>>

ReadCallHashes(t) == ReadForUpdate(t, "recording")
ReadClarification(t) == lane[ver[t]] = "clarify" /\ ReadForUpdate(t, "clarifying")

(* Fault: the missing record is not created before it is saved.            *)
AsRead(r) == r

Existing(r) == IF r = Absent THEN NewRow("created") ELSE r

WriteCallHashes(t) ==
  /\ pc[t] = "recording"
  /\ Save(ver[t], Existing(snap[t]))
  /\ Goto(t, "planning")
  /\ snap' = [snap EXCEPT ![t] = Absent]
  /\ UNCHANGED <<lane, ver, asked, plan, drawn, advances>>

WriteClarification(t) ==
  /\ pc[t] = "clarifying"
  /\ Save(ver[t], [NewRow("awaiting_clarification") EXCEPT !.plan = snap[t].plan])
  /\ End(t)
  /\ UNCHANGED <<lane, drawn, advances>>

(* _commit_planned_outcome first saves a new record over whatever is there.*)
SavePlanning(t) ==
  LET v == ver[t] IN
  /\ pc[t] = "planning"
  /\ lane[v] \in {"plan", "wait"}
  /\ Save(v, NewRow(IF lane[v] = "wait" THEN "awaiting_investigation_plan" ELSE "in_progress"))
  /\ Goto(t, IF lane[v] = "wait" THEN "attaching" ELSE "planned")
  /\ UNCHANGED <<lane, ver, asked, snap, plan, drawn, advances>>

(* _persist_initial_plan, in two transactions.                             *)
ReadInitialPlan(t) ==
  /\ pc[t] = "attaching"
  /\ IF Read(ver[t]).status = "awaiting_investigation_plan"
     THEN /\ snap' = [snap EXCEPT ![t] = Read(ver[t])]
          /\ Goto(t, "showing")
          /\ UNCHANGED <<ver, asked, plan>>
     ELSE End(t)
  /\ UNCHANGED <<row, live, lane, drawn, advances>>

PersistInitialPlan(t) ==
  /\ pc[t] = "showing"
  /\ Save(ver[t], [snap[t] EXCEPT !.hil = TRUE])
  /\ End(t)
  /\ UNCHANGED <<lane, drawn, advances>>

Committed(r) == r.status = "plan_committed" /\ r.plan # NoPlan

(* plan_evidence_from_canonical: reuse the committed plan or compose one.  *)
ReuseCommitted(t) ==
  /\ pc[t] = "planned"
  /\ Committed(Read(ver[t]))
  /\ plan' = [plan EXCEPT ![t] = Read(ver[t]).plan]
  /\ Goto(t, "executing")
  /\ UNCHANGED <<row, live, lane, ver, asked, snap, drawn, advances>>

Compose(t) ==
  /\ pc[t] = "planned"
  /\ ~Committed(Read(ver[t]))
  /\ drawn < MaxPlans
  /\ drawn' = drawn + 1
  /\ plan' = [plan EXCEPT ![t] = Drawn(drawn + 1)]
  /\ Goto(t, "committing")
  /\ UNCHANGED <<row, live, lane, ver, asked, snap, advances>>

-----------------------------------------------------------------------------
(* commit_resource_plan, in three transactions.  What it returns is not    *)
(* used: the turn executes the plan it came with.                          *)

CheckCommitted(t) ==
  /\ pc[t] = "committing"
  /\ Goto(t, IF Committed(Read(ver[t])) THEN "executing" ELSE "loading")
  /\ UNCHANGED <<row, live, lane, ver, asked, snap, plan, drawn, advances>>

LoadForCommit(t) ==
  /\ pc[t] = "loading"
  /\ snap' = [snap EXCEPT ![t] = Read(ver[t])]
  /\ Goto(t, "saving")
  /\ UNCHANGED <<row, live, lane, ver, asked, plan, drawn, advances>>

SaveCommitted(t) ==
  /\ pc[t] = "saving"
  /\ Save(ver[t], [snap[t] EXCEPT !.status = "plan_committed", !.plan = plan[t]])
  /\ Goto(t, "executing")
  /\ snap' = [snap EXCEPT ![t] = Absent]
  /\ UNCHANGED <<lane, ver, asked, plan, drawn, advances>>

(* The turn has run its plan and answers; or it fails at any point (the    *)
(* database is down, the process dies) and its transaction is rolled back. *)
Finish(t) ==
  /\ pc[t] # "idle"
  /\ End(t)
  /\ UNCHANGED <<row, live, lane, drawn, advances>>

(* A row lives 60 minutes, or what is configured, from its last save: no   *)
(* row expires under a turn that is in flight.                             *)
Expire ==
  /\ \A t \in Turns : pc[t] = "idle"
  /\ \E v \in live : live' = live \ {v}
  /\ UNCHANGED <<row, lane, pc, ver, asked, snap, plan, drawn, advances>>

(* A row that the purge may delete: expired, and not locked (SKIP LOCKED). *)
(* Its status says that nobody goes on with it; only these two of the      *)
(* statuses it looks for are ever written.                                 *)
Purgeable(v) ==
  /\ row[v].status \in {"plan_committed", "awaiting_clarification"}
  /\ ~Live(v)
  /\ ~Locked(v)

(* Fault: the other versions of the handoff are not looked at.             *)
PurgeEachByItself ==
  /\ \E batch \in SUBSET {v \in Versions : Purgeable(v)} \ {{}} :
       row' = [v \in Versions |-> IF v \in batch THEN Absent ELSE row[v]]
  /\ UNCHANGED <<live, lane, pc, ver, asked, snap, plan, drawn, advances>>

(* _purge_handoffs_batch, at least an hour after the rows have expired: it *)
(* spares a handoff that has a live version.  Its test for running leases  *)
(* adds nothing: a running row is never committed (StepRun).               *)
Purge ==
  /\ live = {}
  /\ \E batch \in SUBSET {v \in Versions : Purgeable(v)} \ {{}} :
       row' = [v \in Versions |-> IF v \in batch THEN Absent ELSE row[v]]
  /\ UNCHANGED <<live, lane, pc, ver, asked, snap, plan, drawn, advances>>

Next ==
  \/ \E t \in Turns :
       \/ Begin(t)
       \/ \E v \in Versions :
            Answer(t, v) \/ Confirm(t, v) \/ \E action \in Actions : Decide(t, v, action)
       \/ LockPending(t) \/ LookupSuccessor(t) \/ Replay(t) \/ Advance(t) \/ Refuse(t)
       \/ ReadCallHashes(t) \/ WriteCallHashes(t)
       \/ ReadClarification(t) \/ WriteClarification(t)
       \/ SavePlanning(t) \/ ReadInitialPlan(t) \/ PersistInitialPlan(t)
       \/ ReuseCommitted(t) \/ Compose(t)
       \/ CheckCommitted(t) \/ LoadForCommit(t) \/ SaveCommitted(t) \/ Finish(t)
  \/ Expire \/ Purge

Spec == Init /\ [][Next]_vars

-----------------------------------------------------------------------------
Labels == {"idle", "requested", "locked", "deciding", "planning", "recording", "clarifying",
           "planned", "attaching", "showing", "committing", "loading", "saving", "executing"}

TypeOK ==
  /\ row \in [Versions -> Row]
  /\ live \subseteq {v \in Versions : row[v] # Absent}
  /\ lane \in [Versions -> {"clarify", "plan", "wait"}]
  /\ pc \in [Turns -> Labels]
  /\ ver \in [Turns -> Versions]
  /\ asked \in [Turns -> Actions \cup {"answer"}]
  /\ snap \in [Turns -> Row]
  /\ plan \in [Turns -> Plans]
  /\ drawn \in 0..MaxPlans
  /\ advances \in [Versions -> Nat]

(* "One answer advances the version once": a version whose successor is    *)
(* live is not superseded again, although two turns may have passed every  *)
(* check before either wrote (_merge_clarification_answer_db, _advance_db).*)
AdvancesOnce ==
  [][\A v \in Versions :
       advances'[v] > advances[v] => ~Live(v + 1)]_vars

(* Superseding a version and writing its successor are one transaction: a  *)
(* resumed version has the successor it was resumed into.                  *)
ResumedHasSuccessor ==
  \A v \in Versions : row[v].status = "resumed" /\ Live(v) =>
    v < MaxVersion /\ row[v + 1] # Absent

(* The purge takes a handoff apart only after its last version has expired:*)
(* what a live version was resumed from is still stored, the versions that *)
(* have expired before it included.                                        *)
LiveHasItsHistory ==
  \A u, v \in Versions : u < v /\ Live(v) => row[u] # Absent

(* A version is superseded again only when its successor has expired, which *)
(* takes a late save of the version by a turn that had read it before.     *)
DecidedOnce == \A v \in Versions : advances[v] <= 1

(* A cancelled investigation has no committed plan, whichever turns are    *)
(* still planning on its versions.                                         *)
CancelledHasNoPlan ==
  DecidedOnce => \A v \in Versions : row[v].decision = "cancel" =>
    /\ row[v].plan = NoPlan
    /\ \A t \in Turns : ver[t] = v => pc[t] \notin {"loading", "saving", "executing"}

(* An approved version is only ever committed with the plan compiled from  *)
(* its own envelope: repeated approvals and confirmations agree.           *)
ApprovedPlanIsItsEnvelopes ==
  DecidedOnce => \A v \in Versions : row[v].decision = "run" => row[v].plan \in {NoPlan, OfEnvelope(v)}

(* "Idempotent replay returns existing committed plan": a committed plan   *)
(* is not replaced by another one.                                         *)
CommittedPlanStands ==
  [][\A v \in Versions : Committed(row[v]) =>
        row'[v].plan = row[v].plan]_vars
=============================================================================
