------------------------ MODULE CanonicalHandoffProofs ------------------------
(***************************************************************************)
(* For any number of requests, versions and plans: a version is superseded *)
(* together with its successor and not twice beside it, the purge leaves a *)
(* live handoff whole, and a decision on a version excludes every turn     *)
(* that could save another plan over it.                                   *)
(*                                                                         *)
(* Blind saves make the last one delicate: a turn that works on a version  *)
(* may write back any row it has read.  The invariant says which rows the  *)
(* turns of a version can have read: a version that was decided on has no  *)
(* planning turn, and one that was answered is never decided on.  From it  *)
(* follows, as an action property, that decisions are final.               *)
(***************************************************************************)
EXTENDS CanonicalHandoff, FiniteSetTheorems, TLAPS

(* A turn that may still save the version it works on, and one whose save  *)
(* writes what it has read.                                                *)
Committing == {"committing", "loading", "saving", "executing"}
Working == {"planning", "recording", "clarifying", "planned", "attaching", "showing"} \cup Committing
Reading == {"recording", "clarifying", "showing", "saving"}

(* A version has one owner of its row lock.                                *)
LockInv ==
  \A t, u \in Turns : HoldsLock(t, ver[u]) /\ HoldsLock(u, ver[u]) => t = u

(* What a turn in flight knows of its version stays true: rows do not      *)
(* expire under it.                                                        *)
Knows(t) ==
  /\ pc[t] = "deciding" => (snap[t] = Absent <=> ~Live(ver[t] + 1))
  /\ pc[t] \in Working => Live(ver[t]) \/ (ver[t] = 1 /\ row[1] = Absent)
  /\ pc[t] \in Reading /\ snap[t] # Absent => Live(ver[t])
  /\ pc[t] \in {"requested", "locked", "deciding"} /\ asked[t] = "answer" => Live(ver[t])
  /\ pc[t] = "idle" => ver[t] = 1
  /\ pc[t] = "clarifying" => lane[ver[t]] = "clarify"

TurnInv == \A t \in Turns : Knows(t)

(* A version that was read as resumed has its successor, too.              *)
ReadResumed(t) ==
  pc[t] \in Reading /\ snap[t].status = "resumed" =>
    ver[t] < MaxVersion /\ row[ver[t] + 1] # Absent

ResumedInv == ResumedHasSuccessor /\ \A t \in Turns : ReadResumed(t)

(* Versions are made one from the other.                                   *)
ChainInv ==
  \A v \in Versions : v < MaxVersion =>
    /\ row[v + 1] # Absent => advances[v] > 0
    /\ advances[v + 1] > 0 => advances[v] > 0

(* A version that a decision has made: run and cancel for good, an edit as *)
(* long as its row still waits, or was resumed from that.                  *)
Edited(r) ==
  r.decision = "edit" /\ r.status \in {"awaiting_clarification", "awaiting_investigation_plan", "resumed"}
Decided(r) == r.decision \in {"run", "cancel"} \/ Edited(r)

(* A row that waits was made by an edit or by planning, which always ends  *)
(* the same way.                                                           *)
Lawful(v, r) ==
  /\ r.status = "awaiting_clarification" =>
       r.decision = "edit" \/ (r.decision = "none" /\ lane[v] = "clarify")
  /\ r.status = "awaiting_investigation_plan" =>
       r.decision = "edit" \/ (r.decision = "none" /\ lane[v] = "wait")

RowInv ==
  \A v \in Versions :
    /\ Lawful(v, row[v])
    /\ row[v].decision = "cancel" => row[v].status = "investigation_cancelled" /\ row[v].plan = NoPlan
    /\ row[v].decision = "run" => /\ row[v].status \in {"investigation_approved", "plan_committed"}
                                  /\ row[v].plan \in {NoPlan, OfEnvelope(v)}

(* Nobody works on a cancelled or edited version, and an approved one has  *)
(* only turns that commit the plan of its envelope.                        *)
Works(t) ==
  pc[t] \in Working =>
    /\ row[ver[t]].decision # "cancel" /\ ~Edited(row[ver[t]])
    /\ row[ver[t]].decision = "run" => pc[t] \in Committing /\ plan[t] = OfEnvelope(ver[t])
    /\ pc[t] \in Reading => /\ snap[t].decision # "cancel" /\ ~Edited(snap[t])
                            /\ Lawful(ver[t], snap[t])
                            /\ snap[t].decision = "run" <=> row[ver[t]].decision = "run"

WorkInv == \A t \in Turns : Works(t)

(* A decision was taken on a version that is not one to be answered ...    *)
SuccessorInv ==
  \A v \in Versions : v < MaxVersion /\ Decided(row[v + 1]) =>
    IF Edited(row[v]) THEN row[v].status = "resumed" ELSE lane[v] = "wait"

(* ... and an answer is given to a version that nobody decides on.         *)
Answers(t) ==
  pc[t] \in {"requested", "locked", "deciding"} /\ asked[t] = "answer" =>
    IF Edited(row[ver[t]])
    THEN \/ row[ver[t]].status = "awaiting_clarification"
         \/ /\ row[ver[t]].status = "resumed"
            /\ ver[t] < MaxVersion => ~Decided(row[ver[t] + 1])
    ELSE lane[ver[t]] = "clarify"

AnswerInv == \A t \in Turns : Answers(t)

(* An approval that is replayed replays an approval.                       *)
Replays(t) ==
  pc[t] = "deciding" /\ snap[t].decision = "run" =>
    ver[t] < MaxVersion /\ row[ver[t] + 1].decision = "run"

ReplayInv == \A t \in Turns : Replays(t)

Structure == TypeOK /\ LockInv /\ TurnInv /\ ResumedInv /\ LiveHasItsHistory /\ ChainInv

Modes == RowInv /\ WorkInv /\ SuccessorInv /\ AnswerInv /\ ReplayInv

IInv == Structure /\ (DecidedOnce => Modes)
-----------------------------------------------------------------------------
(* Rows.                                                                   *)

Statuses == {"absent", "created", "in_progress", "awaiting_clarification",
             "awaiting_investigation_plan", "investigation_approved",
             "investigation_cancelled", "resumed", "plan_committed"}

(* The fields of a row.                                                    *)
LEMMA RowFields ==
  ASSUME NEW r \in Row
  PROVE  /\ r.status \in Statuses
         /\ r.hil \in BOOLEAN
         /\ r.decision \in Actions \cup {"none"}
         /\ r.plan \in Plans
BY DEF Row, Statuses

(* The plan ids.                                                           *)
LEMMA PlanIds ==
  /\ NoPlan \in Plans
  /\ \A n \in 1..MaxPlans : Drawn(n) \in Plans
  /\ \A v \in Versions : OfEnvelope(v) \in Plans
BY DEF Plans

(* A new row.                                                              *)
LEMMA NewRows ==
  ASSUME NEW s \in Statuses
  PROVE  /\ NewRow(s) \in Row
         /\ NewRow(s).status = s
         /\ NewRow(s).decision = "none"
         /\ ~NewRow(s).hil
         /\ NewRow(s).plan = NoPlan
BY PlanIds DEF NewRow, Row, Statuses

(* The row of a version that is not stored.                                *)
LEMMA AbsentRow ==
  /\ Absent \in Row
  /\ Absent.status = "absent"
  /\ Absent.decision = "none"
  /\ ~Absent.hil
  /\ Absent.plan = NoPlan
BY NewRows DEF Absent, Statuses

(* What a turn reads: the stored row while it lives.                       *)
LEMMA Reads ==
  ASSUME TypeOK, NEW v \in Int
  PROVE  /\ Read(v) \in Row
         /\ v \in live => v \in Versions /\ Read(v) = row[v] /\ Read(v) # Absent
         /\ v \notin live => Read(v) = Absent
<1>1. live \subseteq {w \in Versions : row[w] # Absent}
  BY DEF TypeOK
<1>2. row \in [Versions -> Row]
  BY DEF TypeOK
<1> QED
  BY <1>1, <1>2, AbsentRow DEF Read, Live
-----------------------------------------------------------------------------
(* Steps.                                                                  *)

(* The actions that change no row: the others of a turn save its version,  *)
(* or advance it.                                                          *)
Starts(t) ==
  \E v \in Versions : Answer(t, v) \/ Confirm(t, v) \/ \E action \in Actions : Decide(t, v, action)
Looks(t) ==
  \/ LockPending(t) \/ LookupSuccessor(t) \/ Refuse(t)
  \/ ReadCallHashes(t) \/ ReadClarification(t) \/ ReadInitialPlan(t)
  \/ ReuseCommitted(t) \/ Compose(t) \/ CheckCommitted(t) \/ LoadForCommit(t) \/ Finish(t)
Saves(t) ==
  \/ WriteCallHashes(t) \/ WriteClarification(t) \/ SavePlanning(t)
  \/ PersistInitialPlan(t) \/ SaveCommitted(t)

(* The steps of the specification.                                         *)
LEMMA Steps ==
  ASSUME Next
  PROVE  \/ \E t \in Turns : Begin(t) \/ Starts(t) \/ Looks(t) \/ Saves(t) \/ Replay(t) \/ Advance(t)
         \/ Expire \/ Purge
BY DEF Next, Starts, Looks, Saves

(* A turn changes its own local state.                                     *)
OnlyTurn(t) ==
  \A u \in Turns \ {t} :
    /\ pc'[u] = pc[u] /\ ver'[u] = ver[u] /\ asked'[u] = asked[u]
    /\ snap'[u] = snap[u] /\ plan'[u] = plan[u]

(* The local state of a turn that ends.                                    *)
LEMMA Ends ==
  ASSUME TypeOK, NEW t \in Turns, End(t)
  PROVE  /\ pc'[t] = "idle" /\ ver'[t] = 1 /\ asked'[t] = "answer"
         /\ snap'[t] = Absent /\ plan'[t] = NoPlan
         /\ OnlyTurn(t)
BY DEF TypeOK, End, Goto, OnlyTurn

(* The first version is one.                                               *)
LEMMA FirstVersion == MaxVersion \in Nat /\ 1 \in Versions /\ \A v \in Versions : v \in Nat /\ v >= 1 /\ v <= MaxVersion
BY HandoffAssumption DEF Versions

(* A turn has a version; its row and what it has read are rows.            *)
LEMMA TurnTypes ==
  ASSUME TypeOK, NEW t \in Turns
  PROVE  /\ ver[t] \in Versions /\ row[ver[t]] \in Row /\ snap[t] \in Row
         /\ plan[t] \in Plans /\ asked[t] \in Actions \cup {"answer"} /\ pc[t] \in Labels
BY DEF TypeOK

(* What a turn that saves writes: never a row that is not stored, and the  *)
(* status resumed only when it has read it.                                *)
Written(t, r) ==
  /\ row' = [row EXCEPT ![ver[t]] = r]
  /\ live' = live \cup {ver[t]}
  /\ lane' = lane /\ drawn' = drawn /\ advances' = advances
  /\ pc[t] \in Working /\ ~Locked(ver[t])
  /\ r \in Row /\ r # Absent
  /\ r.status = "resumed" => pc[t] \in Reading /\ snap[t].status = "resumed"

(* A turn that has saved goes on without what it has read, or ends.        *)
GoesOn(t) ==
  \/ /\ pc'[t] \in Working \ Reading
     /\ pc'[t] # "clarifying"
     /\ pc[t] \in Committing => pc'[t] \in Committing
     /\ ver'[t] = ver[t] /\ asked'[t] = asked[t] /\ plan'[t] = plan[t]
     /\ snap'[t] \in Row
  \/ End(t)

(* The five saves.                                                         *)
LEMMA SavesWrite ==
  ASSUME TypeOK, NEW t \in Turns, Saves(t)
  PROVE  /\ GoesOn(t) /\ OnlyTurn(t)
         /\ \E r \in Row : Written(t, r)
<1> DEFINE v == ver[t]
<1>1. snap[t] \in Row /\ v \in Versions /\ plan[t] \in Plans /\ pc[t] \in Labels
  BY TurnTypes
<1>2. \A l : Goto(t, l) => pc'[t] = l /\ \A u \in Turns \ {t} : pc'[u] = pc[u]
  BY DEF Goto, TypeOK
<1>3. CASE WriteCallHashes(t)
  <2>1. Written(t, Existing(snap[t]))
    <3>1. Existing(snap[t]) \in Row /\ Existing(snap[t]) # Absent
      BY <1>1, NewRows, AbsentRow DEF Existing, Statuses
    <3>2. Existing(snap[t]).status = "resumed" => snap[t].status = "resumed"
      BY <1>1, NewRows DEF Existing, Statuses
    <3> QED
      BY <1>3, <3>1, <3>2 DEF WriteCallHashes, Save, Written, Working, Reading
  <2>2. GoesOn(t) /\ OnlyTurn(t)
    BY <1>2, <1>3, AbsentRow DEF WriteCallHashes, GoesOn, OnlyTurn, Working, Reading, Committing, TypeOK
  <2> QED
    BY <2>1, <2>2 DEF Written
<1>4. CASE WriteClarification(t)
  <2> DEFINE r == [NewRow("awaiting_clarification") EXCEPT !.plan = snap[t].plan]
  <2>1. r \in Row /\ r.status = "awaiting_clarification"
    BY <1>1, PlanIds DEF NewRow, Row, Statuses
  <2>2. Written(t, r)
    BY <1>4, <2>1, AbsentRow DEF WriteClarification, Save, Written, Working
  <2> QED
    BY <1>4, <2>1, <2>2, Ends DEF WriteClarification, GoesOn
<1>5. CASE SavePlanning(t)
  <2> DEFINE r == NewRow(IF lane[v] = "wait" THEN "awaiting_investigation_plan" ELSE "in_progress")
  <2>1. r \in Row /\ r.status \in {"awaiting_investigation_plan", "in_progress"}
    BY NewRows DEF Statuses
  <2>2. Written(t, r)
    BY <1>5, <2>1, AbsentRow DEF SavePlanning, Save, Written, Working
  <2>3. GoesOn(t) /\ OnlyTurn(t)
    BY <1>1, <1>2, <1>5 DEF SavePlanning, GoesOn, OnlyTurn, Working, Reading, Committing
  <2> QED
    BY <2>1, <2>2, <2>3
<1>6. CASE PersistInitialPlan(t)
  <2> DEFINE r == [snap[t] EXCEPT !.hil = TRUE]
  <2>1. r \in Row /\ r.hil /\ r.status = snap[t].status
    BY <1>1 DEF Row
  <2>2. Written(t, r)
    BY <1>6, <2>1, AbsentRow DEF PersistInitialPlan, Save, Written, Working, Reading
  <2> QED
    BY <1>6, <2>1, <2>2, Ends DEF PersistInitialPlan, GoesOn
<1>7. CASE SaveCommitted(t)
  <2> DEFINE r == [snap[t] EXCEPT !.status = "plan_committed", !.plan = plan[t]]
  <2>1. r \in Row /\ r.status = "plan_committed"
    BY <1>1 DEF Row, Statuses
  <2>2. Written(t, r)
    BY <1>7, <2>1, AbsentRow DEF SaveCommitted, Save, Written, Working, Committing
  <2>3. GoesOn(t) /\ OnlyTurn(t)
    BY <1>1, <1>2, <1>7, AbsentRow DEF SaveCommitted, GoesOn, OnlyTurn, Working, Reading, Committing, TypeOK
  <2> QED
    BY <2>1, <2>2, <2>3
<1> QED
  BY <1>3, <1>4, <1>5, <1>6, <1>7 DEF Saves

(* What Advance does to the rows: the version waited, and its successor is *)
(* made from it.                                                           *)
LEMMA Advances ==
  ASSUME TypeOK, NEW t \in Turns, Advance(t)
  PROVE  LET v == ver[t] IN
         /\ v \in Versions /\ v + 1 \in Versions /\ v \in live
         /\ snap[t] = Absent
         /\ row[v].status = IF asked[t] = "answer" THEN "awaiting_clarification"
                            ELSE "awaiting_investigation_plan"
         /\ \E next \in Row :
              /\ next \in Successors(t)
              /\ next.status \in {"in_progress", "investigation_approved", "investigation_cancelled",
                                  "awaiting_investigation_plan", "awaiting_clarification"}
              /\ next # Absent
              /\ row' = [row EXCEPT ![v].status = "resumed", ![v + 1] = next]
         /\ live' = live \cup {v + 1}
         /\ advances' = [advances EXCEPT ![v] = @ + 1]
         /\ lane' = lane /\ drawn' = drawn
<1> DEFINE v == ver[t]
<1>1. v \in Versions /\ row[v] \in Row /\ asked[t] \in Actions \cup {"answer"} /\ v < MaxVersion
  BY TurnTypes DEF Advance
<1>2. v + 1 \in Versions
  BY <1>1, FirstVersion DEF Versions
<1>3. v \in live /\ Read(v) = row[v]
  <2>1. Read(v).status # "absent"
    BY DEF Advance, Pending
  <2> QED
    BY <1>1, <2>1, Reads, FirstVersion, AbsentRow
<1>4. PICK next \in Successors(t) : row' = [row EXCEPT ![v].status = "resumed", ![v + 1] = next]
  BY DEF Advance
<1>5. next \in Row /\ next.status \in {"in_progress", "investigation_approved", "investigation_cancelled",
                                       "awaiting_investigation_plan", "awaiting_clarification"}
  <2>1. CASE asked[t] = "answer"
    BY <1>1, <1>4, <2>1, PlanIds DEF Successors, Row, Statuses, Actions
  <2>2. CASE asked[t] = "run"
    BY <1>1, <1>4, <2>2, PlanIds DEF Successors, Row, Statuses, Actions
  <2>3. CASE asked[t] = "cancel"
    BY <1>1, <1>4, <2>3, PlanIds DEF Successors, Row, Statuses, Actions
  <2>4. CASE asked[t] = "edit"
    <3>1. PICK s \in {"awaiting_investigation_plan", "awaiting_clarification"} :
            next = [row[v] EXCEPT !.status = s, !.decision = "edit", !.plan = NoPlan]
      BY <1>4, <2>4 DEF Successors
    <3> QED
      BY <1>1, <3>1, PlanIds DEF Row, Statuses, Actions
  <2> QED
    BY <1>1, <2>1, <2>2, <2>3, <2>4 DEF Actions
<1>6. snap[t] = Absent /\ row[v].status = IF asked[t] = "answer" THEN "awaiting_clarification"
                                          ELSE "awaiting_investigation_plan"
  BY <1>3 DEF Advance, Pending
<1>7. live' = live \cup {v + 1} /\ advances' = [advances EXCEPT ![v] = @ + 1]
      /\ lane' = lane /\ drawn' = drawn
  BY DEF Advance, Proceed
<1> QED
  BY <1>1, <1>2, <1>3, <1>4, <1>5, <1>6, <1>7, AbsentRow

(* Where a turn is after it has advanced or replayed.                      *)
LEMMA ProceedsOrEnds ==
  ASSUME TypeOK, NEW t \in Turns, Advance(t) \/ Replay(t)
  PROVE  /\ pc[t] = "deciding"
         /\ OnlyTurn(t)
         /\ IF asked[t] \in {"answer", "run"}
            THEN /\ ver'[t] = ver[t] + 1
                 /\ snap'[t] = snap[t] /\ asked'[t] = asked[t]
                 /\ IF asked[t] = "run"
                    THEN pc'[t] = "committing" /\ plan'[t] = OfEnvelope(ver[t] + 1)
                    ELSE pc'[t] = "planning" /\ plan'[t] = plan[t]
            ELSE End(t)
<1>1. CASE asked[t] \in {"answer", "run"}
  <2>1. Proceed(t) /\ snap' = snap
    BY <1>1 DEF Advance, Replay
  <2> QED
    BY <1>1, <2>1 DEF Advance, Replay, Proceed, Goto, OnlyTurn, TypeOK
<1>2. CASE asked[t] \notin {"answer", "run"}
  BY <1>2, Ends DEF Advance, Replay
<1> QED
  BY <1>1, <1>2

-----------------------------------------------------------------------------
(* Every step keeps the types.                                             *)
LEMMA TypeStep ==
  ASSUME TypeOK, TurnInv, [Next]_vars
  PROVE  TypeOK'
<1>1. ASSUME NEW t \in Turns, Begin(t) \/ Starts(t) \/ Looks(t) PROVE TypeOK'
  <2>1. CASE Begin(t)
    BY <2>1 DEF Begin, Goto, TypeOK, Labels
  <2>2. CASE Starts(t)
    BY <2>2, PlanIds DEF Starts, Answer, Confirm, Decide, Goto, TypeOK, Labels, Actions
  <2>3. CASE LockPending(t) \/ CheckCommitted(t)
    BY <2>3 DEF LockPending, CheckCommitted, Goto, TypeOK, Labels
  <2>4. CASE LookupSuccessor(t)
    <3>1. Read(ver[t] + 1) \in Row
      BY Reads, TurnTypes, FirstVersion
    <3> QED
      BY <2>4, <3>1 DEF LookupSuccessor, Goto, TypeOK, Labels
  <2>5. CASE ReadCallHashes(t) \/ ReadClarification(t) \/ LoadForCommit(t)
    <3>1. Read(ver[t]) \in Row
      BY Reads, TurnTypes, FirstVersion
    <3> QED
      BY <2>5, <3>1 DEF ReadCallHashes, ReadClarification, LoadForCommit, ReadForUpdate, Goto, TypeOK, Labels
  <2>6. ASSUME End(t), UNCHANGED <<row, live, lane, drawn, advances>> PROVE TypeOK'
    BY <2>6, PlanIds, AbsentRow, FirstVersion DEF End, Goto, TypeOK, Labels
  <2>7. CASE ReadInitialPlan(t)
    <3>1. Read(ver[t]) \in Row
      BY Reads, TurnTypes, FirstVersion
    <3>2. CASE End(t)
      BY <2>6, <2>7, <3>2 DEF ReadInitialPlan
    <3>3. CASE ~End(t)
      BY <2>7, <3>1, <3>3 DEF ReadInitialPlan, Goto, TypeOK, Labels
    <3> QED
      BY <3>2, <3>3
  <2>8. CASE ReuseCommitted(t)
    <3>1. Read(ver[t]).plan \in Plans
      BY Reads, TurnTypes, FirstVersion, RowFields
    <3> QED
      BY <2>8, <3>1 DEF ReuseCommitted, Goto, TypeOK, Labels
  <2>9. CASE Compose(t)
    <3>1. drawn + 1 \in 0..MaxPlans /\ Drawn(drawn + 1) \in Plans
      BY <2>9, PlanIds, HandoffAssumption DEF Compose, TypeOK
    <3> QED
      BY <2>9, <3>1 DEF Compose, Goto, TypeOK, Labels
  <2>10. CASE Refuse(t) \/ Finish(t)
    BY <2>6, <2>10 DEF Refuse, Finish
  <2> QED
    BY <1>1, <2>1, <2>2, <2>3, <2>4, <2>5, <2>7, <2>8, <2>9, <2>10 DEF Looks
<1>2. ASSUME NEW t \in Turns, Saves(t) PROVE TypeOK'
  <2>1. PICK r \in Row : Written(t, r)
    BY <1>2, SavesWrite
  <2>2. row' \in [Versions -> Row] /\ live' \subseteq {v \in Versions : row'[v] # Absent}
    BY <2>1, TurnTypes DEF Written, TypeOK
  <2>3. pc' \in [Turns -> Labels] /\ ver' \in [Turns -> Versions] /\ asked' \in [Turns -> Actions \cup {"answer"}]
        /\ snap' \in [Turns -> Row] /\ plan' \in [Turns -> Plans]
    BY <1>2, AbsentRow, PlanIds, FirstVersion
    DEF Saves, WriteCallHashes, WriteClarification, SavePlanning, PersistInitialPlan, SaveCommitted,
        End, Goto, TypeOK, Labels
  <2> QED
    BY <2>1, <2>2, <2>3 DEF Written, TypeOK
<1>3. ASSUME NEW t \in Turns, ver[t] + 1 \in Versions, Proceed(t), snap' = snap
      PROVE  /\ pc' \in [Turns -> Labels] /\ ver' \in [Turns -> Versions]
             /\ asked' \in [Turns -> Actions \cup {"answer"}]
             /\ snap' \in [Turns -> Row] /\ plan' \in [Turns -> Plans]
  BY <1>3, PlanIds DEF Proceed, Goto, TypeOK, Labels
<1>4. ASSUME NEW t \in Turns, End(t)
      PROVE  /\ pc' \in [Turns -> Labels] /\ ver' \in [Turns -> Versions]
             /\ asked' \in [Turns -> Actions \cup {"answer"}]
             /\ snap' \in [Turns -> Row] /\ plan' \in [Turns -> Plans]
  BY <1>4, AbsentRow, PlanIds, FirstVersion DEF End, Goto, TypeOK, Labels
<1>5. ASSUME NEW t \in Turns, Replay(t) PROVE TypeOK'
  <2>1. ver[t] + 1 \in Versions
    BY <1>5, TurnTypes, FirstVersion DEF Replay, TurnInv, Knows, Live, TypeOK
  <2>2. CASE asked[t] \in {"answer", "run"}
    BY <1>3, <1>5, <2>1, <2>2 DEF Replay, Proceed, TypeOK
  <2>3. CASE asked[t] \notin {"answer", "run"}
    BY <1>4, <1>5, <2>3 DEF Replay, TypeOK
  <2> QED
    BY <2>2, <2>3
<1>6. ASSUME NEW t \in Turns, Advance(t) PROVE TypeOK'
  <2>1. row' \in [Versions -> Row] /\ live' \subseteq {v \in Versions : row'[v] # Absent}
    <3> DEFINE v == ver[t]
    <3>1. PICK next \in Row : next # Absent /\ row' = [row EXCEPT ![v].status = "resumed", ![v + 1] = next]
      BY <1>6, Advances
    <3>2. [row[v] EXCEPT !.status = "resumed"] \in Row /\ [row[v] EXCEPT !.status = "resumed"] # Absent
      BY TurnTypes, AbsentRow DEF Row
    <3> QED
      BY <1>6, <3>1, <3>2, Advances DEF TypeOK
  <2>2. advances' \in [Versions -> Nat] /\ drawn' = drawn /\ lane' = lane
    BY <1>6, Advances DEF TypeOK
  <2>3. CASE asked[t] \in {"answer", "run"}
    BY <1>3, <1>6, <2>1, <2>2, <2>3, Advances DEF Advance, TypeOK
  <2>4. CASE asked[t] \notin {"answer", "run"}
    BY <1>4, <1>6, <2>1, <2>2, <2>4 DEF Advance, TypeOK
  <2> QED
    BY <2>3, <2>4
<1>7. CASE Expire
  BY <1>7 DEF Expire, TypeOK
<1>8. CASE Purge
  BY <1>8, AbsentRow DEF Purge, TypeOK
<1>9. CASE UNCHANGED vars
  BY <1>9 DEF vars, TypeOK
<1> QED
  BY <1>1, <1>2, <1>5, <1>6, <1>7, <1>8, <1>9, Steps

-----------------------------------------------------------------------------
(* The structure of the handoff.                                           *)

(* Starting and looking change one turn and no row.                        *)
LEMMA QuietSteps ==
  ASSUME TypeOK, NEW t \in Turns, Starts(t) \/ Looks(t)
  PROVE  row' = row /\ live' = live /\ lane' = lane /\ advances' = advances /\ OnlyTurn(t)
<1>1. row' = row /\ live' = live /\ lane' = lane /\ advances' = advances
  BY DEF Starts, Answer, Confirm, Decide, Looks, LockPending, LookupSuccessor, Refuse, ReadCallHashes,
         ReadClarification, ReadForUpdate, ReadInitialPlan, ReuseCommitted, Compose, CheckCommitted,
         LoadForCommit, Finish
<1>2. OnlyTurn(t)
  <2>1. CASE End(t)
    BY <2>1, Ends
  <2>2. CASE ~End(t)
    BY <2>2 DEF Starts, Answer, Confirm, Decide, Looks, LockPending, LookupSuccessor, Refuse, ReadCallHashes,
         ReadClarification, ReadForUpdate, ReadInitialPlan, ReuseCommitted, Compose, CheckCommitted,
         LoadForCommit, Finish, Goto, OnlyTurn, TypeOK
  <2> QED
    BY <2>1, <2>2
<1> QED
  BY <1>1, <1>2

(* Where a quiet step brings its turn.                                     *)
Started(t) ==
  /\ pc[t] = "idle"
  /\ ver'[t] \in Versions
  /\ \/ pc'[t] = "requested" /\ asked'[t] \in Actions
     \/ /\ pc'[t] = "requested" /\ asked'[t] = asked[t] /\ ver'[t] \in live
        /\ row[ver'[t]].status = "awaiting_clarification"
     \/ /\ pc'[t] = "committing" /\ asked'[t] = asked[t] /\ ver'[t] \in live
        /\ row[ver'[t]].status \in {"investigation_approved", "plan_committed"}
        /\ row[ver'[t]].decision = "run" /\ plan'[t] = OfEnvelope(ver'[t])

(* A turn that starts asks, or confirms a call of an approved version.     *)
LEMMA StartsReach ==
  ASSUME TypeOK, NEW t \in Turns, Starts(t)
  PROVE  Started(t)
<1>1. PICK v \in Versions : Answer(t, v) \/ Confirm(t, v) \/ \E action \in Actions : Decide(t, v, action)
  BY DEF Starts
<1>2. v \in Int
  BY FirstVersion
<1>3. CASE Answer(t, v)
  <2>1. v \in live /\ row[v].status = "awaiting_clarification"
    BY <1>2, <1>3, Reads, AbsentRow DEF Answer
  <2> QED
    BY <1>1, <1>3, <2>1 DEF Answer, Goto, Started, TypeOK
<1>4. CASE Confirm(t, v)
  <2>1. v \in live /\ row[v].status \in {"investigation_approved", "plan_committed"} /\ row[v].decision = "run"
    BY <1>2, <1>4, Reads, AbsentRow DEF Confirm
  <2> QED
    BY <1>1, <1>4, <2>1 DEF Confirm, Goto, Started, TypeOK
<1>5. CASE \E action \in Actions : Decide(t, v, action)
  BY <1>1, <1>5 DEF Decide, Goto, Started, TypeOK
<1> QED
  BY <1>1, <1>3, <1>4, <1>5

(* A turn that looks waits for the lock, looks for a successor, reads the  *)
(* row it is going to write, or goes on with its plan.                     *)
Looked(t) ==
  \/ End(t)
  \/ /\ ver'[t] = ver[t] /\ asked'[t] = asked[t]
     /\ \/ pc[t] = "requested" /\ pc'[t] = "locked" /\ ~Locked(ver[t])
        \/ pc[t] = "locked" /\ pc'[t] = "deciding" /\ snap'[t] = Read(ver[t] + 1)
        \/ /\ pc[t] \in Working /\ pc'[t] \in Reading /\ snap'[t] = Read(ver[t])
           /\ plan'[t] = plan[t]
           /\ pc[t] \in Committing <=> pc'[t] \in Committing
           /\ pc'[t] = "clarifying" => lane[ver[t]] = "clarify"
        \/ /\ pc[t] \in Working /\ pc'[t] \in Committing \ Reading
           /\ pc[t] \in Committing => plan'[t] = plan[t]

(* The quiet actions of a turn that has started.                           *)
LEMMA LooksReach ==
  ASSUME TypeOK, NEW t \in Turns, Looks(t)
  PROVE  Looked(t)
<1> USE DEF Looked, Working, Reading, Committing, TypeOK, Goto
<1>1. CASE LockPending(t)
  BY <1>1 DEF LockPending
<1>2. CASE LookupSuccessor(t)
  BY <1>2 DEF LookupSuccessor
<1>3. CASE Refuse(t) \/ Finish(t)
  BY <1>3 DEF Refuse, Finish
<1>4. CASE ReadCallHashes(t) \/ ReadClarification(t)
  BY <1>4 DEF ReadCallHashes, ReadClarification, ReadForUpdate
<1>5. CASE ReadInitialPlan(t)
  BY <1>5 DEF ReadInitialPlan
<1>6. CASE ReuseCommitted(t) \/ Compose(t)
  BY <1>6 DEF ReuseCommitted, Compose
<1>7. CASE CheckCommitted(t) \/ LoadForCommit(t)
  BY <1>7 DEF CheckCommitted, LoadForCommit
<1> QED
  BY <1>1, <1>2, <1>3, <1>4, <1>5, <1>6, <1>7 DEF Looks

(* The lock of a row is taken when it is free, and held by nobody else.    *)
LEMMA LockStep ==
  ASSUME TypeOK, LockInv, [Next]_vars
  PROVE  LockInv'
<1> USE DEF LockInv, HoldsLock
<1>1. ASSUME NEW t \in Turns, OnlyTurn(t), pc'[t] \notin {"locked", "deciding"} PROVE LockInv'
  BY <1>1 DEF OnlyTurn
<1>2. ASSUME NEW t \in Turns, Starts(t) \/ Looks(t) PROVE LockInv'
  <2>1. OnlyTurn(t)
    BY <1>2, QuietSteps
  <2>2. CASE pc'[t] \notin {"locked", "deciding"}
    BY <1>1, <2>1, <2>2
  <2>3. CASE pc'[t] \in {"locked", "deciding"}
    <3>1. Looked(t) /\ ~End(t)
      BY <1>2, <2>3, StartsReach, LooksReach, Ends DEF Started
    <3>2. ver'[t] = ver[t]
      BY <3>1 DEF Looked
    <3>3. pc[t] = "locked" \/ ~Locked(ver[t])
      BY <2>3, <3>1 DEF Looked, Reading, Committing
    <3> QED
      BY <2>1, <3>2, <3>3 DEF OnlyTurn, Locked
  <2> QED
    BY <2>2, <2>3
<1>3. ASSUME NEW t \in Turns, Saves(t) PROVE LockInv'
  BY <1>1, <1>3, SavesWrite, Ends DEF GoesOn, Working, Committing
<1>4. ASSUME NEW t \in Turns, Replay(t) \/ Advance(t) PROVE LockInv'
  BY <1>1, <1>4, ProceedsOrEnds, Ends
<1>5. ASSUME NEW t \in Turns, Begin(t) PROVE LockInv'
  BY <1>1, <1>5 DEF Begin, Goto, OnlyTurn, TypeOK
<1>6. CASE Expire \/ Purge \/ UNCHANGED vars
  BY <1>6 DEF Expire, Purge, vars
<1> QED
  BY <1>2, <1>3, <1>4, <1>5, <1>6, Steps

(* Saving and advancing keep the rows that are stored and live.            *)
LEMMA RowsStay ==
  ASSUME TypeOK, NEW t \in Turns, Saves(t) \/ Advance(t)
  PROVE  /\ \A v \in Versions : row[v] # Absent => row'[v] # Absent
         /\ live \subseteq live'
<1>1. CASE Saves(t)
  BY <1>1, SavesWrite, TurnTypes DEF Written, TypeOK
<1>2. CASE Advance(t)
  <2>1. [row[ver[t]] EXCEPT !.status = "resumed"] # Absent
    BY TurnTypes, AbsentRow DEF Row
  <2> QED
    BY <1>2, <2>1, Advances, TurnTypes DEF TypeOK
<1> QED
  BY <1>1, <1>2

(* What the other turns know stays true when one saves or advances.        *)
LEMMA OthersKnow ==
  ASSUME TypeOK, LockInv, TurnInv, NEW t \in Turns, Saves(t) \/ Advance(t), OnlyTurn(t),
         NEW u \in Turns \ {t}
  PROVE  Knows(u)'
<1>1. Knows(u) /\ Knows(t) /\ ver[u] \in Versions /\ ver[t] \in Versions
  BY TurnTypes DEF TurnInv
<1>2. pc'[u] = pc[u] /\ ver'[u] = ver[u] /\ asked'[u] = asked[u] /\ snap'[u] = snap[u]
  BY DEF OnlyTurn
<1>3. lane' = lane
  BY SavesWrite, Advances DEF Written
<1>4. live \subseteq live'
  BY RowsStay
<1>5. ASSUME pc[u] = "deciding" PROVE ver[u] + 1 \in live' => ver[u] + 1 \in live
  <2>1. CASE Saves(t)
    <3>1. live' = live \cup {ver[t]} /\ pc[t] \in Working
      BY <2>1, SavesWrite DEF Written
    <3>2. ver[t] = ver[u] + 1 => ver[t] # 1
      BY <1>1, FirstVersion
    <3> QED
      BY <1>1, <3>1, <3>2 DEF Knows, Live
  <2>2. CASE Advance(t)
    <3>1. ver[t] # ver[u]
      BY <1>5, <2>2 DEF Advance, LockInv, HoldsLock
    <3>2. live' = live \cup {ver[t] + 1}
      BY <2>2, Advances
    <3> QED
      BY <1>1, <3>1, <3>2, FirstVersion
  <2> QED
    BY <2>1, <2>2
<1>6. ASSUME ver[u] = 1, row[1] = Absent PROVE 1 \in live' \/ row'[1] = Absent
  <2>1. CASE Saves(t)
    BY <1>1, <1>6, <2>1, SavesWrite DEF Written, TypeOK
  <2>2. CASE Advance(t)
    <3>1. ver[t] # 1 /\ ver[t] + 1 # 1
      BY <1>1, <1>6, <2>2, Advances, FirstVersion DEF TypeOK
    <3> QED
      BY <1>1, <1>6, <2>2, <3>1, Advances DEF TypeOK
  <2> QED
    BY <2>1, <2>2
<1> QED
  BY <1>1, <1>2, <1>3, <1>4, <1>5, <1>6 DEF Knows, Live

(* Turns go on knowing what they know.                                     *)
LEMMA TurnStep ==
  ASSUME TypeOK, LockInv, TurnInv, [Next]_vars
  PROVE  TurnInv'
<1> SUFFICES ASSUME NEW u \in Turns PROVE Knows(u)'
  BY DEF TurnInv
<1>1. Knows(u) /\ ver[u] \in Versions
  BY TurnTypes DEF TurnInv
<1>2. ASSUME End(u) PROVE Knows(u)'
  BY <1>2, Ends DEF Knows, Working, Reading, Committing
<1>3. ASSUME NEW t \in Turns, Begin(t) PROVE Knows(u)'
  <2>1. pc[u] = "idle" /\ row[1] = Absent
    BY <1>3, FirstVersion DEF Begin
  <2> QED
    BY <1>1, <1>3, <2>1 DEF Begin, Goto, Knows, Live, Working, Reading, Committing, TypeOK
<1>4. ASSUME NEW t \in Turns, Starts(t) \/ Looks(t) PROVE Knows(u)'
  <2>1. row' = row /\ live' = live /\ lane' = lane /\ OnlyTurn(t)
    BY <1>4, QuietSteps
  <2>2. CASE u # t
    BY <1>1, <2>1, <2>2 DEF OnlyTurn, Knows, Live
  <2>3. CASE u = t /\ Starts(t)
    BY <1>4, <2>1, <2>3, StartsReach DEF Started, Knows, Live, Working, Reading, Committing, Actions
  <2>4. CASE u = t /\ Looks(t) /\ ~End(t)
    <3>1. Looked(t) /\ Read(ver[t]) \in Row
      BY <2>4, LooksReach, Reads, TurnTypes, FirstVersion
    <3>2. (Read(ver[t] + 1) = Absent <=> ver[t] + 1 \notin live) /\ (Read(ver[t]) = Absent <=> ver[t] \notin live)
      BY Reads, TurnTypes, FirstVersion
    <3>3. ver'[t] = ver[t] /\ asked'[t] = asked[t]
      BY <2>4, <3>1 DEF Looked
    <3>4. CASE pc[t] \notin Working
      BY <1>1, <2>1, <2>4, <3>1, <3>2, <3>3, <3>4 DEF Looked, Knows, Live, Working, Reading, Committing
    <3>5. CASE pc[t] \in Working
      <4>1. pc'[t] \in Working
        BY <2>4, <3>1, <3>5 DEF Looked, Working, Reading, Committing
      <4>2. pc'[t] \in Reading /\ snap'[t] # Absent => ver[t] \in live
        BY <2>4, <3>1, <3>2, <3>5 DEF Looked, Working, Reading, Committing
      <4>3. pc'[t] = "clarifying" => lane[ver[t]] = "clarify"
        BY <2>4, <3>1, <3>5 DEF Looked, Working, Reading, Committing
      <4> QED
        BY <1>1, <2>1, <2>4, <3>3, <3>5, <4>1, <4>2, <4>3 DEF Knows, Live, Working, Reading, Committing
    <3> QED
      BY <3>4, <3>5
  <2> QED
    BY <1>2, <1>4, <2>2, <2>3, <2>4
<1>5. ASSUME NEW t \in Turns, Saves(t) PROVE Knows(u)'
  <2>1. GoesOn(t) /\ OnlyTurn(t) /\ live' = live \cup {ver[t]}
    BY <1>5, SavesWrite DEF Written
  <2>2. CASE u # t
    BY <1>5, <2>1, <2>2, OthersKnow
  <2>3. CASE u = t /\ ~End(t)
    BY <2>1, <2>3 DEF GoesOn, Knows, Live, Working, Reading, Committing
  <2> QED
    BY <1>2, <2>2, <2>3
<1>6. ASSUME NEW t \in Turns, Advance(t) PROVE Knows(u)'
  <2>1. OnlyTurn(t) /\ live' = live \cup {ver[t] + 1}
    BY <1>6, ProceedsOrEnds, Advances
  <2>2. CASE u # t
    BY <1>6, <2>1, <2>2, OthersKnow
  <2>3. CASE u = t /\ ~End(t)
    BY <1>6, <2>1, <2>3, ProceedsOrEnds DEF Knows, Live, Working, Reading, Committing
  <2> QED
    BY <1>2, <2>2, <2>3
<1>7. ASSUME NEW t \in Turns, Replay(t) PROVE Knows(u)'
  <2>1. OnlyTurn(t) /\ live' = live /\ row' = row /\ lane' = lane /\ snap[t] # Absent
    BY <1>7, ProceedsOrEnds DEF Replay, Proceed
  <2>2. CASE u # t
    BY <1>1, <2>1, <2>2 DEF OnlyTurn, Knows, Live
  <2>3. CASE u = t /\ ~End(t)
    BY <1>1, <1>7, <2>1, <2>3, ProceedsOrEnds DEF Knows, Live, Working, Reading, Committing
  <2> QED
    BY <1>2, <2>2, <2>3
<1>8. CASE Expire
  BY <1>1, <1>8 DEF Expire, Knows, Live, Working, Reading, Committing
<1>9. CASE Purge
  <2>1. row[1] = Absent => row'[1] = Absent
    BY <1>9, FirstVersion DEF Purge
  <2> QED
    BY <1>1, <1>9, <2>1 DEF Purge, Knows, Live
<1>10. CASE UNCHANGED vars
  BY <1>1, <1>10 DEF vars, Knows, Live
<1> QED
  BY <1>3, <1>4, <1>5, <1>6, <1>7, <1>8, <1>9, <1>10, Steps

(* A resumed version keeps its successor, and so does a turn that has read *)
(* the version and may write it back.                                      *)
LEMMA ResumedStep ==
  ASSUME TypeOK, TurnInv, ResumedInv, [Next]_vars
  PROVE  ResumedInv'
<1> USE DEF ResumedInv, ResumedHasSuccessor, ReadResumed
<1>1. ASSUME row' = row, live' = live, NEW t \in Turns, OnlyTurn(t), ReadResumed(t)' PROVE ResumedInv'
  BY <1>1 DEF OnlyTurn, Live
<1>2. ASSUME NEW t \in Turns, Saves(t) \/ Advance(t), OnlyTurn(t), ReadResumed(t)',
             \A v \in Versions : row'[v].status = "resumed" /\ v \in live' =>
               v < MaxVersion /\ row'[v + 1] # Absent
      PROVE  ResumedInv'
  <2>1. ASSUME NEW u \in Turns \ {t}, pc[u] \in Reading, snap[u].status = "resumed"
        PROVE  row'[ver[u] + 1] # Absent
    <3>1. row[ver[u] + 1] # Absent /\ ver[u] + 1 \in Versions
      BY <2>1, TurnTypes, FirstVersion DEF Versions
    <3> QED
      BY <1>2, <3>1, RowsStay
  <2> QED
    BY <1>2, <2>1 DEF OnlyTurn, Live
<1>3. ASSUME NEW t \in Turns, Begin(t) PROVE ResumedInv'
  BY <1>1, <1>3 DEF Begin, Goto, OnlyTurn, Reading, TypeOK
<1>4. ASSUME NEW t \in Turns, Starts(t) \/ Looks(t) PROVE ResumedInv'
  <2>1. row' = row /\ live' = live /\ OnlyTurn(t)
    BY <1>4, QuietSteps
  <2>2. ReadResumed(t)'
    <3>1. CASE pc'[t] \notin Reading
      BY <3>1
    <3>2. CASE pc'[t] \in Reading
      <4>1. Looked(t) /\ ~End(t)
        BY <1>4, <3>2, StartsReach, LooksReach, Ends DEF Started, Reading
      <4>2. snap'[t] = Read(ver[t]) /\ ver'[t] = ver[t]
        BY <3>2, <4>1 DEF Looked, Reading, Committing
      <4>3. Read(ver[t]).status = "resumed" => ver[t] \in live /\ row[ver[t]].status = "resumed"
        BY Reads, TurnTypes, FirstVersion, AbsentRow
      <4> QED
        BY <2>1, <4>2, <4>3, TurnTypes DEF Live
    <3> QED
      BY <3>1, <3>2
  <2> QED
    BY <1>1, <2>1, <2>2
<1>5. ASSUME NEW t \in Turns, Saves(t) PROVE ResumedInv'
  <2>1. PICK r \in Row : Written(t, r)
    BY <1>5, SavesWrite
  <2>2. r.status = "resumed" => ver[t] < MaxVersion /\ row[ver[t] + 1] # Absent
    BY <2>1 DEF Written
  <2>3. ASSUME NEW v \in Versions, row'[v].status = "resumed", v \in live'
        PROVE  v < MaxVersion /\ row'[v + 1] # Absent
    <3>1. v < MaxVersion /\ row[v + 1] # Absent
      BY <2>1, <2>2, <2>3, TurnTypes DEF Written, TypeOK, Live
    <3> QED
      BY <1>5, <3>1, RowsStay, FirstVersion DEF Versions
  <2>4. ReadResumed(t)' /\ OnlyTurn(t)
    BY <1>5, SavesWrite, Ends DEF GoesOn, Reading
  <2> QED
    BY <1>2, <1>5, <2>3, <2>4
<1>6. ASSUME NEW t \in Turns, Advance(t) PROVE ResumedInv'
  <2> DEFINE w == ver[t]
  <2>1. PICK next \in Row : /\ next.status # "resumed" /\ next # Absent
                            /\ row' = [row EXCEPT ![w].status = "resumed", ![w + 1] = next]
    BY <1>6, Advances
  <2>2. w \in Versions /\ w + 1 \in Versions /\ live' = live \cup {w + 1}
    BY <1>6, Advances
  <2>3. ASSUME NEW v \in Versions, row'[v].status = "resumed", v \in live'
        PROVE  v < MaxVersion /\ row'[v + 1] # Absent
    <3>1. v # w + 1
      BY <2>1, <2>2, <2>3 DEF TypeOK
    <3>2. CASE v = w
      BY <2>1, <2>2, <3>2, FirstVersion DEF TypeOK
    <3>3. CASE v # w
      <4>1. v < MaxVersion /\ row[v + 1] # Absent
        BY <2>1, <2>2, <2>3, <3>1, <3>3 DEF TypeOK, Live
      <4> QED
        BY <1>6, <4>1, RowsStay, FirstVersion DEF Versions
    <3> QED
      BY <3>2, <3>3
  <2>4. ReadResumed(t)' /\ OnlyTurn(t)
    BY <1>6, ProceedsOrEnds, Ends DEF Reading
  <2> QED
    BY <1>2, <1>6, <2>3, <2>4
<1>7. ASSUME NEW t \in Turns, Replay(t) PROVE ResumedInv'
  <2>1. ReadResumed(t)' /\ OnlyTurn(t)
    BY <1>7, ProceedsOrEnds, Ends DEF Reading
  <2> QED
    BY <1>1, <1>7, <2>1 DEF Replay
<1>8. CASE Expire
  BY <1>8 DEF Expire, Live
<1>9. CASE Purge
  <2>1. ASSUME NEW u \in Turns, pc[u] \in Reading, snap[u].status = "resumed" PROVE FALSE
    BY <1>9, <2>1, AbsentRow DEF Purge, TurnInv, Knows, Live
  <2> QED
    BY <1>9, <2>1 DEF Purge, Live
<1>10. CASE UNCHANGED vars
  BY <1>10 DEF vars, Live
<1> QED
  BY <1>3, <1>4, <1>5, <1>6, <1>7, <1>8, <1>9, <1>10, Steps

(* A live version keeps the versions before it, and versions are counted   *)
(* when they are made.                                                     *)
LEMMA HistoryStep ==
  ASSUME TypeOK, TurnInv, LiveHasItsHistory, ChainInv, [Next]_vars
  PROVE  LiveHasItsHistory' /\ ChainInv'
<1> USE DEF LiveHasItsHistory, ChainInv
<1>1. ASSUME row' = row, live' = live, advances' = advances PROVE LiveHasItsHistory' /\ ChainInv'
  BY <1>1 DEF Live
<1>2. ASSUME NEW t \in Turns, Begin(t) PROVE LiveHasItsHistory' /\ ChainInv'
  <2>1. \A v \in Versions : v < MaxVersion => v + 1 \in Versions
    BY FirstVersion DEF Versions
  <2> QED
    BY <1>2, <2>1 DEF Begin, Live
<1>3. ASSUME NEW t \in Turns, Starts(t) \/ Looks(t) \/ Replay(t) PROVE LiveHasItsHistory' /\ ChainInv'
  BY <1>1, <1>3, QuietSteps DEF Replay
<1>4. ASSUME NEW t \in Turns, Saves(t) PROVE LiveHasItsHistory' /\ ChainInv'
  <2>1. PICK r \in Row : Written(t, r)
    BY <1>4, SavesWrite
  <2>2. ver[t] \in live \/ ver[t] = 1
    BY <2>1 DEF Written, TurnInv, Knows, Live
  <2>3. LiveHasItsHistory'
    BY <1>4, <2>1, <2>2, RowsStay, FirstVersion DEF Written, Live
  <2>4. ASSUME NEW v \in Versions, v < MaxVersion, row'[v + 1] # Absent PROVE row[v + 1] # Absent
    BY <2>1, <2>2, <2>4, FirstVersion DEF Written, TypeOK
  <2> QED
    BY <2>1, <2>3, <2>4 DEF Written
<1>5. ASSUME NEW t \in Turns, Advance(t) PROVE LiveHasItsHistory' /\ ChainInv'
  <2> DEFINE w == ver[t]
  <2>1. PICK next \in Row : row' = [row EXCEPT ![w].status = "resumed", ![w + 1] = next]
    BY <1>5, Advances
  <2>2. /\ w \in Versions /\ w + 1 \in Versions /\ w \in live
        /\ live' = live \cup {w + 1} /\ advances' = [advances EXCEPT ![w] = @ + 1]
    BY <1>5, Advances
  <2>3. row[w] # Absent
    BY <2>2 DEF TypeOK
  <2>4. ASSUME NEW u \in Versions, NEW v \in Versions, u < v, v \in live' PROVE row'[u] # Absent
    <3>1. row[u] # Absent
      BY <2>2, <2>3, <2>4, FirstVersion DEF Live
    <3> QED
      BY <1>5, <3>1, RowsStay
  <2>5. \A v \in Versions : advances[v] \in Nat /\ (advances'[v] > 0 <=> advances[v] > 0 \/ v = w)
    BY <2>2 DEF TypeOK
  <2>6. ASSUME NEW v \in Versions, v < MaxVersion
        PROVE  /\ row'[v + 1] # Absent => advances'[v] > 0
               /\ advances'[v + 1] > 0 => advances'[v] > 0
    <3>1. v + 1 \in Versions
      BY <2>6, FirstVersion DEF Versions
    <3>2. v + 1 # w /\ v # w => (row'[v + 1] = row[v + 1])
      BY <2>1, <2>2, <3>1, FirstVersion DEF TypeOK
    <3> QED
      BY <2>3, <2>5, <2>6, <3>1, <3>2
  <2> QED
    BY <2>4, <2>6 DEF Live
<1>6. CASE Expire
  BY <1>6 DEF Expire, Live
<1>7. CASE Purge
  <2>1. \A v \in Versions : v < MaxVersion => v + 1 \in Versions
    BY FirstVersion DEF Versions
  <2> QED
    BY <1>7, <2>1 DEF Purge, Live
<1>8. CASE UNCHANGED vars
  BY <1>1, <1>8 DEF vars
<1> QED
  BY <1>2, <1>3, <1>4, <1>5, <1>6, <1>7, <1>8, Steps

-----------------------------------------------------------------------------
(* Decisions and the turns they exclude.                                   *)

(* What a save leaves in the row of a version: no decision that was not    *)
(* there before.                                                           *)
Kept(t) ==
  LET v == ver[t]  r == row'[v] IN
  /\ r.decision # "cancel" /\ ~Edited(r) /\ Lawful(v, r)
  /\ r.decision = "run" <=> row[v].decision = "run"
  /\ r.decision = "run" => r.status = "plan_committed" /\ r.plan = OfEnvelope(v)

(* Every save leaves such a row.                                           *)
LEMMA SavesKeep ==
  ASSUME TypeOK, TurnInv, RowInv, WorkInv, NEW t \in Turns, Saves(t)
  PROVE  Kept(t)
<1> DEFINE v == ver[t]
<1>1. v \in Versions /\ snap[t] \in Row /\ row[v] \in Row /\ plan[t] \in Plans
  BY TurnTypes
<1>2. Works(t) /\ Knows(t)
  BY DEF WorkInv, TurnInv
<1>3. ASSUME NEW r \in Row, r.decision = "none", row' = [row EXCEPT ![v] = r], Lawful(v, r),
             pc[t] \in Working \ Committing
      PROVE  Kept(t)
  BY <1>1, <1>2, <1>3 DEF Kept, Works, Edited, TypeOK
<1>4. CASE WriteCallHashes(t)
  <2>1. CASE snap[t] = Absent
    <3>1. Existing(snap[t]) = NewRow("created")
      BY <2>1 DEF Existing
    <3>2. NewRow("created") \in Row /\ NewRow("created").status = "created" /\ NewRow("created").decision = "none"
      BY NewRows DEF Statuses
    <3>3. pc[t] \in Working \ Committing /\ row' = [row EXCEPT ![v] = NewRow("created")]
      BY <1>4, <3>1 DEF WriteCallHashes, Save, Working, Committing
    <3> QED
      BY <1>3, <3>2, <3>3 DEF Lawful
  <2>2. CASE snap[t] # Absent
    <3>1. row'[v] = snap[t]
      BY <1>1, <1>4, <2>2 DEF WriteCallHashes, Save, Existing, TypeOK
    <3>2. pc[t] \in Reading /\ pc[t] \in Working /\ pc[t] \notin Committing
      BY <1>4 DEF WriteCallHashes, Working, Reading, Committing
    <3> QED
      BY <1>2, <3>1, <3>2 DEF Kept, Works
  <2> QED
    BY <2>1, <2>2
<1>5. CASE WriteClarification(t)
  <2> DEFINE r == [NewRow("awaiting_clarification") EXCEPT !.plan = snap[t].plan]
  <2>1. r \in Row /\ r.status = "awaiting_clarification" /\ r.decision = "none"
    BY <1>1, PlanIds DEF NewRow, Row, Statuses
  <2>2. pc[t] \in Working \ Committing /\ lane[v] = "clarify" /\ row' = [row EXCEPT ![v] = r]
    BY <1>2, <1>5 DEF WriteClarification, Save, Knows, Working, Committing
  <2> QED
    BY <1>3, <2>1, <2>2 DEF Lawful
<1>6. CASE SavePlanning(t)
  <2> DEFINE r == NewRow(IF lane[v] = "wait" THEN "awaiting_investigation_plan" ELSE "in_progress")
  <2>1. /\ r \in Row /\ r.decision = "none"
        /\ r.status = IF lane[v] = "wait" THEN "awaiting_investigation_plan" ELSE "in_progress"
    BY NewRows DEF Statuses
  <2>2. pc[t] \in Working \ Committing /\ row' = [row EXCEPT ![v] = r]
    BY <1>6 DEF SavePlanning, Save, Working, Committing
  <2> QED
    BY <1>3, <2>1, <2>2 DEF Lawful
<1>7. CASE PersistInitialPlan(t)
  <2> DEFINE r == [snap[t] EXCEPT !.hil = TRUE]
  <2>1. r.decision = snap[t].decision /\ r.status = snap[t].status /\ row'[v] = r
    BY <1>1, <1>7 DEF PersistInitialPlan, Save, Row, TypeOK
  <2>2. pc[t] \in Reading /\ pc[t] \in Working /\ pc[t] \notin Committing
    BY <1>7 DEF PersistInitialPlan, Working, Reading, Committing
  <2> QED
    BY <1>2, <2>1, <2>2 DEF Kept, Works, Edited, Lawful
<1>8. CASE SaveCommitted(t)
  <2> DEFINE r == [snap[t] EXCEPT !.status = "plan_committed", !.plan = plan[t]]
  <2>1. r.decision = snap[t].decision /\ r.status = "plan_committed" /\ r.plan = plan[t] /\ row'[v] = r
    BY <1>1, <1>8 DEF SaveCommitted, Save, Row, TypeOK
  <2>2. pc[t] \in Reading /\ pc[t] \in Working
    BY <1>8 DEF SaveCommitted, Working, Reading, Committing
  <2> QED
    BY <1>2, <2>1, <2>2 DEF Kept, Works, Edited, Lawful
<1> QED
  BY <1>4, <1>5, <1>6, <1>7, <1>8 DEF Saves

(* A save takes no decision back and makes none.                           *)
LEMMA ModesAfterSave ==
  ASSUME TypeOK, TurnInv, Modes, NEW t \in Turns, Saves(t)
  PROVE  Modes'
<1> DEFINE w == ver[t]
<1>1. RowInv /\ WorkInv /\ SuccessorInv /\ AnswerInv /\ ReplayInv
  BY DEF Modes
<1>2. Kept(t) /\ w \in Versions /\ pc[t] \in Working /\ lane' = lane /\ GoesOn(t) /\ OnlyTurn(t)
  BY <1>1, SavesKeep, SavesWrite, TurnTypes DEF Written
<1>3. row' \in [Versions -> Row] /\ \A v \in Versions : v # w => row'[v] = row[v]
  BY SavesWrite DEF Written, TypeOK
<1>4. ~Edited(row[w]) /\ ~Edited(row'[w]) /\ (Decided(row'[w]) => Decided(row[w]))
  BY <1>1, <1>2 DEF WorkInv, Works, Kept, Decided
<1>5. RowInv'
  BY <1>1, <1>2, <1>3 DEF RowInv, Kept, Lawful
<1>6. WorkInv'
  <2> SUFFICES ASSUME NEW u \in Turns PROVE Works(u)'
    BY DEF WorkInv
  <2>1. Works(u) /\ Works(t) /\ ver[u] \in Versions
    BY <1>1, TurnTypes DEF WorkInv
  <2>2. CASE u # t /\ ver[u] # w
    BY <1>2, <1>3, <2>1, <2>2 DEF OnlyTurn, Works, Edited, Lawful
  <2>3. CASE u # t /\ ver[u] = w
    BY <1>2, <1>4, <2>1, <2>3 DEF OnlyTurn, Works, Kept, Edited, Lawful
  <2>4. CASE u = t /\ End(t)
    BY <2>4, Ends DEF Works, Working, Committing
  <2>5. CASE u = t /\ ~End(t)
    BY <1>2, <1>4, <2>1, <2>5 DEF GoesOn, Works, Kept
  <2> QED
    BY <2>2, <2>3, <2>4, <2>5
<1>7. SuccessorInv'
  <2> SUFFICES ASSUME NEW v \in Versions, v < MaxVersion, Decided(row'[v + 1])
               PROVE  IF Edited(row'[v]) THEN row'[v].status = "resumed" ELSE lane[v] = "wait"
    BY <1>2 DEF SuccessorInv, Decided, Edited
  <2>1. v + 1 \in Versions
    BY FirstVersion DEF Versions
  <2>2. Decided(row[v + 1])
    BY <1>3, <1>4, <2>1
  <2>3. IF Edited(row[v]) THEN row[v].status = "resumed" ELSE lane[v] = "wait"
    BY <1>1, <2>2 DEF SuccessorInv
  <2> QED
    BY <1>3, <1>4, <2>3
<1>8. AnswerInv'
  <2> SUFFICES ASSUME NEW u \in Turns PROVE Answers(u)'
    BY DEF AnswerInv
  <2>1. Answers(u) /\ ver[u] \in Versions
    BY <1>1, TurnTypes DEF AnswerInv
  <2>2. CASE u = t
    BY <1>2, <2>2, Ends DEF GoesOn, Answers, Working, Committing
  <2>3. CASE u # t /\ ver[u] = w
    BY <1>2, <1>4, <2>1, <2>3 DEF OnlyTurn, Answers, Edited, Decided
  <2>4. CASE u # t /\ ver[u] # w
    <3>1. ver[u] < MaxVersion /\ Decided(row'[ver[u] + 1]) => Decided(row[ver[u] + 1])
      <4>1. ver[u] < MaxVersion => ver[u] + 1 \in Versions
        BY <2>1, FirstVersion DEF Versions
      <4> QED
        BY <1>3, <1>4, <4>1
    <3> QED
      BY <1>2, <1>3, <2>1, <2>4, <3>1 DEF OnlyTurn, Answers, Edited, Decided
  <2> QED
    BY <2>2, <2>3, <2>4
<1>9. ReplayInv'
  <2> SUFFICES ASSUME NEW u \in Turns PROVE Replays(u)'
    BY DEF ReplayInv
  <2>1. Replays(u) /\ ver[u] \in Versions
    BY <1>1, TurnTypes DEF ReplayInv
  <2>2. CASE u = t
    BY <1>2, <2>2, Ends DEF GoesOn, Replays, Working, Committing
  <2>3. CASE u # t
    <3>1. ver[u] < MaxVersion => ver[u] + 1 \in Versions
      BY <2>1, FirstVersion DEF Versions
    <3> QED
      BY <1>2, <1>3, <2>1, <2>3, <3>1 DEF OnlyTurn, Replays, Kept
  <2> QED
    BY <2>2, <2>3
<1> QED
  BY <1>5, <1>6, <1>7, <1>8, <1>9 DEF Modes

(* A version that is decided or answered for the first time: its successor *)
(* is new, nobody works on it, and what was decided before stays.          *)
LEMMA ModesAfterAdvance ==
  ASSUME TypeOK, LockInv, TurnInv, ChainInv, Modes, DecidedOnce', NEW t \in Turns, Advance(t)
  PROVE  Modes'
<1> DEFINE w == ver[t]
<1>1. RowInv /\ WorkInv /\ SuccessorInv /\ AnswerInv /\ ReplayInv
  BY DEF Modes
<1>2. /\ w \in Versions /\ w + 1 \in Versions /\ w \in live /\ lane' = lane
      /\ advances' = [advances EXCEPT ![w] = @ + 1]
      /\ row[w].status = IF asked[t] = "answer" THEN "awaiting_clarification"
                         ELSE "awaiting_investigation_plan"
      /\ row[w] \in Row /\ asked[t] \in Actions \cup {"answer"} /\ w \in Nat
  BY Advances, TurnTypes, FirstVersion
<1>3. PICK next \in Successors(t) : row' = [row EXCEPT ![w].status = "resumed", ![w + 1] = next]
  BY DEF Advance
<1>4. row'[w] = [row[w] EXCEPT !.status = "resumed"] /\ row'[w + 1] = next
      /\ \A v \in Versions : v # w /\ v # w + 1 => row'[v] = row[v]
  BY <1>2, <1>3 DEF TypeOK
<1>5. row'[w].status = "resumed" /\ row'[w].decision = row[w].decision
  BY <1>2, <1>4 DEF Row
<1>6. Lawful(w, row[w]) /\ row[w].decision \in {"none", "edit"}
  BY <1>1, <1>2 DEF RowInv, Lawful
<1>7. Edited(row'[w]) <=> Edited(row[w])
  BY <1>2, <1>5 DEF Edited
<1>8. row[w + 1] = Absent /\ w + 1 \notin live /\ \A v \in Versions : v = w + 2 => row[v] = Absent
  <2>1. advances[w] = 0
    BY <1>2 DEF DecidedOnce, TypeOK
  <2>2. w < MaxVersion
    BY <1>2, FirstVersion
  <2>3. row[w + 1] = Absent /\ advances[w + 1] = 0
    BY <1>2, <2>1, <2>2 DEF ChainInv, TypeOK
  <2>4. \A v \in Versions : v = w + 2 => w + 1 < MaxVersion /\ (w + 1) + 1 = v
    BY <1>2, FirstVersion
  <2>5. \A v \in Versions : v = w + 2 => row[v] = Absent
    BY <1>2, <2>3, <2>4 DEF ChainInv
  <2> QED
    BY <2>3, <2>5 DEF TypeOK
<1>9. next.decision = IF asked[t] = "answer" THEN row[w].decision ELSE asked[t]
  <2>1. CASE asked[t] = "edit"
    <3>1. PICK s \in {"awaiting_investigation_plan", "awaiting_clarification"} :
            next = [row[w] EXCEPT !.status = s, !.decision = "edit", !.plan = NoPlan]
      BY <1>3, <2>1 DEF Successors
    <3> QED
      BY <1>2, <2>1, <3>1 DEF Row
  <2>2. CASE asked[t] # "edit"
    BY <1>2, <1>3, <2>2 DEF Successors, Row, Actions
  <2> QED
    BY <2>1, <2>2
<1>10. next.plan = NoPlan /\
       CASE asked[t] = "answer" -> next.status = "in_progress"
         [] asked[t] = "run" -> next.status = "investigation_approved"
         [] asked[t] = "cancel" -> next.status = "investigation_cancelled"
         [] asked[t] = "edit" -> next.status \in {"awaiting_investigation_plan", "awaiting_clarification"}
  <2>1. CASE asked[t] = "edit"
    <3>1. PICK s \in {"awaiting_investigation_plan", "awaiting_clarification"} :
            next = [row[w] EXCEPT !.status = s, !.decision = "edit", !.plan = NoPlan]
      BY <1>3, <2>1 DEF Successors
    <3> QED
      BY <1>2, <2>1, <3>1 DEF Row
  <2>2. CASE asked[t] # "edit"
    BY <1>2, <1>3, <2>2 DEF Successors, Row, Actions
  <2> QED
    BY <2>1, <2>2
<1>11. OnlyTurn(t) /\ pc[t] = "deciding"
  BY ProceedsOrEnds
<1>12. pc'[t] \notin {"requested", "locked", "deciding"}
  BY ProceedsOrEnds, Ends
<1>13. \A v \in Versions : v # w + 1 => (Decided(row'[v]) <=> Decided(row[v]))
  <2> SUFFICES ASSUME NEW v \in Versions, v # w + 1 PROVE Decided(row'[v]) <=> Decided(row[v])
    OBVIOUS
  <2>1. CASE v = w
    BY <1>5, <1>7, <2>1 DEF Decided
  <2>2. CASE v # w
    BY <1>4, <2>2
  <2> QED
    BY <2>1, <2>2
<1>14. RowInv'
  <2>1. Lawful(w, row'[w]) /\ row'[w].decision \notin {"cancel", "run"}
    BY <1>5, <1>6 DEF Lawful
  <2>2. Lawful(w + 1, next)
    BY <1>2, <1>9, <1>10 DEF Lawful, Actions
  <2>3. next.decision = "cancel" => next.status = "investigation_cancelled" /\ next.plan = NoPlan
    BY <1>2, <1>6, <1>9, <1>10 DEF Actions
  <2>4. next.decision = "run" => next.status = "investigation_approved" /\ next.plan = NoPlan
    BY <1>2, <1>6, <1>9, <1>10 DEF Actions
  <2> SUFFICES ASSUME NEW v \in Versions
               PROVE  /\ Lawful(v, row'[v])
                      /\ row'[v].decision = "cancel" =>
                           row'[v].status = "investigation_cancelled" /\ row'[v].plan = NoPlan
                      /\ row'[v].decision = "run" =>
                           /\ row'[v].status \in {"investigation_approved", "plan_committed"}
                           /\ row'[v].plan \in {NoPlan, OfEnvelope(v)}
    BY <1>2 DEF RowInv, Lawful
  <2>5. CASE v = w
    BY <2>1, <2>5
  <2>6. CASE v = w + 1
    BY <1>4, <2>2, <2>3, <2>4, <2>6
  <2>7. CASE v # w /\ v # w + 1
    BY <1>1, <1>4, <2>7 DEF RowInv
  <2> QED
    BY <2>5, <2>6, <2>7
<1>15. WorkInv'
  <2> SUFFICES ASSUME NEW u \in Turns PROVE Works(u)'
    BY DEF WorkInv
  <2>1. Works(u) /\ Knows(u) /\ ver[u] \in Versions
    BY <1>1, TurnTypes DEF WorkInv, TurnInv
  <2>2. CASE u # t /\ pc[u] \in Working
    <3>1. ver[u] # w + 1
      BY <1>2, <1>8, <2>1, <2>2, FirstVersion DEF Knows, Live
    <3>2. CASE ver[u] = w
      BY <1>2, <1>5, <1>7, <1>11, <2>1, <2>2, <3>2 DEF OnlyTurn, Works, Edited, Lawful
    <3>3. CASE ver[u] # w
      BY <1>2, <1>4, <1>11, <2>1, <2>2, <3>1, <3>3 DEF OnlyTurn, Works, Edited, Lawful
    <3> QED
      BY <3>2, <3>3
  <2>3. CASE u # t /\ pc[u] \notin Working
    BY <1>11, <2>3 DEF OnlyTurn, Works
  <2>4. CASE u = t /\ asked[t] \in {"answer", "run"}
    <3>1. ver'[t] = w + 1 /\ pc'[t] \notin Reading
      BY <2>4, ProceedsOrEnds DEF Reading
    <3>2. next.decision # "cancel" /\ ~Edited(next)
      BY <1>6, <1>9, <1>10, <2>4 DEF Edited
    <3>3. next.decision = "run" => pc'[t] \in Committing /\ plan'[t] = OfEnvelope(w + 1)
      BY <1>6, <1>9, <2>4, ProceedsOrEnds DEF Committing
    <3> QED
      BY <1>4, <2>4, <3>1, <3>2, <3>3 DEF Works, Edited
  <2>5. CASE u = t /\ asked[t] \notin {"answer", "run"}
    BY <2>5, ProceedsOrEnds, Ends DEF Works, Working, Committing
  <2> QED
    BY <2>2, <2>3, <2>4, <2>5
<1>16. SuccessorInv'
  <2> SUFFICES ASSUME NEW v \in Versions, v < MaxVersion, Decided(row'[v + 1])
               PROVE  IF Edited(row'[v]) THEN row'[v].status = "resumed" ELSE lane[v] = "wait"
    BY <1>2 DEF SuccessorInv, Decided, Edited
  <2>1. v + 1 \in Versions /\ v \in Nat
    BY FirstVersion DEF Versions
  <2>2. CASE v = w
    <3>1. asked[t] # "answer"
      BY <1>4, <1>6, <1>9, <1>10, <2>2 DEF Decided, Edited
    <3> QED
      BY <1>2, <1>5, <1>6, <1>7, <2>2, <3>1 DEF Lawful, Edited
  <2>3. CASE v = w + 1
    <3>1. row'[v + 1] = Absent
      BY <1>2, <1>4, <1>8, <2>1, <2>3
    <3> QED
      BY <3>1, AbsentRow DEF Decided, Edited
  <2>4. CASE v # w /\ v # w + 1
    <3>1. Decided(row[v + 1])
      BY <1>2, <1>13, <2>1, <2>4
    <3> QED
      BY <1>1, <1>4, <2>4, <3>1 DEF SuccessorInv
  <2> QED
    BY <2>2, <2>3, <2>4
<1>17. AnswerInv'
  <2> SUFFICES ASSUME NEW u \in Turns, u # t, pc[u] \in {"requested", "locked", "deciding"}, asked[u] = "answer"
               PROVE  Answers(u)'
    BY <1>11, <1>12 DEF AnswerInv, Answers, OnlyTurn
  <2>1. Answers(u) /\ ver[u] \in live /\ ver[u] \in Versions /\ ver[u] # w + 1
    BY <1>1, <1>8, TurnTypes DEF AnswerInv, TurnInv, Knows, Live
  <2>2. ver'[u] = ver[u] /\ ver[u] \in Nat /\ (ver[u] < MaxVersion => ver[u] + 1 \in Versions)
    BY <1>11, <2>1, FirstVersion DEF OnlyTurn, Versions
  <2>3. CASE ver[u] = w
    <3>1. asked[t] = "answer"
      BY <1>2, <1>6, <2>1, <2>3 DEF Answers, Lawful, Edited
    <3>2. ~Decided(next)
      BY <1>6, <1>9, <1>10, <3>1 DEF Decided, Edited
    <3>3. Edited(row[w]) \/ lane[w] = "clarify"
      BY <2>1, <2>3 DEF Answers
    <3>4. Edited(row'[w]) \/ lane'[w] = "clarify"
      BY <1>2, <1>7, <3>3
    <3>5. row'[ver[u]] = row'[w] /\ row'[ver[u] + 1] = next
      BY <1>4, <2>3
    <3> QED
      BY <1>5, <2>2, <2>3, <3>2, <3>4, <3>5 DEF Answers, Decided, Edited
  <2>4. CASE ver[u] # w
    <3>1. row'[ver[u]] = row[ver[u]]
      BY <1>4, <2>1, <2>4
    <3>2. ver[u] < MaxVersion /\ Decided(row'[ver[u] + 1]) => Decided(row[ver[u] + 1])
      BY <1>2, <1>13, <2>2, <2>4
    <3> QED
      BY <1>2, <2>1, <2>2, <3>1, <3>2 DEF Answers, Decided, Edited
  <2> QED
    BY <2>3, <2>4
<1>18. ReplayInv'
  <2> SUFFICES ASSUME NEW u \in Turns, u # t, pc[u] = "deciding", snap[u].decision = "run"
               PROVE  Replays(u)'
    BY <1>11, <1>12 DEF ReplayInv, Replays, OnlyTurn
  <2>1. ver[u] < MaxVersion /\ row[ver[u] + 1].decision = "run" /\ ver[u] + 1 \in Versions
    BY <1>1, TurnTypes, FirstVersion DEF ReplayInv, Replays, Versions
  <2>2. ver[u] + 1 # w + 1
    BY <1>8, <2>1, AbsentRow
  <2>3. row'[ver[u] + 1].decision = "run"
    BY <1>4, <1>5, <2>1, <2>2
  <2> QED
    BY <1>11, <2>1, <2>3 DEF OnlyTurn, Replays
<1> QED
  BY <1>14, <1>15, <1>16, <1>17, <1>18 DEF Modes

(* A turn that starts, reads or replays finds what the invariant says.     *)
LEMMA ModesAfterQuiet ==
  ASSUME Structure, Modes, NEW t \in Turns, Starts(t) \/ Looks(t) \/ Replay(t)
  PROVE  Modes'
<1>1. RowInv /\ WorkInv /\ SuccessorInv /\ AnswerInv /\ ReplayInv /\ TypeOK /\ TurnInv
  BY DEF Modes, Structure
<1>2. row' = row /\ lane' = lane /\ live' = live /\ OnlyTurn(t)
  BY <1>1, QuietSteps, ProceedsOrEnds DEF Replay, Proceed
<1>3. RowInv' /\ SuccessorInv'
  BY <1>1, <1>2 DEF RowInv, SuccessorInv, Lawful, Edited, Decided
<1>4. ASSUME Works(t)', Answers(t)', Replays(t)' PROVE Modes'
  <2>1. WorkInv'
    BY <1>1, <1>2, <1>4 DEF WorkInv, Works, OnlyTurn, Lawful, Edited
  <2>2. AnswerInv'
    BY <1>1, <1>2, <1>4 DEF AnswerInv, Answers, OnlyTurn, Decided, Edited
  <2>3. ReplayInv'
    BY <1>1, <1>2, <1>4 DEF ReplayInv, Replays, OnlyTurn
  <2> QED
    BY <1>3, <2>1, <2>2, <2>3 DEF Modes
<1>5. ver[t] \in Versions /\ ver[t] \in Int /\ ver[t] + 1 \in Int /\ Knows(t) /\ Works(t) /\ Answers(t) /\ Replays(t)
      /\ asked[t] \in Actions \cup {"answer"}
  BY <1>1, TurnTypes, FirstVersion DEF TurnInv, WorkInv, AnswerInv, ReplayInv
<1>6. CASE End(t)
  BY <1>1, <1>4, <1>6, Ends DEF Works, Answers, Replays, Working, Committing
<1>7. CASE Starts(t)
  <2>1. Started(t)
    BY <1>1, <1>7, StartsReach
  <2>2. RowInv
    BY <1>1
  <2>3. CASE pc'[t] = "requested" /\ asked'[t] \in Actions
    BY <1>4, <2>3 DEF Works, Answers, Replays, Working, Committing, Actions
  <2>4. CASE pc'[t] = "requested" /\ row[ver'[t]].status = "awaiting_clarification"
    <3>1. Edited(row[ver'[t]]) \/ lane[ver'[t]] = "clarify"
      BY <2>1, <2>2, <2>4 DEF Started, RowInv, Lawful, Edited
    <3> QED
      BY <1>2, <1>4, <2>4, <3>1 DEF Works, Answers, Replays, Working, Committing, Edited
  <2>5. CASE pc'[t] = "committing" /\ row[ver'[t]].decision = "run"
    BY <1>2, <1>4, <2>1, <2>5 DEF Started, Works, Answers, Replays, Working, Committing, Reading, Edited
  <2> QED
    BY <2>1, <2>3, <2>4, <2>5 DEF Started
<1>8. CASE Looks(t) /\ ~End(t)
  <2>1. Looked(t) /\ ver'[t] = ver[t] /\ asked'[t] = asked[t]
    BY <1>1, <1>8, LooksReach DEF Looked
  <2>2. CASE pc[t] = "requested"
    BY <1>2, <1>4, <1>5, <1>8, <2>1, <2>2
    DEF Looked, Works, Answers, Replays, Working, Reading, Committing, Edited, Decided
  <2>3. CASE pc[t] = "locked"
    <3>1. Read(ver[t] + 1).decision = "run" => ver[t] + 1 \in Versions /\ row[ver[t] + 1].decision = "run"
      BY <1>1, <1>5, Reads, AbsentRow
    <3>2. Replays(t)'
      BY <1>2, <1>5, <1>8, <2>1, <2>3, <3>1, FirstVersion
      DEF Looked, Replays, Working, Reading, Committing
    <3> QED
      BY <1>2, <1>4, <1>5, <1>8, <2>1, <2>3, <3>2
      DEF Looked, Works, Answers, Working, Reading, Committing, Edited, Decided
  <2>4. CASE pc[t] \in Working
    <3>1. Read(ver[t]) = row[ver[t]]
      BY <1>1, <1>5, <2>4, Reads DEF Knows, Live
    <3>2. pc'[t] \in Working
      BY <1>8, <2>1, <2>4 DEF Looked, Working, Reading, Committing
    <3>3. Lawful(ver[t], row[ver[t]])
      BY <1>1, <1>5 DEF RowInv
    <3>4. row[ver[t]].decision = "run" => pc'[t] \in Committing /\ plan'[t] = OfEnvelope(ver[t])
      BY <1>5, <1>8, <2>1, <2>4 DEF Looked, Works, Working, Reading, Committing
    <3>5. pc'[t] \in Reading => snap'[t] = row[ver[t]]
      BY <1>8, <2>1, <2>4, <3>1 DEF Looked, Working, Reading, Committing
    <3>6. row[ver[t]].decision # "cancel" /\ ~Edited(row[ver[t]])
      BY <1>5, <2>4 DEF Works
    <3>7. Works(t)'
      BY <1>2, <2>1, <3>3, <3>4, <3>5, <3>6 DEF Works, Edited, Lawful
    <3> QED
      BY <1>4, <3>2, <3>7 DEF Answers, Replays, Working, Committing
  <2> QED
    BY <1>8, <2>1, <2>2, <2>3, <2>4 DEF Looked
<1>9. CASE Replay(t) /\ ~End(t)
  <2> DEFINE w == ver[t]
  <2>1. /\ pc[t] = "deciding" /\ asked[t] \in {"answer", "run"} /\ ver'[t] = w + 1
        /\ IF asked[t] = "run" THEN pc'[t] = "committing" /\ plan'[t] = OfEnvelope(w + 1)
           ELSE pc'[t] = "planning"
    BY <1>1, <1>9, ProceedsOrEnds
  <2>2. w + 1 \in Versions /\ w < MaxVersion
    BY <1>1, <1>5, <1>9, <2>1, FirstVersion DEF Replay, Knows, Live, TypeOK
  <2>3. CASE asked[t] = "run"
    <3>1. row[w + 1].decision = "run"
      BY <1>5, <1>9, <2>1, <2>3 DEF Replay, Replays
    <3>2. ~Edited(row[w + 1])
      BY <3>1 DEF Edited
    <3> QED
      BY <1>2, <1>4, <2>1, <2>3, <3>1, <3>2 DEF Works, Answers, Replays, Working, Reading, Committing, Edited
  <2>4. CASE asked[t] = "answer"
    <3>1. ~Decided(row[w + 1])
      BY <1>1, <1>5, <2>1, <2>2, <2>4 DEF SuccessorInv, Answers, Edited
    <3> QED
      BY <1>2, <1>4, <2>1, <2>4, <3>1 DEF Works, Answers, Replays, Reading, Decided, Edited
  <2> QED
    BY <2>1, <2>3, <2>4
<1> QED
  BY <1>6, <1>7, <1>8, <1>9

(* Neither the clock nor the purge makes a decision.                       *)
LEMMA ModesAfterTime ==
  ASSUME Structure, Modes, Expire \/ Purge
  PROVE  Modes'
<1>1. RowInv /\ WorkInv /\ SuccessorInv /\ AnswerInv /\ ReplayInv /\ TypeOK /\ TurnInv
  BY DEF Modes, Structure
<1>2. CASE Expire
  BY <1>1, <1>2 DEF Modes, Expire, RowInv, WorkInv, Works, SuccessorInv, AnswerInv, Answers, ReplayInv, Replays,
                    Lawful, Edited, Decided
<1>3. CASE Purge
  <2>1. \A v \in Versions : row'[v] = row[v] \/ (row'[v] = Absent /\ Purgeable(v))
    BY <1>1, <1>3 DEF Purge, TypeOK
  <2>2. live = {} /\ lane' = lane /\ pc' = pc /\ ver' = ver /\ asked' = asked /\ snap' = snap /\ plan' = plan
    BY <1>3 DEF Purge
  <2>3. ~Decided(Absent) /\ ~Edited(Absent)
    BY AbsentRow DEF Decided, Edited
  <2>4. RowInv'
    BY <1>1, <2>1, <2>2, AbsentRow DEF RowInv, Lawful
  <2>5. ASSUME NEW u \in Turns, pc[u] \in Working PROVE row'[ver[u]] = row[ver[u]]
    BY <1>1, <2>1, <2>2, <2>5, FirstVersion DEF TurnInv, Knows, Live
  <2>6. WorkInv'
    BY <1>1, <2>2, <2>5 DEF WorkInv, Works, Lawful, Edited
  <2>7. ASSUME NEW v \in Versions, v < MaxVersion, Decided(row'[v + 1])
        PROVE  IF Edited(row'[v]) THEN row'[v].status = "resumed" ELSE lane[v] = "wait"
    <3>1. v + 1 \in Versions
      BY <2>7, FirstVersion DEF Versions
    <3>2. IF Edited(row[v]) THEN row[v].status = "resumed" ELSE lane[v] = "wait"
      BY <1>1, <2>1, <2>3, <2>7, <3>1 DEF SuccessorInv
    <3>3. Edited(row[v]) => row'[v] = row[v]
      BY <2>1, <3>2 DEF Purgeable
    <3> QED
      BY <2>1, <2>3, <3>2, <3>3
  <2>8. SuccessorInv'
    BY <2>2, <2>7 DEF SuccessorInv, Decided, Edited
  <2>9. AnswerInv'
    BY <1>1, <2>2 DEF AnswerInv, Answers, TurnInv, Knows, Live
  <2>10. ReplayInv'
    BY <1>1, <2>2, AbsentRow DEF ReplayInv, Replays, TurnInv, Knows, Live
  <2> QED
    BY <2>4, <2>6, <2>8, <2>9, <2>10 DEF Modes
<1> QED
  BY <1>2, <1>3

(* A new handoff has nothing that was decided.                             *)
LEMMA ModesOfNew ==
  ASSUME TypeOK, NEW t \in Turns, Begin(t) \/ UNCHANGED vars,
         \A u \in Turns : pc[u] = "idle", \A v \in Versions : row[v] = Absent
  PROVE  Modes'
<1>1. row' = row /\ snap' = snap /\ \A u \in Turns : pc'[u] \in {"idle", "planning"} /\ ver'[u] \in Versions
  BY DEF Begin, Goto, vars, TypeOK
<1>2. \A v \in Versions : ~Decided(row'[v]) /\ ~Edited(row'[v]) /\ row'[v].decision = "none"
            /\ row'[v].status = "absent"
  BY <1>1, AbsentRow DEF Decided, Edited
<1>3. RowInv'
  BY <1>2 DEF RowInv, Lawful
<1>4. WorkInv'
  BY <1>1, <1>2 DEF WorkInv, Works, Reading, Edited
<1>5. SuccessorInv'
  <2>1. \A v \in Versions : v < MaxVersion => v + 1 \in Versions
    BY FirstVersion DEF Versions
  <2> QED
    BY <1>2, <2>1 DEF SuccessorInv, Decided, Edited
<1>6. AnswerInv' /\ ReplayInv'
  BY <1>1 DEF AnswerInv, Answers, ReplayInv, Replays
<1> QED
  BY <1>3, <1>4, <1>5, <1>6 DEF Modes

-----------------------------------------------------------------------------
(* The initial states satisfy the invariant.                               *)
LEMMA InitInv == Init => IInv
<1> SUFFICES ASSUME Init PROVE IInv
  OBVIOUS
<1>1. TypeOK
  BY AbsentRow, PlanIds, FirstVersion, HandoffAssumption DEF Init, TypeOK, Labels
<1>2. \A v \in Versions : row[v] = Absent /\ advances[v] = 0
  BY DEF Init
<1>3. \A v \in Versions : v < MaxVersion => v + 1 \in Versions
  BY FirstVersion DEF Versions
<1>4. LockInv /\ TurnInv /\ ResumedInv /\ LiveHasItsHistory
  BY <1>2, AbsentRow DEF Init, LockInv, HoldsLock, TurnInv, Knows, Live, ResumedInv, ResumedHasSuccessor,
     ReadResumed, LiveHasItsHistory, Working, Reading, Committing
<1>5. ChainInv
  BY <1>2, <1>3 DEF ChainInv
<1>6. \A v \in Versions : ~Decided(row[v]) /\ ~Edited(row[v]) /\ Lawful(v, row[v]) /\ row[v].decision = "none"
  BY <1>2, AbsentRow DEF Decided, Edited, Lawful
<1>7. RowInv /\ SuccessorInv
  BY <1>3, <1>6 DEF RowInv, SuccessorInv
<1>8. WorkInv /\ AnswerInv /\ ReplayInv
  BY DEF Init, WorkInv, Works, AnswerInv, Answers, ReplayInv, Replays, Working, Committing
<1> QED
  BY <1>1, <1>4, <1>5, <1>7, <1>8 DEF IInv, Structure, Modes

(* Every step keeps the invariant.                                         *)
LEMMA InvStep ==
  ASSUME IInv, [Next]_vars
  PROVE  IInv'
<1>1. TypeOK /\ LockInv /\ TurnInv /\ ResumedInv /\ LiveHasItsHistory /\ ChainInv /\ Structure
  BY DEF IInv, Structure
<1>2. Structure'
  BY <1>1, TypeStep, LockStep, TurnStep, ResumedStep, HistoryStep DEF Structure
<1>3. ASSUME NEW t \in Turns, Begin(t) PROVE Modes'
  BY <1>1, <1>3, ModesOfNew DEF Begin
<1>4. ASSUME advances' = advances, DecidedOnce' PROVE Modes
  BY <1>4 DEF IInv, DecidedOnce
<1>5. ASSUME DecidedOnce', NEW t \in Turns, Starts(t) \/ Looks(t) \/ Replay(t) PROVE Modes'
  <2>1. advances' = advances
    BY <1>1, <1>5, QuietSteps DEF Replay
  <2> QED
    BY <1>1, <1>4, <1>5, <2>1, ModesAfterQuiet
<1>6. ASSUME DecidedOnce', NEW t \in Turns, Saves(t) PROVE Modes'
  <2>1. advances' = advances
    BY <1>1, <1>6, SavesWrite DEF Written
  <2> QED
    BY <1>1, <1>4, <1>6, <2>1, ModesAfterSave
<1>7. ASSUME DecidedOnce', NEW t \in Turns, Advance(t) PROVE Modes'
  <2>1. DecidedOnce
    <3>1. advances' = [advances EXCEPT ![ver[t]] = @ + 1] /\ ver[t] \in Versions
      BY <1>1, <1>7, Advances
    <3> QED
      BY <1>1, <1>7, <3>1 DEF DecidedOnce, TypeOK
  <2> QED
    BY <1>1, <1>7, <2>1, ModesAfterAdvance DEF IInv
<1>8. ASSUME DecidedOnce', Expire \/ Purge PROVE Modes'
  BY <1>1, <1>4, <1>8, ModesAfterTime DEF Expire, Purge
<1>9. ASSUME DecidedOnce', UNCHANGED vars PROVE Modes'
  <2>1. Modes
    BY <1>4, <1>9 DEF vars
  <2> QED
    BY <1>9, <2>1 DEF vars, Modes, RowInv, WorkInv, Works, SuccessorInv, AnswerInv, Answers, ReplayInv, Replays,
                      Lawful, Edited, Decided
<1>10. DecidedOnce' => Modes'
  BY <1>3, <1>5, <1>6, <1>7, <1>8, <1>9, Steps
<1> QED
  BY <1>2, <1>10 DEF IInv

(* The invariant holds in every reachable state.                           *)
LEMMA Invariance == Spec => []IInv
<1>1. IInv /\ [Next]_vars => IInv'
  BY InvStep
<1> QED
  BY InitInv, <1>1, PTL DEF Spec

(* The rows, and what turns hold of them, are what the code can store: a   *)
(* row that has not expired is there.                                      *)
THEOREM TypeCorrect == Spec => []TypeOK
<1>1. IInv => TypeOK
  BY DEF IInv, Structure
<1> QED
  BY <1>1, Invariance, PTL

(* Superseding a version and writing its successor are one transaction,    *)
(* and no save of a stale row and no purge separates the two afterwards.   *)
THEOREM SupersededTogether == Spec => []ResumedHasSuccessor
<1>1. IInv => ResumedHasSuccessor
  BY DEF IInv, Structure, ResumedInv
<1> QED
  BY <1>1, Invariance, PTL

(* The purge leaves a live handoff whole.                                  *)
THEOREM PurgeSparesLive == Spec => []LiveHasItsHistory
<1>1. IInv => LiveHasItsHistory
  BY DEF IInv, Structure
<1> QED
  BY <1>1, Invariance, PTL

(* However many requests answer or decide a version at once, one of them   *)
(* advances it.                                                            *)
THEOREM OneAnswerAdvances == Spec => AdvancesOnce
<1>1. IInv /\ [Next]_vars =>
        [\A v \in Versions : advances'[v] > advances[v] => ~Live(v + 1)]_vars
  <2> SUFFICES ASSUME IInv, [Next]_vars, NEW v \in Versions, advances'[v] > advances[v]
               PROVE  ~Live(v + 1)
    OBVIOUS
  <2>1. TypeOK /\ TurnInv
    BY DEF IInv, Structure
  <2>2. ASSUME advances' = advances PROVE FALSE
    BY <2>1, <2>2 DEF TypeOK
  <2>3. ASSUME NEW t \in Turns, Begin(t) PROVE FALSE
    BY <2>1, <2>3 DEF Begin, TypeOK
  <2>4. ASSUME NEW t \in Turns, Starts(t) \/ Looks(t) \/ Replay(t) \/ Saves(t) PROVE FALSE
    BY <2>1, <2>2, <2>4, QuietSteps, SavesWrite DEF Replay, Written
  <2>5. ASSUME NEW t \in Turns, Advance(t) PROVE ~Live(v + 1)
    <3>1. v = ver[t] /\ snap[t] = Absent /\ pc[t] = "deciding"
      BY <2>1, <2>5, Advances, ProceedsOrEnds DEF TypeOK
    <3> QED
      BY <2>1, <3>1 DEF TurnInv, Knows
  <2>6. CASE Expire \/ Purge \/ UNCHANGED vars
    BY <2>2, <2>6 DEF Expire, Purge, vars
  <2> QED
    BY <2>3, <2>4, <2>5, <2>6, Steps
<1> QED
  BY <1>1, Invariance, PTL DEF Spec, AdvancesOnce

(* A cancelled version is not committed and not executed, whatever the     *)
(* turns of its predecessor still save.                                    *)
THEOREM CancelledStays == Spec => []CancelledHasNoPlan
<1>1. IInv => CancelledHasNoPlan
  BY DEF IInv, Modes, RowInv, WorkInv, Works, CancelledHasNoPlan, Working, Committing
<1> QED
  BY <1>1, Invariance, PTL

(* An approved version is committed with the plan of its envelope only.    *)
THEOREM ApprovedAsShown == Spec => []ApprovedPlanIsItsEnvelopes
<1>1. IInv => ApprovedPlanIsItsEnvelopes
  BY DEF IInv, Modes, RowInv, ApprovedPlanIsItsEnvelopes
<1> QED
  BY <1>1, Invariance, PTL

-----------------------------------------------------------------------------
(* A decision is final.                                                    *)

(* What a step leaves of the row of a version that was decided on.         *)
StandsIn(v) ==
  /\ row[v].decision = "cancel" => row'[v] = row[v]
  /\ row[v].decision = "run" =>
       \/ row'[v] = Absent
       \/ /\ row'[v].decision = "run"
          /\ Committed(row[v]) =>
               row'[v].status = "plan_committed" /\ row'[v].plan = row[v].plan

(* A save of another turn over a decided row leaves what was decided.      *)
LEMMA StandsAfterSave ==
  ASSUME TypeOK, TurnInv, Modes, NEW t \in Turns, Saves(t), NEW v \in Versions
  PROVE  StandsIn(v)
<1>1. PICK r \in Row : Written(t, r)
  BY SavesWrite
<1>2. CASE v # ver[t]
  <2>1. row'[v] = row[v]
    BY <1>1, <1>2 DEF Written, TypeOK
  <2> QED
    BY <2>1 DEF StandsIn, Committed
<1>3. CASE v = ver[t]
  <2>1. Kept(t) /\ Works(t) /\ pc[t] \in Working
    BY <1>1, SavesKeep DEF Modes, Written, WorkInv
  <2>2. row[v].decision # "cancel"
    BY <1>3, <2>1 DEF Works
  <2>3. row[v].decision = "run" => /\ row'[v].decision = "run"
                                   /\ row'[v].status = "plan_committed"
                                   /\ row'[v].plan = OfEnvelope(v)
    BY <1>3, <2>1 DEF Kept
  <2>4. row[v].decision = "run" /\ Committed(row[v]) => row[v].plan = OfEnvelope(v)
    BY DEF Modes, RowInv, Committed
  <2> QED
    BY <2>2, <2>3, <2>4 DEF StandsIn
<1> QED
  BY <1>2, <1>3

(* A version that waits was not decided on, and the one behind it is new.  *)
LEMMA StandsAfterAdvance ==
  ASSUME Structure, Modes, DecidedOnce', NEW t \in Turns, Advance(t), NEW v \in Versions
  PROVE  StandsIn(v)
<1> DEFINE w == ver[t]
<1>0. TypeOK /\ ChainInv /\ RowInv
  BY DEF Structure, Modes
<1>1. PICK next \in Row : row' = [row EXCEPT ![w].status = "resumed", ![w + 1] = next]
  BY <1>0, Advances
<1>2. /\ w \in Versions /\ w + 1 \in Versions
      /\ row[w].status \in {"awaiting_clarification", "awaiting_investigation_plan"}
      /\ advances' = [advances EXCEPT ![w] = @ + 1]
  BY <1>0, Advances
<1>3. CASE v = w
  BY <1>0, <1>2, <1>3 DEF RowInv, StandsIn
<1>4. CASE v = w + 1
  <2>1. advances'[w] <= 1 /\ advances'[w] = advances[w] + 1 /\ advances[w] \in Nat
    BY <1>0, <1>2 DEF DecidedOnce, TypeOK
  <2>2. w < MaxVersion
    BY <1>2, FirstVersion
  <2>3. row[v] = Absent
    <3>1. ~(advances[w] > 0)
      BY <2>1
    <3>2. row[w + 1] # Absent => advances[w] > 0
      BY <1>0, <1>2, <2>2 DEF ChainInv
    <3> QED
      BY <1>4, <3>1, <3>2
  <2>4. row[v].decision = "none"
    BY <2>3 DEF Absent, NewRow
  <2> QED
    BY <2>4 DEF StandsIn
<1>5. CASE v # w /\ v # w + 1
  <2>1. row'[v] = row[v]
    BY <1>0, <1>1, <1>5 DEF TypeOK
  <2> QED
    BY <2>1 DEF StandsIn, Committed
<1> QED
  BY <1>3, <1>4, <1>5

(* What an analyst has decided on a version is not taken back by any       *)
(* request, save of a stale row or purge: a cancelled version stays as it  *)
(* is, an approved one is there as approved, or purged as a whole, and the *)
(* plan that was committed for it stays.                                   *)
DecisionsStand == [][DecidedOnce' => \A v \in Versions : StandsIn(v)]_vars

(* commit_resource_plan replaces a committed plan only where nobody has    *)
(* approved one (CommittedPlanStands is violated with the drawn plans).    *)
THEOREM DecisionsAreFinal == Spec => DecisionsStand
<1>1. ASSUME IInv, [Next]_vars, DecidedOnce', NEW v \in Versions PROVE StandsIn(v)
  <2>1. Structure /\ TypeOK /\ TurnInv
    BY <1>1 DEF IInv, Structure
  <2>2. ASSUME row' = row PROVE StandsIn(v)
    BY <2>2 DEF StandsIn, Committed
  <2>3. ASSUME advances' = advances PROVE Modes
    BY <1>1, <2>3 DEF IInv, DecidedOnce
  <2>4. ASSUME NEW t \in Turns, Begin(t) \/ Starts(t) \/ Looks(t) \/ Replay(t) PROVE StandsIn(v)
    <3>1. row' = row
      BY <2>1, <2>4, QuietSteps DEF Begin, Replay
    <3> QED
      BY <3>1, <2>2
  <2>5. ASSUME NEW t \in Turns, Saves(t) PROVE StandsIn(v)
    <3>1. advances' = advances
      BY <2>1, <2>5, SavesWrite DEF Written
    <3> QED
      BY <2>1, <2>3, <2>5, <3>1, StandsAfterSave
  <2>6. ASSUME NEW t \in Turns, Advance(t) PROVE StandsIn(v)
    <3>1. DecidedOnce
      <4>1. advances' = [advances EXCEPT ![ver[t]] = @ + 1] /\ ver[t] \in Versions
        BY <2>1, <2>6, Advances
      <4> QED
        BY <1>1, <2>1, <4>1 DEF DecidedOnce, TypeOK
    <3> QED
      BY <1>1, <2>1, <2>6, <3>1, StandsAfterAdvance DEF IInv
  <2>7. CASE Purge
    <3>1. Modes
      BY <2>3, <2>7 DEF Purge
    <3>2. row'[v] = row[v] \/ (row'[v] = Absent /\ Purgeable(v))
      BY <2>7 DEF Purge
    <3>3. Purgeable(v) => row[v].decision # "cancel"
      BY <3>1 DEF Modes, RowInv, Purgeable
    <3> QED
      BY <3>2, <3>3 DEF StandsIn, Committed
  <2>8. CASE Expire \/ UNCHANGED vars
    BY <2>2, <2>8 DEF Expire, vars
  <2> QED
    BY <1>1, <2>4, <2>5, <2>6, <2>7, <2>8, Steps
<1>2. IInv /\ [Next]_vars => [DecidedOnce' => \A v \in Versions : StandsIn(v)]_vars
  BY <1>1
<1> QED
  BY <1>2, Invariance, PTL DEF Spec, DecisionsStand
=============================================================================
