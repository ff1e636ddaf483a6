----------------------------- MODULE ModelCircuit -----------------------------
(***************************************************************************)
(* run_sidecar_llm_with_timeout of sidecar_governance.py: every LLM hop of *)
(* one backend process passes the T4 circuit breaker, takes one of the     *)
(* model slots, runs in a thread pool and is waited for until a timeout.   *)
(*                                                                         *)
(* A timeout does not stop the request: the worker thread goes on, as an   *)
(* orphan, and releases the slot when the socket returns.  The state of    *)
(* the breaker is read when a hop is admitted and written when it ends;    *)
(* other hops and the operator come in between.                            *)
(***************************************************************************)
EXTENDS Integers, FiniteSets

CONSTANTS
  Callers,      \* chat threads
  Slots,        \* AI_SOC_LLM_MODEL_SLOTS
  Threshold     \* AI_SOC_T4_CIRCUIT_FAILURE_THRESHOLD

ASSUME CircuitAssumption ==
  /\ IsFiniteSet(Callers)
  /\ Slots \in Nat \ {0}
  /\ Threshold \in Nat \ {0}

VARIABLES
  state,        \* CLOSED, OPEN or HALF_OPEN
  failures,     \* consecutive_failures
  probing,      \* half_open_in_flight
  human,        \* human_action_required
  free,         \* the value of _MODEL_SLOT_SEMAPHORE
  pc,           \* pc[c]: where the hop of c is
  job,          \* job[c]: its work in the thread pool
  orphans       \* requests whose hop has timed out and that still run

circuit == <<state, failures, probing, human>>
vars == <<state, failures, probing, human, free, pc, job, orphans>>

Init ==
  /\ state = "CLOSED"
  /\ failures = 0
  /\ probing = FALSE
  /\ human = FALSE
  /\ free = Slots
  /\ pc = [c \in Callers |-> "idle"]
  /\ job = [c \in Callers |-> "none"]
  /\ orphans = 0

-----------------------------------------------------------------------------
(* The breaker.                                                            *)

RecordSuccess ==
  /\ state' = "CLOSED"
  /\ failures' = 0
  /\ probing' = FALSE
  /\ human' = FALSE

(* Fault: the count is compared before the failure is added to it.         *)
RecordFailureLate ==
  LET n == IF failures < Threshold THEN failures + 1 ELSE failures
      trips == state = "HALF_OPEN" \/ failures >= Threshold IN
  /\ failures' = n
  /\ probing' = FALSE
  /\ state' = IF trips THEN "OPEN" ELSE state
  /\ human' = (human \/ trips)

(* Fault: the failed probe reopens the circuit without asking anyone.      *)
RecordFailureSilently ==
  LET n == IF failures < Threshold THEN failures + 1 ELSE failures IN
  /\ failures' = n
  /\ probing' = FALSE
  /\ state' = IF state = "HALF_OPEN" \/ n >= Threshold THEN "OPEN" ELSE state
  /\ human' = (human \/ n >= Threshold)

(* Fault: a failure of no counted kind, which only clears the flag of the  *)
(* probe.                                                                  *)
RecordFailureLightly ==
  /\ probing' = FALSE
  /\ UNCHANGED <<state, failures, human>>

(* failures are counted up to the threshold only: past it the comparison   *)
(* has the same result.                                                    *)
RecordFailure ==
  LET n == IF failures < Threshold THEN failures + 1 ELSE failures
      trips == state = "HALF_OPEN" \/ n >= Threshold IN
  /\ failures' = n
  /\ probing' = FALSE
  /\ state' = IF trips THEN "OPEN" ELSE state
  /\ human' = (human \/ trips)

(* request_human_model_restart.                                            *)
RequestRestart ==
  /\ state' = "OPEN"
  /\ human' = TRUE
  /\ UNCHANGED <<failures, probing, free, pc, job, orphans>>

(* record_manual_model_restart after the operator's inference probe.       *)
RecordRestart(healthy) ==
  /\ state' = IF healthy THEN "HALF_OPEN" ELSE "OPEN"
  /\ human' = ~healthy
  /\ probing' = FALSE
  /\ failures' = IF healthy THEN 0 ELSE failures
  /\ UNCHANGED <<free, pc, job, orphans>>

-----------------------------------------------------------------------------
(* One hop.                                                                *)

(* _circuit_allow_request.                                                 *)
Allow(c) ==
  /\ pc[c] = "idle"
  /\ \/ state = "CLOSED" /\ UNCHANGED probing
     \/ state = "HALF_OPEN" /\ ~probing /\ probing' = TRUE
  /\ pc' = [pc EXCEPT ![c] = IF state = "CLOSED" THEN "admitted" ELSE "probe"]
  /\ UNCHANGED <<state, failures, human, free, job, orphans>>

(* The hop is shed and degrades.                                           *)
Shed(c) ==
  /\ pc[c] = "idle"
  /\ state = "OPEN"
  /\ human' = TRUE
  /\ UNCHANGED <<state, failures, probing, free, pc, job, orphans>>

Admitted(c) == pc[c] \in {"admitted", "probe"}

(* The slot is taken and the work submitted to the pool.                   *)
TakeSlot(c) ==
  /\ Admitted(c)
  /\ free > 0
  /\ free' = free - 1
  /\ job' = [job EXCEPT ![c] = "queued"]
  /\ pc' = [pc EXCEPT ![c] = IF @ = "probe" THEN "probe_waiting" ELSE "waiting"]
  /\ UNCHANGED <<circuit, orphans>>

(* The slot did not come free in time: the hop returns without a word to   *)
(* the breaker.                                                            *)
SlotBusy(c) ==
  /\ Admitted(c)
  /\ free = 0
  /\ pc' = [pc EXCEPT ![c] = "idle"]
  /\ UNCHANGED <<circuit, free, job, orphans>>

(* Fault: the slot that was given back is released once more.              *)
PoolRejectsTwice(c) ==
  /\ Admitted(c)
  /\ free > 0
  /\ free' = free + 1
  /\ pc' = [pc EXCEPT ![c] = "idle"]
  /\ RecordFailure
  /\ UNCHANGED <<job, orphans>>

(* submit raises: the slot is given back and a failure recorded.           *)
PoolRejects(c) ==
  /\ Admitted(c)
  /\ free > 0
  /\ pc' = [pc EXCEPT ![c] = "idle"]
  /\ RecordFailure
  /\ UNCHANGED <<free, job, orphans>>

JobStarts(c) ==
  /\ job[c] = "queued"
  /\ job' = [job EXCEPT ![c] = "running"]
  /\ UNCHANGED <<circuit, free, pc, orphans>>

(* Fault: the slot is released after the call and not in finally, so a     *)
(* provider that raises keeps it.                                          *)
JobEndsReleasingLast(c) ==
  /\ job[c] = "running"
  /\ \/ job' = [job EXCEPT ![c] = "returned"] /\ free' = free + 1
     \/ job' = [job EXCEPT ![c] = "raised"] /\ UNCHANGED free
  /\ UNCHANGED <<circuit, pc, orphans>>

(* The provider returns or raises; _slot_guarded releases the slot first.  *)
JobEnds(c) ==
  /\ job[c] = "running"
  /\ \E result \in {"returned", "raised"} : job' = [job EXCEPT ![c] = result]
  /\ free' = free + 1
  /\ UNCHANGED <<circuit, pc, orphans>>

OrphanEnds ==
  /\ orphans > 0
  /\ orphans' = orphans - 1
  /\ free' = free + 1
  /\ UNCHANGED <<circuit, pc, job>>

Waiting(c) == pc[c] \in {"waiting", "probe_waiting"}

(* The hop has its result or the provider's exception.                     *)
Finish(c) ==
  /\ Waiting(c)
  /\ \/ job[c] = "returned" /\ RecordSuccess
     \/ job[c] = "raised" /\ RecordFailure
  /\ pc' = [pc EXCEPT ![c] = "idle"]
  /\ job' = [job EXCEPT ![c] = "none"]
  /\ UNCHANGED <<free, orphans>>

(* future.result(timeout) runs out.                                        *)
Timeout(c) ==
  /\ Waiting(c)
  /\ job[c] \in {"queued", "running"}
  /\ pc' = [pc EXCEPT ![c] = IF @ = "waiting" THEN "timed_out" ELSE "probe_timed_out"]
  /\ UNCHANGED <<circuit, free, job, orphans>>

(* Fault: the caller frees the slot of the request it has given up.        *)
GiveUpFreeing(c) ==
  /\ pc[c] \in {"timed_out", "probe_timed_out"}
  /\ orphans' = IF job[c] = "running" THEN orphans + 1 ELSE orphans
  /\ free' = IF job[c] = "running" THEN free + 1 ELSE free
  /\ job' = [job EXCEPT ![c] = "none"]
  /\ pc' = [pc EXCEPT ![c] = "idle"]
  /\ RecordFailure

(* future.cancel() drops work that no thread has started, and nothing      *)
(* releases its slot; running work becomes an orphan.                      *)
GiveUp(c) ==
  /\ pc[c] \in {"timed_out", "probe_timed_out"}
  /\ orphans' = IF job[c] = "running" THEN orphans + 1 ELSE orphans
  /\ job' = [job EXCEPT ![c] = "none"]
  /\ pc' = [pc EXCEPT ![c] = "idle"]
  /\ RecordFailure
  /\ UNCHANGED free

Hop(c) ==
  \/ Allow(c) \/ Shed(c) \/ TakeSlot(c) \/ SlotBusy(c) \/ PoolRejects(c)
  \/ Finish(c) \/ Timeout(c) \/ GiveUp(c)

Next ==
  \/ \E c \in Callers : Hop(c) \/ JobStarts(c) \/ JobEnds(c)
  \/ OrphanEnds
  \/ RequestRestart
  \/ \E healthy \in BOOLEAN : RecordRestart(healthy)

Spec == Init /\ [][Next]_vars

-----------------------------------------------------------------------------
Busy == {c \in Callers : job[c] \in {"queued", "running"}}
Probe(c) == pc[c] \in {"probe", "probe_waiting", "probe_timed_out"}

TypeOK ==
  /\ state \in {"CLOSED", "OPEN", "HALF_OPEN"}
  /\ failures \in 0..Threshold
  /\ probing \in BOOLEAN
  /\ human \in BOOLEAN
  /\ free \in 0..Slots
  /\ pc \in [Callers -> {"idle", "admitted", "probe", "waiting", "probe_waiting",
                         "timed_out", "probe_timed_out"}]
  /\ job \in [Callers -> {"none", "queued", "running", "returned", "raised"}]
  /\ orphans \in 0..Slots

(* The model never serves more requests at once than it has slots, those   *)
(* whose callers have given up included ("instead of piling a second       *)
(* concurrent request onto the slot").                                     *)
SingleFlight == Cardinality(Busy) + orphans <= Slots - free

(* The circuit does not stay closed over Threshold failures in a row,      *)
(* whatever order their hops end in.                                       *)
ClosedIsHealthy == state = "CLOSED" => failures < Threshold

(* An open circuit always asks for the operator: no late result of an      *)
(* earlier hop takes the request back and leaves the circuit open.         *)
OpenAsksForOperator == state = "OPEN" => human

(* "HALF_OPEN is allowed only after an operator records a manual restart", *)
(* and "open circuit does not auto close": the state leaves OPEN only in   *)
(* the step in which the operator records a healthy restart.               *)
OpenDoesNotAutoClose == [][state = "OPEN" => state' \in {"OPEN", "HALF_OPEN"}]_vars

(* Slot-busy is backpressure, not model failure: the circuit refuses hops  *)
(* for a probe in flight only while there is one.                          *)
HalfOpenHasProbe ==
  (state = "HALF_OPEN" /\ probing) => \E c \in Callers : Probe(c)

(* The half-open circuit lets one hop through and then waits for its       *)
(* verdict: whatever an earlier hop reports in the meantime, the flag of   *)
(* the probe is not cleared with the circuit still half open, unless the   *)
(* operator records another restart.                                       *)
OneProbePerRestart ==
  [][state = "HALF_OPEN" /\ probing /\ state' = "HALF_OPEN" /\ ~probing'
       => RecordRestart(TRUE)]_vars

(* "The worker releases it in finally when the call truly completes": the  *)
(* slots that are free, and those held by a hop or by a request that still *)
(* runs, are the same before and after every step, but for the one slot    *)
(* held by work that is cancelled before a thread has started it.  That    *)
(* slot is gone for good.                                                  *)
Accounted == free + Cardinality(Busy) + orphans

CancelledUnstarted(c) == job[c] = "queued" /\ pc[c] \in {"timed_out", "probe_timed_out"}

SlotsAccountedFor ==
  [][\/ Accounted' = Accounted
     \/ Accounted' = Accounted - 1 /\ \E c \in Callers : CancelledUnstarted(c) /\ GiveUp(c)]_vars
=============================================================================
