---------------------------- MODULE CanonicalLoop ----------------------------
(***************************************************************************)
(* The one event loop of a backend process that every database call of its *)
(* threads goes through (_CanonicalDbLoop), serving calls of               *)
(* run_idempotent_execution_step.  What the calls do to the row is         *)
(* StepRun's subject; here it is who holds the thread of the loop, and who *)
(* still waits.                                                            *)
(*                                                                         *)
(*  - A coroutine runs on the thread of the loop from one await to the     *)
(*    next.  execute() and _emit_step are plain calls: while they last,    *)
(*    no other coroutine of the process advances.                          *)
(*  - _emit_step persists its event with a call of its own on the same     *)
(*    loop.  That call can only be served when the thread is free, and the *)
(*    thread waits for it: the wait ends by its time limit alone.  The     *)
(*    failure is then reported as request.failed, in the same way.         *)
(*  - All waits last 30 s, so they end in the order they were begun.       *)
(*                                                                         *)
(* The calls for events are served after the coroutine has let the thread  *)
(* go; they inherit its connection, find it busy or released and fail with *)
(* nobody waiting for them, so they leave no trace in the state.           *)
(***************************************************************************)
EXTENDS Naturals, Sequences

CONSTANTS
  Calls,    \* a call is made once, by a thread of its own
  Steps, StepOf,
  Nobody

ASSUME CanonicalLoopAssumption ==
  /\ StepOf \in [Calls -> Steps]
  /\ Nobody \notin Calls

VARIABLES
  audited,    \* the calls whose events are persisted at once
  thread,     \* the call whose coroutine occupies the thread of the loop
  spot,       \* spot[c]: where the coroutine of c is
  caller,     \* caller[c]: what the thread that made the call knows
  deadlines,  \* the time limits ahead, in the order in which they run out
  stored      \* the steps with a committed result

loopVars == <<audited, thread, spot, caller, deadlines, stored>>

(* "acquire", "update" and "end" are awaits on Postgres, "execute" is      *)
(* execute(), the others wait for a second call on the loop: for the event *)
(* before and after execute(), and for the failure to persist it.          *)
Awaiting == {"acquire", "update", "end"}
EventWaits == {"started_event", "ended_event"}
FailureWaits == {"started_failure", "ended_failure"}
Spots == Awaiting \cup EventWaits \cup FailureWaits \cup {"none", "execute", "done"}

LoopInit ==
  /\ audited \in SUBSET Calls
  /\ thread = Nobody
  /\ spot = [c \in Calls |-> "none"]
  /\ caller = [c \in Calls |-> "idle"]
  /\ deadlines = <<>>
  /\ stored = {}

LoopFree == thread = Nobody
MoveTo(c, place) == spot' = [spot EXCEPT ![c] = place]
Expires(c, wait) == deadlines # <<>> /\ Head(deadlines) = <<c, wait>>

(* Its transaction holds the row of the step, after a replay too.          *)
HoldsRow(c) == spot[c] \notin {"none", "acquire", "done"}
RowHeld(step) == \E c \in Calls : HoldsRow(c) /\ StepOf[c] = step

(* run_coroutine_threadsafe and future.result(timeout=30).                 *)
Submit(c) ==
  /\ caller[c] = "idle"
  /\ caller' = [caller EXCEPT ![c] = "waiting"]
  /\ MoveTo(c, "acquire")
  /\ deadlines' = Append(deadlines, <<c, "call">>)
  /\ UNCHANGED <<audited, thread, stored>>

(* Fault: the event is given less time than the call it belongs to.        *)
EmitInHaste(c, event, next) ==
  IF c \in audited
  THEN /\ MoveTo(c, event)
       /\ thread' = c
       /\ deadlines' = <<<<c, "event">>>> \o deadlines
  ELSE /\ MoveTo(c, next)
       /\ thread' = IF next = "execute" THEN c ELSE Nobody
       /\ UNCHANGED deadlines

(* _emit_step, and the code up to the next await.                          *)
Emit(c, event, next) ==
  IF c \in audited
  THEN /\ MoveTo(c, event)
       /\ thread' = c
       /\ deadlines' = Append(deadlines, <<c, "event">>)
  ELSE /\ MoveTo(c, next)
       /\ thread' = IF next = "execute" THEN c ELSE Nobody
       /\ UNCHANGED deadlines

EmitStarted(c) == Emit(c, "started_event", "execute")
EmitEnded(c) == Emit(c, "ended_event", "end")

(* request.failed is emitted for the event that could not be persisted.    *)
EventWaitEnds(c) ==
  /\ spot[c] \in EventWaits
  /\ Expires(c, "event")
  /\ MoveTo(c, IF spot[c] = "started_event" THEN "started_failure" ELSE "ended_failure")
  /\ deadlines' = Append(Tail(deadlines), <<c, "event">>)
  /\ UNCHANGED <<audited, thread, caller, stored>>

(* The failed state emit_planning_event returns is dropped by _emit_step.  *)
FailureWaitEnds(c) ==
  /\ spot[c] \in FailureWaits
  /\ Expires(c, "event")
  /\ MoveTo(c, IF spot[c] = "started_failure" THEN "execute" ELSE "end")
  /\ thread' = IF spot[c] = "started_failure" THEN c ELSE Nobody
  /\ deadlines' = Tail(deadlines)
  /\ UNCHANGED <<audited, caller, stored>>

(* Granted or replayed: what is committed is a completed row.              *)
Acquire(c) ==
  /\ LoopFree
  /\ spot[c] = "acquire"
  /\ ~RowHeld(StepOf[c])
  /\ IF StepOf[c] \in stored THEN EmitEnded(c) ELSE EmitStarted(c)
  /\ UNCHANGED <<audited, caller, stored>>

(* execute() returns or raises, and the update of the row is awaited.      *)
ExecuteEnds(c) ==
  /\ spot[c] = "execute"
  /\ MoveTo(c, "update")
  /\ thread' = Nobody
  /\ UNCHANGED <<audited, caller, deadlines, stored>>

Updated(c) ==
  /\ LoopFree
  /\ spot[c] = "update"
  /\ EmitEnded(c)
  /\ UNCHANGED <<audited, caller, stored>>

(* The coroutine is done and its future resolved: whoever waits wakes up.  *)
Resolve(c, answer) ==
  /\ MoveTo(c, "done")
  /\ caller' = [caller EXCEPT ![c] = IF @ = "waiting" THEN answer ELSE @]
  /\ UNCHANGED <<audited, thread, deadlines>>

Commit(c) ==
  /\ LoopFree
  /\ spot[c] = "end"
  /\ stored' = stored \cup {StepOf[c]}
  /\ Resolve(c, "answered")

(* Fault: a call whose transaction was rolled back returns.                *)
FailsQuietly(c) ==
  /\ LoopFree
  /\ spot[c] \in Awaiting
  /\ UNCHANGED stored
  /\ Resolve(c, "answered")

(* The wait for the row or a statement fails, execute() had raised, or the *)
(* commit fails: the transaction is rolled back and the call raises.       *)
Fail(c) ==
  /\ LoopFree
  /\ spot[c] \in Awaiting
  /\ UNCHANGED stored
  /\ Resolve(c, "raised")

Coroutine(c) == Acquire(c) \/ ExecuteEnds(c) \/ Updated(c) \/ Commit(c) \/ Fail(c)

(* Fault: the caller waits without a limit.                                *)
WaitOn(c) == Expires(c, "call") /\ UNCHANGED loopVars

(* The coroutine is not cancelled.  A caller that has its answer is gone.  *)
CallerTimesOut(c) ==
  /\ Expires(c, "call")
  /\ caller' = [caller EXCEPT ![c] = IF @ = "waiting" THEN "timed_out" ELSE @]
  /\ deadlines' = Tail(deadlines)
  /\ UNCHANGED <<audited, thread, spot, stored>>

TimeRunsOut(c) == EventWaitEnds(c) \/ FailureWaitEnds(c) \/ CallerTimesOut(c)

LoopNext == \E c \in Calls : Submit(c) \/ Coroutine(c) \/ TimeRunsOut(c)
LoopSpec == LoopInit /\ [][LoopNext]_loopVars

-----------------------------------------------------------------------------
LoopTypeOK ==
  /\ audited \subseteq Calls
  /\ thread \in Calls \cup {Nobody}
  /\ spot \in [Calls -> Spots]
  /\ caller \in [Calls -> {"idle", "waiting", "answered", "raised", "timed_out"}]
  /\ deadlines \in Seq(Calls \X {"call", "event"})
  /\ stored \subseteq Steps

(* Once a call whose events are persisted at once has waited for its own   *)
(* loop, its caller has been told TimeoutError: what execute() then does   *)
(* and the commit that follows are reported to nobody (_emit_step inside   *)
(* the coroutine, future.result(timeout=30) around it).                    *)
SelfWaitLosesCaller ==
  \A c \in audited :
    (spot[c] \in FailureWaits \/ spot[c] = "execute") => caller[c] = "timed_out"

(* A caller that was given a result can rely on it: the result is          *)
(* committed, although other calls on the step fail, time out or wait.     *)
AnsweredIsStored ==
  \A c \in Calls : caller[c] = "answered" => StepOf[c] \in stored

(* "Audit-critical events must persist to canonical_planning_events before *)
(* side-effecting execution proceeds; a write failure on that path fails   *)
(* closed".                                                                *)
AuditFailureFailsClosed ==
  [][\A c \in Calls : spot[c] = "started_failure" => spot'[c] # "execute"]_loopVars
=============================================================================
