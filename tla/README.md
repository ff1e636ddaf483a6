# Verification of the AI SOC assistant

The AI SOC assistant answers security questions in chat turns. A turn plans,
calls language models, collects evidence through MCP connectors, may ask the
analyst back, and may execute actions in external systems. This directory holds
TLA+ models of the parts of `src/backend/app` where turns, backend processes,
Postgres and external systems meet, the TLC runs that check them, and TLAPS
proofs for every value of their constants.

## 1. The system

The backend is a FastAPI application. A chat request runs in a thread of its
own; database work hops to one event loop per process
(`chat/canonical_db.py`), where every *unit of work* is one Postgres
transaction that the calling thread waits for, 30 s at most. Several processes
may share the database. Model calls run in a thread pool behind a circuit
breaker and a semaphore.

| Component | State | Operations | Interacts with | What is hard | What makes it correct |
|---|---|---|---|---|---|
| Idempotency records, `chat/canonical_execution_idempotency.py` | one row per (plan, handoff, version, step, operation): status, lease, result | acquire, complete, fail, run a step | every executor of plan steps | lapsing leases, unfenced writers, crashes, failures after the effect | an unrepeatable operation happens at most once; a stored success was real |
| Step execution on Postgres, same file with `chat/canonical_db.py` | the open transaction, the row lock | acquire + `execute()` + complete/fail in one unit of work | connectors, event loop | effect before commit, rollback of the failure record, waits on the row lock, caller timeouts | all callers of a key get one result; nothing runs after a commit; calls return |
| Canonical handoff, `chat/canonical_handoff_*.py` | versions of a handoff: status, planning input, committed plan, expiry | save, load, resume a clarification, commit a plan, record call hashes | session pins, planning, review | the same message twice, blind upserts between read and write | a version advances once and atomically; a committed plan stands |
| Plan review, `chat/investigation_envelope_runtime.py` | the decision in the successor version | run, cancel, edit, confirm | handoff, step execution | two decisions race; repeated confirmations | a cancelled plan is never committed; an approved one is its own |
| Planning stages, `chat/canonical_planning_orchestrator.py`, `chat/plan_evidence_from_canonical.py` | none of their own; plan ids | plan a version, reuse or compose a plan | handoff | replayed turns plan again | reuse of a committed plan |
| T4 circuit and slots, `llm/sidecar_governance.py` | breaker state, failure count, probe flag, semaphore, pool | a model hop, the operator's restart | model provider, chat threads, operator | timeouts leave orphans; late results meet another breaker state | never more requests than slots; the breaker asks for the operator |
| Hook idempotency, `chat/per_step_hook_idempotency.py`, `orchestration/mcp_execution_gate.py` | none of their own | run an MCP call as an idempotent step | step execution | replay with another fingerprint | a replay is answered or reconciled |
| Guided collection, `chat/guided_hybrid_collection.py` | collected evidence | run read-only steps | step execution | `in_progress` is dropped | every step is collected or reported |
| Plan dispatch, `planner/executor.py` | step results | walk a committed plan | step execution | guard reads before it locks | dependencies before dependants |
| Remediation, `actions/remediation_execution.py`, `chat/remediation_runtime.py` | the plan shown (a session pin), receipts | create, cancel, approve; a sequence of side-effecting steps | step execution, e-mail, sessions | double approvals, a failure in the middle, replayed receipts | receipts of one plan agree and tell what was sent |
| Action lane, `actions/action_lane.py` | proposals in a file | propose, approve, deny | request threads, ticket system | check and write without a lock | approved once or denied, not both |
| Retention, `chat/canonical_retention.py` | none | purge expired rows | handoff, events | versions of one handoff expire one by one | a live version keeps its history |
| Database loop, `chat/canonical_db.py` | one loop, its thread, the calls it serves | run a unit of work, wait 30 s for it | every thread of the process | a call inside `execute()` or an event holds the thread; a coroutine waits for its own loop | an answer is committed; waits end |
| Planning telemetry, `chat/planning_telemetry.py`, `chat/durable_planning_telemetry.py` | buffered events of a turn | persist at once, or buffer and flush | database loop | an audit-critical event cannot be persisted | no side effect without its event |
| Chat stream, `api/routes_chat_stream.py`, `chat/progress_events.py` | a queue per request, a pool of 4 threads | publish, poll, drain | pipeline thread, database loop, SSE | the poll, the end of the worker and the sentinel interleave; turns block the pool | ends, with one terminal event |
| Sessions, `chat/session_store.py` | pins per session | load, save | turns | concurrent turns | pins name a live version |
| Failover, `llm/clients/failover_client.py`, `llm/endpoint_health.py` | health per endpoint | try, cool down | T4 hops | stale health | a healthy endpoint is tried |
| Discovery snapshot, `connectors/mcp/discovery_snapshot.py` | cached tools | refresh | connectors | stale cache | refreshed by its age |

`PROJECT.json` lists these with their status, and the rest of the repository
(retrieval, routing, query generation, RBAC, front end, evaluation), which is
pure data transformation or user interface. Its "hazards" name, line by line,
what can go wrong in this code where a test would hardly reach, and the
properties aimed at each.

## 2. Modules

| Module | Content |
|---|---|
| `IdempotencyRecord` | a row, its contracts, and the pure decisions on it: `_lease_expired`, `_resolve_acquire`, the status a failure stores |
| `StepLease` | the protocol when acquire, complete and fail commit separately; for unrepeatable operations implements `SingleOutcome` |
| `SingleOutcome` | abstract: an operation settles on one outcome and shows nothing else |
| `StepRun` | `run_idempotent_execution_step` in one unit of work; implements `SingleOutcome` |
| `CanonicalHandoff` | versions of a handoff, and the turns that answer, decide, confirm, plan and commit |
| `ModelCircuit` | breaker, slots, pool, timeouts and the operator |
| `CanonicalLoop` | the event loop of a process, who holds its thread and who still waits |
| `EventStream` | abstract: what the client of a turn may rely on |
| `ChatStream` | worker pool, bridge and generator of `/chat/stream`, over `CanonicalLoop`; implements `EventStream` |
| `Remediation` | turns that show and approve a remediation plan, and the walk over its steps; composes `StepRun`, implements `SingleOutcome` with receipts as outcomes |
| `MC*` | constants of the runs, symmetry, and the bound of `remediation` |
| `StepLeaseProofs`, `StepRunProofs`, `ModelCircuitProofs`, `CanonicalHandoffProofs`, `RemediationProofs`, `CanonicalLoopProofs`, `ChatStreamProofs` | theorems and proofs |

Definitions named `...` in a comment starting with `Fault:` are wrong variants
of the definition that follows them, each the kind of slip a change to the code
could make. `PROJECT.json` ("mutants") pairs each with the property that must
catch it. They take no part in any specification.

### IdempotencyRecord and StepLease

A row is `[status, lease, result]`. The executions of one key are numbered in
the order they are granted; `lease` holds the number of the grant whose owner
and expiry time it stores (0 for NULL), `result` the number of the execution
whose result it stores. All leases have the same length, so they lapse in the
order they were granted, and "now" is the number of grants that have lapsed.
The key is a digest in the code; here it is a model value. For a contract with
stable idempotency the insert always derives the downstream key, so a row
without it does not occur and the branch that looks for it is left out.

`StepLease` is the protocol of the functions `acquire_execution_step`,
`complete_execution_step` and `fail_execution_step`, and of the in-memory
store: each commits on its own. `Acquire`, `Replay`, `ExecuteReturns`,
`ExecuteRaises`, `Complete` and `Fail` follow the code; `Crash` and
`LeaseLapses` come between any two of them. Outcomes that change nothing are
not actions.

### StepRun

Here the same calls run in one transaction. `table` is what is committed,
`txn[w]` what the open transaction of `w` has written, and a call waits while
another one is in a transaction on its key (`INSERT ... ON CONFLICT` and
`SELECT ... FOR UPDATE`). `ExecuteRaises` writes the failure row and
`RollbackOnRaise` loses it again, because the `except` branch re-raises through
the unit of work. `CommitFails`, `LockTimeout`, `Crash` and `CallerGivesUp` are
the ways the environment interferes; a caller that gives up is not given the
result although the coroutine goes on.

### CanonicalHandoff

`row[v]` is the stored row of version `v`: its status, whether a plan is shown
(`hil`), the decision stored in it, and its plan. `live` holds the versions
that have not expired; `Expire` takes out any of them, since each is saved with
an expiry time of its own and the time to live may be configured anew. A turn's
`pc` steps through the transactions of its request:

    requested -> locked -> deciding -> planning | committing     answer, decide
    planning -> recording -> planning                            call hashes
    planning -> clarifying                                       lane "clarify"
    planning -> planned -> committing -> loading -> saving -> executing   lane "plan"
    planning -> attaching -> showing                             lane "wait"

`LockPending`..`Advance` are one transaction that holds the lock of the pending
row; every other write reads in one transaction and upserts the whole row in
another. `Save` is that upsert with its fresh expiry time. Plan ids are drawn
afresh (`rp:<uuid>`) or are a function of the approved envelope. `Finish` ends
a turn anywhere, by success or failure. `Purge` is the batch of
`canonical_retention.py`: expired versions in the statuses it looks for go, unless
some version of the handoff is live.

`DecidedOnce` is the premise of the two invariants about decisions. A version
can be superseded a second time after its successor has expired and a late blind
save has made it live again; the replay of an answer given meanwhile then plans
on a version that the second decision has cancelled. That takes four versions
and 45 steps, so the run with three would not show it; the proof attempt did.
All of it lies beyond one time to live, hence the premise.

### ModelCircuit

A hop is admitted (`Allow`), takes a slot (`TakeSlot`), waits, and finishes or
times out. A timeout leaves running work as an orphan that keeps its slot until
`OrphanEnds`; work no thread has started is cancelled. Breaker operations are
`RecordSuccess`, `RecordFailure`, `RequestRestart` and `RecordRestart`, each
atomic under `_CIRCUIT_LOCK`; between them hops interleave freely.
`SlotsAccountedFor` is the account of the slots: free ones, held ones and
orphans add up to the same number after every step, except when work is
cancelled that no thread has started, which loses its slot for good because only
running it would release it.

### Remediation

`Run == INSTANCE StepRun` makes the calls: its workers are the turns, its keys
the steps that send a mail. The module adds what is around a call. `Start`
reads the pins of the session, `Review` reads them again
(`_load_pending_plan`), `EndTurn` writes them whole (`pins_from_pipeline_state`),
and turns of one session overlap freely between the three. An approved plan is
walked step by step: `SkipStep` gives the receipt of a step that has no call,
`RunStep`, `Granted`, `Send`, `Executed` and `Replayed` are the call and its
answer, and each ends in `Record`. `CallRaises` and `CallTimesOut` are the
exceptions that are no `ExecutionIdempotencyError`. `Sendings` lists what the
e-mail adapter can return, since it turns every error of the transport into a
receipt: `report` keeps that receipt for each execution, `mails` what the
provider has accepted.

`SUCCESS` without acceptance, or a receipt that differs between two turns, can
come about only through the interplay of turns, table and provider. The module
does not repeat the decisions of `StepRun`; it is checked together with them.

### CanonicalLoop and ChatStream

`StepRun` looks at the row; `CanonicalLoop` looks at the thread. A coroutine has
the thread of the loop from one await to the next (`LoopFree` guards the steps
that begin at an await), and `execute()` and `_emit_step` are plain calls that
keep it. `spot[c]` says where the coroutine of call `c` is:

    acquire -> [started_event -> started_failure ->] execute -> update
            -> [ended_event -> ended_failure ->] end -> done

The bracketed waits exist for the calls in `audited`, whose events are persisted
at once: under LangGraph there is no buffer of the turn
(`planning_turn_scope` is opened by the other pipeline only), so
`persist_planning_event` makes a call of its own on the loop it is running on.
Only the 30 s limit ends that wait (`EventWaitEnds`), the failure is reported as
`request.failed` in the same way (`FailureWaitEnds`), and the failed state that
comes of it is dropped. `deadlines` lists the limits ahead in the order they run
out, which is the order they were set in, all being 30 s.

`ChatStream` adds the request: `TakeUp` is a thread of the pool, `MakeCall` and
`CallOver` the turn's idempotent step through the loop, `Publish` the last
events, `Close` the sentinel. The generator polls (`Poll`, `PollTimesOut`), looks
at `worker.done()` only after a poll has timed out (`CheckWorker`) and drains
(`Finish`, `Drain`). `Remediate` is a remediation request, which calls without a
telemetry state and so without events. Events are "progress", "terminal" or the
sentinel "closed".

## 3. Runs

| Run | Instance | Shows |
|---|---|---|
| `step_lease` | 2 workers, a key of each contract, 2 grants per key | `UnstableAtMostOnce`, `UncertainNotExecutable`, `NoFalseSuccess`, `UnstablePromiseSpec` |
| `step_run` | 3 calls, 1 unrepeatable key, 3 executions | `SettledWasExecuted`, `NoEffectAfterCompletion`, `PromiseSpec`, `EveryCallReturns` |
| `step_run_side_effect` | 2 calls | refutes `AtMostOneSideEffect` |
| `handoff` | 2 turns, 3 versions, 2 drawn plan ids | `AdvancesOnce`, `ResumedHasSuccessor`, `LiveHasItsHistory`, `CancelledHasNoPlan`, `ApprovedPlanIsItsEnvelopes` |
| `handoff_committed_plan` | the same, 2 versions | refutes `CommittedPlanStands` |
| `circuit` | 3 hops, 2 slots, threshold 3 | `SingleFlight`, `ClosedIsHealthy`, `OpenAsksForOperator`, `OneProbePerRestart`, `SlotsAccountedFor` |
| `circuit_auto_close` | the circuit | refutes `OpenDoesNotAutoClose` |
| `circuit_stuck_probe` | the circuit | refutes `HalfOpenHasProbe` |
| `remediation` | 2 turns, two mails around a manual step, 2 executions of each, 3 in all | `ReceiptsAgree`, `NoMailAfterReceipt`, `SuccessWasSent`, `PassedIsCommitted`, `ReceiptPromiseSpec` |
| `remediation_receipts` | 2 turns, two mails around a manual step | refutes `EveryAttemptHasReceipt` |
| `chat_service` | 2 streams, a pool of 1, one turn and one remediation request on one step | `SelfWaitLosesCaller`, `AnsweredIsStored`, `EndsWithOneTerminal`, `ClientPromiseSpec`, `EveryStreamEnds` |
| `audit_failure` | the same | refutes `AuditFailureFailsClosed` |

Each passing run checks the module's type invariant as well.

### Bounds

* `step_lease`: two workers are a stale one and the one that takes over; two
  grants are a lease and its takeover. Keys do not interact, so one of each
  contract covers `_resolve_acquire`. The proofs of section 5 remove the bounds.
* `step_run`: three calls are one in a transaction and two waiting, which is
  what it takes for a waiting call to see a commit or a rollback while a third
  one goes ahead. Three executions allow two failures before a success. Keys do
  not interact; the one key has the contract that offers least.
* `handoff`: two requests race and do not know of one another; three versions
  are an answer and a decision after it; two drawn ids are enough for one to
  replace the other. `get_latest_handoff` itself stops at version 100.
* `circuit`: the deployed slot count is 1; two slots and three hops let a probe,
  a stale hop and an orphan meet. Failures are counted up to the threshold
  only, past which the code's comparison has one result.
* `remediation`: two turns are the one that sends and the one that approves
  again. Two executions of a mail are one that leaves no row and one that
  settles it; the constraint `ThreeExecutions` lets that happen to either mail
  and cuts off the states in which both mails are tried twice. Steps have keys of
  their own, but a walk ties them together: that what was passed stays done, and
  the violation, need a second mail that fails after the first.
* `chat_service`: two streams queue for one thread, which is what four threads
  and five streams do; the one in front makes a call and meets a remediation
  request on the loop and on the row. One progress event puts something before
  the terminal one. Whether LangGraph is on is chosen in the initial states. A
  third call on the loop (2.2 million states, safety only) showed nothing new.

No run checks for deadlock: each of these systems may really stop, when nobody
asks anything any more, and in the models when a bound is used up.

### Fairness

`EveryCallReturns` needs `WF_vars(Step(w))` for each call. A
running process executes its coroutines, Postgres answers or the 10 s
`command_timeout` of the pool raises, and a connector returns or raises.
A crash is never required to happen, nor is a caller required to give up. Lock
waits are ended by the other transaction or by `LockTimeout`. The property lets
a call rest where `MaxAttempts` has been used up; the code has no such bound.

`EveryStreamEnds` needs the worker and the generator of each stream to go on,
and time to pass (`WF` of `Worker`, `Generator` and `TimeRunsOut`). Nothing is
assumed of the coroutines: `execute()` may hold the loop forever, and the
streams end all the same, because the turn stops waiting after 30 s. What the
pipeline does around its calls is assumed to end; its model calls have timeouts
of their own. The generator is fair because the property is about a client that
reads on.

### What the violations show

* **A side effect can be made twice** (`AtMostOneSideEffect`). The `except`
  branch of `run_idempotent_execution_step` writes `execution_uncertain` and
  re-raises inside the unit of work, so the record of the failure is rolled
  back; a lost commit or a crash after `execute()` does the same. The next call
  finds no row and executes again. `StepLease` shows the protocol itself is
  sound when its steps commit separately, and keeps the promise of
  `SingleOutcome` as well (`UnstablePromiseSpec`); it is their wrapping into one
  transaction that loses the protection. What the wrapping does give is that
  all callers agree on the result (`PromiseSpec`).
* **A committed plan can be replaced** (`CommittedPlanStands`). The replay of an
  answer does not look at the status of the successor; the second turn plans
  again and saves a new record over the committed one. Since the plan id is part
  of every idempotency key, the steps of the new plan are new steps. This is
  confined to plans nobody has approved: `DecisionsAreFinal` (section 5) proves
  that the committed plan of an approved version stands.
* **An open circuit can close by itself** (`OpenDoesNotAutoClose`): a hop
  admitted before the trip succeeds after it. `OpenLetsNobodyIn` (section 5)
  proves that nothing else does it: an open circuit admits no hop, so once those
  in flight have ended only the operator opens the way.
* **A half-open circuit can refuse everything** (`HalfOpenHasProbe`): the probe
  finds the slot busy and returns without clearing `half_open_in_flight`. The
  way out is another record of the operator. `StuckInOneWay` proves that it is
  the only way in.
* **A side effect can go without its audit event** (`AuditFailureFailsClosed`).
  `_emit_step` ignores the failed state it is given, and `_run` executes. On the
  LangGraph path this is what always happens: the event waits on the thread of
  the loop for a coroutine of that loop. The call has by then lost its caller
  (`SelfWaitLosesCaller`), so the step is executed and committed and reported to
  nobody, after 60 s in which no other database work of the process advances.
* **Receipts of executed steps can be dropped** (`EveryAttemptHasReceipt`). Only
  `ExecutionIdempotencyError` becomes a receipt. A lock timeout, a failed commit
  or the 30 s wait of a later step leaves the walk by an exception, and the turn
  reports `attempted: False` although mails went out. Approving again repairs
  it: the plan is still pinned, and the steps that were passed are committed
  (`PassedIsCommitted`), so they are replayed.

## 4. Assumptions

* No row expires under a turn in flight (the time to live is 5 minutes or more,
  60 by default); `Expire` waits until all turns are idle.
* Two turns that plan the same version end in the same lane, `lane[v]`.
* The feature flags for canonical planning, plan before resources and execution
  are on.
* Every caller passes the same contract and side-effecting flag for a key;
  contracts other than read-only are side-effecting (`StepLease`).
* `StepRun` gives each call a thread of its own. In the code `execute()` runs on
  the thread of the event loop, which allows fewer interleavings within one
  process and the same ones between processes; `CanonicalLoop` models that
  thread.
* `CanonicalLoop`: the caller's 30 s begin when the call is submitted. The
  coroutine of an event, once the loop is free to serve it, leaves no trace: it
  inherits the connection of the call, finds it busy or released, and fails with
  nobody waiting. Only completed rows are committed on this path
  (`OnlyCompletedRowsAreSeen`), so a call is granted or replayed. The loop and
  the pool of connections have been started.
* `ChatStream`: each turn makes one idempotent step at most. A client that goes
  away is a generator that takes no further step; the worker is not told.
* Postgres gives row locks, unique keys and atomic transactions. It is external
  and is modelled as the code uses it, as are the connector and the model
  provider.
* Remediation: the database is enabled; pins survive a crash (file backend) and
  do not expire, which would look like a cancelled plan; all turns are about the
  same plan. The envelope version is 1, since a request carries none. The
  outcomes in progress and requires reconciliation do not come up, which
  `OnlyCompletedRowsAreSeen` proves of `StepRun`.

## 5. Proofs

The seven proof modules hold for every value of the constants allowed by the
`ASSUME` of their component; nothing else is assumed.

**StepRunProofs.** `IInv` says what the row lock gives: one transaction per key
(`RowLockExcludes`); a transaction's key has no committed row
(`OpenTransactions`), since a completed row is replayed and never executed; what
is committed is the completed row of an execution that was made
(`CommittedRows`, `PendingCommits`), since a failure never commits; and answers
equal the row (`GivenIsCommitted`). None is inductive alone: a second
transaction on the key would break `OpenTransactions` at its commit, and without
`OpenTransactions` a commit could change a row already given to a caller. From
it follow `SuccessIsReal`, `NothingAfterCompletion`, `OnlyCompletedRowsAreSeen`
(so `in_progress` and `requires_reconciliation`, and with them the whole lease,
never appear on this path) and the refinement `KeepsPromise`: `Commit` maps to
`Settle`, `AcquireReturns` to `Show`, every other step to a stutter.
`CallersAgree` states what that means for callers. `EveryEffectIsGranted` bounds
the effects by the grants: an execution under way is still to be counted
(`OneToCome`), and since a key has one transaction nothing is counted twice. It
is what is left of "at most one side effect" (section 3): one for each grant.

**StepLeaseProofs.** Nothing fences a stale worker off, so no argument about who
holds the lease can work. The invariant says instead that a key without stable
idempotency is `NeverGranted` or `GrantedOnce`: after its grant the row stays in
`running`, `completed` or `execution_uncertain`, each of which resolves to
anything but EXECUTE (`NotGrantedAgain`), so one worker ever works on it and it
adds at most one effect. `UnstableFailsUncertain` is where the assumption that
such operations are side-effecting is used. With `ReturnedWasMade` it gives
`AtMostOnce`, `NeverHandedOutAgain` and `SuccessIsReal`. The same worker is the
only one that completes the key (`WorkerIsAlone`), so its result is written once
and what callers were given is what the row holds: `UnstableKeepsPromise` maps
`Complete` to `Settle` and `Replay` to `Show`, and `UnstableCallersAgree` states
the agreement of callers. For the other contracts neither holds: a stale worker
overwrites the result of the one that took its lease over, which is why the
refinement is stated for the unrepeatable keys only.

**ModelCircuitProofs.** The type of the semaphore (`free \in 0..Slots`) and
`SingleFlight` need one another: a release stays within the slots because the
request that ends was counted. The breaker half is separate from the pool half
(`Halves`), and `BusyCounts` says how one write to `job` changes the number of
requests. The account of the slots needs `WorkInv` besides: a hop that takes a
slot has no other work in the pool, so it counts once. `OpenLetsNobodyIn` and
`StuckInOneWay` say how far the two refuted properties go; both follow from type
correctness and a case for each action.

**CanonicalHandoffProofs.** `Structure` holds without premise: the row lock has
one owner (`LockInv`), what a turn in flight knows of its version stays true
(`TurnInv`), a resumed version and every copy of it that a turn may still write
back have a successor (`ResumedInv`), and versions are made one from the other
(`ChainInv`). It gives `OneAnswerAdvances`, `SupersededTogether` and
`PurgeSparesLive`. `Modes`, under `DecidedOnce`, says which turns can work on
which versions: a version that was decided on has no planning turn left, and one
that was answered is never decided on. Blind saves force this: a turn may write
back any row it has read, so the invariant speaks of what turns have read as
well as of rows. It gives `CancelledStays` and `ApprovedAsShown`, and as an
action property `DecisionsAreFinal`: no step changes a cancelled version, and an
approved one keeps its decision and its committed plan until it is purged as a
whole (`StandsAfterSave`, `StandsAfterAdvance`). Hence
`IInv == Structure /\ (DecidedOnce => Modes)`; since `advances` only grows until
a new handoff begins, a step into `DecidedOnce` comes from it.

**RemediationProofs.** The calls are an instance of `StepRun`, so the invariant
of `StepRunProofs` is reused (`Proved == INSTANCE StepRunProofs`, `RunFacts`) and
not proved again; `SameActions` says that the two instances have the same
actions. What is added is that a turn waits exactly while its call runs
(`CallInv`), that receipts are those of the steps passed (`WalkInv`) and say what
the committed execution reported (`HeldInv`), and that a committed or about to
be committed `SUCCESS` has had its mail (`MailInv`). `PassedStaysDone` rests on
that a turn goes past a mail step only with an answer of its call
(`StepsAdvance`) and that a completed row stays (`CompletedStays`).
`ReceiptsKeepTheirPromise` maps `Executed` to `Settle` on the receipt that was
reported, whether the turn still waits or not, and `Replayed` to `Show`; the one
step that writes a report concerns an execution that is not committed, and so
shows to nobody (`QuietStep`). `RemediationUsesStepRun` states that the module
implements its component, and `RemediationInherits` lists what that brings; with
`MailsFollowEffects` it gives `NoMailWithoutGrant`.

**CanonicalLoopProofs.** `SelfWaitLosesCaller` rests on the order of the limits:
a waiting caller has one in the list (`WaitingListed`), an event at most one
(`EventOnce`), that of the caller before that of its event (`CallFirst`). When
the event's reaches the head, none of the caller is ahead, so the caller does
not wait. `AnsweredIsStored` follows as only `Commit` answers.

A second invariant, `ExclusionInv`, says who excludes whom: the spot of a
coroutine decides whether it has the thread (`ThreadInv`), one transaction holds
a row (`RowInv`), and nobody on the way to `execute()` works on a step with a
committed result (`FreshInv`), which needs `RowInv` at each commit. It gives
`ThreadIsNotShared` and `ExecutesUnstoredOnly`. `EventAhead` adds that a
coroutine waiting for itself has its limit in the list. `NobodyWaitsWithoutLimit`
and `WaitsAreNotProlonged` are the safety part of the liveness that TLC checks:
whoever waits has a limit ahead, the first limit can run out in every state, and
each that does brings the others one place nearer. What fairness adds is that
time passes.

**ChatStreamProofs.** The argument is about the *trail* of a turn, what was sent
followed by what is in the bridge. The worker lengthens it at the end
(`Enqueued`), the generator moves the border (`Delivered`), and `Shape` says
that it is progress, then the terminal event, then the sentinel, which stays in
the bridge until the stream ends. So the sentinel is only met when all else was
sent (`SentinelIsLast`), by the poll or by the drain. `StreamUsesLoop` proves
that the composed service implements `LoopSpec`, which carries the theorems of
the loop over to it (`StreamSelfWaits`, `StreamAnswersAreStored`,
`StreamInheritsLoop`). `ClientsKeepTheirPromise` is the refinement of
`EventStream`: taking an event off the bridge maps to `Receive`, which needs that
no terminal event was sent before (`NotYetAnswered`), the end maps to `Close`,
and every step of the worker, the loop and the other requests to a stutter.

Only model-checked: `EveryCallReturns` and `EveryStreamEnds`, since liveness
under fairness and ENABLED are beyond the prover. The violated properties are
counterexamples by nature.

## 6. Plan

Done: the execution core, the handoff with its retention, the model circuit,
remediation, the database loop and the chat stream, each with its runs, and
proofs of every safety property that a passing run checks.

What would come next, in this order:

1. `ActionLane`: proposals in a file, approve and deny from request threads.
   The code has no lock, so the model would state what a lock must give.
2. The search gate: confirmations of a query, their grants and pins, with the
   expiry of both.
3. Start-up and shutdown of the database loop and its pool.
4. Editing a remediation plan and its new keys; a plan that comes back through
   the blind write of the session pins.
5. `EndpointHealth` and the discovery snapshot.

## 7. Not modelled

Classification of questions, prompts, composition of plans, query generation,
retrieval ranking and the front end are data or rendering with no state shared
between steps; they are most of the repository's lines. The in-memory handoff
store serves tests.

* Action lane: nothing orders two requests there, so every order is possible.
* Guided collection, plan dispatch and hook idempotency call
  `run_idempotent_execution_step` one step after the other; what they do with
  its answers keeps no state.
* Failover, endpoint health and the discovery snapshot keep caches whose
  staleness costs a request.
* Start-up of the loop and its pool (`canonical_db.py:95-125`): the checks before
  the start are not locked.
* The turn's buffer of planning events and its flush; the purge of the events.
* The search gate. Reading it gave three observations that no run shows: the
  confirmation of a saved search can never match, since the fingerprint of its
  grant contains the trace id of the current turn
  (`orchestration/mcp_execution_gate.py:829-884`); a confirmation with nothing
  pending runs the query of the current turn
  (`orchestration/execution_confirmation.py:117-130`), so a second one runs it
  again; and a pin that has expired or does not match is kept
  (`chat/session_context.py:298-300`).

## 8. Running

In this directory:

    tlc -workers 2 -config MCStepRun.cfg MCStepRun
    tlapm StepRunProofs.tla

The largest runs, `remediation` with 1.8 million states and `chat_service` with
about 550,000 and a liveness property, take two to three minutes; a proof module
takes between twenty seconds and some minutes from nothing. Proof modules that
use another one (`RemediationProofs`, `ChatStreamProofs`) check only their own
obligations; run `tlapm` on each.
