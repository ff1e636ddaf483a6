------------------------------ MODULE ChatStream ------------------------------
(***************************************************************************)
(* POST /chat/stream: a worker thread of a small pool runs the turn and    *)
(* publishes events on a bridge, the response generator polls the bridge   *)
(* and sends them to the client.  A turn may make one idempotent step,     *)
(* through the loop of CanonicalLoop, which it shares with the other turns *)
(* and with the remediation requests of the process.                       *)
(***************************************************************************)
EXTENDS CanonicalLoop, FiniteSets

CONSTANTS
  Streams,      \* the turns; those in Calls may make a step
  PoolSize,     \* max_workers of the executor
  MaxProgress   \* bound on the progress events of a turn

ASSUME ChatStreamAssumption ==
  /\ IsFiniteSet(Streams)
  /\ PoolSize \in Nat \ {0}
  /\ MaxProgress \in Nat

VARIABLES
  turn,     \* turn[s]: what the worker of s does
  bridge,   \* bridge[s]: the queue, the sentinel "closed" included
  sent,     \* sent[s]: the events the client was sent
  client    \* client[s]: what the generator of s does

streamVars == <<turn, bridge, sent, client>>
allVars == <<loopVars, streamVars>>

(* audited is empty when LangGraph is off: the turn buffers its events.    *)
StreamInit ==
  /\ audited \in {Streams \cap Calls, {}}
  /\ LoopInit
  /\ turn = [s \in Streams |-> "queued"]
  /\ bridge = [s \in Streams |-> <<>>]
  /\ sent = [s \in Streams |-> <<>>]
  /\ client = [s \in Streams |-> "polling"]

(* Fault: the notice is put behind the final event.                        *)
EndingsNoticeLast == {<<"terminal">>, <<"terminal", "progress">>}

(* "final", "partial_timeout" and "failed" are "terminal" here, and the    *)
(* llm_degraded notice before a final, without LangGraph, is "progress".   *)
Endings == {<<"terminal">>} \cup
           (IF audited = {} THEN {<<"progress", "terminal">>} ELSE {})

Become(s, state) == turn' = [turn EXCEPT ![s] = state]
(* _enqueue: what comes after close() is dropped.                          *)
Enqueue(s, events) ==
  bridge' = [bridge EXCEPT ![s] = IF turn[s] = "done" THEN @ ELSE @ \o events]

-----------------------------------------------------------------------------
(* The worker.                                                             *)
Busy == {s \in Streams : turn[s] \notin {"queued", "done"}}

TakeUp(s) ==
  /\ turn[s] = "queued"
  /\ Cardinality(Busy) < PoolSize
  /\ Become(s, "running")
  /\ UNCHANGED <<loopVars, bridge, sent, client>>

Progress(s) ==
  /\ turn[s] \in {"running", "called"}
  /\ Len(sent[s]) + Len(bridge[s]) < MaxProgress
  /\ Enqueue(s, <<"progress">>)
  /\ UNCHANGED <<loopVars, turn, sent, client>>

MakeCall(s) ==
  /\ s \in Calls
  /\ turn[s] = "running"
  /\ Submit(s)
  /\ Become(s, "calling")
  /\ UNCHANGED <<bridge, sent, client>>

(* The call has returned or raised, TimeoutError included.                 *)
CallOver(s) ==
  /\ turn[s] = "calling"
  /\ caller[s] # "waiting"
  /\ Become(s, "called")
  /\ UNCHANGED <<loopVars, bridge, sent, client>>

Publish(s) ==
  /\ turn[s] \in {"running", "called"}
  /\ \E ending \in Endings : Enqueue(s, ending)
  /\ Become(s, "published")
  /\ UNCHANGED <<loopVars, sent, client>>

(* finally: bridge.close(), and the worker is done.                        *)
Close(s) ==
  /\ turn[s] = "published"
  /\ Enqueue(s, <<"closed">>)
  /\ Become(s, "done")
  /\ UNCHANGED <<loopVars, sent, client>>

Worker(s) == TakeUp(s) \/ CallOver(s) \/ Publish(s) \/ Close(s)

-----------------------------------------------------------------------------
(* The generator.  When the client goes away it takes no further step, and *)
(* the worker is not told.                                                 *)
Turns(s, state) == client' = [client EXCEPT ![s] = state]

Deliver(s) ==
  /\ sent' = [sent EXCEPT ![s] = Append(@, Head(bridge[s]))]
  /\ bridge' = [bridge EXCEPT ![s] = Tail(@)]

(* _drain_remaining sends what is left behind the sentinel.                *)
Finish(s) ==
  /\ sent' = [sent EXCEPT ![s] = @ \o Tail(bridge[s])]
  /\ bridge' = [bridge EXCEPT ![s] = <<>>]

(* Fault: the sentinel is taken for an event.                              *)
PollBlindly(s) ==
  /\ client[s] = "polling"
  /\ bridge[s] # <<>>
  /\ Deliver(s)
  /\ UNCHANGED <<loopVars, turn, client>>

Poll(s) ==
  /\ client[s] = "polling"
  /\ bridge[s] # <<>>
  /\ IF Head(bridge[s]) = "closed"
     THEN Finish(s) /\ Turns(s, "ended")
     ELSE Deliver(s) /\ UNCHANGED client
  /\ UNCHANGED <<loopVars, turn>>

PollTimesOut(s) ==
  /\ client[s] = "polling"
  /\ bridge[s] = <<>>
  /\ Turns(s, "checking")
  /\ UNCHANGED <<loopVars, turn, bridge, sent>>

(* Fault: a worker found done has nothing more to say.                     *)
EndWhenDone(s) ==
  /\ client[s] = "checking"
  /\ Turns(s, IF turn[s] = "done" THEN "ended" ELSE "polling")
  /\ UNCHANGED <<loopVars, turn, bridge, sent>>

(* worker.done() is read after the poll, not with it.                      *)
CheckWorker(s) ==
  /\ client[s] = "checking"
  /\ Turns(s, IF turn[s] = "done" THEN "draining" ELSE "polling")
  /\ UNCHANGED <<loopVars, turn, bridge, sent>>

Drain(s) ==
  /\ client[s] = "draining"
  /\ IF bridge[s] = <<>> \/ Head(bridge[s]) = "closed"
     THEN Turns(s, "ended") /\ UNCHANGED <<bridge, sent>>
     ELSE Deliver(s) /\ UNCHANGED client
  /\ UNCHANGED <<loopVars, turn>>

Generator(s) == Poll(s) \/ PollTimesOut(s) \/ CheckWorker(s) \/ Drain(s)

-----------------------------------------------------------------------------
(* A remediation request calls without a telemetry state.                  *)
Remediate(c) == Submit(c) /\ UNCHANGED streamVars
Serve(c) == (Coroutine(c) \/ TimeRunsOut(c)) /\ UNCHANGED streamVars

StreamNext ==
  \/ \E s \in Streams : Worker(s) \/ Progress(s) \/ MakeCall(s) \/ Generator(s)
  \/ \E c \in Calls \ Streams : Remediate(c)
  \/ \E c \in Calls : Serve(c)

StreamSpec == StreamInit /\ [][StreamNext]_allVars

(* The pipeline comes to an end, the generator is scheduled, and time      *)
(* passes.  Nothing is assumed of the coroutines: execute() may hold the   *)
(* loop forever.                                                           *)
StreamFairness ==
  /\ \A s \in Streams : WF_allVars(Worker(s)) /\ WF_allVars(Generator(s))
  /\ \A c \in Calls : WF_allVars(TimeRunsOut(c) /\ UNCHANGED streamVars)

FairStreamSpec == StreamSpec /\ StreamFairness

-----------------------------------------------------------------------------
StreamTypeOK ==
  /\ LoopTypeOK
  /\ turn \in [Streams -> {"queued", "running", "calling", "called", "published", "done"}]
  /\ bridge \in [Streams -> Seq({"progress", "terminal", "closed"})]
  /\ sent \in [Streams -> Seq({"progress", "terminal"})]
  /\ client \in [Streams -> {"polling", "checking", "draining", "ended"}]

(* A stream that ended has sent one terminal event, as its last one,       *)
(* whether the sentinel or a finished worker ended it: the poll, the look  *)
(* at worker.done() and close() interleave.                                *)
EndsWithOneTerminal ==
  \A s \in Streams :
    LET terminals == {i \in 1..Len(sent[s]) : sent[s][i] = "terminal"} IN
    client[s] = "ended" => terminals = {Len(sent[s])}

(* The client of a turn is given what EventStream promises, at every step  *)
(* and not only at the end: the events it has stay, each new one comes     *)
(* behind them, nothing comes behind the terminal one, and the stream ends *)
(* after it, although two threads work on the bridge and the worker is     *)
(* looked at between two polls.                                            *)
Client == INSTANCE EventStream WITH
            News <- {"progress"}, Answers <- {"terminal"},
            received <- sent, closed <- [s \in Streams |-> client[s] = "ended"]

ClientPromiseSpec == Client!Spec

(* Every stream ends while its client reads it, although turns wait for a  *)
(* thread of the pool and for a loop that may be held by a call waiting    *)
(* for itself or by an execute() that never returns.                       *)
EveryStreamEnds == \A s \in Streams : <>(client[s] = "ended")
=============================================================================
