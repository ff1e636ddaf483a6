-------------------------- MODULE ModelCircuitProofs --------------------------
(***************************************************************************)
(* For any number of callers, slots and failures: the model never serves   *)
(* more requests than it has slots, and the breaker is neither closed over *)
(* its threshold nor open without asking for the operator.                 *)
(*                                                                         *)
(* Type correctness says that the semaphore stays between 0 and Slots; it  *)
(* is the single flight that keeps the releases within it, so the two are  *)
(* proved together.  The account of the slots needs WorkInv besides: a hop *)
(* that takes a slot has no other work in the pool.                        *)
(***************************************************************************)
EXTENDS ModelCircuit, FiniteSetTheorems, TLAPS

(* A hop that has not submitted its work has none in the pool.             *)
WorkInv == \A c \in Callers : pc[c] \in {"idle", "admitted", "probe"} => job[c] = "none"

IInv == TypeOK /\ SingleFlight /\ ClosedIsHealthy /\ OpenAsksForOperator /\ WorkInv

(* The variables of the breaker have their types and agree: its count, and *)
(* its flags.                                                              *)
CountInv ==
  /\ state \in {"CLOSED", "OPEN", "HALF_OPEN"}
  /\ failures \in 0..Threshold
  /\ ClosedIsHealthy

FlagInv ==
  /\ probing \in BOOLEAN
  /\ human \in BOOLEAN
  /\ OpenAsksForOperator

BreakerInv == CountInv /\ FlagInv

(* The variables of the hops and the pool have their types and fit into    *)
(* the slots.                                                              *)
PoolInv ==
  /\ free \in 0..Slots
  /\ pc \in [Callers -> {"idle", "admitted", "probe", "waiting", "probe_waiting",
                         "timed_out", "probe_timed_out"}]
  /\ job \in [Callers -> {"none", "queued", "running", "returned", "raised"}]
  /\ orphans \in 0..Slots
  /\ SingleFlight

(* The invariant has these three parts.                                    *)
LEMMA Parts == IInv <=> BreakerInv /\ PoolInv /\ WorkInv
BY DEF IInv, BreakerInv, CountInv, FlagInv, PoolInv, TypeOK

(* The slots and the threshold are positive numbers.                       *)
LEMMA Bounds == Slots \in Nat /\ Slots > 0 /\ Threshold \in Nat /\ Threshold > 0
BY CircuitAssumption

(* The initial states satisfy the invariant.                               *)
LEMMA InitInv == Init => IInv
<1> SUFFICES ASSUME Init PROVE IInv
  OBVIOUS
<1>1. BreakerInv
  <2>1. CountInv
    BY Bounds DEF Init, CountInv, ClosedIsHealthy
  <2>2. FlagInv
    BY DEF Init, FlagInv, OpenAsksForOperator
  <2> QED
    BY <2>1, <2>2 DEF BreakerInv
<1>2. PoolInv
  <2>1. Busy = {}
    BY DEF Init, Busy
  <2>2. Cardinality(Busy) = 0
    BY <2>1, FS_EmptySet
  <2> QED
    BY <2>2, Bounds DEF Init, PoolInv, SingleFlight
<1>3. WorkInv
  BY DEF Init, WorkInv
<1> QED
  BY <1>1, <1>2, <1>3, Parts

-----------------------------------------------------------------------------
(* A result or an error that reaches the breaker, whatever its state.      *)
LEMMA RecordsPreserve ==
  ASSUME BreakerInv, RecordSuccess \/ RecordFailure
  PROVE  BreakerInv'
<1>1. CountInv'
  BY Bounds DEF BreakerInv, CountInv, ClosedIsHealthy, RecordSuccess, RecordFailure
<1>2. FlagInv'
  <2>1. CASE RecordSuccess
    BY <2>1 DEF FlagInv, OpenAsksForOperator, RecordSuccess
  <2>2. CASE RecordFailure
    BY <2>2 DEF BreakerInv, FlagInv, OpenAsksForOperator, RecordFailure
  <2> QED
    BY <2>1, <2>2
<1> QED
  BY <1>1, <1>2 DEF BreakerInv

(* Every step leaves the breaker right.                                    *)
LEMMA BreakerStep ==
  ASSUME IInv, [Next]_vars
  PROVE  BreakerInv'
<1>1. BreakerInv
  BY Parts
<1> USE DEF BreakerInv, CountInv, FlagInv, ClosedIsHealthy, OpenAsksForOperator
<1>2. ASSUME NEW c \in Callers, Hop(c) PROVE BreakerInv'
  <2>1. CASE Allow(c)
    BY <1>1, <2>1 DEF Allow
  <2>2. CASE Shed(c)
    BY <1>1, <2>2 DEF Shed
  <2>3. CASE PoolRejects(c) \/ Finish(c) \/ GiveUp(c)
    BY <1>1, <2>3, RecordsPreserve DEF PoolRejects, Finish, GiveUp
  <2>4. CASE TakeSlot(c) \/ SlotBusy(c) \/ Timeout(c)
    BY <1>1, <2>4 DEF TakeSlot, SlotBusy, Timeout, circuit
  <2> QED
    BY <1>2, <2>1, <2>2, <2>3, <2>4 DEF Hop
<1>3. ASSUME NEW c \in Callers, JobStarts(c) \/ JobEnds(c) PROVE BreakerInv'
  BY <1>1, <1>3 DEF JobStarts, JobEnds, circuit
<1>4. CASE OrphanEnds
  BY <1>1, <1>4 DEF OrphanEnds, circuit
<1>5. CASE RequestRestart
  BY <1>1, <1>5 DEF RequestRestart
<1>6. ASSUME NEW healthy \in BOOLEAN, RecordRestart(healthy) PROVE BreakerInv'
  <2>1. CountInv'
    BY <1>1, <1>6, Bounds DEF RecordRestart
  <2>2. FlagInv'
    BY <1>1, <1>6 DEF RecordRestart
  <2> QED
    BY <2>1, <2>2
<1>7. CASE UNCHANGED vars
  BY <1>1, <1>7 DEF vars
<1> QED
  BY <1>2, <1>3, <1>4, <1>5, <1>6, <1>7 DEF Next

-----------------------------------------------------------------------------
(* The work in the pool is finite.                                         *)
LEMMA BusyIsFinite == IsFiniteSet(Busy) /\ Cardinality(Busy) \in Nat
<1>1. Busy \subseteq Callers
  BY DEF Busy
<1> QED
  BY <1>1, CircuitAssumption, FS_Subset, FS_CardinalityType

(* Work that leaves the pool leaves one request less in it, work that is   *)
(* queued adds at most one, and a thread that takes it changes nothing.    *)
LEMMA BusyCounts ==
  ASSUME NEW c \in Callers, NEW to, PoolInv, job' = [job EXCEPT ![c] = to]
  PROVE  Cardinality(Busy') =
           IF to \in {"queued", "running"}
           THEN IF c \in Busy THEN Cardinality(Busy) ELSE Cardinality(Busy) + 1
           ELSE IF c \in Busy THEN Cardinality(Busy) - 1 ELSE Cardinality(Busy)
<1>1. to \in {"queued", "running"} => Busy' = Busy \cup {c}
  BY DEF Busy, PoolInv
<1>2. to \notin {"queued", "running"} => Busy' = Busy \ {c}
  BY DEF Busy, PoolInv
<1>3. Cardinality(Busy \cup {c}) = IF c \in Busy THEN Cardinality(Busy) ELSE Cardinality(Busy) + 1
  BY BusyIsFinite, FS_AddElement
<1>4. Cardinality(Busy \ {c}) = IF c \in Busy THEN Cardinality(Busy) - 1 ELSE Cardinality(Busy)
  BY BusyIsFinite, FS_RemoveElement
<1> QED
  BY <1>1, <1>2, <1>3, <1>4

(* Every step leaves the slots right: a request gives its slot back once,  *)
(* when it ends, and an orphan takes the place of the work it was.         *)
LEMMA PoolStep ==
  ASSUME IInv, [Next]_vars
  PROVE  PoolInv'
<1>1. PoolInv
  BY Parts
<1>2. Cardinality(Busy) \in Nat /\ Cardinality(Busy) + orphans <= Slots - free
  BY <1>1, BusyIsFinite DEF PoolInv, SingleFlight
<1>3. \A c \in Callers : c \in Busy <=> job[c] \in {"queued", "running"}
  BY DEF Busy
<1>4. ASSUME job' = job PROVE Busy' = Busy
  BY <1>4 DEF Busy
<1>5. \A c \in Callers : c \in Busy => Cardinality(Busy) > 0
  BY <1>2, BusyIsFinite, FS_EmptySet
<1> USE Bounds DEF PoolInv, SingleFlight
<1>6. ASSUME NEW c \in Callers, Hop(c) PROVE PoolInv'
  <2>1. CASE Allow(c) \/ Shed(c) \/ SlotBusy(c) \/ PoolRejects(c) \/ Timeout(c)
    BY <1>1, <1>2, <1>4, <2>1 DEF Allow, Shed, SlotBusy, PoolRejects, Timeout
  <2>2. CASE TakeSlot(c)
    <3>1. Cardinality(Busy') \in {Cardinality(Busy), Cardinality(Busy) + 1}
      BY <1>1, <2>2, BusyCounts DEF TakeSlot
    <3> QED
      BY <1>1, <1>2, <2>2, <3>1 DEF TakeSlot
  <2>3. CASE Finish(c)
    <3>1. job' = [job EXCEPT ![c] = "none"]
      BY <2>3 DEF Finish
    <3>2. Cardinality(Busy') = IF c \in Busy THEN Cardinality(Busy) - 1 ELSE Cardinality(Busy)
      BY <1>1, <3>1, BusyCounts
    <3>3. c \notin Busy
      BY <1>3, <2>3 DEF Finish
    <3> QED
      BY <1>1, <1>2, <2>3, <3>2, <3>3 DEF Finish
  <2>4. CASE GiveUp(c)
    <3>1. job' = [job EXCEPT ![c] = "none"]
      BY <2>4 DEF GiveUp
    <3>2. Cardinality(Busy') = IF c \in Busy THEN Cardinality(Busy) - 1 ELSE Cardinality(Busy)
      BY <1>1, <3>1, BusyCounts
    <3>3. orphans' = IF job[c] = "running" THEN orphans + 1 ELSE orphans
      BY <2>4 DEF GiveUp
    <3>4. Cardinality(Busy') + orphans' <= Cardinality(Busy) + orphans /\ Cardinality(Busy') \in Nat
      BY <1>1, <1>2, <1>3, <1>5, <3>2, <3>3
    <3> QED
      BY <1>1, <1>2, <2>4, <3>3, <3>4 DEF GiveUp
  <2> QED
    BY <1>6, <2>1, <2>2, <2>3, <2>4 DEF Hop
<1>7. ASSUME NEW c \in Callers, JobStarts(c) PROVE PoolInv'
  <2>1. Cardinality(Busy') = Cardinality(Busy)
    BY <1>1, <1>3, <1>7, BusyCounts DEF JobStarts
  <2> QED
    BY <1>1, <1>2, <1>7, <2>1 DEF JobStarts
<1>8. ASSUME NEW c \in Callers, JobEnds(c) PROVE PoolInv'
  <2>1. Cardinality(Busy') = Cardinality(Busy) - 1 /\ Cardinality(Busy) > 0
    BY <1>1, <1>3, <1>5, <1>8, BusyCounts DEF JobEnds
  <2> QED
    BY <1>1, <1>2, <1>8, <2>1 DEF JobEnds
<1>9. CASE OrphanEnds
  BY <1>1, <1>2, <1>4, <1>9 DEF OrphanEnds
<1>10. CASE RequestRestart \/ \E healthy \in BOOLEAN : RecordRestart(healthy)
  BY <1>1, <1>2, <1>4, <1>10 DEF RequestRestart, RecordRestart
<1>11. CASE UNCHANGED vars
  BY <1>1, <1>2, <1>4, <1>11 DEF vars
<1> QED
  BY <1>6, <1>7, <1>8, <1>9, <1>10, <1>11 DEF Next

(* Every step leaves a hop without submitted work with none in the pool.   *)
LEMMA WorkStep ==
  ASSUME IInv, [Next]_vars
  PROVE  WorkInv'
<1>1. PoolInv /\ WorkInv
  BY Parts
<1> USE DEF PoolInv, WorkInv
<1>2. ASSUME NEW c \in Callers, Hop(c) PROVE WorkInv'
  <2>1. CASE Allow(c) \/ Shed(c) \/ SlotBusy(c) \/ PoolRejects(c) \/ Timeout(c)
    BY <1>1, <2>1 DEF Allow, Shed, SlotBusy, PoolRejects, Timeout, Admitted
  <2>2. CASE TakeSlot(c) \/ Finish(c) \/ GiveUp(c)
    BY <1>1, <2>2 DEF TakeSlot, Finish, GiveUp
  <2> QED
    BY <1>2, <2>1, <2>2 DEF Hop
<1>3. ASSUME NEW c \in Callers, JobStarts(c) \/ JobEnds(c) PROVE WorkInv'
  BY <1>1, <1>3 DEF JobStarts, JobEnds
<1>4. CASE OrphanEnds \/ RequestRestart \/ \E healthy \in BOOLEAN : RecordRestart(healthy)
  BY <1>1, <1>4 DEF OrphanEnds, RequestRestart, RecordRestart
<1>5. CASE UNCHANGED vars
  BY <1>1, <1>5 DEF vars
<1> QED
  BY <1>2, <1>3, <1>4, <1>5 DEF Next

-----------------------------------------------------------------------------
(* The invariant holds in every reachable state.                           *)
LEMMA Invariance == Spec => []IInv
<1>1. IInv /\ [Next]_vars => IInv'
  <2> SUFFICES ASSUME IInv, [Next]_vars PROVE IInv'
    OBVIOUS
  <2>1. BreakerInv' /\ PoolInv' /\ WorkInv'
    BY BreakerStep, PoolStep, WorkStep
  <2> QED
    BY <2>1 DEF IInv, BreakerInv, CountInv, FlagInv, PoolInv, TypeOK
<1> QED
  BY InitInv, <1>1, PTL DEF Spec

(* The semaphore, the breaker and the hops stay within their ranges: no    *)
(* slot is released twice.                                                 *)
THEOREM TypeCorrect == Spec => []TypeOK
<1>1. IInv => TypeOK
  BY DEF IInv
<1> QED
  BY <1>1, Invariance, PTL

(* No more requests run on the model than it has slots, orphans included.  *)
THEOREM OrphansKeepTheirSlot == Spec => []SingleFlight
<1>1. IInv => SingleFlight
  BY DEF IInv
<1> QED
  BY <1>1, Invariance, PTL

(* The breaker is not open in silence, in whatever order hops end and the  *)
(* operator acts.                                                          *)
THEOREM OpenIsAnnounced == Spec => []OpenAsksForOperator
<1>1. IInv => OpenAsksForOperator
  BY DEF IInv
<1> QED
  BY <1>1, Invariance, PTL

(* Nor is it closed over its threshold.                                    *)
THEOREM ClosedUnderThreshold == Spec => []ClosedIsHealthy
<1>1. IInv => ClosedIsHealthy
  BY DEF IInv
<1> QED
  BY <1>1, Invariance, PTL

-----------------------------------------------------------------------------
(* A report that clears the flag of the probe takes the circuit out of     *)
(* half open in the same step; only the operator clears it and leaves it   *)
(* half open.                                                              *)
THEOREM SecondProbeNeedsOperator == Spec => OneProbePerRestart
<1> DEFINE Cleared == state = "HALF_OPEN" /\ probing /\ state' = "HALF_OPEN" /\ ~probing'
<1>1. ASSUME [Next]_vars, Cleared PROVE RecordRestart(TRUE)
  <2>1. ASSUME NEW c \in Callers, Hop(c) PROVE FALSE
    <3>1. CASE Allow(c) \/ Shed(c) \/ TakeSlot(c) \/ SlotBusy(c) \/ Timeout(c)
      BY <1>1, <3>1 DEF Allow, Shed, TakeSlot, SlotBusy, Timeout, circuit
    <3>2. CASE PoolRejects(c) \/ Finish(c) \/ GiveUp(c)
      <4>1. RecordSuccess \/ RecordFailure
        BY <3>2 DEF PoolRejects, Finish, GiveUp
      <4> QED
        BY <1>1, <4>1 DEF RecordSuccess, RecordFailure
    <3> QED
      BY <2>1, <3>1, <3>2 DEF Hop
  <2>2. ASSUME NEW c \in Callers, JobStarts(c) \/ JobEnds(c) PROVE FALSE
    BY <1>1, <2>2 DEF JobStarts, JobEnds, circuit
  <2>3. ~OrphanEnds /\ ~RequestRestart /\ ~RecordRestart(FALSE) /\ vars' # vars
    BY <1>1 DEF OrphanEnds, RequestRestart, RecordRestart, circuit, vars
  <2>4. \E healthy \in BOOLEAN : RecordRestart(healthy)
    BY <1>1, <2>1, <2>2, <2>3 DEF Next
  <2> QED
    BY <2>3, <2>4
<1>2. [Next]_vars => [Cleared => RecordRestart(TRUE)]_vars
  BY <1>1
<1> QED
  BY <1>2, PTL DEF Spec, OneProbePerRestart

-----------------------------------------------------------------------------
(* One step of the pool: what leaves a slot makes it free, or is an orphan *)
(* in it, or was cancelled before it started.                              *)
LEMMA AccountStep ==
  ASSUME IInv, [Next]_vars
  PROVE  \/ Accounted' = Accounted
         \/ /\ Accounted' = Accounted - 1
            /\ \E c \in Callers : CancelledUnstarted(c) /\ GiveUp(c)
<1>1. PoolInv /\ WorkInv
  BY Parts
<1>2. Cardinality(Busy) \in Nat /\ free \in Int /\ orphans \in Int
  BY <1>1, Bounds, BusyIsFinite DEF PoolInv
<1>3. \A c \in Callers : c \in Busy <=> job[c] \in {"queued", "running"}
  BY DEF Busy
<1>4. ASSUME job' = job PROVE Cardinality(Busy') = Cardinality(Busy)
  BY <1>4 DEF Busy
<1> USE DEF Accounted
<1>5. ASSUME NEW c \in Callers, Hop(c)
      PROVE  \/ Accounted' = Accounted
             \/ Accounted' = Accounted - 1 /\ CancelledUnstarted(c) /\ GiveUp(c)
  <2>1. CASE Allow(c) \/ Shed(c) \/ SlotBusy(c) \/ PoolRejects(c) \/ Timeout(c)
    BY <1>4, <2>1 DEF Allow, Shed, SlotBusy, PoolRejects, Timeout
  <2>2. CASE TakeSlot(c)
    <3>1. job' = [job EXCEPT ![c] = "queued"] /\ free' = free - 1 /\ orphans' = orphans
      BY <2>2 DEF TakeSlot
    <3>2. c \in Busy \/ Cardinality(Busy') = Cardinality(Busy) + 1
      BY <1>1, <3>1, BusyCounts
    <3>3. c \notin Busy
      BY <1>1, <1>3, <2>2 DEF TakeSlot, Admitted, WorkInv
    <3> QED
      BY <1>2, <3>1, <3>2, <3>3
  <2>3. CASE Finish(c)
    <3>1. job' = [job EXCEPT ![c] = "none"] /\ free' = free /\ orphans' = orphans
      BY <2>3 DEF Finish
    <3>2. Cardinality(Busy') = IF c \in Busy THEN Cardinality(Busy) - 1 ELSE Cardinality(Busy)
      BY <1>1, <3>1, BusyCounts
    <3>3. c \notin Busy
      BY <1>3, <2>3 DEF Finish
    <3> QED
      BY <1>2, <3>1, <3>2, <3>3
  <2>4. CASE GiveUp(c)
    <3>1. /\ job' = [job EXCEPT ![c] = "none"]
          /\ free' = free
          /\ orphans' = IF job[c] = "running" THEN orphans + 1 ELSE orphans
          /\ pc[c] \in {"timed_out", "probe_timed_out"}
      BY <2>4 DEF GiveUp
    <3>2. Cardinality(Busy') = IF c \in Busy THEN Cardinality(Busy) - 1 ELSE Cardinality(Busy)
      BY <1>1, <3>1, BusyCounts
    <3>3. CASE job[c] = "running"
      BY <1>2, <1>3, <3>1, <3>2, <3>3
    <3>4. CASE job[c] = "queued"
      BY <1>2, <1>3, <2>4, <3>1, <3>2, <3>4 DEF CancelledUnstarted
    <3>5. CASE job[c] \notin {"queued", "running"}
      BY <1>2, <1>3, <3>1, <3>2, <3>5
    <3> QED
      BY <3>3, <3>4, <3>5
  <2> QED
    BY <1>5, <2>1, <2>2, <2>3, <2>4 DEF Hop
<1>6. ASSUME NEW c \in Callers, JobStarts(c) PROVE Accounted' = Accounted
  <2>1. job' = [job EXCEPT ![c] = "running"] /\ free' = free /\ orphans' = orphans /\ c \in Busy
    BY <1>3, <1>6 DEF JobStarts
  <2>2. Cardinality(Busy') = Cardinality(Busy)
    BY <1>1, <2>1, BusyCounts
  <2> QED
    BY <1>2, <2>1, <2>2
<1>7. ASSUME NEW c \in Callers, JobEnds(c) PROVE Accounted' = Accounted
  <2>1. PICK result \in {"returned", "raised"} : job' = [job EXCEPT ![c] = result]
    BY <1>7 DEF JobEnds
  <2>2. c \in Busy /\ free' = free + 1 /\ orphans' = orphans
    BY <1>3, <1>7 DEF JobEnds
  <2>3. Cardinality(Busy') = Cardinality(Busy) - 1
    BY <1>1, <2>1, <2>2, BusyCounts
  <2> QED
    BY <1>2, <2>2, <2>3
<1>8. CASE OrphanEnds
  BY <1>2, <1>4, <1>8 DEF OrphanEnds
<1>9. CASE RequestRestart \/ \E healthy \in BOOLEAN : RecordRestart(healthy)
  BY <1>4, <1>9 DEF RequestRestart, RecordRestart
<1>10. CASE UNCHANGED vars
  BY <1>4, <1>10 DEF vars
<1> QED
  BY <1>5, <1>6, <1>7, <1>8, <1>9, <1>10 DEF Next

(* A slot is lost in one way only, whatever number of hops use however     *)
(* many slots.                                                             *)
THEOREM SlotsOnlyLostByCancelling == Spec => SlotsAccountedFor
<1>1. IInv /\ [Next]_vars
        => [\/ Accounted' = Accounted
            \/ /\ Accounted' = Accounted - 1
               /\ \E c \in Callers : CancelledUnstarted(c) /\ GiveUp(c)]_vars
  BY AccountStep
<1> QED
  BY <1>1, Invariance, PTL DEF Spec, SlotsAccountedFor

-----------------------------------------------------------------------------
(* How far the two violated properties of the breaker go.                  *)

InFlight == {c \in Callers : pc[c] # "idle"}

(* While the circuit is open no hop is admitted, and it leaves that state  *)
(* by the operator's restart or by the success of a hop that is in flight, *)
(* and so was admitted before.                                             *)
OpenDrains ==
  [][state = "OPEN" =>
       /\ InFlight' \subseteq InFlight
       /\ \/ state' = "OPEN"
          \/ state' = "CLOSED" /\ \E c \in InFlight : Finish(c) /\ job[c] = "returned"
          \/ RecordRestart(TRUE)]_vars

(* The late results that refute OpenDoesNotAutoClose are used up: once the *)
(* hops that were in flight have ended, only the operator opens the way.   *)
THEOREM OpenLetsNobodyIn == Spec => OpenDrains
<1> DEFINE Leaves == \/ state' = "OPEN"
                     \/ state' = "CLOSED" /\ \E c \in InFlight : Finish(c) /\ job[c] = "returned"
                     \/ RecordRestart(TRUE)
<1>1. ASSUME TypeOK, [Next]_vars, state = "OPEN" PROVE InFlight' \subseteq InFlight /\ Leaves
  <2>1. ASSUME pc' = pc PROVE InFlight' \subseteq InFlight
    BY <2>1 DEF InFlight
  <2>2. ASSUME NEW c \in Callers, NEW place,
               pc' = [pc EXCEPT ![c] = place], place = "idle" \/ pc[c] # "idle"
        PROVE  InFlight' \subseteq InFlight
    BY <1>1, <2>2 DEF InFlight, TypeOK
  <2>3. ASSUME NEW c \in Callers, Hop(c) PROVE InFlight' \subseteq InFlight /\ Leaves
    <3>1. ~Allow(c)
      BY <1>1 DEF Allow
    <3>2. CASE Shed(c)
      BY <1>1, <2>1, <3>2 DEF Shed
    <3>3. CASE TakeSlot(c)
      BY <1>1, <2>2, <3>3 DEF TakeSlot, Admitted, circuit
    <3>4. CASE SlotBusy(c)
      BY <1>1, <2>2, <3>4 DEF SlotBusy, circuit
    <3>5. CASE Timeout(c)
      BY <1>1, <2>2, <3>5 DEF Timeout, Waiting, circuit
    <3>6. CASE PoolRejects(c) \/ GiveUp(c)
      <4>1. RecordFailure /\ pc' = [pc EXCEPT ![c] = "idle"]
        BY <3>6 DEF PoolRejects, GiveUp
      <4> QED
        BY <1>1, <2>2, <4>1 DEF RecordFailure
    <3>7. CASE Finish(c)
      <4>1. pc' = [pc EXCEPT ![c] = "idle"] /\ c \in InFlight
        BY <3>7 DEF Finish, Waiting, InFlight
      <4>2. (job[c] = "returned" /\ RecordSuccess) \/ RecordFailure
        BY <3>7 DEF Finish
      <4>3. Leaves
        BY <1>1, <3>7, <4>1, <4>2 DEF RecordSuccess, RecordFailure
      <4> QED
        BY <2>2, <4>1, <4>3
    <3> QED
      BY <2>3, <3>1, <3>2, <3>3, <3>4, <3>5, <3>6, <3>7 DEF Hop
  <2>4. ASSUME NEW c \in Callers, JobStarts(c) \/ JobEnds(c) PROVE InFlight' \subseteq InFlight /\ Leaves
    BY <1>1, <2>1, <2>4 DEF JobStarts, JobEnds, circuit
  <2>5. CASE OrphanEnds \/ RequestRestart \/ UNCHANGED vars
    BY <1>1, <2>1, <2>5 DEF OrphanEnds, RequestRestart, circuit, vars
  <2>6. ASSUME NEW healthy \in BOOLEAN, RecordRestart(healthy)
        PROVE  InFlight' \subseteq InFlight /\ Leaves
    <3>1. pc' = pc
      BY <2>6 DEF RecordRestart
    <3>2. CASE healthy = TRUE
      BY <2>1, <2>6, <3>1, <3>2
    <3>3. CASE healthy = FALSE
      BY <2>1, <2>6, <3>1, <3>3 DEF RecordRestart
    <3> QED
      BY <3>2, <3>3
  <2> QED
    BY <1>1, <2>3, <2>4, <2>5, <2>6 DEF Next
<1>2. TypeOK /\ [Next]_vars => [state = "OPEN" => InFlight' \subseteq InFlight /\ Leaves]_vars
  BY <1>1
<1> QED
  BY <1>2, TypeCorrect, PTL DEF Spec, OpenDrains

(* The half-open circuit comes to wait for a probe nobody runs in one way  *)
(* only: the probe found the slot busy.                                    *)
ProbeLostToBusySlot ==
  [][HalfOpenHasProbe /\ ~HalfOpenHasProbe' =>
       \E c \in Callers : pc[c] = "probe" /\ SlotBusy(c)]_vars

(* No other end of a hop, no order of late results and no record of the    *)
(* operator strands the circuit in the state that refutes HalfOpenHasProbe.*)
THEOREM StuckInOneWay == Spec => ProbeLostToBusySlot
<1> DEFINE Stuck == state = "HALF_OPEN" /\ probing /\ \A c \in Callers : ~Probe(c)
           Lost == \E c \in Callers : pc[c] = "probe" /\ SlotBusy(c)
<1>1. HalfOpenHasProbe <=> ~Stuck
  BY DEF HalfOpenHasProbe
<1>2. HalfOpenHasProbe' <=> ~Stuck'
  BY DEF HalfOpenHasProbe
<1>3. ASSUME TypeOK, [Next]_vars, ~Stuck, Stuck' PROVE Lost
  <2>0. state' = "HALF_OPEN" /\ probing' = TRUE /\ \A d \in Callers : ~Probe(d)'
    BY <1>3 DEF TypeOK
  <2>1. ASSUME UNCHANGED circuit,
               \A d \in Callers : Probe(d) => Probe(d)'
        PROVE  FALSE
    BY <1>3, <2>1 DEF circuit
  <2>2. ~RecordSuccess /\ ~RecordFailure
    BY <2>0 DEF RecordSuccess, RecordFailure
  <2>3. ASSUME NEW c \in Callers, NEW place, UNCHANGED circuit,
               pc' = [pc EXCEPT ![c] = place],
               Probe(c) => place \in {"probe", "probe_waiting", "probe_timed_out"}
        PROVE  FALSE
    <3>1. \A d \in Callers : Probe(d) => Probe(d)'
      BY <1>3, <2>3 DEF TypeOK, Probe
    <3> QED
      BY <2>1, <2>3, <3>1
  <2>4. ASSUME NEW c \in Callers, Hop(c) PROVE Lost
    <3>1. CASE Allow(c)
      <4>1. CASE state = "CLOSED"
        BY <2>0, <3>1, <4>1 DEF Allow
      <4>2. CASE state # "CLOSED"
        <5>1. pc'[c] = "probe"
          BY <1>3, <3>1, <4>2 DEF Allow, TypeOK
        <5> QED
          BY <2>0, <5>1 DEF Probe
      <4> QED
        BY <4>1, <4>2
    <3>2. CASE Shed(c)
      BY <2>0, <3>2 DEF Shed
    <3>3. CASE TakeSlot(c)
      BY <2>3, <3>3 DEF TakeSlot, Admitted, Probe
    <3>4. CASE SlotBusy(c)
      <4>1. CASE pc[c] = "probe"
        BY <3>4, <4>1
      <4>2. CASE pc[c] # "probe"
        BY <2>3, <3>4, <4>2 DEF SlotBusy, Admitted, Probe
      <4> QED
        BY <4>1, <4>2
    <3>5. CASE Timeout(c)
      BY <2>3, <3>5 DEF Timeout, Waiting, Probe
    <3>6. CASE PoolRejects(c) \/ Finish(c) \/ GiveUp(c)
      BY <2>2, <3>6 DEF PoolRejects, Finish, GiveUp
    <3> QED
      BY <2>4, <3>1, <3>2, <3>3, <3>4, <3>5, <3>6 DEF Hop
  <2>5. ASSUME NEW c \in Callers, JobStarts(c) \/ JobEnds(c) PROVE FALSE
    BY <2>1, <2>5 DEF JobStarts, JobEnds, Probe
  <2>6. ~OrphanEnds /\ vars' # vars
    BY <2>1 DEF OrphanEnds, vars, circuit, Probe
  <2>7. ~RequestRestart /\ \A healthy \in BOOLEAN : ~RecordRestart(healthy)
    BY <2>0 DEF RequestRestart, RecordRestart
  <2> QED
    BY <1>3, <2>4, <2>5, <2>6, <2>7 DEF Next
<1>4. TypeOK /\ [Next]_vars => [HalfOpenHasProbe /\ ~HalfOpenHasProbe' => Lost]_vars
  BY <1>1, <1>2, <1>3
<1> QED
  BY <1>4, TypeCorrect, PTL DEF Spec, ProbeLostToBusySlot
=============================================================================
