--------------------------- MODULE ChatStreamProofs ---------------------------
(***************************************************************************)
(* For any number of turns and calls, and any size of the pool: a stream   *)
(* that ended has sent one terminal event, as its last one.                *)
(*                                                                         *)
(* The argument is about the trail of a turn, the events sent followed by  *)
(* the events in the bridge: only the worker changes it, at its end, and   *)
(* the generator moves the border between the two parts.                   *)
(*                                                                         *)
(* The same trail gives the refinement of EventStream: what a client sees  *)
(* is a stream that ends once.                                             *)
(***************************************************************************)
EXTENDS ChatStream, CanonicalLoopProofs, SequenceTheorems, TLAPS

Events == {"progress", "terminal", "closed"}

(* The trail of a turn.                                                    *)
Total(s) == Len(sent[s]) + Len(bridge[s])
Item(s, i) == IF i <= Len(sent[s]) THEN sent[s][i] ELSE bridge[s][i - Len(sent[s])]
Plain(s, n) == \A i \in 1..n : Item(s, i) = "progress"

(* The trail is progress, then the terminal event, then the sentinel; the  *)
(* sentinel is in the bridge until the stream ends.                        *)
Shape(s) ==
  /\ client[s] \in {"draining", "ended"} => turn[s] = "done"
  /\ turn[s] \notin {"published", "done"} => Plain(s, Total(s))
  /\ turn[s] = "published" =>
       /\ Total(s) >= 1
       /\ Item(s, Total(s)) = "terminal"
       /\ Plain(s, Total(s) - 1)
  /\ turn[s] = "done" /\ client[s] # "ended" =>
       /\ Len(bridge[s]) >= 1
       /\ Total(s) >= 2
       /\ Item(s, Total(s)) = "closed"
       /\ Item(s, Total(s) - 1) = "terminal"
       /\ Plain(s, Total(s) - 2)
  /\ client[s] = "ended" =>
       /\ Len(sent[s]) >= 1
       /\ sent[s][Len(sent[s])] = "terminal"
       /\ \A i \in 1..Len(sent[s]) - 1 : sent[s][i] = "progress"

(* The types of what a stream adds to the loop.                            *)
OwnTypeOK ==
  /\ turn \in [Streams -> {"queued", "running", "calling", "called", "published", "done"}]
  /\ bridge \in [Streams -> Seq({"progress", "terminal", "closed"})]
  /\ sent \in [Streams -> Seq({"progress", "terminal"})]
  /\ client \in [Streams -> {"polling", "checking", "draining", "ended"}]

StreamInv == OwnTypeOK /\ \A s \in Streams : Shape(s)

-----------------------------------------------------------------------------
(* Positions in a trail whose parts have the lengths n and m.              *)
LEMMA Positions ==
  ASSUME NEW n \in Nat, NEW m \in Nat
  PROVE  /\ \A i \in 1..n + m : ~(i <= n) => i - n \in 1..m
         /\ \A i \in 1..n + m : i > n + 1 =>
              /\ ~(i <= n) /\ ~(i <= n + 1)
              /\ i - (n + 1) \in 1..m - 1
              /\ (i - (n + 1)) + 1 = i - n
         /\ \A i \in 1..n + m : i <= n => i <= n + 1 /\ i \in 1..n
         /\ \A i \in 1..n + m : i <= n \/ i = n + 1 \/ i > n + 1
         /\ \A i \in Nat \ {0} : \A k : k = n + m + i => ~(k <= n) /\ k - n = m + i
         /\ ~(n + 1 <= n) /\ (n + 1) - n = 1 /\ n + 1 + (m - 1) = n + m
OBVIOUS

(* What stands where when a list is put behind another.                    *)
LEMMA Joined ==
  ASSUME NEW S, NEW list \in Seq(S), NEW more \in Seq(S)
  PROVE  /\ list \o more \in Seq(S)
         /\ Len(list) \in Nat /\ Len(more) \in Nat
         /\ Len(list \o more) = Len(list) + Len(more)
         /\ \A i \in 1..Len(list) : (list \o more)[i] = list[i]
         /\ \A i \in 1..Len(more) : (list \o more)[Len(list) + i] = more[i]
BY ConcatProperties, LenProperties

(* The worker lengthens the trail of its turn and of no other.             *)
LEMMA Enqueued ==
  ASSUME OwnTypeOK, NEW s \in Streams, turn[s] # "done",
         NEW events \in Seq(Events), Enqueue(s, events), UNCHANGED sent
  PROVE  /\ bridge' \in [Streams -> Seq({"progress", "terminal", "closed"})]
         /\ \A r \in Streams : r # s => bridge'[r] = bridge[r]
         /\ Total(s) \in Nat /\ Len(bridge[s]) \in Nat /\ Len(events) \in Nat
         /\ Len(bridge'[s]) = Len(bridge[s]) + Len(events)
         /\ Total(s)' = Total(s) + Len(events)
         /\ \A i \in 1..Total(s) : Item(s, i)' = Item(s, i)
         /\ \A i \in 1..Len(events) : \A k : k = Total(s) + i => Item(s, k)' = events[i]
<1> DEFINE m == Len(bridge[s])
           n == Len(sent[s])
<1>0. bridge[s] \in Seq(Events) /\ sent[s] \in Seq({"progress", "terminal"})
  BY DEF OwnTypeOK, Events
<1>1. n \in Nat /\ m \in Nat /\ Len(events) \in Nat
  BY <1>0, LenProperties
<1>2. bridge' = [bridge EXCEPT ![s] = bridge[s] \o events]
  BY DEF Enqueue
<1>3. /\ bridge[s] \o events \in Seq(Events)
      /\ Len(bridge[s] \o events) = m + Len(events)
      /\ \A i \in 1..m : (bridge[s] \o events)[i] = bridge[s][i]
      /\ \A i \in 1..Len(events) : (bridge[s] \o events)[m + i] = events[i]
  BY <1>0, Joined
<1>4. bridge'[s] = bridge[s] \o events
  BY <1>2 DEF OwnTypeOK
<1>5. bridge' \in [Streams -> Seq({"progress", "terminal", "closed"})]
  BY <1>2, <1>3 DEF OwnTypeOK, Events
<1>6. \A r \in Streams : r # s => bridge'[r] = bridge[r]
  BY <1>2 DEF OwnTypeOK
<1>7. Total(s) = n + m /\ Total(s)' = n + (m + Len(events))
  BY <1>3, <1>4 DEF Total
<1>8. \A i \in 1..Total(s) : Item(s, i)' = Item(s, i)
  <2> SUFFICES ASSUME NEW i \in 1..Total(s) PROVE Item(s, i)' = Item(s, i)
    OBVIOUS
  <2>1. CASE i <= n
    BY <2>1 DEF Item
  <2>2. CASE ~(i <= n)
    <3>1. i - n \in 1..m
      BY <2>2, <1>1, <1>7, Positions
    <3> QED
      BY <2>2, <3>1, <1>3, <1>4 DEF Item
  <2> QED
    BY <2>1, <2>2
<1>9. \A i \in 1..Len(events) : \A k : k = Total(s) + i => Item(s, k)' = events[i]
  <2> SUFFICES ASSUME NEW i \in 1..Len(events), NEW k, k = Total(s) + i
               PROVE  Item(s, k)' = events[i]
    OBVIOUS
  <2>1. ~(k <= n) /\ k - n = m + i
    <3> HIDE DEF n, m
    <3>1. \A l \in Nat : \A p \in 1..l : p \in Nat \ {0}
      OBVIOUS
    <3>2. i \in Nat \ {0}
      BY <3>1, <1>1
    <3>3. Total(s) = n + m
      BY <1>7
    <3>4. k = n + m + i
      BY <3>3
    <3> QED
      BY <3>2, <3>4, <1>1, Positions
  <2>2. Item(s, k)' = bridge'[s][m + i]
    BY <2>1 DEF Item
  <2> QED
    BY <2>2, <1>3, <1>4
<1>10. /\ Len(bridge'[s]) = Len(bridge[s]) + Len(events)
       /\ Total(s) \in Nat
       /\ Total(s)' = Total(s) + Len(events)
  <2>1. \A a, b, c \in Nat : a + (b + c) = a + b + c /\ a + b \in Nat
    OBVIOUS
  <2>2. n + (m + Len(events)) = n + m + Len(events) /\ n + m \in Nat
    <3> DEFINE l == Len(events)
    <3> HIDE DEF n, m, l
    <3>1. n \in Nat /\ m \in Nat /\ l \in Nat
      BY <1>1 DEF l
    <3>2. n + (m + l) = n + m + l /\ n + m \in Nat
      BY <2>1, <3>1
    <3> QED
      BY <3>2 DEF l
  <2> QED
    BY <2>2, <1>3, <1>4, <1>7
<1> QED
  BY <1>1, <1>5, <1>6, <1>8, <1>9, <1>10

(* The same for one event.                                                 *)
LEMMA EnqueuedOne ==
  ASSUME OwnTypeOK, NEW s \in Streams, turn[s] # "done",
         NEW event \in Events, Enqueue(s, <<event>>), UNCHANGED sent
  PROVE  /\ bridge' \in [Streams -> Seq({"progress", "terminal", "closed"})]
         /\ \A r \in Streams : r # s => bridge'[r] = bridge[r]
         /\ Total(s) \in Nat /\ Len(bridge[s]) \in Nat
         /\ Len(bridge'[s]) = Len(bridge[s]) + 1
         /\ Total(s)' = Total(s) + 1
         /\ \A i \in 1..Total(s) : Item(s, i)' = Item(s, i)
         /\ \A k : k = Total(s) + 1 => Item(s, k)' = event
<1> DEFINE events == <<event>>
<1>1. events \in Seq(Events) /\ Len(events) = 1 /\ events[1] = event
  OBVIOUS
<1>2. /\ bridge' \in [Streams -> Seq({"progress", "terminal", "closed"})]
      /\ \A r \in Streams : r # s => bridge'[r] = bridge[r]
      /\ Total(s) \in Nat /\ Len(bridge[s]) \in Nat
      /\ Len(bridge'[s]) = Len(bridge[s]) + Len(events)
      /\ Total(s)' = Total(s) + Len(events)
      /\ \A i \in 1..Total(s) : Item(s, i)' = Item(s, i)
      /\ \A i \in 1..Len(events) : \A k : k = Total(s) + i => Item(s, k)' = events[i]
  BY <1>1, Enqueued
<1>3. 1 \in 1..Len(events)
  BY <1>1
<1> QED
  BY <1>1, <1>2, <1>3

(* The generator moves the border of the trail by one.                     *)
LEMMA Delivered ==
  ASSUME OwnTypeOK, NEW s \in Streams, bridge[s] # <<>>, Head(bridge[s]) # "closed",
         Deliver(s)
  PROVE  /\ bridge' \in [Streams -> Seq({"progress", "terminal", "closed"})]
         /\ sent' \in [Streams -> Seq({"progress", "terminal"})]
         /\ \A r \in Streams : r # s => bridge'[r] = bridge[r] /\ sent'[r] = sent[r]
         /\ Len(sent[s]) \in Nat /\ Len(bridge[s]) \in Nat /\ Total(s) \in Nat
         /\ Len(bridge'[s]) = Len(bridge[s]) - 1
         /\ Total(s)' = Total(s)
         /\ \A i \in 1..Total(s) : Item(s, i)' = Item(s, i)
         /\ Item(s, Len(sent[s]) + 1) = Head(bridge[s])
         /\ Len(bridge[s]) > 0
<1> DEFINE m == Len(bridge[s])
           n == Len(sent[s])
           sending == {"progress", "terminal"}
<1>0. bridge[s] \in Seq(Events) /\ sent[s] \in Seq(sending)
  BY DEF OwnTypeOK, Events
<1>1. /\ Tail(bridge[s]) \in Seq(Events)
      /\ m \in Nat /\ m > 0
      /\ Len(Tail(bridge[s])) = m - 1
      /\ \A i \in 1..m - 1 : Tail(bridge[s])[i] = bridge[s][i + 1]
      /\ Head(bridge[s]) = bridge[s][1]
      /\ Head(bridge[s]) \in Events
  BY <1>0, HeadTailProperties, EmptySeq, LenProperties
<1>2. Head(bridge[s]) \in sending
  BY <1>1 DEF Events
<1>3. /\ Append(sent[s], Head(bridge[s])) \in Seq(sending)
      /\ n \in Nat
      /\ Len(Append(sent[s], Head(bridge[s]))) = n + 1
      /\ \A i \in 1..n : Append(sent[s], Head(bridge[s]))[i] = sent[s][i]
      /\ Append(sent[s], Head(bridge[s]))[n + 1] = Head(bridge[s])
  BY <1>0, <1>2, AppendProperties, LenProperties
<1>4. /\ sent' = [sent EXCEPT ![s] = Append(sent[s], Head(bridge[s]))]
      /\ bridge' = [bridge EXCEPT ![s] = Tail(bridge[s])]
  BY DEF Deliver
<1>5. sent'[s] = Append(sent[s], Head(bridge[s])) /\ bridge'[s] = Tail(bridge[s])
  BY <1>4 DEF OwnTypeOK
<1>6. /\ bridge' \in [Streams -> Seq({"progress", "terminal", "closed"})]
      /\ sent' \in [Streams -> Seq({"progress", "terminal"})]
      /\ \A r \in Streams : r # s => bridge'[r] = bridge[r] /\ sent'[r] = sent[r]
  BY <1>1, <1>3, <1>4 DEF OwnTypeOK, Events
<1>7. Total(s) = n + m /\ Total(s)' = n + 1 + (m - 1)
  BY <1>1, <1>3, <1>5 DEF Total
<1>8. \A i \in 1..Total(s) : Item(s, i)' = Item(s, i)
  <2> SUFFICES ASSUME NEW i \in 1..Total(s) PROVE Item(s, i)' = Item(s, i)
    OBVIOUS
  <2>0. Len(sent'[s]) = n + 1
    BY <1>3, <1>5
  <2>1. CASE i <= n
    <3>1. i <= n + 1 /\ i \in 1..n
      BY <2>1, <1>3, <1>1, <1>7
    <3>2. Item(s, i)' = sent'[s][i]
      BY <2>0, <3>1 DEF Item
    <3> QED
      BY <2>1, <3>1, <3>2, <1>3, <1>5 DEF Item
  <2>2. CASE i = n + 1
    <3>1. ~(i <= n) /\ i - n = 1
      BY <2>2, <1>3
    <3>2. Item(s, i)' = sent'[s][n + 1]
      BY <2>0, <2>2, <1>3 DEF Item
    <3> QED
      BY <3>1, <3>2, <1>1, <1>3, <1>5 DEF Item
  <2>3. CASE i > n + 1
    <3>1. /\ ~(i <= n) /\ ~(i <= n + 1)
          /\ i - (n + 1) \in 1..m - 1
          /\ (i - (n + 1)) + 1 = i - n
      <4> HIDE DEF n, m
      <4>1. n \in Nat /\ m \in Nat /\ i \in 1..n + m
        BY <1>1, <1>3, <1>7
      <4> QED
        BY <4>1, <2>3, Positions
    <3>2. Item(s, i)' = Tail(bridge[s])[i - (n + 1)]
      BY <2>0, <3>1, <1>5 DEF Item
    <3> QED
      BY <3>1, <3>2, <1>1 DEF Item
  <2> QED
    BY <2>1, <2>2, <2>3, <1>1, <1>3, <1>7, Positions
<1>9. Item(s, n + 1) = Head(bridge[s])
  <2>1. ~(n + 1 <= n) /\ (n + 1) - n = 1
    BY <1>3
  <2> QED
    BY <2>1, <1>1 DEF Item
<1>10. /\ Len(bridge'[s]) = Len(bridge[s]) - 1
       /\ Total(s) \in Nat
       /\ Total(s)' = Total(s)
  <2>1. n + 1 + (m - 1) = n + m /\ n + m \in Nat
    <3> HIDE DEF n, m
    <3> QED
      BY <1>1, <1>3, Positions
  <2> QED
    BY <2>1, <1>1, <1>5, <1>7
<1> QED
  BY <1>1, <1>3, <1>6, <1>8, <1>9, <1>10

-----------------------------------------------------------------------------
(* The initial states satisfy the invariant.                               *)
LEMMA StreamInitInv == ASSUME StreamInit PROVE StreamInv
<1>1. OwnTypeOK
  BY EmptySeq DEF StreamInit, OwnTypeOK
<1>2. ASSUME NEW s \in Streams PROVE Shape(s)
  <2>1. /\ Len(sent[s]) = 0 /\ Len(bridge[s]) = 0
        /\ turn[s] = "queued" /\ client[s] = "polling"
    BY EmptySeq DEF StreamInit
  <2>2. Total(s) = 0
    BY <2>1 DEF Total
  <2> QED
    BY <2>1, <2>2 DEF Shape, Plain
<1> QED
  BY <1>1, <1>2 DEF StreamInv

(* The shape of a trail depends on the turn's own variables.               *)
LEMMA ShapeKept ==
  ASSUME NEW s \in Streams, Shape(s),
         turn'[s] = turn[s], bridge'[s] = bridge[s], sent'[s] = sent[s], client'[s] = client[s]
  PROVE  Shape(s)'
BY DEF Shape, Plain, Total, Item

(* The worker's steps that publish nothing: the trail is plain before and  *)
(* after.                                                                  *)
LEMMA QuietPreserves ==
  ASSUME StreamInv, NEW s \in Streams, turn[s] \in {"queued", "running", "calling"},
         NEW state \in {"running", "calling", "called"}, Become(s, state),
         UNCHANGED <<bridge, sent, client>>
  PROVE  StreamInv'
<1>0. OwnTypeOK /\ \A r \in Streams : Shape(r)
  BY DEF StreamInv
<1>1. turn' = [turn EXCEPT ![s] = state]
  BY DEF Become
<1>2. OwnTypeOK'
  BY <1>0, <1>1 DEF OwnTypeOK
<1>3. Shape(s)'
  <2>1. turn'[s] = state
    BY <1>0, <1>1 DEF OwnTypeOK
  <2>2. Plain(s, Total(s)) /\ client[s] \notin {"draining", "ended"}
    BY <1>0 DEF Shape
  <2>3. Plain(s, Total(s))'
    BY <2>2 DEF Plain, Total, Item
  <2> QED
    BY <2>1, <2>2, <2>3 DEF Shape
<1>4. \A r \in Streams : r # s => Shape(r)'
  BY <1>0, <1>1, ShapeKept DEF OwnTypeOK
<1> QED
  BY <1>2, <1>3, <1>4 DEF StreamInv

(* Progress leaves the trail plain.                                        *)
LEMMA ProgressPreserves ==
  ASSUME StreamInv, NEW s \in Streams, Progress(s) PROVE StreamInv'
<1> DEFINE t == Total(s)
<1>0. OwnTypeOK /\ \A r \in Streams : Shape(r)
  BY DEF StreamInv
<1>1. /\ turn[s] \in {"running", "called"} /\ turn[s] # "done"
      /\ Enqueue(s, <<"progress">>)
      /\ UNCHANGED <<turn, sent, client>>
  BY DEF Progress
<1>3. /\ bridge' \in [Streams -> Seq({"progress", "terminal", "closed"})]
      /\ \A r \in Streams : r # s => bridge'[r] = bridge[r]
      /\ t \in Nat
      /\ Total(s)' = t + 1
      /\ \A i \in 1..t : Item(s, i)' = Item(s, i)
      /\ \A k : k = t + 1 => Item(s, k)' = "progress"
  BY <1>0, <1>1, EnqueuedOne DEF Events
<1>4. OwnTypeOK'
  BY <1>0, <1>1, <1>3 DEF OwnTypeOK
<1>5. Shape(s)'
  <2>1. Plain(s, t) /\ client[s] \notin {"draining", "ended"}
    BY <1>0, <1>1 DEF Shape
  <2>2. ASSUME NEW i \in 1..t + 1 PROVE Item(s, i)' = "progress"
    <3>1. i \in 1..t \/ i = t + 1
      <4> HIDE DEF t
      <4> QED
        BY <1>3
    <3> QED
      BY <3>1, <2>1, <1>3 DEF Plain
  <2>3. Plain(s, Total(s))'
    BY <2>2, <1>3 DEF Plain
  <2> QED
    BY <2>1, <2>3, <1>1 DEF Shape
<1>6. \A r \in Streams : r # s => Shape(r)'
  BY <1>0, <1>1, <1>3, ShapeKept
<1> QED
  BY <1>4, <1>5, <1>6 DEF StreamInv

(* Positions in a trail of t items that grows by one or two.               *)
LEMMA Growth ==
  ASSUME NEW t \in Nat
  PROVE  /\ \A i \in 1..t + 1 : i \in 1..t \/ i = t + 1
         /\ t + 1 >= 1 /\ (t + 1) - 1 = t /\ t + 2 >= 1 /\ (t + 2) - 1 = t + 1
         /\ t >= 1 => /\ t + 1 >= 2 /\ t \in 1..t /\ (t + 1) - 2 = t - 1
                      /\ \A i \in 1..t - 1 : i \in 1..t
OBVIOUS

(* The terminal event comes last, after the notice if there is one.        *)
LEMMA PublishPreserves ==
  ASSUME StreamInv, NEW s \in Streams, Publish(s) PROVE StreamInv'
<1> DEFINE t == Total(s)
<1>0. OwnTypeOK /\ \A r \in Streams : Shape(r)
  BY DEF StreamInv
<1>1. /\ turn[s] \in {"running", "called"} /\ turn[s] # "done"
      /\ turn' = [turn EXCEPT ![s] = "published"]
      /\ UNCHANGED <<sent, client>>
  BY DEF Publish, Become
<1>2. Plain(s, t) /\ client[s] \notin {"draining", "ended"}
  BY <1>0, <1>1 DEF Shape
<1>3. turn'[s] = "published"
  BY <1>0, <1>1 DEF OwnTypeOK
<1>4. /\ bridge' \in [Streams -> Seq({"progress", "terminal", "closed"})]
      /\ \A r \in Streams : r # s => bridge'[r] = bridge[r]
      /\ Total(s)' >= 1
      /\ Item(s, Total(s))' = "terminal"
      /\ Plain(s, Total(s) - 1)'
  <2>1. CASE Enqueue(s, <<"terminal">>)
    <3>1. /\ bridge' \in [Streams -> Seq({"progress", "terminal", "closed"})]
          /\ \A r \in Streams : r # s => bridge'[r] = bridge[r]
          /\ t \in Nat
          /\ Total(s)' = t + 1
          /\ \A i \in 1..t : Item(s, i)' = Item(s, i)
          /\ \A k : k = t + 1 => Item(s, k)' = "terminal"
      BY <1>0, <1>1, <2>1, EnqueuedOne DEF Events
    <3>2. t + 1 >= 1 /\ (t + 1) - 1 = t
      <4> HIDE DEF t
      <4> QED
        BY <3>1, Growth
    <3>3. Item(s, Total(s))' = "terminal"
      BY <3>1
    <3>4. Total(s)' - 1 = t
      BY <3>1, <3>2
    <3>5. Plain(s, Total(s) - 1)'
      BY <3>1, <3>4, <1>2 DEF Plain
    <3> QED
      BY <3>1, <3>2, <3>3, <3>5
  <2>2. CASE Enqueue(s, <<"progress", "terminal">>)
    <3> DEFINE events == <<"progress", "terminal">>
    <3>1. /\ events \in Seq(Events) /\ Len(events) = 2
          /\ events[1] = "progress" /\ events[2] = "terminal"
      BY DEF Events
    <3>2. /\ bridge' \in [Streams -> Seq({"progress", "terminal", "closed"})]
          /\ \A r \in Streams : r # s => bridge'[r] = bridge[r]
          /\ t \in Nat
          /\ Total(s)' = t + Len(events)
          /\ \A i \in 1..t : Item(s, i)' = Item(s, i)
          /\ \A i \in 1..Len(events) : \A k : k = t + i => Item(s, k)' = events[i]
      BY <1>0, <1>1, <2>2, <3>1, Enqueued
    <3>3. 1 \in 1..Len(events) /\ 2 \in 1..Len(events)
      BY <3>1
    <3>4. /\ Total(s)' = t + 2
          /\ \A k : k = t + 1 => Item(s, k)' = "progress"
          /\ \A k : k = t + 2 => Item(s, k)' = "terminal"
      BY <3>1, <3>2, <3>3
    <3>5. t + 2 >= 1 /\ (t + 2) - 1 = t + 1 /\ \A i \in 1..t + 1 : i \in 1..t \/ i = t + 1
      <4> HIDE DEF t
      <4> QED
        BY <3>2, Growth
    <3>6. Item(s, Total(s))' = "terminal"
      BY <3>4
    <3>7. Total(s)' - 1 = t + 1
      BY <3>4, <3>5
    <3>8. ASSUME NEW i \in 1..t + 1 PROVE Item(s, i)' = "progress"
      BY <3>2, <3>4, <3>5, <1>2 DEF Plain
    <3>9. Plain(s, Total(s) - 1)'
      BY <3>7, <3>8 DEF Plain
    <3> QED
      BY <3>2, <3>4, <3>5, <3>6, <3>9
  <2> QED
    BY <2>1, <2>2 DEF Publish, Endings
<1>5. OwnTypeOK'
  BY <1>0, <1>1, <1>4 DEF OwnTypeOK
<1>6. Shape(s)'
  BY <1>1, <1>2, <1>3, <1>4 DEF Shape
<1>7. \A r \in Streams : r # s => Shape(r)'
  BY <1>0, <1>1, <1>4, ShapeKept DEF OwnTypeOK
<1> QED
  BY <1>5, <1>6, <1>7 DEF StreamInv

(* The sentinel comes after the terminal event.                            *)
LEMMA ClosePreserves ==
  ASSUME StreamInv, NEW s \in Streams, Close(s) PROVE StreamInv'
<1> DEFINE t == Total(s)
           m == Len(bridge[s])
<1>0. OwnTypeOK /\ \A r \in Streams : Shape(r)
  BY DEF StreamInv
<1>1. /\ turn[s] = "published" /\ turn[s] # "done"
      /\ Enqueue(s, <<"closed">>)
      /\ turn' = [turn EXCEPT ![s] = "done"]
      /\ UNCHANGED <<sent, client>>
  BY DEF Close, Become
<1>2. /\ t >= 1 /\ Item(s, t) = "terminal" /\ Plain(s, t - 1)
      /\ client[s] \notin {"draining", "ended"}
  BY <1>0, <1>1 DEF Shape
<1>3. /\ bridge' \in [Streams -> Seq({"progress", "terminal", "closed"})]
      /\ \A r \in Streams : r # s => bridge'[r] = bridge[r]
      /\ t \in Nat /\ m \in Nat
      /\ Len(bridge'[s]) = m + 1
      /\ Total(s)' = t + 1
      /\ \A i \in 1..t : Item(s, i)' = Item(s, i)
      /\ \A k : k = t + 1 => Item(s, k)' = "closed"
  BY <1>0, <1>1, EnqueuedOne DEF Events
<1>4. /\ t + 1 >= 2 /\ t \in 1..t /\ (t + 1) - 1 = t /\ (t + 1) - 2 = t - 1
      /\ \A i \in 1..t - 1 : i \in 1..t
      /\ m + 1 >= 1
  <2> HIDE DEF t, m
  <2> QED
    BY <1>2, <1>3, Growth
<1>5. Total(s)' >= 2 /\ Total(s)' - 1 = t /\ Total(s)' - 2 = t - 1
  BY <1>3, <1>4
<1>6. Item(s, Total(s))' = "closed"
  BY <1>3
<1>7. Item(s, Total(s) - 1)' = "terminal"
  <2>1. \A k : k = t => Item(s, k)' = "terminal"
    BY <1>2, <1>3, <1>4
  <2> QED
    BY <2>1, <1>5
<1>8. Plain(s, Total(s) - 2)'
  BY <1>2, <1>3, <1>4, <1>5 DEF Plain
<1>9. OwnTypeOK'
  BY <1>0, <1>1, <1>3 DEF OwnTypeOK
<1>10. Shape(s)'
  <2>1. turn'[s] = "done" /\ Len(bridge'[s]) >= 1
    BY <1>0, <1>1, <1>3, <1>4 DEF OwnTypeOK
  <2> QED
    BY <2>1, <1>1, <1>2, <1>5, <1>6, <1>7, <1>8 DEF Shape
<1>11. \A r \in Streams : r # s => Shape(r)'
  BY <1>0, <1>1, <1>3, ShapeKept DEF OwnTypeOK
<1> QED
  BY <1>9, <1>10, <1>11 DEF StreamInv

(* Where the sentinel can stand in a trail of t items, n of them sent.     *)
LEMMA SentinelPositions ==
  ASSUME NEW n \in Nat, NEW m \in Nat, m > 0, NEW t \in Nat, t = n + m
  PROVE  /\ n + 1 \in 1..t /\ ~(n + 1 <= n) /\ (n + 1) - n = 1
         /\ n + 1 = t \/ n + 1 \in 1..t - 1
         /\ n + 1 = t \/ n + 1 = t - 1 \/ n + 1 \in 1..t - 2
         /\ n + 1 = t => m = 1 /\ t - 1 = n /\ t - 2 = n - 1
         /\ n + 1 = t /\ t >= 2 => n >= 1
         /\ n <= n /\ \A i \in 1..n - 1 : i <= n
OBVIOUS

(* When the generator meets the sentinel, all that came before was sent.   *)
LEMMA SentinelIsLast ==
  ASSUME OwnTypeOK, NEW s \in Streams, Shape(s), client[s] # "ended",
         bridge[s] # <<>>, Head(bridge[s]) = "closed"
  PROVE  /\ turn[s] = "done"
         /\ Tail(bridge[s]) = <<>>
         /\ Len(sent[s]) >= 1
         /\ sent[s][Len(sent[s])] = "terminal"
         /\ \A i \in 1..Len(sent[s]) - 1 : sent[s][i] = "progress"
<1> DEFINE m == Len(bridge[s])
           n == Len(sent[s])
           t == Total(s)
<1>0. bridge[s] \in Seq(Events) /\ sent[s] \in Seq({"progress", "terminal"})
  BY DEF OwnTypeOK, Events
<1>1. /\ n \in Nat /\ m \in Nat /\ m > 0
      /\ Tail(bridge[s]) \in Seq(Events)
      /\ Len(Tail(bridge[s])) = m - 1
      /\ Head(bridge[s]) = bridge[s][1]
  BY <1>0, HeadTailProperties, EmptySeq, LenProperties
<1>2. /\ n + 1 \in 1..t /\ ~(n + 1 <= n) /\ (n + 1) - n = 1
      /\ n + 1 = t \/ n + 1 \in 1..t - 1
      /\ n + 1 = t \/ n + 1 = t - 1 \/ n + 1 \in 1..t - 2
      /\ n + 1 = t => m = 1 /\ t - 1 = n /\ t - 2 = n - 1
      /\ n + 1 = t /\ t >= 2 => n >= 1
      /\ n <= n /\ \A i \in 1..n - 1 : i <= n
  <2>1. t = n + m
    BY DEF Total
  <2>2. n \in Nat /\ m \in Nat /\ m > 0
    BY <1>1
  <2> HIDE DEF n, m, t
  <2>3. t \in Nat
    BY <2>1, <2>2
  <2> QED
    BY <2>1, <2>2, <2>3, SentinelPositions
<1>3. Item(s, n + 1) = "closed"
  BY <1>1, <1>2 DEF Item
<1>4. turn[s] = "done"
  <2>1. ~Plain(s, t)
    <3>1. Plain(s, t) => Item(s, n + 1) = "progress"
      BY <1>2 DEF Plain
    <3> QED
      BY <3>1, <1>3
  <2>2. ASSUME Item(s, t) = "terminal", Plain(s, t - 1) PROVE FALSE
    <3>1. n + 1 # t
      BY <2>2, <1>3
    <3>2. Item(s, n + 1) = "progress"
      BY <3>1, <2>2, <1>2 DEF Plain
    <3> QED
      BY <3>2, <1>3
  <2> QED
    BY <2>1, <2>2 DEF Shape
<1>5. t >= 2 /\ Item(s, t - 1) = "terminal" /\ Plain(s, t - 2)
  BY <1>4 DEF Shape
<1>6. n + 1 = t
  <2>1. n + 1 # t - 1
    BY <1>3, <1>5
  <2>2. n + 1 \notin 1..t - 2
    BY <1>3, <1>5 DEF Plain
  <2> QED
    BY <2>1, <2>2, <1>2
<1>7. m = 1 /\ t - 1 = n /\ t - 2 = n - 1 /\ n >= 1
  BY <1>2, <1>5, <1>6
<1>8. Tail(bridge[s]) = <<>>
  <2>1. Len(Tail(bridge[s])) = 0
    BY <1>1, <1>7
  <2> QED
    BY <2>1, <1>1, EmptySeq
<1>9. sent[s][n] = "terminal"
  BY <1>2, <1>5, <1>7 DEF Item
<1>10. \A i \in 1..n - 1 : sent[s][i] = "progress"
  BY <1>2, <1>5, <1>7 DEF Plain, Item
<1> QED
  BY <1>4, <1>7, <1>8, <1>9, <1>10

(* A delivery leaves the trail as it is, and the sentinel in the bridge.   *)
LEMMA DeliverPreserves ==
  ASSUME StreamInv, NEW s \in Streams, client[s] # "ended",
         bridge[s] # <<>>, Head(bridge[s]) # "closed", Deliver(s), UNCHANGED <<turn, client>>
  PROVE  StreamInv'
<1> DEFINE t == Total(s)
<1>0. OwnTypeOK /\ \A r \in Streams : Shape(r)
  BY DEF StreamInv
<1>1. /\ bridge' \in [Streams -> Seq({"progress", "terminal", "closed"})]
      /\ sent' \in [Streams -> Seq({"progress", "terminal"})]
      /\ \A r \in Streams : r # s => bridge'[r] = bridge[r] /\ sent'[r] = sent[r]
      /\ Len(sent[s]) \in Nat /\ Len(bridge[s]) \in Nat /\ t \in Nat
      /\ Len(bridge'[s]) = Len(bridge[s]) - 1
      /\ Total(s)' = t
      /\ \A i \in 1..t : Item(s, i)' = Item(s, i)
      /\ Item(s, Len(sent[s]) + 1) = Head(bridge[s])
      /\ Len(bridge[s]) > 0
  BY <1>0, Delivered
<1>2. OwnTypeOK'
  BY <1>0, <1>1 DEF OwnTypeOK
<1>3. \A r \in Streams : r # s => Shape(r)'
  BY <1>0, <1>1, ShapeKept
<1>4. /\ t >= 1 => t \in 1..t
      /\ t >= 2 => t >= 1 /\ t - 1 \in 1..t
      /\ \A i \in 1..t - 1 : i \in 1..t
      /\ \A i \in 1..t - 2 : i \in 1..t
  <2> HIDE DEF t
  <2> QED
    BY <1>1
<1>5. Plain(s, t) => Plain(s, Total(s))'
  BY <1>1 DEF Plain
<1>6. t >= 1 /\ Item(s, t) = "terminal" /\ Plain(s, t - 1) =>
        Total(s)' >= 1 /\ Item(s, Total(s))' = "terminal" /\ Plain(s, Total(s) - 1)'
  <2> SUFFICES ASSUME t >= 1, Item(s, t) = "terminal", Plain(s, t - 1)
               PROVE  Total(s)' >= 1 /\ Item(s, Total(s))' = "terminal" /\ Plain(s, Total(s) - 1)'
    OBVIOUS
  <2>1. \A k : k = t => Item(s, k)' = "terminal"
    BY <1>1, <1>4
  <2>2. Total(s)' - 1 = t - 1
    BY <1>1
  <2>3. Plain(s, Total(s) - 1)'
    BY <2>2, <1>1, <1>4 DEF Plain
  <2> QED
    BY <2>1, <2>3, <1>1
<1>7. turn[s] = "done" =>
        /\ Len(bridge'[s]) >= 1
        /\ Total(s)' >= 2
        /\ Item(s, Total(s))' = "closed"
        /\ Item(s, Total(s) - 1)' = "terminal"
        /\ Plain(s, Total(s) - 2)'
  <2> SUFFICES ASSUME turn[s] = "done"
               PROVE  /\ Len(bridge'[s]) >= 1
                      /\ Total(s)' >= 2
                      /\ Item(s, Total(s))' = "closed"
                      /\ Item(s, Total(s) - 1)' = "terminal"
                      /\ Plain(s, Total(s) - 2)'
    OBVIOUS
  <2>1. t >= 2 /\ Item(s, t) = "closed" /\ Item(s, t - 1) = "terminal" /\ Plain(s, t - 2)
    BY <1>0 DEF Shape
  <2>2. Len(sent[s]) + 1 # t
    BY <2>1, <1>1
  <2>3. Len(bridge'[s]) >= 1
    <3> DEFINE n == Len(sent[s])
               m == Len(bridge[s])
    <3>1. t = n + m
      BY DEF Total
    <3>2. n \in Nat /\ m \in Nat /\ m > 0 /\ n + 1 # n + m
      BY <3>1, <2>2, <1>1
    <3>3. m - 1 >= 1
      <4> HIDE DEF n, m
      <4> QED
        BY <3>2
    <3> QED
      BY <3>3, <1>1
  <2>4. \A k : k = t => Item(s, k)' = "closed"
    BY <2>1, <1>1, <1>4
  <2>5. \A k : k = t - 1 => Item(s, k)' = "terminal"
    BY <2>1, <1>1, <1>4
  <2>6. Total(s)' - 1 = t - 1 /\ Total(s)' - 2 = t - 2
    BY <1>1
  <2>7. Plain(s, Total(s) - 2)'
    BY <2>1, <2>6, <1>1, <1>4 DEF Plain
  <2> QED
    BY <2>1, <2>3, <2>4, <2>5, <2>6, <2>7, <1>1
<1>8. Shape(s)'
  <2>1. /\ client[s] \in {"draining", "ended"} => turn[s] = "done"
        /\ turn[s] \notin {"published", "done"} => Plain(s, t)
        /\ turn[s] = "published" => t >= 1 /\ Item(s, t) = "terminal" /\ Plain(s, t - 1)
    BY <1>0 DEF Shape
  <2> QED
    BY <2>1, <1>5, <1>6, <1>7 DEF Shape
<1> QED
  BY <1>2, <1>3, <1>8 DEF StreamInv

(* The generator looks at the worker; it drains only when that is done.    *)
LEMMA LookPreserves ==
  ASSUME StreamInv, NEW s \in Streams, client[s] # "ended",
         NEW place \in {"polling", "checking", "draining"},
         place = "draining" => turn[s] = "done",
         Turns(s, place), UNCHANGED <<turn, bridge, sent>>
  PROVE  StreamInv'
<1>0. OwnTypeOK /\ \A r \in Streams : Shape(r)
  BY DEF StreamInv
<1>1. client' = [client EXCEPT ![s] = place]
  BY DEF Turns
<1>2. OwnTypeOK'
  BY <1>0, <1>1 DEF OwnTypeOK
<1>3. \A r \in Streams : r # s => Shape(r)'
  BY <1>0, <1>1, ShapeKept DEF OwnTypeOK
<1>4. Shape(s)'
  <2>1. client'[s] = place
    BY <1>0, <1>1 DEF OwnTypeOK
  <2>2. /\ Total(s)' = Total(s)
        /\ Item(s, Total(s))' = Item(s, Total(s))
        /\ Item(s, Total(s) - 1)' = Item(s, Total(s) - 1)
    BY DEF Total, Item
  <2>3. /\ Plain(s, Total(s))' <=> Plain(s, Total(s))
        /\ Plain(s, Total(s) - 1)' <=> Plain(s, Total(s) - 1)
        /\ Plain(s, Total(s) - 2)' <=> Plain(s, Total(s) - 2)
    BY DEF Plain, Total, Item
  <2> QED
    BY <1>0, <2>1, <2>2, <2>3 DEF Shape
<1> QED
  BY <1>2, <1>3, <1>4 DEF StreamInv

(* The stream ends at the sentinel, with all that came before it sent.     *)
LEMMA EndPreserves ==
  ASSUME StreamInv, NEW s \in Streams, client[s] # "ended",
         bridge[s] # <<>>, Head(bridge[s]) = "closed",
         Turns(s, "ended"), UNCHANGED turn,
         sent' \in [Streams -> Seq({"progress", "terminal"})],
         bridge' \in [Streams -> Seq({"progress", "terminal", "closed"})],
         \A r \in Streams : sent'[r] = sent[r] /\ (r # s => bridge'[r] = bridge[r])
  PROVE  StreamInv'
<1>0. OwnTypeOK /\ \A r \in Streams : Shape(r)
  BY DEF StreamInv
<1>1. client' = [client EXCEPT ![s] = "ended"]
  BY DEF Turns
<1>2. OwnTypeOK'
  BY <1>0, <1>1 DEF OwnTypeOK
<1>3. \A r \in Streams : r # s => Shape(r)'
  BY <1>0, <1>1, ShapeKept DEF OwnTypeOK
<1>4. /\ turn[s] = "done"
      /\ Len(sent[s]) >= 1
      /\ sent[s][Len(sent[s])] = "terminal"
      /\ \A i \in 1..Len(sent[s]) - 1 : sent[s][i] = "progress"
  BY <1>0, SentinelIsLast
<1>5. Shape(s)'
  <2>1. client'[s] = "ended" /\ turn'[s] = "done" /\ sent'[s] = sent[s]
    BY <1>0, <1>1, <1>4 DEF OwnTypeOK
  <2> QED
    BY <1>4, <2>1 DEF Shape
<1> QED
  BY <1>2, <1>3, <1>5 DEF StreamInv

(* The poll ends the stream at the sentinel, which stands last: nothing is *)
(* left to be drained.                                                     *)
LEMMA PollPreserves ==
  ASSUME StreamInv, NEW s \in Streams, Poll(s) PROVE StreamInv'
<1>0. OwnTypeOK /\ Shape(s)
  BY DEF StreamInv
<1>1. client[s] # "ended" /\ bridge[s] # <<>> /\ UNCHANGED turn
  BY DEF Poll
<1>2. CASE Head(bridge[s]) = "closed"
  <2>1. Finish(s) /\ Turns(s, "ended")
    BY <1>2 DEF Poll
  <2>2. Tail(bridge[s]) = <<>>
    BY <1>0, <1>1, <1>2, SentinelIsLast
  <2>3. sent[s] \in Seq({"progress", "terminal"})
    BY <1>0 DEF OwnTypeOK
  <2>4. sent[s] \o Tail(bridge[s]) = sent[s]
    BY <2>2, <2>3, ConcatEmptySeq
  <2>5. /\ sent' = [sent EXCEPT ![s] = sent[s] \o Tail(bridge[s])]
        /\ bridge' = [bridge EXCEPT ![s] = <<>>]
    BY <2>1 DEF Finish
  <2>6. /\ sent' \in [Streams -> Seq({"progress", "terminal"})]
        /\ \A r \in Streams : sent'[r] = sent[r]
    BY <1>0, <2>3, <2>4, <2>5 DEF OwnTypeOK
  <2>7. /\ bridge' \in [Streams -> Seq({"progress", "terminal", "closed"})]
        /\ \A r \in Streams : r # s => bridge'[r] = bridge[r]
    BY <1>0, <2>5, EmptySeq DEF OwnTypeOK
  <2> QED
    BY <1>1, <1>2, <2>1, <2>6, <2>7, EndPreserves
<1>3. CASE Head(bridge[s]) # "closed"
  BY <1>1, <1>3, DeliverPreserves DEF Poll
<1> QED
  BY <1>2, <1>3

(* A drain finds the sentinel: a worker that is done has closed the bridge.*)
LEMMA DrainPreserves ==
  ASSUME StreamInv, NEW s \in Streams, Drain(s) PROVE StreamInv'
<1>0. OwnTypeOK /\ Shape(s)
  BY DEF StreamInv
<1>1. client[s] = "draining" /\ UNCHANGED turn
  BY DEF Drain
<1>2. bridge[s] # <<>>
  <2>1. Len(bridge[s]) >= 1
    BY <1>0, <1>1 DEF Shape
  <2> QED
    BY <2>1, EmptySeq
<1>3. CASE Head(bridge[s]) = "closed"
  <2>1. Turns(s, "ended") /\ UNCHANGED <<bridge, sent>>
    BY <1>3 DEF Drain
  <2>2. /\ sent' \in [Streams -> Seq({"progress", "terminal"})]
        /\ bridge' \in [Streams -> Seq({"progress", "terminal", "closed"})]
    BY <1>0, <2>1 DEF OwnTypeOK
  <2> QED
    BY <1>1, <1>2, <1>3, <2>1, <2>2, EndPreserves
<1>4. CASE Head(bridge[s]) # "closed"
  <2>1. Deliver(s) /\ UNCHANGED client
    BY <1>2, <1>4 DEF Drain
  <2> QED
    BY <1>1, <1>2, <1>4, <2>1, DeliverPreserves
<1> QED
  BY <1>3, <1>4

(* The loop and the remediation requests touch nothing of a stream.        *)
LEMMA StreamsUntouched ==
  ASSUME StreamInv, UNCHANGED streamVars PROVE StreamInv'
BY DEF StreamInv, streamVars, OwnTypeOK, Shape, Plain, Total, Item

(* The invariant is inductive.                                             *)
LEMMA StreamNextInv == ASSUME StreamInv, [StreamNext]_allVars PROVE StreamInv'
<1>1. CASE UNCHANGED allVars
  BY <1>1, StreamsUntouched DEF allVars
<1>2. ASSUME NEW s \in Streams, Worker(s) PROVE StreamInv'
  <2>1. CASE TakeUp(s)
    BY <2>1, QuietPreserves DEF TakeUp
  <2>2. CASE CallOver(s)
    BY <2>2, QuietPreserves DEF CallOver
  <2>3. CASE Publish(s)
    BY <2>3, PublishPreserves
  <2>4. CASE Close(s)
    BY <2>4, ClosePreserves
  <2> QED
    BY <1>2, <2>1, <2>2, <2>3, <2>4 DEF Worker
<1>3. ASSUME NEW s \in Streams, Progress(s) PROVE StreamInv'
  BY <1>3, ProgressPreserves
<1>4. ASSUME NEW s \in Streams, MakeCall(s) PROVE StreamInv'
  BY <1>4, QuietPreserves DEF MakeCall
<1>5. ASSUME NEW s \in Streams, Generator(s) PROVE StreamInv'
  <2>1. CASE Poll(s)
    BY <2>1, PollPreserves
  <2>2. CASE PollTimesOut(s)
    BY <2>2, LookPreserves DEF PollTimesOut
  <2>3. CASE CheckWorker(s)
    BY <2>3, LookPreserves DEF CheckWorker
  <2>4. CASE Drain(s)
    BY <2>4, DrainPreserves
  <2> QED
    BY <1>5, <2>1, <2>2, <2>3, <2>4 DEF Generator
<1>6. CASE (\E c \in Calls \ Streams : Remediate(c)) \/ (\E c \in Calls : Serve(c))
  BY <1>6, StreamsUntouched DEF Remediate, Serve
<1> QED
  BY <1>1, <1>2, <1>3, <1>4, <1>5, <1>6 DEF StreamNext

(* What the invariant says of a stream that ended.                         *)
LEMMA EndedInv == ASSUME StreamInv PROVE EndsWithOneTerminal
<1> SUFFICES ASSUME NEW s \in Streams, client[s] = "ended"
             PROVE  {i \in 1..Len(sent[s]) : sent[s][i] = "terminal"} = {Len(sent[s])}
  BY DEF EndsWithOneTerminal
<1> DEFINE n == Len(sent[s])
<1>1. /\ n >= 1
      /\ sent[s][n] = "terminal"
      /\ \A i \in 1..n - 1 : sent[s][i] = "progress"
  BY DEF StreamInv, Shape
<1>2. n \in Nat
  BY LenProperties DEF StreamInv, OwnTypeOK
<1>3. n \in 1..n /\ \A i \in 1..n : i = n \/ i \in 1..n - 1
  <2> HIDE DEF n
  <2> QED
    BY <1>1, <1>2
<1> QED
  BY <1>1, <1>3

-----------------------------------------------------------------------------
(* The shape of the trails holds in every reachable state.                 *)
THEOREM StreamInvariance == StreamSpec => []StreamInv
<1>1. StreamInit => StreamInv
  BY StreamInitInv
<1>2. StreamInv /\ [StreamNext]_allVars => StreamInv'
  BY StreamNextInv
<1> QED
  BY <1>1, <1>2, PTL DEF StreamSpec

(* A stream that ended has sent one terminal event, as its last one.       *)
THEOREM StreamsEndOnce == StreamSpec => []EndsWithOneTerminal
<1>1. StreamInv => EndsWithOneTerminal
  BY EndedInv
<1> QED
  BY <1>1, StreamInvariance, PTL

(* The chat service uses the loop as CanonicalLoop says: every step is one *)
(* of the loop or leaves it alone.                                         *)
THEOREM StreamUsesLoop == StreamSpec => LoopSpec
<1>1. StreamInit => LoopInit
  BY DEF StreamInit
<1>2. [StreamNext]_allVars => [LoopNext]_loopVars
  <2> SUFFICES ASSUME [StreamNext]_allVars PROVE [LoopNext]_loopVars
    OBVIOUS
  <2>1. CASE UNCHANGED allVars
    BY <2>1 DEF allVars
  <2>2. ASSUME NEW s \in Streams, Worker(s) \/ Progress(s) \/ Generator(s)
        PROVE  UNCHANGED loopVars
    BY <2>2 DEF Worker, TakeUp, CallOver, Publish, Close, Progress,
                Generator, Poll, PollTimesOut, CheckWorker, Drain
  <2>3. ASSUME NEW s \in Streams, MakeCall(s) PROVE LoopNext
    BY <2>3 DEF MakeCall, LoopNext
  <2>4. CASE \E c \in Calls \ Streams : Remediate(c)
    BY <2>4 DEF Remediate, LoopNext
  <2>5. CASE \E c \in Calls : Serve(c)
    BY <2>5 DEF Serve, LoopNext
  <2> QED
    BY <2>1, <2>2, <2>3, <2>4, <2>5 DEF StreamNext
<1> QED
  BY <1>1, <1>2, PTL DEF StreamSpec, LoopSpec

(* In the chat service too, a call that persists its events at once        *)
(* executes for nobody.                                                    *)
THEOREM StreamSelfWaits == StreamSpec => []SelfWaitLosesCaller
<1>1. LoopSpec => []SelfWaitLosesCaller
  BY SelfWaitsLoseCallers
<1> QED
  BY <1>1, StreamUsesLoop, PTL

(* In the chat service too, an answered caller has a committed result.     *)
THEOREM StreamAnswersAreStored == StreamSpec => []AnsweredIsStored
<1>1. LoopSpec => []AnsweredIsStored
  BY AnswersAreStored
<1> QED
  BY <1>1, StreamUsesLoop, PTL

(* The variables of the chat service keep their types.                     *)
THEOREM StreamTypeCorrect == StreamSpec => []StreamTypeOK
<1>1. LoopSpec => []LoopTypeOK
  BY LoopTypeCorrect
<1>2. LoopTypeOK /\ StreamInv => StreamTypeOK
  BY DEF StreamInv, OwnTypeOK, StreamTypeOK
<1> QED
  BY <1>1, <1>2, StreamUsesLoop, StreamInvariance, PTL

-----------------------------------------------------------------------------
(* Refinement of EventStream: what a client has received is what was sent, *)
(* and its stream is closed when the generator has ended.                  *)

(* Where the last event sent stands in a trail that goes on behind it.     *)
LEMMA LastSentPositions ==
  ASSUME NEW n \in Nat, NEW m \in Nat, NEW t, t = n + m, m > 0, n >= 1
  PROVE  /\ n \in 1..t /\ n \in 1..t - 1 /\ n <= n
         /\ n = t - 1 \/ n \in 1..t - 2
         /\ n = t - 1 => n + 1 = t
         /\ ~(n + 1 <= n) /\ (n + 1) - n = 1
OBVIOUS

(* While an event waits in the bridge the client has not been answered:    *)
(* the terminal event stands behind all that was sent.                     *)
LEMMA NotYetAnswered ==
  ASSUME OwnTypeOK, NEW s \in Streams, Shape(s), client[s] # "ended",
         bridge[s] # <<>>, Head(bridge[s]) # "closed"
  PROVE  ~Client!Answered(s)
<1> DEFINE n == Len(sent[s])
           m == Len(bridge[s])
           t == Total(s)
<1>0. bridge[s] \in Seq(Events) /\ sent[s] \in Seq({"progress", "terminal"})
  BY DEF OwnTypeOK, Events
<1>1. n \in Nat /\ m \in Nat /\ m > 0 /\ Head(bridge[s]) = bridge[s][1]
  BY <1>0, HeadTailProperties, EmptySeq, LenProperties
<1> SUFFICES ASSUME sent[s] # <<>> PROVE sent[s][n] = "progress"
  BY DEF Client!Answered
<1>2. n >= 1
  <2>1. n # 0
    BY <1>0, EmptySeq
  <2> HIDE DEF n
  <2> QED
    BY <2>1, <1>1
<1>3. /\ n \in 1..t /\ n \in 1..t - 1 /\ n <= n
      /\ n = t - 1 \/ n \in 1..t - 2
      /\ n = t - 1 => n + 1 = t
      /\ ~(n + 1 <= n) /\ (n + 1) - n = 1
  <2>1. t = n + m
    BY DEF Total
  <2>2. n \in Nat /\ m \in Nat /\ m > 0 /\ n >= 1
    BY <1>1, <1>2
  <2> HIDE DEF n, m, t
  <2> QED
    BY <2>1, <2>2, LastSentPositions
<1>4. Item(s, n) = sent[s][n]
  BY <1>3 DEF Item
<1>5. CASE turn[s] \notin {"published", "done"}
  BY <1>3, <1>4, <1>5 DEF Shape, Plain
<1>6. CASE turn[s] = "published"
  BY <1>3, <1>4, <1>6 DEF Shape, Plain
<1>7. CASE turn[s] = "done"
  <2>1. Item(s, t) = "closed" /\ Plain(s, t - 2)
    BY <1>7 DEF Shape
  <2>2. n + 1 # t
    <3>1. Item(s, n + 1) = Head(bridge[s])
      BY <1>1, <1>3 DEF Item
    <3> QED
      BY <3>1, <2>1
  <2>3. n \in 1..t - 2
    BY <2>2, <1>3
  <2> QED
    BY <2>1, <2>3, <1>4 DEF Plain
<1> QED
  BY <1>5, <1>6, <1>7

(* An event taken from the bridge is received behind the others, by a      *)
(* client that has no answer yet.                                          *)
LEMMA DeliverReceives ==
  ASSUME StreamInv, NEW s \in Streams, client[s] # "ended",
         bridge[s] # <<>>, Head(bridge[s]) # "closed", Deliver(s), UNCHANGED client
  PROVE  Client!Next
<1>0. OwnTypeOK /\ Shape(s)
  BY DEF StreamInv
<1>1. Head(bridge[s]) \in {"progress"} \cup {"terminal"}
  <2>1. bridge[s] \in Seq(Events)
    BY <1>0 DEF OwnTypeOK, Events
  <2>2. Head(bridge[s]) \in Events
    BY <2>1, HeadTailProperties
  <2> QED
    BY <2>2 DEF Events
<1>2. ~Client!Answered(s)
  BY <1>0, NotYetAnswered
<1>3. Client!Receive(s, Head(bridge[s]))
  BY <1>2 DEF Client!Receive, Deliver
<1> QED
  BY <1>1, <1>3 DEF Client!Next

(* The sentinel is found by a client that has its answer, as the last      *)
(* event it has.                                                           *)
LEMMA EndCloses ==
  ASSUME StreamInv, NEW s \in Streams, client[s] # "ended",
         bridge[s] # <<>>, Head(bridge[s]) = "closed", Turns(s, "ended"), UNCHANGED sent
  PROVE  Client!Next
<1> DEFINE closed == [r \in Streams |-> client[r] = "ended"]
<1>0. OwnTypeOK /\ Shape(s)
  BY DEF StreamInv
<1>1. Len(sent[s]) >= 1 /\ sent[s][Len(sent[s])] = "terminal"
  BY <1>0, SentinelIsLast
<1>2. Client!Answered(s)
  <2>1. sent[s] # <<>>
    BY <1>1, EmptySeq
  <2> QED
    BY <2>1, <1>1 DEF Client!Answered
<1>3. ~closed[s]
  OBVIOUS
<1>4. closed' = [closed EXCEPT ![s] = TRUE]
  <2>1. client' = [client EXCEPT ![s] = "ended"]
    BY DEF Turns
  <2>2. \A r \in Streams : (client'[r] = "ended") = IF r = s THEN TRUE ELSE client[r] = "ended"
    BY <2>1, <1>0 DEF OwnTypeOK
  <2> QED
    BY <2>2
<1>5. Client!Close(s)
  BY <1>2, <1>3, <1>4 DEF Client!Close
<1> QED
  BY <1>5 DEF Client!Next

(* The initial states map to initial states.                               *)
LEMMA ClientInit == ASSUME StreamInit PROVE Client!Init
BY DEF StreamInit, Client!Init

(* What the generator takes from the bridge is received, the sentinel      *)
(* closes the stream, and every other step is invisible to the client.     *)
LEMMA ClientStep ==
  ASSUME StreamInv, [StreamNext]_allVars
  PROVE  [Client!Next]_<<sent, [s \in Streams |-> client[s] = "ended"]>>
<1> DEFINE closed == [s \in Streams |-> client[s] = "ended"]
<1> SUFFICES ASSUME ~ (sent' = sent /\ closed' = closed) PROVE Client!Next
  OBVIOUS
<1>0. OwnTypeOK /\ \A r \in Streams : Shape(r)
  BY DEF StreamInv
<1>1. ASSUME UNCHANGED <<sent, client>> PROVE FALSE
  BY <1>1
<1>2. ASSUME NEW s \in Streams, Worker(s) \/ Progress(s) \/ MakeCall(s) PROVE Client!Next
  <2>1. UNCHANGED <<sent, client>>
    BY <1>2 DEF Worker, TakeUp, CallOver, Publish, Close, Progress, MakeCall
  <2> QED
    BY <2>1, <1>1
<1>3. ASSUME NEW s \in Streams, Poll(s) PROVE Client!Next
  <2>1. client[s] # "ended" /\ bridge[s] # <<>>
    BY <1>3 DEF Poll
  <2>2. CASE Head(bridge[s]) = "closed"
    <3>1. Finish(s) /\ Turns(s, "ended")
      BY <1>3, <2>2 DEF Poll
    <3>2. Tail(bridge[s]) = <<>>
      BY <1>0, <2>1, <2>2, SentinelIsLast
    <3>3. sent[s] \in Seq({"progress", "terminal"})
      BY <1>0 DEF OwnTypeOK
    <3>4. sent[s] \o Tail(bridge[s]) = sent[s]
      BY <3>2, <3>3, ConcatEmptySeq
    <3>5. UNCHANGED sent
      BY <3>1, <3>4, <1>0 DEF Finish, OwnTypeOK
    <3> QED
      BY <2>1, <2>2, <3>1, <3>5, EndCloses
  <2>3. CASE Head(bridge[s]) # "closed"
    BY <1>3, <2>1, <2>3, DeliverReceives DEF Poll
  <2> QED
    BY <2>2, <2>3
<1>4. ASSUME NEW s \in Streams, Drain(s) PROVE Client!Next
  <2>1. client[s] # "ended" /\ bridge[s] # <<>>
    <3>1. client[s] = "draining"
      BY <1>4 DEF Drain
    <3>2. Len(bridge[s]) >= 1
      BY <3>1, <1>0 DEF Shape
    <3> QED
      BY <3>1, <3>2, EmptySeq
  <2>2. CASE Head(bridge[s]) = "closed"
    BY <1>4, <2>1, <2>2, EndCloses DEF Drain
  <2>3. CASE Head(bridge[s]) # "closed"
    BY <1>4, <2>1, <2>3, DeliverReceives DEF Drain
  <2> QED
    BY <2>2, <2>3
<1>5. ASSUME NEW s \in Streams, PollTimesOut(s) \/ CheckWorker(s) PROVE FALSE
  <2>1. UNCHANGED sent
    BY <1>5 DEF PollTimesOut, CheckWorker
  <2>2. client[s] # "ended"
    BY <1>5 DEF PollTimesOut, CheckWorker
  <2>3. PICK place \in {"polling", "checking", "draining"} : Turns(s, place)
    BY <1>5 DEF PollTimesOut, CheckWorker
  <2>4. client' = [client EXCEPT ![s] = place]
    BY <2>3 DEF Turns
  <2>5. \A r \in Streams : (client'[r] = "ended") = (client[r] = "ended")
    BY <2>2, <2>4, <1>0 DEF OwnTypeOK
  <2> QED
    BY <2>1, <2>5
<1>6. ASSUME (\E c \in Calls \ Streams : Remediate(c)) \/ (\E c \in Calls : Serve(c)) PROVE FALSE
  BY <1>6, <1>1 DEF Remediate, Serve, streamVars
<1>7. CASE UNCHANGED allVars
  BY <1>7, <1>1 DEF allVars, streamVars
<1> QED
  BY <1>2, <1>3, <1>4, <1>5, <1>6, <1>7 DEF StreamNext, Generator

(* Every client is given what EventStream promises, whatever the two       *)
(* threads of its turn, the pool and the loop do: its events stay, nothing *)
(* comes behind the answer, and the stream is not closed before it.        *)
THEOREM ClientsKeepTheirPromise == StreamSpec => ClientPromiseSpec
<1> USE DEF ClientPromiseSpec, Client!Spec
<1>1. StreamInit => Client!Init
  BY ClientInit
<1>2. StreamInv /\ [StreamNext]_allVars =>
        [Client!Next]_<<sent, [s \in Streams |-> client[s] = "ended"]>>
  BY ClientStep
<1> QED
  BY <1>1, <1>2, StreamInvariance, PTL DEF StreamSpec

(* What is proved of the loop holds under the streams: one coroutine on    *)
(* the thread, no execution of a step with a committed result, and no wait *)
(* without a time limit or with one that is put back.                      *)
THEOREM StreamInheritsLoop ==
  StreamSpec => /\ []OneHoldsThread
                /\ []StoredIsNotExecuted
                /\ []WaitsHaveLimits
                /\ NoWaitIsProlonged
BY StreamUsesLoop, ThreadIsNotShared, ExecutesUnstoredOnly, NobodyWaitsWithoutLimit,
   WaitsAreNotProlonged, PTL
=============================================================================
