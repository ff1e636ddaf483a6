------------------------- MODULE CanonicalLoopProofs -------------------------
(***************************************************************************)
(* For any number of calls and steps: a call whose events are persisted at *)
(* once executes when its caller has already left, and an answered caller  *)
(* has a committed result.                                                 *)
(*                                                                         *)
(* The first needs the order of the time limits: that of the caller stands *)
(* before that of the event, so when the event's runs out no limit of the  *)
(* caller is ahead, and a caller that waits always has one ahead.          *)
(*                                                                         *)
(* Further down: the coroutines of the loop exclude one another, and every *)
(* wait has a limit that nothing prolongs.                                 *)
(***************************************************************************)
EXTENDS CanonicalLoop, SequenceTheorems, TLAPS

Waits == EventWaits \cup FailureWaits
Limits == Calls \X {"call", "event"}

(* A caller has not begun, waits or has been told before its coroutine is  *)
(* done, and is answered only by that.                                     *)
CallerInv ==
  \A c \in Calls : /\ caller[c] = "idle" => spot[c] = "none"
                   /\ caller[c] \in {"answered", "raised"} => spot[c] = "done"

(* A waiting caller has a time limit ahead.                                *)
WaitingListed ==
  \A c \in Calls :
    caller[c] = "waiting" => \E i \in 1..Len(deadlines) : deadlines[i] = <<c, "call">>

(* The time limit of an event is that of a coroutine waiting for itself,   *)
(* and there is one of them.                                               *)
EventListed ==
  \A c \in Calls : \A i \in 1..Len(deadlines) :
    deadlines[i] = <<c, "event">> => spot[c] \in Waits

EventOnce ==
  \A c \in Calls : \A i, j \in 1..Len(deadlines) :
    deadlines[i] = <<c, "event">> /\ deadlines[j] = <<c, "event">> => i = j

(* The limit of the caller runs out before that of its event.              *)
CallFirst ==
  \A c \in Calls : \A i, j \in 1..Len(deadlines) :
    deadlines[i] = <<c, "call">> /\ deadlines[j] = <<c, "event">> => i < j

ListInv == WaitingListed /\ EventListed /\ EventOnce /\ CallFirst

IInv == LoopTypeOK /\ CallerInv /\ ListInv /\ SelfWaitLosesCaller /\ AnsweredIsStored

-----------------------------------------------------------------------------
(* What stands where in a list that grows at its end.                      *)
LEMMA Appended ==
  ASSUME NEW S, NEW list \in Seq(S), NEW e \in S
  PROVE  /\ Append(list, e) \in Seq(S)
         /\ Len(Append(list, e)) = Len(list) + 1
         /\ \A i \in 1..Len(list) : Append(list, e)[i] = list[i]
         /\ Append(list, e)[Len(list) + 1] = e
BY AppendProperties

(* What stands where in a list that loses its head.                        *)
LEMMA Shortened ==
  ASSUME NEW S, NEW list \in Seq(S), list # <<>>
  PROVE  /\ Tail(list) \in Seq(S)
         /\ Len(list) \in Nat /\ Len(list) > 0
         /\ Len(Tail(list)) = Len(list) - 1
         /\ \A i \in 1..Len(Tail(list)) : Tail(list)[i] = list[i + 1]
         /\ Head(list) = list[1]
BY HeadTailProperties, EmptySeq, LenProperties

(* The limits are a sequence of pairs.                                     *)
LEMMA Typed == ASSUME LoopTypeOK PROVE deadlines \in Seq(Limits) /\ Len(deadlines) \in Nat
BY LenProperties DEF LoopTypeOK, Limits

(* The initial states satisfy the invariant.                               *)
LEMMA InitInv == ASSUME LoopInit PROVE IInv
<1>1. Len(deadlines) = 0 /\ deadlines \in Seq(Calls \X {"call", "event"})
  BY EmptySeq DEF LoopInit
<1>2. LoopTypeOK
  BY <1>1 DEF LoopInit, LoopTypeOK, Spots
<1>3. CallerInv /\ SelfWaitLosesCaller /\ AnsweredIsStored
  BY DEF LoopInit, CallerInv, SelfWaitLosesCaller, AnsweredIsStored, FailureWaits
<1>4. ListInv
  BY <1>1 DEF LoopInit, ListInv, WaitingListed, EventListed, EventOnce, CallFirst
<1> QED
  BY <1>2, <1>3, <1>4 DEF IInv

-----------------------------------------------------------------------------
(* The step that makes a call: its limit is the last of the list.          *)
LEMMA SubmitPreserves == ASSUME IInv, NEW c \in Calls, Submit(c) PROVE IInv'
<1> USE DEF IInv
<1> DEFINE e == <<c, "call">>
           L == Len(deadlines)
<1>0. deadlines \in Seq(Limits) /\ L \in Nat /\ e \in Limits
  BY Typed DEF Limits
<1>1. /\ deadlines' \in Seq(Limits)
      /\ Len(deadlines') = L + 1
      /\ \A i \in 1..L : deadlines'[i] = deadlines[i]
      /\ deadlines'[L + 1] = e
  BY <1>0, Appended DEF Submit
<1>2. /\ spot' = [spot EXCEPT ![c] = "acquire"]
      /\ caller' = [caller EXCEPT ![c] = "waiting"]
      /\ caller[c] = "idle" /\ spot[c] = "none"
      /\ UNCHANGED <<audited, thread, stored>>
  BY DEF Submit, MoveTo, CallerInv
<1>3. LoopTypeOK'
  BY <1>1, <1>2 DEF LoopTypeOK, Limits, Spots, Awaiting
<1>4. CallerInv' /\ SelfWaitLosesCaller' /\ AnsweredIsStored'
  BY <1>2 DEF LoopTypeOK, CallerInv, SelfWaitLosesCaller, AnsweredIsStored, FailureWaits
<1> HIDE DEF IInv
<1>a. \A i \in 1..Len(deadlines') : i \in 1..L \/ i = L + 1
  BY <1>0, <1>1
<1>b. \A i \in 1..L : i \in 1..Len(deadlines')
  BY <1>0, <1>1
<1>c. L + 1 \in 1..Len(deadlines')
  BY <1>0, <1>1
<1>d. ListInv /\ LoopTypeOK
  BY DEF IInv
<1>5. WaitingListed'
  <2> SUFFICES ASSUME NEW d \in Calls, caller'[d] = "waiting"
               PROVE  \E i \in 1..Len(deadlines') : deadlines'[i] = <<d, "call">>
    BY DEF WaitingListed
  <2>1. CASE d = c
    BY <2>1, <1>1, <1>c
  <2>2. CASE d # c
    <3>1. PICK i \in 1..L : deadlines[i] = <<d, "call">>
      BY <2>2, <1>2, <1>d DEF LoopTypeOK, ListInv, WaitingListed
    <3> QED
      BY <3>1, <1>1, <1>b
  <2> QED
    BY <2>1, <2>2
<1>6. EventListed'
  <2> SUFFICES ASSUME NEW d \in Calls, NEW i \in 1..Len(deadlines'),
                      deadlines'[i] = <<d, "event">>
               PROVE  spot'[d] \in Waits
    BY DEF EventListed
  <2>1. i \in 1..L /\ deadlines[i] = <<d, "event">>
    BY <1>1, <1>a
  <2>2. spot[d] \in Waits
    BY <2>1, <1>d DEF ListInv, EventListed
  <2>3. d # c
    BY <2>2, <1>2 DEF Waits, EventWaits, FailureWaits
  <2> QED
    BY <2>2, <2>3, <1>2, <1>d DEF LoopTypeOK
<1>7. EventOnce'
  BY <1>1, <1>a, <1>d DEF ListInv, EventOnce
<1>8. CallFirst'
  <2>1. \A i \in 1..L : deadlines[i] # <<c, "event">>
    BY <1>2, <1>d DEF ListInv, EventListed, Waits, EventWaits, FailureWaits
  <2> SUFFICES ASSUME NEW d \in Calls,
                      NEW i \in 1..Len(deadlines'), NEW j \in 1..Len(deadlines'),
                      deadlines'[i] = <<d, "call">>, deadlines'[j] = <<d, "event">>
               PROVE  i < j
    BY DEF CallFirst
  <2>2. j \in 1..L /\ deadlines[j] = <<d, "event">>
    BY <1>1, <1>a
  <2>3. d # c
    BY <2>1, <2>2
  <2>4. i \in 1..L /\ deadlines[i] = <<d, "call">>
    BY <2>3, <1>1, <1>a
  <2> QED
    BY <2>2, <2>4, <1>d DEF ListInv, CallFirst
<1> QED
  BY <1>3, <1>4, <1>5, <1>6, <1>7, <1>8 DEF ListInv, IInv

(* The list after a coroutine begins to wait for its event.                *)
LEMMA EventAppended ==
  ASSUME LoopTypeOK, ListInv, NEW c \in Calls,
         spot[c] \notin Waits,
         NEW place \in Waits, spot' = [spot EXCEPT ![c] = place],
         UNCHANGED caller,
         deadlines' = Append(deadlines, <<c, "event">>)
  PROVE  ListInv' /\ deadlines' \in Seq(Limits)
<1> DEFINE e == <<c, "event">>
           L == Len(deadlines)
<1>0. deadlines \in Seq(Limits) /\ L \in Nat /\ e \in Limits
  BY Typed DEF Limits
<1>1. /\ deadlines' \in Seq(Limits)
      /\ Len(deadlines') = L + 1
      /\ \A i \in 1..L : deadlines'[i] = deadlines[i]
      /\ deadlines'[L + 1] = e
  BY <1>0, Appended
<1>2. \A i \in 1..L : deadlines[i] # e
  BY DEF ListInv, EventListed
<1>a. \A i \in 1..Len(deadlines') : i \in 1..L \/ i = L + 1
  BY <1>0, <1>1
<1>b. \A i \in 1..L : i \in 1..Len(deadlines')
  BY <1>0, <1>1
<1>3. WaitingListed'
  <2> SUFFICES ASSUME NEW d \in Calls, caller[d] = "waiting"
               PROVE  \E i \in 1..Len(deadlines') : deadlines'[i] = <<d, "call">>
    BY DEF WaitingListed
  <2>1. PICK i \in 1..L : deadlines[i] = <<d, "call">>
    BY DEF ListInv, WaitingListed
  <2> QED
    BY <2>1, <1>1, <1>b
<1>4. EventListed'
  BY <1>1, <1>a DEF LoopTypeOK, ListInv, EventListed
<1>5. EventOnce'
  <2> SUFFICES ASSUME NEW d \in Calls,
                      NEW i \in 1..Len(deadlines'), NEW j \in 1..Len(deadlines'),
                      deadlines'[i] = <<d, "event">>, deadlines'[j] = <<d, "event">>
               PROVE  i = j
    BY DEF EventOnce
  <2>1. CASE d = c
    BY <2>1, <1>1, <1>2, <1>a
  <2>2. CASE d # c
    <3>1. i \in 1..L /\ j \in 1..L
      BY <2>2, <1>1, <1>a
    <3> QED
      BY <3>1, <1>1 DEF ListInv, EventOnce
  <2> QED
    BY <2>1, <2>2
<1>6. CallFirst'
  <2> SUFFICES ASSUME NEW d \in Calls,
                      NEW i \in 1..Len(deadlines'), NEW j \in 1..Len(deadlines'),
                      deadlines'[i] = <<d, "call">>, deadlines'[j] = <<d, "event">>
               PROVE  i < j
    BY DEF CallFirst
  <2>1. i \in 1..L /\ deadlines[i] = <<d, "call">>
    BY <1>1, <1>a
  <2>2. CASE j \in 1..L
    BY <2>1, <2>2, <1>1 DEF ListInv, CallFirst
  <2>3. CASE j = L + 1
    BY <2>1, <2>3, <1>0
  <2> QED
    BY <2>2, <2>3, <1>a
<1> QED
  BY <1>1, <1>3, <1>4, <1>5, <1>6 DEF ListInv

(* The list when it stays as it is, and no coroutine leaves its wait.      *)
LEMMA ListKept ==
  ASSUME LoopTypeOK, ListInv, NEW c \in Calls,
         spot[c] \notin Waits,
         NEW place, spot' = [spot EXCEPT ![c] = place],
         \A d \in Calls : caller'[d] = "waiting" => caller[d] = "waiting",
         UNCHANGED deadlines
  PROVE  ListInv'
<1>1. WaitingListed'
  BY DEF ListInv, WaitingListed
<1>2. EventListed'
  BY DEF LoopTypeOK, ListInv, EventListed
<1>3. EventOnce' /\ CallFirst'
  BY DEF ListInv, EventOnce, CallFirst
<1> QED
  BY <1>1, <1>2, <1>3 DEF ListInv

(* _emit_step: a coroutine that waits for nothing waits for its event, or  *)
(* goes on.                                                                *)
LEMMA EmitPreserves ==
  ASSUME IInv, NEW c \in Calls, spot[c] \in {"acquire", "update"},
         NEW event \in EventWaits, NEW next \in {"execute", "end"},
         Emit(c, event, next), UNCHANGED <<audited, caller, stored>>
  PROVE  IInv'
<1> USE DEF IInv
<1>0. spot[c] \notin Waits /\ caller[c] \notin {"idle", "answered", "raised"}
  BY DEF Waits, EventWaits, FailureWaits, CallerInv
<1>1. CASE c \in audited
  <2>1. /\ spot' = [spot EXCEPT ![c] = event]
        /\ thread' = c
        /\ deadlines' = Append(deadlines, <<c, "event">>)
    BY <1>1 DEF Emit, MoveTo
  <2>2. ListInv' /\ deadlines' \in Seq(Limits)
    BY <1>0, <2>1, EventAppended DEF Waits
  <2>3. LoopTypeOK'
    BY <2>1, <2>2 DEF LoopTypeOK, Limits, Spots
  <2>4. CallerInv' /\ SelfWaitLosesCaller' /\ AnsweredIsStored'
    BY <1>0, <2>1 DEF LoopTypeOK, CallerInv, SelfWaitLosesCaller, AnsweredIsStored,
                      EventWaits, FailureWaits
  <2> QED
    BY <2>2, <2>3, <2>4
<1>2. CASE c \notin audited
  <2>1. /\ spot' = [spot EXCEPT ![c] = next]
        /\ thread' \in {c, Nobody}
        /\ UNCHANGED deadlines
    BY <1>2 DEF Emit, MoveTo
  <2>2. ListInv'
    BY <1>0, <2>1, ListKept
  <2>3. LoopTypeOK'
    BY <2>1 DEF LoopTypeOK, Spots, Awaiting
  <2>4. CallerInv' /\ SelfWaitLosesCaller' /\ AnsweredIsStored'
    BY <1>0, <1>2, <2>1 DEF LoopTypeOK, CallerInv, SelfWaitLosesCaller, AnsweredIsStored
  <2> QED
    BY <2>2, <2>3, <2>4
<1> QED
  BY <1>1, <1>2

-----------------------------------------------------------------------------
(* The time limit of the caller runs out.                                  *)
LEMMA CallerTimesOutPreserves ==
  ASSUME IInv, NEW c \in Calls, CallerTimesOut(c) PROVE IInv'
<1> DEFINE L == Len(deadlines)
<1>0. LoopTypeOK /\ CallerInv /\ ListInv /\ SelfWaitLosesCaller /\ AnsweredIsStored
  BY DEF IInv
<1>1. /\ deadlines' \in Seq(Limits)
      /\ L \in Nat /\ L > 0
      /\ Len(deadlines') = L - 1
      /\ \A i \in 1..Len(deadlines') : deadlines'[i] = deadlines[i + 1]
      /\ deadlines[1] = <<c, "call">>
  BY <1>0, Typed, Shortened DEF CallerTimesOut, Expires
<1>2. /\ caller' = [caller EXCEPT ![c] = IF @ = "waiting" THEN "timed_out" ELSE @]
      /\ UNCHANGED <<audited, thread, spot, stored>>
  BY DEF CallerTimesOut
<1>a. \A i \in 1..Len(deadlines') : i + 1 \in 1..L
  BY <1>1
<1>3. LoopTypeOK'
  BY <1>0, <1>1, <1>2 DEF LoopTypeOK, Limits
<1>4. CallerInv' /\ SelfWaitLosesCaller' /\ AnsweredIsStored'
  BY <1>0, <1>2 DEF LoopTypeOK, CallerInv, SelfWaitLosesCaller, AnsweredIsStored
<1>5. WaitingListed'
  <2> SUFFICES ASSUME NEW d \in Calls, caller'[d] = "waiting"
               PROVE  \E i \in 1..Len(deadlines') : deadlines'[i] = <<d, "call">>
    BY DEF WaitingListed
  <2>1. d # c /\ caller[d] = "waiting"
    BY <1>0, <1>2 DEF LoopTypeOK
  <2>2. PICK i \in 1..L : deadlines[i] = <<d, "call">>
    BY <2>1, <1>0 DEF ListInv, WaitingListed
  <2>3. i # 1
    BY <2>1, <2>2, <1>1
  <2>4. i - 1 \in 1..Len(deadlines') /\ (i - 1) + 1 = i
    BY <2>3, <1>1
  <2> QED
    BY <2>2, <2>4, <1>1
<1>6. EventListed'
  BY <1>0, <1>1, <1>2, <1>a DEF ListInv, EventListed
<1>7. EventOnce'
  <2> SUFFICES ASSUME NEW d \in Calls,
                      NEW i \in 1..Len(deadlines'), NEW j \in 1..Len(deadlines'),
                      deadlines'[i] = <<d, "event">>, deadlines'[j] = <<d, "event">>
               PROVE  i = j
    BY DEF EventOnce
  <2>1. i + 1 = j + 1
    BY <1>0, <1>1, <1>a DEF ListInv, EventOnce
  <2> QED
    BY <2>1, <1>1
<1>8. CallFirst'
  <2> SUFFICES ASSUME NEW d \in Calls,
                      NEW i \in 1..Len(deadlines'), NEW j \in 1..Len(deadlines'),
                      deadlines'[i] = <<d, "call">>, deadlines'[j] = <<d, "event">>
               PROVE  i < j
    BY DEF CallFirst
  <2>1. i + 1 < j + 1
    BY <1>0, <1>1, <1>a DEF ListInv, CallFirst
  <2> QED
    BY <2>1, <1>1
<1> QED
  BY <1>3, <1>4, <1>5, <1>6, <1>7, <1>8 DEF IInv, ListInv

(* When the time limit of its event runs out, the caller of a coroutine    *)
(* has been told so: its own limit stood before.                           *)
LEMMA CallerIsGone ==
  ASSUME IInv, NEW c \in Calls, spot[c] \in Waits, Expires(c, "event")
  PROVE  caller[c] = "timed_out"
<1>0. LoopTypeOK /\ CallerInv /\ ListInv
  BY DEF IInv
<1>1. Len(deadlines) \in Nat /\ Len(deadlines) > 0 /\ deadlines[1] = <<c, "event">>
  BY <1>0, Typed, Shortened DEF Expires
<1>2. caller[c] # "waiting"
  <2> SUFFICES ASSUME caller[c] = "waiting" PROVE FALSE
    OBVIOUS
  <2>1. PICK i \in 1..Len(deadlines) : deadlines[i] = <<c, "call">>
    BY <1>0 DEF ListInv, WaitingListed
  <2>2. 1 \in 1..Len(deadlines)
    BY <1>1
  <2>3. i < 1
    BY <1>0, <1>1, <2>1, <2>2 DEF ListInv, CallFirst
  <2> QED
    BY <2>3, <1>1
<1> QED
  BY <1>0, <1>2 DEF LoopTypeOK, CallerInv, Waits, EventWaits, FailureWaits

(* The wait for the event is followed by one for request.failed.           *)
LEMMA EventWaitEndsPreserves ==
  ASSUME IInv, NEW c \in Calls, EventWaitEnds(c) PROVE IInv'
<1> DEFINE L == Len(deadlines)
           e == <<c, "event">>
<1>0. LoopTypeOK /\ CallerInv /\ ListInv /\ SelfWaitLosesCaller /\ AnsweredIsStored
  BY DEF IInv
<1>g. spot[c] \in Waits /\ caller[c] = "timed_out"
  BY CallerIsGone DEF EventWaitEnds, Waits
<1>1. /\ deadlines' \in Seq(Limits)
      /\ L \in Nat /\ L > 0
      /\ Len(deadlines') = L
      /\ \A i \in 1..L : i # L => deadlines'[i] = deadlines[i + 1]
      /\ deadlines'[L] = e
      /\ deadlines[1] = e
  <2>1. deadlines \in Seq(Limits) /\ deadlines # <<>> /\ e \in Limits
    BY <1>0, Typed DEF EventWaitEnds, Expires, Limits
  <2>2. /\ Tail(deadlines) \in Seq(Limits)
        /\ L \in Nat /\ L > 0
        /\ Len(Tail(deadlines)) = L - 1
        /\ \A i \in 1..L - 1 : Tail(deadlines)[i] = deadlines[i + 1]
        /\ Head(deadlines) = deadlines[1]
    BY <2>1, Shortened
  <2>3. deadlines' = Append(Tail(deadlines), e) /\ Head(deadlines) = e
    BY DEF EventWaitEnds, Expires
  <2>4. /\ deadlines' \in Seq(Limits)
        /\ Len(deadlines') = L - 1 + 1
        /\ \A i \in 1..L - 1 : deadlines'[i] = Tail(deadlines)[i]
        /\ deadlines'[L - 1 + 1] = e
    <3>1. Len(Tail(deadlines)) = L - 1
      BY <2>2
    <3>2. /\ Append(Tail(deadlines), e) \in Seq(Limits)
          /\ Len(Append(Tail(deadlines), e)) = Len(Tail(deadlines)) + 1
          /\ \A i \in 1..Len(Tail(deadlines)) :
               Append(Tail(deadlines), e)[i] = Tail(deadlines)[i]
          /\ Append(Tail(deadlines), e)[Len(Tail(deadlines)) + 1] = e
      BY <2>1, <2>2, Appended
    <3> QED
      BY <3>1, <3>2, <2>3
  <2>5. \A i \in 1..L : i # L => i \in 1..L - 1
    <3>1. \A n \in Nat : \A i \in 1..n : i # n => i \in 1..n - 1
      OBVIOUS
    <3> QED
      BY <3>1, <2>2
  <2>6. L - 1 + 1 = L
    BY <2>2
  <2> QED
    BY <2>2, <2>3, <2>4, <2>5, <2>6
<1>2. /\ \E place \in FailureWaits : spot' = [spot EXCEPT ![c] = place]
      /\ UNCHANGED <<audited, thread, caller, stored>>
  BY DEF EventWaitEnds, MoveTo, FailureWaits
<1>a. \A i \in 1..L : i # L => i + 1 \in 1..L
  BY <1>1
<1>b. 1 \in 1..L /\ L \in 1..L
  BY <1>1
<1>c. \A i \in 1..L : i # L => deadlines'[i] # e
  <2> SUFFICES ASSUME NEW i \in 1..L, i # L, deadlines'[i] = e PROVE FALSE
    OBVIOUS
  <2>1. deadlines[i + 1] = e /\ i + 1 \in 1..L
    BY <1>1, <1>a
  <2>2. i + 1 = 1
    BY <2>1, <1>0, <1>1, <1>b DEF ListInv, EventOnce
  <2> QED
    BY <2>2, <1>1
<1>3. LoopTypeOK'
  BY <1>0, <1>1, <1>2 DEF LoopTypeOK, Limits, Spots
<1>4. CallerInv' /\ SelfWaitLosesCaller' /\ AnsweredIsStored'
  BY <1>0, <1>g, <1>2 DEF LoopTypeOK, CallerInv, SelfWaitLosesCaller, AnsweredIsStored
<1>5. WaitingListed'
  <2> SUFFICES ASSUME NEW d \in Calls, caller[d] = "waiting"
               PROVE  \E i \in 1..L : deadlines'[i] = <<d, "call">>
    BY <1>1, <1>2 DEF WaitingListed
  <2>1. PICK i \in 1..L : deadlines[i] = <<d, "call">>
    BY <1>0 DEF ListInv, WaitingListed
  <2>2. i # 1
    BY <2>1, <1>1
  <2>3. i - 1 \in 1..L /\ i - 1 # L /\ (i - 1) + 1 = i
    BY <2>2, <1>1
  <2> QED
    BY <2>1, <2>3, <1>1
<1>6. EventListed'
  <2> SUFFICES ASSUME NEW d \in Calls, NEW i \in 1..L, deadlines'[i] = <<d, "event">>
               PROVE  spot'[d] \in Waits
    BY <1>1 DEF EventListed
  <2>1. CASE d = c
    BY <2>1, <1>0, <1>2 DEF LoopTypeOK, Waits
  <2>2. CASE d # c
    <3>1. i # L
      BY <2>2, <1>1
    <3>2. spot[d] \in Waits
      BY <3>1, <1>0, <1>1, <1>a DEF ListInv, EventListed
    <3> QED
      BY <3>2, <2>2, <1>0, <1>2 DEF LoopTypeOK
  <2> QED
    BY <2>1, <2>2
<1>7. EventOnce'
  <2> SUFFICES ASSUME NEW d \in Calls, NEW i \in 1..L, NEW j \in 1..L,
                      deadlines'[i] = <<d, "event">>, deadlines'[j] = <<d, "event">>
               PROVE  i = j
    BY <1>1 DEF EventOnce
  <2>1. CASE d = c
    BY <2>1, <1>c
  <2>2. CASE d # c
    <3>1. i # L /\ j # L
      BY <2>2, <1>1
    <3>2. i + 1 = j + 1
      BY <3>1, <1>0, <1>1, <1>a DEF ListInv, EventOnce
    <3> QED
      BY <3>2, <1>1
  <2> QED
    BY <2>1, <2>2
<1>8. CallFirst'
  <2> SUFFICES ASSUME NEW d \in Calls, NEW i \in 1..L, NEW j \in 1..L,
                      deadlines'[i] = <<d, "call">>, deadlines'[j] = <<d, "event">>
               PROVE  i < j
    BY <1>1 DEF CallFirst
  <2>1. i # L
    BY <1>1
  <2>2. CASE j = L
    BY <2>1, <2>2, <1>1
  <2>3. CASE j # L
    <3>1. i + 1 < j + 1
      BY <2>1, <2>3, <1>0, <1>1, <1>a DEF ListInv, CallFirst
    <3> QED
      BY <3>1, <1>1
  <2> QED
    BY <2>2, <2>3
<1> QED
  BY <1>3, <1>4, <1>5, <1>6, <1>7, <1>8 DEF IInv, ListInv

(* The coroutine goes on after its second wait.                            *)
LEMMA FailureWaitEndsPreserves ==
  ASSUME IInv, NEW c \in Calls, FailureWaitEnds(c) PROVE IInv'
<1> DEFINE L == Len(deadlines)
<1>0. LoopTypeOK /\ CallerInv /\ ListInv /\ SelfWaitLosesCaller /\ AnsweredIsStored
  BY DEF IInv
<1>g. spot[c] \in Waits /\ caller[c] = "timed_out"
  BY CallerIsGone DEF FailureWaitEnds, Waits
<1>1. /\ deadlines' \in Seq(Limits)
      /\ L \in Nat /\ L > 0
      /\ Len(deadlines') = L - 1
      /\ \A i \in 1..Len(deadlines') : deadlines'[i] = deadlines[i + 1]
      /\ deadlines[1] = <<c, "event">>
  BY <1>0, Typed, Shortened DEF FailureWaitEnds, Expires
<1>2. /\ \E place \in {"execute", "end"} : spot' = [spot EXCEPT ![c] = place]
      /\ thread' \in {c, Nobody}
      /\ UNCHANGED <<audited, caller, stored>>
  BY DEF FailureWaitEnds, MoveTo
<1>a. \A i \in 1..Len(deadlines') : i + 1 \in 1..L
  BY <1>1
<1>3. LoopTypeOK'
  BY <1>0, <1>1, <1>2 DEF LoopTypeOK, Limits, Spots, Awaiting
<1>4. CallerInv' /\ SelfWaitLosesCaller' /\ AnsweredIsStored'
  BY <1>0, <1>g, <1>2 DEF LoopTypeOK, CallerInv, SelfWaitLosesCaller, AnsweredIsStored
<1>5. WaitingListed'
  <2> SUFFICES ASSUME NEW d \in Calls, caller[d] = "waiting"
               PROVE  \E i \in 1..Len(deadlines') : deadlines'[i] = <<d, "call">>
    BY <1>2 DEF WaitingListed
  <2>1. PICK i \in 1..L : deadlines[i] = <<d, "call">>
    BY <1>0 DEF ListInv, WaitingListed
  <2>2. i # 1
    BY <2>1, <1>1
  <2>3. i - 1 \in 1..Len(deadlines') /\ (i - 1) + 1 = i
    BY <2>2, <1>1
  <2> QED
    BY <2>1, <2>3, <1>1
<1>6. EventListed'
  <2> SUFFICES ASSUME NEW d \in Calls, NEW i \in 1..Len(deadlines'),
                      deadlines'[i] = <<d, "event">>
               PROVE  spot'[d] \in Waits
    BY DEF EventListed
  <2>1. deadlines[i + 1] = <<d, "event">> /\ i + 1 \in 1..L /\ 1 \in 1..L /\ i + 1 # 1
    BY <1>1, <1>a
  <2>2. d # c
    BY <2>1, <1>0, <1>1 DEF ListInv, EventOnce
  <2>3. spot[d] \in Waits
    BY <2>1, <1>0 DEF ListInv, EventListed
  <2> QED
    BY <2>2, <2>3, <1>0, <1>2 DEF LoopTypeOK
<1>7. EventOnce'
  <2> SUFFICES ASSUME NEW d \in Calls,
                      NEW i \in 1..Len(deadlines'), NEW j \in 1..Len(deadlines'),
                      deadlines'[i] = <<d, "event">>, deadlines'[j] = <<d, "event">>
               PROVE  i = j
    BY DEF EventOnce
  <2>1. i + 1 = j + 1
    BY <1>0, <1>1, <1>a DEF ListInv, EventOnce
  <2> QED
    BY <2>1, <1>1
<1>8. CallFirst'
  <2> SUFFICES ASSUME NEW d \in Calls,
                      NEW i \in 1..Len(deadlines'), NEW j \in 1..Len(deadlines'),
                      deadlines'[i] = <<d, "call">>, deadlines'[j] = <<d, "event">>
               PROVE  i < j
    BY DEF CallFirst
  <2>1. i + 1 < j + 1
    BY <1>0, <1>1, <1>a DEF ListInv, CallFirst
  <2> QED
    BY <2>1, <1>1
<1> QED
  BY <1>3, <1>4, <1>5, <1>6, <1>7, <1>8 DEF IInv, ListInv

-----------------------------------------------------------------------------
(* execute() ends and the thread is let go.                                *)
LEMMA ExecuteEndsPreserves ==
  ASSUME IInv, NEW c \in Calls, ExecuteEnds(c) PROVE IInv'
<1>0. LoopTypeOK /\ CallerInv /\ ListInv /\ SelfWaitLosesCaller /\ AnsweredIsStored
  BY DEF IInv
<1>1. /\ spot[c] = "execute" /\ spot' = [spot EXCEPT ![c] = "update"]
      /\ thread' = Nobody
      /\ UNCHANGED <<audited, caller, deadlines, stored>>
  BY DEF ExecuteEnds, MoveTo
<1>2. spot[c] \notin Waits
  BY <1>1 DEF Waits, EventWaits, FailureWaits
<1>3. ListInv'
  BY <1>0, <1>1, <1>2, ListKept
<1>4. LoopTypeOK'
  BY <1>0, <1>1 DEF LoopTypeOK, Spots, Awaiting
<1>5. CallerInv' /\ SelfWaitLosesCaller' /\ AnsweredIsStored'
  BY <1>0, <1>1 DEF LoopTypeOK, CallerInv, SelfWaitLosesCaller, AnsweredIsStored, FailureWaits
<1> QED
  BY <1>3, <1>4, <1>5 DEF IInv

(* A coroutine ends, with an answer only after its commit.                 *)
LEMMA ResolvePreserves ==
  ASSUME IInv, NEW c \in Calls, spot[c] \in Awaiting,
         NEW answer \in {"answered", "raised"}, Resolve(c, answer),
         stored' \in {stored, stored \cup {StepOf[c]}},
         answer = "answered" => StepOf[c] \in stored'
  PROVE  IInv'
<1>0. LoopTypeOK /\ CallerInv /\ ListInv /\ SelfWaitLosesCaller /\ AnsweredIsStored
  BY DEF IInv
<1>1. /\ spot' = [spot EXCEPT ![c] = "done"]
      /\ caller' = [caller EXCEPT ![c] = IF @ = "waiting" THEN answer ELSE @]
      /\ UNCHANGED <<audited, thread, deadlines>>
  BY DEF Resolve, MoveTo
<1>2. spot[c] \notin Waits /\ caller[c] \in {"waiting", "timed_out"}
  BY <1>0 DEF Awaiting, Waits, EventWaits, FailureWaits, LoopTypeOK, CallerInv
<1>3. \A d \in Calls : caller'[d] = "waiting" => caller[d] = "waiting"
  BY <1>0, <1>1 DEF LoopTypeOK
<1>4. ListInv'
  BY <1>0, <1>1, <1>2, <1>3, ListKept
<1>5. LoopTypeOK'
  BY <1>0, <1>1, CanonicalLoopAssumption DEF LoopTypeOK, Spots
<1>6. CallerInv'
  BY <1>0, <1>1, <1>2 DEF LoopTypeOK, CallerInv
<1>7. SelfWaitLosesCaller'
  BY <1>0, <1>1 DEF LoopTypeOK, SelfWaitLosesCaller, FailureWaits
<1>8. AnsweredIsStored'
  BY <1>0, <1>1 DEF LoopTypeOK, AnsweredIsStored
<1> QED
  BY <1>4, <1>5, <1>6, <1>7, <1>8 DEF IInv

(* Every step of a coroutine preserves the invariant.                      *)
LEMMA CoroutinePreserves ==
  ASSUME IInv, NEW c \in Calls, Coroutine(c) PROVE IInv'
<1>1. CASE Acquire(c)
  <2>1. CASE StepOf[c] \in stored
    BY <1>1, <2>1, EmitPreserves DEF Acquire, EmitEnded, EventWaits
  <2>2. CASE StepOf[c] \notin stored
    BY <1>1, <2>2, EmitPreserves DEF Acquire, EmitStarted, EventWaits
  <2> QED
    BY <2>1, <2>2
<1>2. CASE ExecuteEnds(c)
  BY <1>2, ExecuteEndsPreserves
<1>3. CASE Updated(c)
  BY <1>3, EmitPreserves DEF Updated, EmitEnded, EventWaits
<1>4. CASE Commit(c)
  BY <1>4, ResolvePreserves DEF Commit, Awaiting
<1>5. CASE Fail(c)
  BY <1>5, ResolvePreserves DEF Fail
<1> QED
  BY <1>1, <1>2, <1>3, <1>4, <1>5 DEF Coroutine

(* A step that touches nothing of the loop preserves the invariant.        *)
LEMMA StutterPreserves == ASSUME IInv, UNCHANGED loopVars PROVE IInv'
BY DEF IInv, loopVars, LoopTypeOK, CallerInv, ListInv, WaitingListed, EventListed, EventOnce,
       CallFirst, SelfWaitLosesCaller, AnsweredIsStored

(* The invariant is inductive.                                             *)
LEMMA NextInv == ASSUME IInv, [LoopNext]_loopVars PROVE IInv'
<1>1. CASE UNCHANGED loopVars
  BY <1>1, StutterPreserves
<1>2. CASE \E c \in Calls : Submit(c)
  BY <1>2, SubmitPreserves
<1>3. CASE \E c \in Calls : Coroutine(c)
  BY <1>3, CoroutinePreserves
<1>4. CASE \E c \in Calls : TimeRunsOut(c)
  BY <1>4, EventWaitEndsPreserves, FailureWaitEndsPreserves, CallerTimesOutPreserves
     DEF TimeRunsOut
<1> QED
  BY <1>1, <1>2, <1>3, <1>4 DEF LoopNext

-----------------------------------------------------------------------------
(* IInv holds in every reachable state.                                    *)
THEOREM Invariance == LoopSpec => []IInv
<1>1. LoopInit => IInv
  BY InitInv
<1>2. IInv /\ [LoopNext]_loopVars => IInv'
  BY NextInv
<1> QED
  BY <1>1, <1>2, PTL DEF LoopSpec

(* The variables of the loop keep their types.                             *)
THEOREM LoopTypeCorrect == LoopSpec => []LoopTypeOK
<1>1. IInv => LoopTypeOK
  BY DEF IInv
<1> QED
  BY <1>1, Invariance, PTL

(* A call that persists its events at once executes for nobody.            *)
THEOREM SelfWaitsLoseCallers == LoopSpec => []SelfWaitLosesCaller
<1>1. IInv => SelfWaitLosesCaller
  BY DEF IInv
<1> QED
  BY <1>1, Invariance, PTL

(* An answered caller has a committed result.                              *)
THEOREM AnswersAreStored == LoopSpec => []AnsweredIsStored
<1>1. IInv => AnsweredIsStored
  BY DEF IInv
<1> QED
  BY <1>1, Invariance, PTL

-----------------------------------------------------------------------------
(* The thread of the loop and the row of a step.                           *)

(* execute() and the waits inside a coroutine keep the thread.             *)
OnThread == Waits \cup {"execute"}

ThreadInv == \A c \in Calls : spot[c] \in OnThread <=> thread = c

(* The transaction of a coroutine excludes the others on its step, ...     *)
RowInv ==
  \A c, d \in Calls : HoldsRow(c) /\ HoldsRow(d) /\ StepOf[c] = StepOf[d] => c = d

(* ... so that no result is committed while it is on its way to execute(), *)
(* or before it has committed its own.                                     *)
Executes(c) == spot[c] \in {"started_event", "started_failure", "execute", "update"}

FreshInv == \A c \in Calls : Executes(c) => StepOf[c] \notin stored

ExclusionInv == ThreadInv /\ RowInv /\ FreshInv

(* What the three say depends on where the coroutines are.                 *)
LEMMA ExclusionKept ==
  ASSUME ExclusionInv, UNCHANGED <<spot, thread, stored>>
  PROVE  ExclusionInv'
BY DEF ExclusionInv, ThreadInv, RowInv, FreshInv, HoldsRow, Executes

(* The coroutine moves within its transaction, and the thread with it.     *)
LEMMA MovePreserves ==
  ASSUME LoopTypeOK, ExclusionInv, NEW c \in Calls, NEW place \in Spots,
         spot' = [spot EXCEPT ![c] = place], UNCHANGED stored,
         thread \in {c, Nobody},
         thread' = IF place \in OnThread THEN c ELSE Nobody,
         place \notin {"none", "acquire", "done"} =>
           HoldsRow(c) \/ ~RowHeld(StepOf[c]),
         place \in {"started_event", "started_failure", "execute", "update"} =>
           Executes(c) \/ StepOf[c] \notin stored
  PROVE  ExclusionInv'
<1>1. spot'[c] = place /\ \A d \in Calls : d # c => spot'[d] = spot[d]
  BY DEF LoopTypeOK
<1>2. ThreadInv'
  BY <1>1, CanonicalLoopAssumption DEF ExclusionInv, ThreadInv
<1>3. RowInv'
  <2>1. \A d \in Calls : d # c => HoldsRow(d)' = HoldsRow(d)
    BY <1>1 DEF HoldsRow
  <2>2. HoldsRow(c)' => HoldsRow(c) \/ ~RowHeld(StepOf[c])
    BY <1>1 DEF HoldsRow
  <2>3. HoldsRow(c)' => \A d \in Calls : HoldsRow(d) /\ StepOf[d] = StepOf[c] => d = c
    BY <2>2 DEF RowHeld, ExclusionInv, RowInv
  <2> QED
    BY <2>1, <2>3 DEF ExclusionInv, RowInv
<1>4. FreshInv'
  BY <1>1 DEF ExclusionInv, FreshInv, Executes
<1> QED
  BY <1>2, <1>3, <1>4 DEF ExclusionInv

(* _emit_step keeps the transaction of its coroutine.                      *)
LEMMA EmitExcludes ==
  ASSUME LoopTypeOK, ExclusionInv, NEW c \in Calls, LoopFree, UNCHANGED stored,
         \/ EmitEnded(c)
         \/ EmitStarted(c) /\ StepOf[c] \notin stored,
         HoldsRow(c) \/ ~RowHeld(StepOf[c])
  PROVE  ExclusionInv'
<1>1. CASE EmitEnded(c)
  <2>1. PICK place \in {"ended_event", "end"} :
          /\ spot' = [spot EXCEPT ![c] = place]
          /\ thread' = IF place = "ended_event" THEN c ELSE Nobody
    BY <1>1 DEF EmitEnded, Emit, MoveTo
  <2>2. /\ place \in Spots
        /\ place \in OnThread <=> place = "ended_event"
        /\ place \notin {"started_event", "started_failure", "execute", "update"}
    BY <2>1 DEF Spots, OnThread, Waits, EventWaits, FailureWaits, Awaiting
  <2> QED
    BY <2>1, <2>2, MovePreserves DEF LoopFree
<1>2. CASE EmitStarted(c) /\ StepOf[c] \notin stored
  <2>1. PICK place \in {"started_event", "execute"} :
          spot' = [spot EXCEPT ![c] = place] /\ thread' = c
    BY <1>2 DEF EmitStarted, Emit, MoveTo
  <2>2. place \in Spots /\ place \in OnThread
    BY <2>1 DEF Spots, OnThread, Waits, EventWaits
  <2> QED
    BY <1>2, <2>1, <2>2, MovePreserves DEF LoopFree
<1> QED
  BY <1>1, <1>2

(* A coroutine that ends lets its row go; what it has committed is the     *)
(* result of a step on which no other coroutine executes.                  *)
LEMMA ResolveExcludes ==
  ASSUME LoopTypeOK, ExclusionInv, NEW c \in Calls, LoopFree, spot[c] \in Awaiting,
         MoveTo(c, "done"), UNCHANGED thread,
         stored' = stored \/ (spot[c] = "end" /\ stored' = stored \cup {StepOf[c]})
  PROVE  ExclusionInv'
<1>1. /\ spot'[c] = "done" /\ \A d \in Calls : d # c => spot'[d] = spot[d]
      /\ thread' = thread /\ thread = Nobody
  BY DEF LoopTypeOK, MoveTo, LoopFree
<1>2. ThreadInv'
  BY <1>1, CanonicalLoopAssumption
     DEF ExclusionInv, ThreadInv, OnThread, Waits, EventWaits, FailureWaits
<1>3. \A d \in Calls : HoldsRow(d)' => HoldsRow(d) /\ d # c
  BY <1>1 DEF HoldsRow
<1>4. RowInv'
  BY <1>3 DEF ExclusionInv, RowInv
<1>5. FreshInv'
  <2> SUFFICES ASSUME NEW d \in Calls, Executes(d)' PROVE StepOf[d] \notin stored'
    BY DEF FreshInv
  <2>1. d # c /\ Executes(d) /\ HoldsRow(d)
    BY <1>1 DEF Executes, HoldsRow
  <2>2. StepOf[d] \notin stored
    BY <2>1 DEF ExclusionInv, FreshInv
  <2>3. spot[c] = "end" => StepOf[d] # StepOf[c]
    BY <2>1 DEF ExclusionInv, RowInv, HoldsRow
  <2> QED
    BY <2>2, <2>3
<1> QED
  BY <1>2, <1>4, <1>5 DEF ExclusionInv

(* Every step preserves the exclusion.                                     *)
LEMMA NextExcludes ==
  ASSUME IInv, ExclusionInv, [LoopNext]_loopVars PROVE ExclusionInv'
<1>0. LoopTypeOK /\ CallerInv
  BY DEF IInv
<1>1. CASE UNCHANGED loopVars
  BY <1>1, ExclusionKept DEF loopVars
<1>2. ASSUME NEW c \in Calls, Submit(c) PROVE ExclusionInv'
  <2>1. /\ spot[c] = "none" /\ spot' = [spot EXCEPT ![c] = "acquire"]
        /\ UNCHANGED <<thread, stored>>
    BY <1>0, <1>2 DEF Submit, MoveTo, CallerInv
  <2>2. /\ spot'[c] = "acquire" /\ \A d \in Calls : d # c => spot'[d] = spot[d]
    BY <1>0, <2>1 DEF LoopTypeOK
  <2>3. ThreadInv'
    BY <2>1, <2>2 DEF ExclusionInv, ThreadInv, OnThread, Waits, EventWaits, FailureWaits
  <2>4. RowInv'
    BY <2>2 DEF ExclusionInv, RowInv, HoldsRow
  <2>5. FreshInv'
    BY <2>1, <2>2 DEF ExclusionInv, FreshInv, Executes
  <2> QED
    BY <2>3, <2>4, <2>5 DEF ExclusionInv
<1>3. ASSUME NEW c \in Calls, Acquire(c) PROVE ExclusionInv'
  BY <1>0, <1>3, EmitExcludes DEF Acquire
<1>4. ASSUME NEW c \in Calls, Updated(c) PROVE ExclusionInv'
  BY <1>0, <1>4, EmitExcludes DEF Updated, HoldsRow
<1>5. ASSUME NEW c \in Calls, ExecuteEnds(c) PROVE ExclusionInv'
  <2>1. /\ spot[c] = "execute" /\ spot' = [spot EXCEPT ![c] = "update"]
        /\ thread' = Nobody /\ UNCHANGED stored
    BY <1>5 DEF ExecuteEnds, MoveTo
  <2>2. thread = c /\ HoldsRow(c) /\ Executes(c) /\ "update" \in Spots \ OnThread
    BY <2>1 DEF ExclusionInv, ThreadInv, HoldsRow, Executes, Spots, Awaiting, OnThread, Waits,
       EventWaits, FailureWaits
  <2> QED
    BY <1>0, <2>1, <2>2, MovePreserves
<1>6. ASSUME NEW c \in Calls, EventWaitEnds(c) \/ FailureWaitEnds(c) PROVE ExclusionInv'
  <2>1. spot[c] \in Waits /\ thread = c /\ HoldsRow(c)
    BY <1>6 DEF EventWaitEnds, FailureWaitEnds, ExclusionInv, ThreadInv, HoldsRow, OnThread,
       Waits, EventWaits, FailureWaits
  <2>2. PICK place \in {"started_failure", "ended_failure", "execute", "end"} :
          /\ spot' = [spot EXCEPT ![c] = place] /\ UNCHANGED stored
          /\ thread' = IF place = "end" THEN Nobody ELSE c
          /\ place \in {"started_failure", "execute"} => Executes(c)
    BY <1>6, <2>1 DEF EventWaitEnds, FailureWaitEnds, MoveTo, Executes, EventWaits, FailureWaits
  <2>3. place \in Spots /\ (place \in OnThread <=> place # "end")
    BY <2>2 DEF Spots, Awaiting, OnThread, Waits, EventWaits, FailureWaits
  <2>4. thread' = IF place \in OnThread THEN c ELSE Nobody
    BY <2>2, <2>3
  <2>5. place \in {"started_event", "started_failure", "execute", "update"} => Executes(c)
    BY <2>2
  <2> QED
    BY <1>0, <2>1, <2>2, <2>3, <2>4, <2>5, MovePreserves
<1>7. ASSUME NEW c \in Calls, Commit(c) \/ Fail(c) PROVE ExclusionInv'
  <2>1. LoopFree /\ spot[c] \in Awaiting /\ MoveTo(c, "done") /\ UNCHANGED thread
    BY <1>7 DEF Commit, Fail, Resolve, Awaiting
  <2>2. stored' = stored \/ (spot[c] = "end" /\ stored' = stored \cup {StepOf[c]})
    BY <1>7 DEF Commit, Fail
  <2> QED
    BY <1>0, <2>1, <2>2, ResolveExcludes
<1>8. ASSUME NEW c \in Calls, CallerTimesOut(c) PROVE ExclusionInv'
  BY <1>8, ExclusionKept DEF CallerTimesOut
<1> QED
  BY <1>1, <1>2, <1>3, <1>4, <1>5, <1>6, <1>7, <1>8 DEF LoopNext, Coroutine, TimeRunsOut

(* The exclusion holds in every reachable state.                           *)
LEMMA Exclusion == LoopSpec => []ExclusionInv
<1>1. LoopInit => ExclusionInv
  BY CanonicalLoopAssumption
     DEF LoopInit, ExclusionInv, ThreadInv, RowInv, FreshInv, HoldsRow, Executes, OnThread,
         Waits, EventWaits, FailureWaits
<1>2. IInv /\ ExclusionInv /\ [LoopNext]_loopVars => ExclusionInv'
  BY NextExcludes
<1> QED
  BY <1>1, <1>2, Invariance, PTL DEF LoopSpec

(* One call at a time executes or waits for itself in the process, whatever*)
(* its step is.                                                            *)
OneHoldsThread == \A c, d \in Calls : spot[c] \in OnThread /\ spot[d] \in OnThread => c = d

(* The thread of the loop is never shared: _CanonicalDbLoop runs one       *)
(* coroutine from await to await.                                          *)
THEOREM ThreadIsNotShared == LoopSpec => []OneHoldsThread
<1>1. ExclusionInv => OneHoldsThread
  BY DEF ExclusionInv, ThreadInv, OneHoldsThread
<1> QED
  BY <1>1, Exclusion, PTL

(* A step with a committed result is not executed.                         *)
StoredIsNotExecuted == \A c \in Calls : spot[c] = "execute" => StepOf[c] \notin stored

(* No call executes a step that has a committed result, however long it has*)
(* waited for its row, for its own loop or for its event before.           *)
THEOREM ExecutesUnstoredOnly == LoopSpec => []StoredIsNotExecuted
<1>1. ExclusionInv => StoredIsNotExecuted
  BY DEF ExclusionInv, FreshInv, Executes, StoredIsNotExecuted
<1> QED
  BY <1>1, Exclusion, PTL

-----------------------------------------------------------------------------
(* The order in which the waits end.                                       *)

(* A coroutine that waits for itself has the limit of its event ahead.     *)
EventAhead ==
  \A c \in Calls :
    spot[c] \in Waits => \E i \in 1..Len(deadlines) : deadlines[i] = <<c, "event">>

Stays(i) == i \in 1..Len(deadlines') /\ deadlines'[i] = deadlines[i]
GoesAhead(i) == i = 1 \/ (i - 1 \in 1..Len(deadlines') /\ deadlines'[i - 1] = deadlines[i])

(* A new limit leaves those ahead where they are.                          *)
LEMMA NewLimitIsLast ==
  ASSUME LoopTypeOK, NEW e \in Limits, deadlines' = Append(deadlines, e)
  PROVE  /\ \A i \in 1..Len(deadlines) : Stays(i)
         /\ Len(deadlines') \in 1..Len(deadlines') /\ deadlines'[Len(deadlines')] = e
<1>1. deadlines \in Seq(Limits) /\ Len(deadlines) \in Nat
  BY Typed
<1> QED
  BY <1>1, Appended DEF Stays

(* When a limit runs out, the others are one place nearer.                 *)
LEMMA FirstLimitGoes ==
  ASSUME LoopTypeOK, deadlines # <<>>, deadlines' = Tail(deadlines)
  PROVE  \A i \in 1..Len(deadlines) : GoesAhead(i)
<1>1. deadlines \in Seq(Limits)
  BY Typed
<1>2. /\ Len(deadlines) \in Nat /\ Len(deadlines') = Len(deadlines) - 1
      /\ \A i \in 1..Len(deadlines') : deadlines'[i] = deadlines[i + 1]
  BY <1>1, Shortened
<1> QED
  BY <1>2 DEF GoesAhead

(* And so they are when the one that ran out is followed by another.       *)
LEMMA FirstLimitRenewed ==
  ASSUME LoopTypeOK, deadlines # <<>>, NEW e \in Limits,
         deadlines' = Append(Tail(deadlines), e)
  PROVE  /\ \A i \in 1..Len(deadlines) : GoesAhead(i)
         /\ Len(deadlines') \in 1..Len(deadlines') /\ deadlines'[Len(deadlines')] = e
<1> DEFINE rest == Tail(deadlines)
<1>1. deadlines \in Seq(Limits)
  BY Typed
<1>2. /\ rest \in Seq(Limits)
      /\ Len(deadlines) \in Nat /\ Len(rest) = Len(deadlines) - 1
      /\ Len(rest) \in Nat
      /\ \A i \in 1..Len(rest) : rest[i] = deadlines[i + 1]
  BY <1>1, Shortened, LenProperties
<1>3. /\ Len(deadlines') = Len(rest) + 1
      /\ \A i \in 1..Len(rest) : deadlines'[i] = rest[i]
      /\ deadlines'[Len(rest) + 1] = e
  BY <1>2, Appended
<1> HIDE DEF rest
<1> QED
  BY <1>2, <1>3 DEF GoesAhead

(* The steps of calls leave the limits where they are, ...                 *)
LEMMA CallsLeaveLimits ==
  ASSUME LoopTypeOK, NEW c \in Calls, Submit(c) \/ Coroutine(c), NEW i \in 1..Len(deadlines)
  PROVE  Stays(i)
<1>1. <<c, "event">> \in Limits /\ <<c, "call">> \in Limits
  BY DEF Limits
<1>2. CASE deadlines' = deadlines
  BY <1>2 DEF Stays
<1>3. CASE \E e \in Limits : deadlines' = Append(deadlines, e)
  BY <1>3, NewLimitIsLast
<1>4. deadlines' = deadlines \/ \E e \in Limits : deadlines' = Append(deadlines, e)
  BY <1>1 DEF Submit, Coroutine, Acquire, Updated, EmitStarted, EmitEnded, Emit, ExecuteEnds,
     Commit, Fail, Resolve
<1> QED
  BY <1>2, <1>3, <1>4

(* ... and time that runs out brings each one nearer.                      *)
LEMMA TimeGoesBy ==
  ASSUME LoopTypeOK, NEW c \in Calls, TimeRunsOut(c), NEW i \in 1..Len(deadlines)
  PROVE  GoesAhead(i)
<1>1. <<c, "event">> \in Limits
  BY DEF Limits
<1>2. CASE EventWaitEnds(c)
  BY <1>1, <1>2, FirstLimitRenewed DEF EventWaitEnds, Expires
<1>3. CASE FailureWaitEnds(c) \/ CallerTimesOut(c)
  BY <1>3, FirstLimitGoes DEF FailureWaitEnds, CallerTimesOut, Expires
<1> QED
  BY <1>2, <1>3 DEF TimeRunsOut

(* Every step leaves the limit of an event ahead of who waits for it.      *)
LEMMA EventStaysAhead ==
  ASSUME LoopTypeOK, EventAhead, [LoopNext]_loopVars PROVE EventAhead'
<1> SUFFICES ASSUME NEW d \in Calls, spot'[d] \in Waits
             PROVE  \E i \in 1..Len(deadlines') : deadlines'[i] = <<d, "event">>
  BY DEF EventAhead
<1>1. CASE UNCHANGED loopVars
  BY <1>1 DEF loopVars, EventAhead
<1>2. ASSUME spot[d] \in Waits,
             NEW c \in Calls, Submit(c) \/ Coroutine(c) \/ TimeRunsOut(c),
             d # c \/ CallerTimesOut(c)
      PROVE  \E i \in 1..Len(deadlines') : deadlines'[i] = <<d, "event">>
  <2>1. PICK i \in 1..Len(deadlines) : deadlines[i] = <<d, "event">>
    BY <1>2 DEF EventAhead
  <2>2. CASE Submit(c) \/ Coroutine(c)
    BY <2>1, <2>2, CallsLeaveLimits DEF Stays
  <2>3. CASE TimeRunsOut(c)
    <3>1. deadlines[1] \in {<<c, "call">>} \cup (IF d # c THEN {<<c, "event">>} ELSE {})
      BY <1>2, <2>3, Typed, Shortened
         DEF TimeRunsOut, EventWaitEnds, FailureWaitEnds, CallerTimesOut, Expires
    <3>2. i # 1
      BY <2>1, <3>1
    <3> QED
      BY <2>1, <2>3, <3>2, TimeGoesBy DEF GoesAhead
  <2> QED
    BY <1>2, <2>2, <2>3
<1>3. ASSUME NEW c \in Calls, Submit(c) \/ Coroutine(c) \/ TimeRunsOut(c), d # c
      PROVE  \E i \in 1..Len(deadlines') : deadlines'[i] = <<d, "event">>
  <2>1. spot'[d] = spot[d]
    BY <1>3 DEF LoopTypeOK, Submit, Coroutine, TimeRunsOut, Acquire, EmitStarted, EmitEnded, Emit,
       ExecuteEnds, Updated, Commit, Fail, Resolve, MoveTo, EventWaitEnds, FailureWaitEnds,
       CallerTimesOut
  <2> QED
    BY <1>2, <1>3, <2>1
<1>4. CASE CallerTimesOut(d)
  BY <1>2, <1>4 DEF CallerTimesOut, TimeRunsOut
<1>5. CASE EventWaitEnds(d)
  BY <1>5, FirstLimitRenewed DEF EventWaitEnds, Expires, Limits
<1>6. CASE Submit(d) \/ ExecuteEnds(d) \/ Commit(d) \/ Fail(d) \/ FailureWaitEnds(d)
  <2>1. spot'[d] \in {"acquire", "update", "done", "execute", "end"}
    BY <1>6 DEF LoopTypeOK, Submit, ExecuteEnds, Commit, Fail, Resolve, FailureWaitEnds, MoveTo
  <2> QED
    BY <2>1 DEF Waits, EventWaits, FailureWaits
<1>7. CASE Acquire(d) \/ Updated(d)
  <2>1. PICK event \in EventWaits, next \in {"execute", "end"} : Emit(d, event, next)
    BY <1>7 DEF Acquire, Updated, EmitStarted, EmitEnded, EventWaits
  <2>2. d \in audited
    BY <2>1 DEF LoopTypeOK, Emit, MoveTo, Waits, EventWaits, FailureWaits
  <2> QED
    BY <2>1, <2>2, NewLimitIsLast DEF Emit, Limits
<1> QED
  BY <1>1, <1>3, <1>4, <1>5, <1>6, <1>7 DEF LoopNext, Coroutine, TimeRunsOut

(* It is ahead in every reachable state.                                   *)
LEMMA EventsAhead == LoopSpec => []EventAhead
<1>1. LoopInit => EventAhead
  BY DEF LoopInit, EventAhead, Waits, EventWaits, FailureWaits
<1>2. IInv /\ EventAhead /\ [LoopNext]_loopVars => EventAhead'
  BY EventStaysAhead DEF IInv
<1> QED
  BY <1>1, <1>2, Invariance, PTL DEF LoopSpec

(* Nobody waits without a limit ahead, and the first limit is one that can *)
(* run out: it is the caller's, or that of a coroutine that waits for it.  *)
WaitsHaveLimits ==
  /\ \A c \in Calls :
       /\ caller[c] = "waiting" => \E i \in 1..Len(deadlines) : deadlines[i] = <<c, "call">>
       /\ spot[c] \in Waits => \E i \in 1..Len(deadlines) : deadlines[i] = <<c, "event">>
  /\ deadlines # <<>> =>
       \E c \in Calls : Expires(c, "call") \/ (Expires(c, "event") /\ spot[c] \in Waits)

(* No wait on the loop depends on anything but time: while a thread waits  *)
(* in future.result, or a coroutine for a call that only its own thread    *)
(* could serve, the first time limit is ready to run out.                  *)
THEOREM NobodyWaitsWithoutLimit == LoopSpec => []WaitsHaveLimits
<1>1. ASSUME IInv, EventAhead PROVE WaitsHaveLimits
  <2>1. LoopTypeOK /\ WaitingListed /\ EventListed
    BY <1>1 DEF IInv, ListInv
  <2>2. ASSUME deadlines # <<>>
        PROVE  \E c \in Calls : Expires(c, "call") \/ (Expires(c, "event") /\ spot[c] \in Waits)
    <3>1. Head(deadlines) = deadlines[1] /\ 1 \in 1..Len(deadlines) /\ deadlines[1] \in Limits
      BY <2>1, <2>2, Typed, Shortened, ElementOfSeq
    <3>2. PICK c \in Calls : deadlines[1] = <<c, "call">> \/ deadlines[1] = <<c, "event">>
      BY <3>1 DEF Limits
    <3> QED
      BY <2>1, <2>2, <3>1, <3>2 DEF EventListed, Expires
  <2> QED
    BY <1>1, <2>1, <2>2 DEF WaitsHaveLimits, WaitingListed, EventAhead
<1> QED
  BY <1>1, Invariance, EventsAhead, PTL

(* No step puts a time limit back, and each one that runs out brings the   *)
(* others nearer: later calls and events of the loop prolong no wait.      *)
NoWaitIsProlonged ==
  [][\A i \in 1..Len(deadlines) :
       /\ Stays(i) \/ GoesAhead(i)
       /\ (\E c \in Calls : TimeRunsOut(c)) => GoesAhead(i)]_loopVars

(* The list of limits is served in order, whatever is added to it meanwhile*)
(* (every wait of _CanonicalDbLoop lasts 30 s).                            *)
THEOREM WaitsAreNotProlonged == LoopSpec => NoWaitIsProlonged
<1>1. ASSUME IInv, LoopNext, NEW i \in 1..Len(deadlines)
      PROVE  /\ Stays(i) \/ GoesAhead(i)
             /\ (\E c \in Calls : TimeRunsOut(c)) => GoesAhead(i)
  <2>1. LoopTypeOK
    BY <1>1 DEF IInv
  <2> QED
    BY <1>1, <2>1, CallsLeaveLimits, TimeGoesBy DEF LoopNext
<1>2. IInv /\ [LoopNext]_loopVars =>
        [\A i \in 1..Len(deadlines) :
           /\ Stays(i) \/ GoesAhead(i)
           /\ (\E c \in Calls : TimeRunsOut(c)) => GoesAhead(i)]_loopVars
  BY <1>1
<1> QED
  BY <1>2, Invariance, PTL DEF LoopSpec, NoWaitIsProlonged
=============================================================================
