------------------------------ MODULE EventStream ------------------------------
(***************************************************************************)
(* What the client of a chat turn may rely on, whatever threads and queues *)
(* carry the events: each event it receives comes behind the ones it has,  *)
(* one of them is the answer, nothing comes behind the answer, and the     *)
(* stream is not closed before it.                                         *)
(***************************************************************************)
EXTENDS Naturals, Sequences

CONSTANTS
  Streams,
  News,       \* events that tell of the work on the answer
  Answers     \* events that are the answer, or say why there is none

VARIABLES
  received,   \* received[s]: the events the client has
  closed      \* closed[s]: the stream is over

Init ==
  /\ received = [s \in Streams |-> <<>>]
  /\ closed = [s \in Streams |-> FALSE]

Answered(s) == received[s] # <<>> /\ received[s][Len(received[s])] \in Answers

Receive(s, event) ==
  /\ ~closed[s] /\ ~Answered(s)
  /\ received' = [received EXCEPT ![s] = Append(@, event)]
  /\ UNCHANGED closed

Close(s) ==
  /\ ~closed[s] /\ Answered(s)
  /\ closed' = [closed EXCEPT ![s] = TRUE]
  /\ UNCHANGED received

Next ==
  \E s \in Streams : Close(s) \/ \E event \in News \cup Answers : Receive(s, event)

Spec == Init /\ [][Next]_<<received, closed>>
===============================================================================
