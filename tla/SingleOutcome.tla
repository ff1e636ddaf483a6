---------------------------- MODULE SingleOutcome ----------------------------
(***************************************************************************)
(* What the replay of an idempotent step promises its callers, whatever    *)
(* the storage does: an operation settles on at most one outcome, it never *)
(* changes it, and no caller is ever given anything else.                  *)
(***************************************************************************)
CONSTANTS
  Operations,   \* idempotency keys
  Results,      \* results an execution can have
  Unsettled     \* the outcome of an operation that has none

VARIABLES
  outcome,      \* outcome[o]: the result o has settled on
  seen          \* seen[o]: the results callers were given for o

Init ==
  /\ outcome = [o \in Operations |-> Unsettled]
  /\ seen = [o \in Operations |-> {}]

(* The operation settles; the caller that executed it may learn the result *)
(* or may have gone away.                                                  *)
Settle(o, r) ==
  /\ outcome[o] = Unsettled
  /\ outcome' = [outcome EXCEPT ![o] = r]
  /\ \/ seen' = [seen EXCEPT ![o] = @ \cup {r}]
     \/ UNCHANGED seen

(* A caller is given the outcome.                                          *)
Show(o) ==
  /\ outcome[o] # Unsettled
  /\ seen' = [seen EXCEPT ![o] = @ \cup {outcome[o]}]
  /\ UNCHANGED outcome

Next == \E o \in Operations : Show(o) \/ \E r \in Results \ {Unsettled} : Settle(o, r)

Spec == Init /\ [][Next]_<<outcome, seen>>

(* All callers of an operation are given the same result.                  *)
Agreement ==
  \A o \in Operations : seen[o] \subseteq ({outcome[o]} \ {Unsettled})
=============================================================================
