----------------------------- MODULE MCChatStream -----------------------------
(* Two turns, one of which makes a step, and a remediation request for the *)
(* same step.                                                              *)
EXTENDS ChatStream

MCStepOf == [c \in Calls |-> CHOOSE step \in Steps : TRUE]
=============================================================================
