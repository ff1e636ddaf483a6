---------------------------- MODULE MCRemediation ----------------------------
(* Two mails, with a step between them that no connector does.  Either mail*)
(* may be tried again, and three executions are started in all.            *)
EXTENDS Remediation, TLC

MCTwoMails == <<"send", "manual", "send">>

ThreeExecutions == attempts[1] + attempts[3] <= 3

TurnSymmetry == Permutations(Turns)
=============================================================================
