-------------------------- MODULE MCLearningRegistry --------------------------
EXTENDS LearningRegistry
CONSTANTS n, x, ra, rb, attempt
MCKinds == <<"submission", "terminal">>
(* Two receipts tell different outcomes of one external attempt, whose     *)
(* outcome is excluded at some time.                                       *)
MCTaskOf == [r \in Receipts |-> x]
MCAttemptOf == [r \in Receipts |-> attempt]
MCAmendments == {[kind |-> "exclusion", of |-> Event("terminal", attempt), by |-> x]}
===============================================================================
