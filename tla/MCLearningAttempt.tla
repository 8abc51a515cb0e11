--------------------------- MODULE MCLearningAttempt ---------------------------
(* The attempt of one task, by one or two workers.                         *)
EXTENDS LearningAttempt, TLC
===============================================================================
