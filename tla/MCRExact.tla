------------------------------- MODULE MCRExact -------------------------------
EXTENDS RExact
(* A proposal for the first document, and one for the candidate of the first. *)
MCBase == [p \in Proposals |-> IF p = "p" THEN 2 ELSE 1]
MCCand == [p \in Proposals |-> IF p = "p" THEN 1 ELSE 3]
MCStart == 2
===============================================================================
