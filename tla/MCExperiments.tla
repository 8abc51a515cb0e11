---------------------------- MODULE MCExperiments ----------------------------
EXTENDS Experiments, TLC
CONSTANTS x1, x2, y1, z1, va, vb, vc
(* Two rivals of one champion, va, and an experiment that leads back to it; *)
(* the pool that has grown packages the first of the rivals anew.           *)
MCChampion == x1 :> va @@ x2 :> va @@ y1 :> va @@ z1 :> vb
MCChallenger == x1 :> vb @@ x2 :> vb @@ y1 :> vc @@ z1 :> va
MCPools == <<<<x1>>, <<x2>>>>

Ran(arm, s, p, product) == [arm |-> arm, sample |-> s, pass |-> p, product |-> product]
Won2 == {Ran("champion", 1, FALSE, "discarded"), Ran("challenger", 1, TRUE, "useful")}
MCResults == x1 :> {Ran("champion", 1, FALSE, "useful"), Ran("challenger", 1, TRUE, "unrated"),
                    Ran("challenger", 2, TRUE, "useful")}
             @@ x2 :> {} @@ y1 :> Won2 @@ z1 :> Won2
==============================================================================
