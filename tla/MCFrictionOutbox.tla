-------------------------- MODULE MCFrictionOutbox --------------------------
EXTENDS FrictionOutbox, TLC
CONSTANTS fr, h, i, j, a, b
MCReports == {fr, h}
MCHealth == {h}
MCAgents == {a, b}
MCInstances == {i, j}
MCServers == {a}
MCNames == 1..9
MCInstanceOf == a :> i @@ b :> j
=============================================================================
