---------------------------- MODULE MCDelegation ----------------------------
EXTENDS Delegation, TLC
CONSTANTS c1, c2, q1, q2, a, b, s, t
MCSymmetry ==
    Permutations({c1, c2}) \cup Permutations({q1, q2}) \cup Permutations({a, b}) \cup Permutations({s, t})
=============================================================================
