--------------------------- MODULE MCQualityLedger ---------------------------
EXTENDS QualityLedger, TLC
CONSTANTS x, y, z
MCSymmetry == Permutations({x, y, z})
=============================================================================
