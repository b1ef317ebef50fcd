---------------------------- MODULE MCNetSession ----------------------------
EXTENDS NetSession, TLC
CONSTANTS c1, c2, c3
MCSymmetry == Permutations({c1, c2, c3})
=============================================================================
