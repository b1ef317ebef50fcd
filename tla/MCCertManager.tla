-------------------------- MODULE MCCertManager --------------------------
EXTENDS CertManager, TLC

CONSTANTS c1, c2, p1, p2, i1, i2

MCSymmetry ==
    Permutations({c1, c2}) \cup Permutations({p1, p2}) \cup Permutations({i1, i2})
=============================================================================
