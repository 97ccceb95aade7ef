---------------------------- MODULE PlanetLinkMC ----------------------------
\* The requests are alike.
EXTENDS PlanetLink, TLC

CONSTANTS a, b, c, d, e

MCSymmetry == Permutations(Ops)
=============================================================================
