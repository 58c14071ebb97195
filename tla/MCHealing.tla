----------------------------- MODULE MCHealing -----------------------------
\* Values of the constants for TLC.
EXTENDS Healing, TLC
CONSTANTS c1, c2, i1, f1, x1, x2
MCClients == {c1, c2}
MCIncidents == {i1}
MCFiles == {f1}
MCContents == {x1, x2}
MCSymmetry == Permutations(MCClients)
=============================================================================
