------------------------- MODULE MCSimpleRTSPServer -------------------------
EXTENDS SimpleRTSPServerProps, TLC

\* Clients differ by name only: descriptors are chosen by number.
Symmetry == Permutations(Clients)
=============================================================================
