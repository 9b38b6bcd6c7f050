---------------------------- MODULE MCSessionPane ----------------------------
EXTENDS SessionPaneProps
CONSTANTS s1, s2, c1, c2
Symmetry == Permutations(Conn)
=============================================================================
