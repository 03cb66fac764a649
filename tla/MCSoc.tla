------------------------------- MODULE MCSoc -------------------------------
EXTENDS Soc, TLC

Symmetry == Permutations(Rom)
=============================================================================
