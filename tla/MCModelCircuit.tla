--------------------------- MODULE MCModelCircuit ---------------------------
EXTENDS ModelCircuit, TLC

CallerSymmetry == Permutations(Callers)
=============================================================================
