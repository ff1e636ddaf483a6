------------------------- MODULE MCCanonicalHandoff -------------------------
EXTENDS CanonicalHandoff, TLC

=============================================================================
