--------------------------- MODULE MCPositionState ---------------------------
EXTENDS PositionState

=============================================================================
