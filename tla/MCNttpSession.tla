--------------------------- MODULE MCNttpSession ---------------------------
(* Values of the constants of NttpSession for TLC.                          *)
EXTENDS NttpSession, TLC

CONSTANTS g1, g2

MCGroupOf == [s \in Segment |-> IF s = 2 THEN g2 ELSE g1]

=============================================================================
