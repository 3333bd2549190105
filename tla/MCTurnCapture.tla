--------------------------- MODULE MCTurnCapture ---------------------------
(* TLC instances of TurnCapture.                                          *)
EXTENDS TurnCapture, TLC

CONSTANTS s1, s2, f1
=============================================================================
