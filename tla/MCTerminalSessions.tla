------------------------- MODULE MCTerminalSessions -------------------------
(* TerminalSessions with model values for the sessions and the WebSockets.  *)
EXTENDS TerminalSessions

CONSTANTS s1, s2, c1, c2

=============================================================================
