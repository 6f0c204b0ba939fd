------------------------- MODULE MCWebSocketManager -------------------------
(* WebSocketManager for TLC.                                               *)
EXTENDS WebSocketManager

FloatExponent == 1023  \* the exponent of the largest double
LongOutage    == 1025
=============================================================================
