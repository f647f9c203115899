------------------------ MODULE MC_WebSocketClient -------------------------
(* Instantiates WebSocketClient for TLC with model-value callers.          *)
EXTENDS WebSocketClient

CONSTANTS c1, c2

OneCaller  == {c1}
TwoCallers == {c1, c2}
=============================================================================
