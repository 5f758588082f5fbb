---------------------------- MODULE MCTunnelFlow ----------------------------
EXTENDS TunnelFlow

\* The agent sends more than a window.
OneWay == [x \in Side |-> IF x = "agent" THEN 3 ELSE 0]
=============================================================================
