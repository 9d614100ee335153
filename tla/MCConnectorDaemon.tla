------------------------- MODULE MCConnectorDaemon -------------------------
(* Three processes on two ports, two commands at a time, three in all.        *)
EXTENDS ConnectorDaemon, TLC

CONSTANTS c1, c2
MCSymmetry == Permutations(Commands)
============================================================================
