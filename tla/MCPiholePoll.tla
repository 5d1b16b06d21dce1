---------------------------- MODULE MCPiholePoll ----------------------------
(* Small instance of PiholePoll: two Pi-holes nothing tells apart.          *)
EXTENDS PiholePoll, TLC

MCSymmetry == Permutations(Hosts)
=============================================================================
