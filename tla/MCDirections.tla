----------------------------- MODULE MCDirections -----------------------------
(* Small instance of Directions: two interfaces that may be the WAN, a LAN  *)
(* and a VPN, and one packet of each kind the rules tell apart.             *)
EXTENDS Directions

CONSTANTS w1, w2, lan, vpn, wanAddr

MCPacket(in, out) ==
  [in |-> in, out |-> out, src |-> Elsewhere, multicast |-> FALSE, nat |-> FALSE]

MCPackets ==
  {MCPacket(w2, NoIface), MCPacket(vpn, w2),
   [MCPacket(w2, lan) EXCEPT !.nat = TRUE, !.src = wanAddr]}

MCIfaceChoices == {{}, {w1}, {w2}}
MCAddrChoices == {{}, {wanAddr}}
=============================================================================
