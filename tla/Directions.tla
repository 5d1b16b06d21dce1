------------------------------ MODULE Directions ------------------------------
(***************************************************************************)
(* Which way a firewall row went: the parser's derivation from the WAN     *)
(* interfaces and addresses in force (firewall.rs), the bookkeeping task   *)
(* that re-reads both from the settings (collector.rs), and the UPDATE     *)
(* that brings the stored rows in line when the interfaces change.         *)
(*                                                                         *)
(* A row is the packet it reports.  Between the parser and the table it is *)
(* on its way through the channel and the writer (Ingest).                 *)
(***************************************************************************)
EXTENDS Integers, FiniteSets

CONSTANTS
  Ifaces,       \* interface names, as gateway and settings spell them
  NoIface,      \* IN= or OUT= is empty
  VpnIfaces,    \* those with one of VPN_PREFIXES
  Addrs,        \* addresses the WAN may have
  Elsewhere,    \* any other address
  Packets,      \* the packets that are logged
  StartIfaces,  \* UIP_WAN_IFACES
  IfaceChoices, \* what settings and controller may name as WAN interfaces
  AddrChoices,  \* and as WAN addresses
  MaxChanges,   \* bound: changes of the settings and restarts
  MaxFaults     \* bound: failing statements

ASSUME DirectionsAssumption ==
  /\ NoIface \notin Ifaces /\ VpnIfaces \subseteq Ifaces
  /\ Elsewhere \notin Addrs
  /\ Packets \subseteq [in : Ifaces \cup {NoIface}, out : Ifaces \cup {NoIface},
                        src : Addrs \cup {Elsewhere},
                        multicast : BOOLEAN, nat : BOOLEAN]
  /\ StartIfaces \subseteq Ifaces
  /\ IfaceChoices \subseteq SUBSET Ifaces /\ AddrChoices \subseteq SUBSET Addrs
  /\ MaxChanges \in Nat /\ MaxFaults \in Nat

VARIABLES
  manual,    \* [ifaces, addrs] in the settings: wan_interfaces, wan_ips
  detected,  \* [ifaces, addrs] the controller reported
  ctx,       \* [ifaces, addrs], FirewallCtx
  way,       \* [Packets -> Direction \cup {Absent}], parsed, not yet stored
  stored,    \* [Packets -> Direction \cup {Absent}], logs.direction_id
  pc,        \* run_bookkeeping: addrs, ifaces, correct, rest
  stale,     \* history: rows a correction could not reach
  changes,   \* bound counter
  faults     \* bound counter

settings == <<manual, detected>>
rows     == <<way, stored>>
vars     == <<settings, ctx, rows, pc, stale, changes, faults>>

Absent == "absent"
Direction == {"none", "inbound", "outbound", "local", "inter_vlan", "vpn", "nat"}

Faulty == faults < MaxFaults /\ faults' = faults + 1

-----------------------------------------------------------------------------
(* The rule, once in the parser and once in SQL.                           *)

WanIn(p, wan)  == p.in \in wan
WanOut(p, wan) == p.out \in wan

\* derive_direction(): the first reason that applies.
DeriveDirection(p, wan, addrs) ==
  IF p.in = NoIface /\ p.out = NoIface THEN "none"
  ELSE IF p.multicast THEN "local"
  ELSE IF p.src \in addrs /\ ~WanOut(p, wan) THEN "local"
  ELSE IF p.nat THEN "nat"
  ELSE IF WanIn(p, wan) /\ ~WanOut(p, wan) THEN "inbound"
  ELSE IF ~WanIn(p, wan) /\ WanOut(p, wan) THEN "outbound"
  ELSE IF WanIn(p, wan) /\ WanOut(p, wan) THEN "local"
  ELSE IF p.out = NoIface \/ p.in = p.out THEN "local"
  ELSE IF {p.in, p.out} \cap VpnIfaces # {} THEN "vpn"
  ELSE "inter_vlan"

\* Mutant of Correctable: rows with a reason of their own as well.
CorrectableAll(p, dir, wan) == WanIn(p, wan) # WanOut(p, wan)

\* The WHERE of correct_directions().
Correctable(p, dir, wan) ==
  dir \in {"local", "inter_vlan"} /\ WanIn(p, wan) # WanOut(p, wan)

Corrected(p, dir, wan) ==
  IF dir # Absent /\ Correctable(p, dir, wan)
  THEN IF WanIn(p, wan) THEN "inbound" ELSE "outbound"
  ELSE dir

\* Mutant of Effective: what was typed and what was reported are united.
EffectiveUnion(typed, reported, fallback) ==
  IF typed \cup reported # {} THEN typed \cup reported ELSE fallback

\* effective_wan_ips() and effective_wan_interfaces(): what was typed wins over
\* what was reported, and that over the start value.
Effective(typed, reported, fallback) ==
  IF typed # {} THEN typed ELSE IF reported # {} THEN reported ELSE fallback

-----------------------------------------------------------------------------
Init ==
  /\ manual \in [ifaces : IfaceChoices, addrs : AddrChoices]
  /\ detected = [ifaces |-> {}, addrs |-> {}]
  /\ ctx = [ifaces |-> StartIfaces, addrs |-> manual.addrs]
  /\ way = [p \in Packets |-> Absent] /\ stored = [p \in Packets |-> Absent]
  /\ pc = "addrs"
  /\ stale = {}
  /\ changes = 0 /\ faults = 0

\* The operator types a setting, or empties it.
SetManual(ifaces, addrs) ==
  /\ changes < MaxChanges /\ changes' = changes + 1
  /\ manual' = [ifaces |-> ifaces, addrs |-> addrs]
  /\ manual' # manual
  /\ UNCHANGED <<detected, ctx, rows, pc, stale, faults>>

\* store_wan_addresses(): a controller that names none changes nothing.
Detect(ifaces, addrs) ==
  /\ changes < MaxChanges /\ changes' = changes + 1
  /\ detected' = [ifaces |-> IF ifaces # {} THEN ifaces ELSE detected.ifaces,
                  addrs  |-> IF addrs # {} THEN addrs ELSE detected.addrs]
  /\ detected' # detected
  /\ UNCHANGED <<manual, ctx, rows, pc, stale, faults>>

\* parse_firewall(), with what is in force now.
Parse(p) ==
  /\ way[p] = Absent /\ stored[p] = Absent
  /\ way' = [way EXCEPT ![p] = DeriveDirection(p, ctx.ifaces, ctx.addrs)]
  /\ UNCHANGED <<settings, ctx, stored, pc, stale, changes, faults>>

\* Mutant of Store: the batch is kept after its INSERT.
StoreKept(p) ==
  /\ way[p] # Absent
  /\ stored' = [stored EXCEPT ![p] = way[p]]
  /\ UNCHANGED <<settings, ctx, way, pc, stale, changes, faults>>

\* The writer's INSERT.
Store(p) ==
  /\ way[p] # Absent
  /\ stored' = [stored EXCEPT ![p] = way[p]]
  /\ way' = [way EXCEPT ![p] = Absent]
  /\ UNCHANGED <<settings, ctx, pc, stale, changes, faults>>

-----------------------------------------------------------------------------
(* run_bookkeeping().                                                      *)

\* What a round finds in force.  Settings that cannot be read count as empty.
InForce(typed, reported, fallback, next) ==
  \/ next = Effective(typed, reported, fallback) /\ UNCHANGED faults
  \/ /\ Faulty
     /\ \E t \in {typed, {}}, r \in {reported, {}} :
          next = Effective(t, r, fallback)

ReadAddrs ==
  /\ pc = "addrs"
  /\ \E addrs \in SUBSET Addrs :
       /\ InForce(manual.addrs, detected.addrs, {}, addrs)
       /\ ctx' = [ctx EXCEPT !.addrs = addrs]
  /\ pc' = "ifaces"
  /\ UNCHANGED <<settings, rows, stale, changes>>

ReadIfaces ==
  /\ pc = "ifaces"
  /\ \E ifaces \in SUBSET Ifaces :
       /\ InForce(manual.ifaces, detected.ifaces, StartIfaces, ifaces)
       /\ ctx' = [ctx EXCEPT !.ifaces = ifaces]
       /\ pc' = IF ifaces = ctx.ifaces THEN "rest" ELSE "correct"
  /\ UNCHANGED <<settings, rows, stale, changes>>

\* correct_directions(), once per change; an empty set corrects nothing.
Correct ==
  /\ pc = "correct"
  /\ stored' = [p \in Packets |-> Corrected(p, stored[p], ctx.ifaces)]
  /\ stale' = {p \in Packets : way[p] # Absent}
  /\ pc' = "rest"
  /\ UNCHANGED <<settings, ctx, way, changes, faults>>

\* It fails and is only logged.
CorrectFails ==
  /\ pc = "correct"
  /\ Faulty
  /\ stale' = {p \in Packets : way[p] # Absent \/ stored[p] # Absent}
  /\ pc' = "rest"
  /\ UNCHANGED <<settings, ctx, rows, changes>>

NextRound ==
  /\ pc = "rest"
  /\ pc' = "addrs"
  /\ UNCHANGED <<settings, ctx, rows, stale, changes, faults>>

\* A new process starts with the start values and the typed addresses; what was
\* on its way is lost.  Rows stored under other interfaces, or before a
\* correction that was due, wait for the next correction.
Restart ==
  /\ changes < MaxChanges /\ changes' = changes + 1
  /\ ctx' = [ifaces |-> StartIfaces, addrs |-> manual.addrs]
  /\ way' = [p \in Packets |-> Absent]
  /\ pc' = "addrs"
  /\ stale' = IF pc = "correct" \/ ctx.ifaces # StartIfaces
              THEN {p \in Packets : stored[p] # Absent}
              ELSE stale
  /\ UNCHANGED <<settings, stored, faults>>

Bookkeeping == ReadAddrs \/ ReadIfaces \/ Correct \/ CorrectFails \/ NextRound

Next ==
  \/ \E ifaces \in IfaceChoices, addrs \in AddrChoices :
       SetManual(ifaces, addrs) \/ Detect(ifaces, addrs)
  \/ \E p \in Packets : Parse(p) \/ Store(p)
  \/ Bookkeeping
  \/ Restart

Spec == Init /\ [][Next]_vars

\* The bookkeeping task never ends.
FairSpec == Spec /\ WF_vars(Bookkeeping)

-----------------------------------------------------------------------------
TypeOK ==
  /\ manual \in [ifaces : SUBSET Ifaces, addrs : SUBSET Addrs]
  /\ detected \in [ifaces : SUBSET Ifaces, addrs : SUBSET Addrs]
  /\ ctx \in [ifaces : SUBSET Ifaces, addrs : SUBSET Addrs]
  /\ way \in [Packets -> Direction \cup {Absent}]
  /\ stored \in [Packets -> Direction \cup {Absent}]
  /\ \A p \in Packets : Absent \in {way[p], stored[p]}
  /\ pc \in {"addrs", "ifaces", "correct", "rest"}
  /\ stale \in SUBSET Packets
  /\ changes \in Nat /\ faults \in Nat

\* Rows whose direction nothing but the interfaces decides.
Plain(p) == ~p.multicast /\ p.src = Elsewhere /\ ~p.nat

(* The UPDATE and the parser agree: a row the correction moves gets the     *)
(* direction the parser would give it today (collector.rs:173-184).         *)
CorrectionRederives ==
  [][\A p \in Packets :
       /\ Plain(p)
       /\ stored[p] # Absent /\ stored'[p] # stored[p]
       => stored'[p] = DeriveDirection(p, ctx.ifaces, ctx.addrs)]_vars

(* "Everything with a reason of its own stays as it is" (collector.rs:      *)
(* 182-184): for rows that are nat or vpn.                                  *)
ReasonedStay ==
  [][\A p \in Packets : stored[p] \in {"nat", "vpn"} => stored'[p] = stored[p]]_vars

\* A row that looks internal although exactly one of its sides is the WAN.
LooksInternal(p) ==
  /\ Plain(p)
  /\ stored[p] \in {"local", "inter_vlan"}
  /\ (p.in \in ctx.ifaces) # (p.out \in ctx.ifaces)

(* Between two rounds no stored row looks internal that crosses the WAN: a  *)
(* filter on inbound finds it (collector.rs:176-179).  Except for rows that *)
(* were on their way while the correction ran, a correction that failed,    *)
(* and one a restart came before.                                           *)
NoWanRowLooksInternal ==
  pc = "rest" => \A p \in Packets \ stale : ~LooksInternal(p)

(* The table follows the interfaces: between two rounds no row looks        *)
(* internal that crosses the WAN, a row that moves goes where the parser    *)
(* would put it, and one with a reason of its own never moves               *)
(* (collector.rs:173-220).                                                  *)
DirectionsFollowWan == []NoWanRowLooksInternal /\ CorrectionRederives /\ ReasonedStay

(* Once the settings stay as they are, they are in force for good, and an   *)
(* address that was typed in once is not (collector.rs:125-153).            *)
SettingsTakeEffect ==
  <>[](/\ manual.addrs # {} => ctx.addrs = manual.addrs
       /\ manual.addrs = {} => ctx.addrs = detected.addrs
       /\ manual.ifaces # {} => ctx.ifaces = manual.ifaces
       /\ manual.ifaces = {} /\ detected.ifaces # {} => ctx.ifaces = detected.ifaces)
=============================================================================
