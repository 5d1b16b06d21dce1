------------------------------- MODULE UnifiSync -------------------------------
(***************************************************************************)
(* Names from the UniFi controller (unifi.rs).  Every five minutes the     *)
(* loop reads what the controller knows, one request after the other, and  *)
(* writes it to tables the views read names from: clients and devices by   *)
(* MAC, addresses, interfaces and firewall rules.  Requests and single     *)
(* statements fail, the process restarts, and the controller changes       *)
(* between two requests.                                                   *)
(***************************************************************************)
EXTENDS Null, Integers, Sequences, FiniteSets, SequencesExt, FiniteSetsExt, TLC

CONSTANTS
  Controller,  \* what the controller may be: a set of names ...
  Content,     \* ... and what it then answers, by name
  LogIfaces,   \* interfaces that occur in stored lines
  MaxFaults,   \* bound: failing requests and statements, restarts
  MaxChanges   \* bound: changes of the controller and of the settings

VARIABLES
  site,        \* name of what the controller is now
  setup,       \* the user's settings: None or one of two setups
  own_names,   \* interface_names: the user's own labels
  current,     \* the client's setup, kept by the loop
  pc,          \* what the loop does next
  got,         \* answers of this sync
  todo,        \* client entries still to be written
  clients,     \* unifi_clients: mac -> [ip, name]
  devices,     \* unifi_devices: mac -> [ip, name]
  addresses,   \* device_addresses: ip -> [name, kind]
  networks,    \* unifi_networks: interface -> name
  policies,    \* unifi_firewall_policies: rule key -> name
  wan,         \* wan_ips_detected and wan_interfaces_detected
  status,      \* unifi_status
  disturbed,   \* history: a fault or change since this sync began
  unclear,     \* history: addresses that were not taken from their holder
  faults, changes

tables  == <<clients, devices, addresses, networks, policies, wan>>
history == <<disturbed, unclear>>
unifi_vars == <<site, setup, own_names, current, pc, got, todo, tables, status, history,
                faults, changes>>

EmptyTable == [k \in {} |-> None]
Without(f, keys) == [k \in DOMAIN f \ keys |-> f[k]]
Upsert(f, k, v) == [x \in DOMAIN f \cup {k} |-> IF x = k THEN v ELSE f[x]]

-----------------------------------------------------------------------------
(* What the answers mean.                                                  *)

\* display_name(): the user's name, the reported one, the vendor.
display_name(v) ==
  IF v.name # None THEN v.name ELSE IF v.hostname # None THEN v.hostname ELSE v.oui

\* bridge_for(): the interface a network appears on in the log.
bridge_for(net) ==
  LET tagged == IF net.vlan_enabled = None THEN net.vlan # None /\ net.vlan > 1
                ELSE net.vlan_enabled
      vlan   == IF tagged /\ net.vlan # None THEN net.vlan ELSE 1
  IN IF net.purpose \notin {"corporate", "guest", "vlan-only"} \/ ~net.enabled THEN None
     ELSE IF vlan = 1 THEN "br0" ELSE "br" \o ToString(vlan)

\* gateway_ip(): the gateway's own address in a network.
gateway_ip(net) ==
  IF net.purpose \in {"corporate", "guest", "vlan-only", "remote-user-vpn"} THEN net.subnet
  ELSE None

\* wan_interfaces(): only the device knows them; named after their group.
wan_interfaces(devs, nets) ==
  LET name_for(group) ==
        LET first == SelectInSeq(nets, LAMBDA n : n.purpose = "wan" /\ n.group = group)
        IN IF first = 0 \/ nets[first].name = None THEN group ELSE nets[first].name
  IN FlattenSeq([i \in DOMAIN devs |->
       [j \in DOMAIN devs[i].wans |->
         [iface |-> devs[i].wans[j].ifname, name |-> name_for(devs[i].wans[j].group)]]])

\* gateway_name(): of the first gateway in the list.
gateway_name(devs) ==
  LET first == SelectInSeq(devs, LAMBDA d : d.type \in {"udm", "ugw"})
  IN IF first = 0 THEN None ELSE display_name(devs[first])

\* zone_tokens(): default zones by their key, custom ones counted by id.
zone_tokens(zones) ==
  [id \in {zones[i].id : i \in DOMAIN zones} |->
    LET zone == zones[CHOOSE i \in DOMAIN zones : zones[i].id = id]
        older == {i \in DOMAIN zones : zones[i].key = None /\ zones[i].id < id}
    IN CASE zone.key = None       -> <<"CUSTOM", Cardinality(older) + 1>>
         [] zone.key = "internal" -> <<"LAN", 0>>
         [] zone.key = "external" -> <<"WAN", 0>>
         [] zone.key = "gateway"  -> <<"LOCAL", 0>>
         [] OTHER                 -> <<zone.key, 0>>]

action_letter(action) ==
  CASE action = "ALLOW" -> "A" [] action \in {"BLOCK", "REJECT"} -> "D" [] OTHER -> "R"

\* policy_key(): the rule's name in the log, if its zones exist.
policy_key(policy, tokens) ==
  IF {policy.src, policy.dst} \subseteq DOMAIN tokens
  THEN <<tokens[policy.src], tokens[policy.dst], action_letter(policy.action), policy.index>>
  ELSE None

\* Mutant of by_last_seen: the order of the answer decides.
as_answered(entries) == entries

\* by_last_seen(): oldest first, those of one time as they were answered.
by_last_seen(entries) ==
  LET seen(i)     == entries[i].last_seen
      up_to(i)    == {j \in DOMAIN entries : seen(j) < seen(i) \/ (seen(j) = seen(i) /\ j <= i)}
  IN [k \in DOMAIN entries |-> entries[CHOOSE i \in DOMAIN entries : Cardinality(up_to(i)) = k]]

\* `stat/alluser` calls the address last_ip.
Address(c) == IF c.ip # None THEN c.ip ELSE c.last_ip

-----------------------------------------------------------------------------
(* Requests.                                                               *)

\* What a URL answers: JSON, something else, a refusal, another failure.
Replies == {"json", "other", "denied", "failed"}

\* fetch(): the proxy path, then the direct one unless access is denied.
fetch(proxy, direct) ==
  LET outcome(reply, next) ==
        CASE reply = "json" -> "ok" [] reply = "other" -> "error"
          [] reply = "denied" -> "unauthorized" [] OTHER -> next
  IN outcome(proxy, outcome(direct, "error"))

\* test(): both lists are asked for; the first error decides.
test(sta, device) ==
  LET first == IF sta # "ok" THEN sta ELSE device
  IN IF first = "ok" THEN "ok"
     ELSE IF "unauthorized" \in {sta, device} THEN "bad_credentials" ELSE "unreachable"

Answers == Content[site]

\* A request succeeds, or uses up one of the faults.
Requested(result) ==
  \E proxy, direct \in Replies :
    /\ result = fetch(proxy, direct)
    /\ IF result = "ok" THEN UNCHANGED <<faults, disturbed>>
       ELSE faults < MaxFaults /\ faults' = faults + 1 /\ disturbed' = TRUE

\* record() and the pause until the next sync.
Fail(result) ==
  /\ status' = result /\ pc' = "wait"
  /\ UNCHANGED <<got, todo>>

\* A list without which there is no sync.
Require(at, field, answer, next) ==
  /\ pc = at
  /\ \E result \in {"ok", "error", "unauthorized"} :
       /\ Requested(result)
       /\ IF result # "ok" THEN Fail(result)
          ELSE got' = [got EXCEPT ![field] = answer] /\ pc' = next /\ UNCHANGED <<todo, status>>
  /\ UNCHANGED <<site, setup, own_names, current, tables, unclear, changes>>

FetchClients == Require("sta", "sta", Answers.sta, "device")
FetchDevices == Require("device", "device", Answers.device, "alluser")

\* Without the list of all clients it goes on with none.
FetchKnown ==
  /\ pc = "alluser"
  /\ \E result \in {"ok", "error"} :
       /\ Requested(result)
       /\ todo' = by_last_seen(IF result = "ok" THEN Answers.alluser ELSE <<>>)
                    \o by_last_seen(got.sta)
  /\ pc' = "networkconf"
  /\ UNCHANGED <<site, setup, own_names, current, got, tables, status, unclear, changes>>

-----------------------------------------------------------------------------
(* Statements.  One that fails is logged and the sync goes on.             *)

Lost(S) == {L \in SUBSET S : Cardinality(L) <= 1}

Statements(lost) ==
  /\ Cardinality(lost) + faults <= MaxFaults
  /\ faults' = faults + Cardinality(lost)
  /\ disturbed' = (disturbed \/ lost # {})

\* What is written to a table, one statement after the other; what has no
\* key or no name is left out.
Label(key, name, value) == [key |-> IF name = None THEN None ELSE key, value |-> value]
Keyed(entries, lost) == {entries[i].key : i \in DOMAIN entries \ lost} \ {None}
Steps(entries)       == {0} \cup {i \in DOMAIN entries : entries[i].key # None}

\* The last of the entries with this key that were written.
LastOf(entries, lost, key) ==
  entries[Max({i \in DOMAIN entries \ lost : entries[i].key = key})]

\* Every entry is written over the one before it; the prune is entry 0.
Written(table, entries, lost, seen) ==
  LET keys == Keyed(entries, lost)
      all  == [k \in DOMAIN table \cup keys |->
                 IF k \in keys THEN LastOf(entries, lost, k).value ELSE table[k]]
  IN IF 0 \in lost THEN all ELSE Without(all, DOMAIN all \ seen)

\* store_networks(): a failed one is not pruned; nothing seen, nothing pruned.
NetworkEntries(nets, devs) ==
  LET wans == wan_interfaces(devs, nets)
  IN [i \in DOMAIN nets |-> Label(bridge_for(nets[i]), nets[i].name, nets[i].name)]
       \o [i \in DOMAIN wans |-> Label(wans[i].iface, wans[i].name, wans[i].name)]
store_networks(entries, lost) ==
  IF Keyed(entries, {}) = {} THEN networks ELSE Written(networks, entries, lost, Keyed(entries, {}))

FetchNetworks ==
  /\ pc = "networkconf"
  /\ \/ /\ got' = [got EXCEPT !.nets = Answers.nets]
        /\ LET entries == NetworkEntries(Answers.nets, got.device)
           IN \E lost \in Lost(Steps(entries)) :
                Statements(lost) /\ networks' = store_networks(entries, lost)
     \/ /\ Requested("error")
        /\ got' = [got EXCEPT !.nets = <<>>]
        /\ UNCHANGED networks
  /\ pc' = "wan"
  /\ UNCHANGED <<site, setup, own_names, current, todo, clients, devices, addresses, policies, wan,
                 status, unclear, changes>>

\* store_wan_addresses(): what was found before stays if nothing is reported.
StoreWan ==
  /\ pc = "wan"
  /\ LET reported == UNION {Range(got.device[i].wans) : i \in DOMAIN got.device}
         ips      == {w.ip : w \in reported} \ {None}
         ifaces   == {w.ifname : w \in reported}
     IN wan' = [ips |-> IF ips = {} THEN wan.ips ELSE ips,
                ifaces |-> IF ifaces = {} THEN wan.ifaces ELSE ifaces]
  /\ pc' = "policies"
  /\ UNCHANGED <<site, setup, own_names, current, got, todo, clients, devices, addresses, networks,
                 policies, status, history, faults, changes>>

\* store_firewall_policies(): a failed one is pruned with the rest.
PolicyEntries(zones, pols) ==
  LET tokens == zone_tokens(zones)
  IN [i \in DOMAIN pols |-> Label(policy_key(pols[i], tokens), pols[i].name, pols[i].name)]
store_policies(entries, lost) ==
  IF Keyed(entries, lost) = {} THEN policies ELSE Written(policies, entries, lost, Keyed(entries, lost))

\* Both lists are needed, and they are read together.
FetchPolicies ==
  /\ pc = "policies"
  /\ \/ LET entries == PolicyEntries(Answers.zones, Answers.policies)
        IN \E lost \in Lost(Steps(entries)) :
             Statements(lost) /\ policies' = store_policies(entries, lost)
     \/ Requested("error") /\ UNCHANGED policies
  /\ pc' = "clients"
  /\ UNCHANGED <<site, setup, own_names, current, got, todo, clients, devices, addresses, networks,
                 wan, status, unclear, changes>>

\* Mutant of Taken: the address stays with the client that had it.
TakenFromNobody(table, mac, ip) == table

\* "An address only ever belongs to one device": the others lose it.
Taken(table, mac, ip) ==
  [m \in DOMAIN table |->
    IF m # mac /\ ip # None /\ table[m].ip = ip THEN [table[m] EXCEPT !.ip = None] ELSE table[m]]

\* store_client(): two statements; the error of the first goes unnoticed.
StoreClient ==
  /\ pc = "clients" /\ todo # <<>>
  /\ LET c  == Head(todo)
         ip == Address(c)
     IN \E lost \in Lost({"take", "insert"}) :
          LET taken == IF "take" \in lost THEN clients ELSE Taken(clients, c.mac, ip)
          IN /\ Statements(lost)
             /\ clients' = IF "insert" \in lost THEN taken
                           ELSE Upsert(taken, c.mac, [ip |-> ip, name |-> display_name(c)])
             /\ unclear' = IF "take" \in lost THEN unclear \cup {ip} ELSE unclear \ {ip}
  /\ todo' = Tail(todo)
  /\ UNCHANGED <<site, setup, own_names, current, pc, got, devices, addresses, networks, policies,
                 wan, status, changes>>

StoreDevices ==
  /\ pc = "clients" /\ todo = <<>>
  /\ \E lost \in Lost(DOMAIN got.device) :
       /\ Statements(lost)
       /\ devices' = [mac \in DOMAIN devices \cup {got.device[i].mac : i \in DOMAIN got.device \ lost} |->
                       IF \E i \in DOMAIN got.device \ lost : got.device[i].mac = mac
                       THEN LET d == got.device[CHOOSE i \in DOMAIN got.device : got.device[i].mac = mac]
                            IN [ip |-> d.ip, name |-> display_name(d)]
                       ELSE devices[mac]]
  /\ pc' = "addresses"
  /\ UNCHANGED <<site, setup, own_names, current, got, todo, clients, addresses, networks, policies,
                 wan, status, unclear, changes>>

\* store_device_addresses(): clients, then the gateway, then devices.
AddressEntries ==
  LET As(ip, name, kind) == Label(ip, name, [name |-> name, kind |-> kind])
      held == SetToSeq(DOMAIN clients)
  IN [i \in DOMAIN held |-> As(clients[held[i]].ip, clients[held[i]].name, "client")]
     \o [i \in DOMAIN got.nets |-> As(gateway_ip(got.nets[i]), gateway_name(got.device), "gateway")]
     \o [i \in DOMAIN got.device |-> As(got.device[i].ip, display_name(got.device[i]), "device")]

\* The table is built anew; if the clients cannot be read it stays.
StoreAddresses ==
  /\ pc = "addresses"
  /\ \/ \E entries \in {AddressEntries} : \E lost \in Lost(Steps(entries)) :
          /\ Statements(lost)
          /\ addresses' = IF Keyed(entries, {}) = {} THEN addresses
                          ELSE Written(addresses, entries, lost, Keyed(entries, lost))
     \/ Statements({"read"}) /\ UNCHANGED addresses
  /\ pc' = "wait" /\ status' = "ok"
  /\ UNCHANGED <<site, setup, own_names, current, got, todo, clients, devices, networks, policies,
                 wan, unclear, changes>>

-----------------------------------------------------------------------------
NothingGot == [sta |-> <<>>, device |-> <<>>, nets |-> <<>>]

\* run_unifi(): a sync begins with the settings as they are now.
BeginSync ==
  /\ pc = "wait"
  /\ current' = setup
  /\ IF setup = None THEN UNCHANGED <<pc, got, todo, disturbed>>
     ELSE pc' = "sta" /\ got' = NothingGot /\ todo' = <<>> /\ disturbed' = FALSE
  /\ UNCHANGED <<site, setup, own_names, tables, status, unclear, faults, changes>>

RestartSync ==
  /\ faults < MaxFaults /\ faults' = faults + 1
  /\ pc' = "wait" /\ current' = None /\ got' = NothingGot /\ todo' = <<>>
  /\ disturbed' = TRUE
  /\ UNCHANGED <<site, setup, own_names, tables, status, unclear, changes>>

Changed ==
  /\ changes < MaxChanges /\ changes' = changes + 1
  /\ disturbed' = TRUE
  /\ UNCHANGED <<current, pc, got, todo, tables, status, unclear, faults>>

ChangeController == \E s \in Controller \ {site} :
  Changed /\ site' = s /\ UNCHANGED <<setup, own_names>>
ChangeSetup == \E s \in {None, "a", "b"} \ {setup} :
  Changed /\ setup' = s /\ UNCHANGED <<site, own_names>>

\* put_names(): a label of the user's own; null and the empty text remove it.
PutName(iface, value) ==
  /\ changes < MaxChanges /\ changes' = changes + 1
  /\ own_names' = CASE value = "text" -> Upsert(own_names, iface, "own")
                    [] value \in {"null", "blank"} -> Without(own_names, {iface})
                    [] value \in {"long", "number"} -> own_names
  /\ UNCHANGED <<site, setup, current, pc, got, todo, tables, status, history, faults>>

\* get_networks(): every interface there is, and how it is labelled.
get_networks ==
  [i \in LogIfaces \cup DOMAIN networks \cup DOMAIN own_names |->
    IF i \in DOMAIN own_names THEN own_names[i] ELSE IF i \in DOMAIN networks THEN networks[i] ELSE i]

\* get_devices() and get_firewall_rules(): the tables as they are.
get_devices == [ip \in DOMAIN addresses |-> addresses[ip].name]
get_firewall_rules == policies

UnifiInit ==
  /\ site \in Controller /\ setup = "a" /\ own_names = EmptyTable
  /\ current = None /\ pc = "wait" /\ got = NothingGot /\ todo = <<>>
  /\ clients = EmptyTable /\ devices = EmptyTable /\ addresses = EmptyTable
  /\ networks = EmptyTable /\ policies = EmptyTable /\ wan = [ips |-> {}, ifaces |-> {}]
  /\ status = None /\ disturbed = FALSE /\ unclear = {}
  /\ faults = 0 /\ changes = 0

UnifiNext ==
  \/ BeginSync \/ RestartSync \/ ChangeController \/ ChangeSetup
  \/ \E iface \in LogIfaces, value \in {"text", "null", "long"} : PutName(iface, value)
  \/ FetchClients \/ FetchDevices \/ FetchKnown \/ FetchNetworks \/ FetchPolicies
  \/ StoreWan \/ StoreClient \/ StoreDevices \/ StoreAddresses

UnifiSpec == UnifiInit /\ [][UnifiNext]_unifi_vars

-----------------------------------------------------------------------------
UnifiTypes ==
  /\ site \in Controller /\ setup \in {None, "a", "b"} /\ current \in {None, "a", "b"}
  /\ pc \in {"wait", "sta", "device", "alluser", "networkconf", "wan", "policies", "clients", "addresses"}
  /\ pc # "wait" => current # None
  /\ status \in {None, "ok", "error", "unauthorized"}
  /\ \A m \in DOMAIN clients : DOMAIN clients[m] = {"ip", "name"}
  /\ DOMAIN own_names \subseteq LogIfaces

(* "An address only ever belongs to one device" (unifi.rs:561-564): at     *)
(* every moment of a sync, whatever failed, no two clients have the same   *)
(* address, unless the statement that takes it away failed when it was     *)
(* last given to one.                                                      *)
OneHolder ==
  \A m, n \in DOMAIN clients :
    m # n /\ clients[m].ip \notin unclear \cup {None} => clients[m].ip # clients[n].ip

(* Whom the controller would name at an address, and as what: its own      *)
(* device, then the gateway, then the connected client, then the one seen  *)
(* there last.                                                             *)
Latest(entries) == CHOOSE e \in entries : \A f \in entries : f.last_seen <= e.last_seen
Called(ip) ==
  LET at(seq)   == {c \in Range(seq) : ip \in {c.ip, c.last_ip}}
      here      == {d \in Range(Answers.device) : d.ip = ip /\ display_name(d) # None}
      inside    == {n \in Range(Answers.nets) : gateway_ip(n) = ip}
      connected == at(Answers.sta)
      known     == at(Answers.alluser)
      As(name, kind) == IF name = None THEN None ELSE [name |-> name, kind |-> kind]
  IN IF here # {} THEN As(display_name(CHOOSE d \in here : TRUE), "device")
     ELSE IF inside # {} /\ gateway_name(Answers.device) # None
     THEN As(gateway_name(Answers.device), "gateway")
     ELSE IF connected # {} THEN As(display_name(Latest(connected)), "client")
     ELSE IF known # {} THEN As(display_name(Latest(known)), "client") ELSE None

(* What is assumed of a controller for its names to be current.            *)
IsClients(list) ==
  /\ list \in Seq(Range(list))
  /\ \A c \in Range(list) : c.last_seen \in Int /\ {c.ip, c.last_ip} \subseteq {Address(c), None}
  /\ \A i, j \in DOMAIN list : i # j =>
       /\ list[i].mac # list[j].mac
       /\ Address(list[i]) = Address(list[j]) /\ Address(list[i]) # None
          => list[i].last_seen # list[j].last_seen

\* Whoever is connected is known, with the same address.
ClientsAreKnown(answers) ==
  /\ IsClients(answers.sta) /\ IsClients(answers.alluser)
  /\ \A c \in Range(answers.sta) : \E d \in Range(answers.alluser) :
       c.mac = d.mac /\ Address(c) = Address(d)

\* An address of a device has one name, and at least one has a name.
DevicesAreNamed(answers) ==
  LET named == {d \in Range(answers.device) : d.ip # None /\ display_name(d) # None}
  IN /\ answers.device \in Seq(Range(answers.device)) /\ named # {}
     /\ \A d, e \in named : d.ip = e.ip => display_name(d) = display_name(e)
     /\ \A d \in Range(answers.device) :
          d.wans \in Seq(Range(d.wans)) /\ \A w \in Range(d.wans) : w.ifname # None /\ w.group # None

\* A network has a name, and an interface one network.
NetworksAreNamed(answers) ==
  LET lans   == {n \in Range(answers.nets) : bridge_for(n) # None}
      ifaces == {w.ifname : w \in UNION {Range(d.wans) : d \in Range(answers.device)}}
  IN /\ answers.nets \in Seq(Range(answers.nets)) /\ lans # {}
     /\ \A n \in lans : n.name # None /\ bridge_for(n) \notin ifaces
     /\ \A n, o \in lans : bridge_for(n) = bridge_for(o) => n.name = o.name

\* A rule has a name and two zones, and what the log calls it is one rule.
PoliciesAreNamed(answers) ==
  LET Key(p) == policy_key(p, answers.tokens)
  IN /\ answers.policies \in Seq(Range(answers.policies)) /\ answers.policies # <<>>
     /\ answers.tokens = zone_tokens(answers.zones)
     /\ \A p \in Range(answers.policies) : p.name # None /\ Key(p) # None
     /\ \A p, q \in Range(answers.policies) : Key(p) = Key(q) => p.name = q.name

\* A controller forgets no client: unifi_clients keeps them all.
ASSUME UnifiAssumption ==
  /\ \A s \in Controller : LET answers == Content[s] IN
       /\ ClientsAreKnown(answers) /\ DevicesAreNamed(answers)
       /\ NetworksAreNamed(answers) /\ PoliciesAreNamed(answers)
       /\ None \notin answers.ips
  /\ \A s, t \in Controller :
       {c.mac : c \in Range(Content[s].alluser)} = {c.mac : c \in Range(Content[t].alluser)}

(* A sync during which nothing failed and the controller did not change    *)
(* leaves the tables as the controller is, whatever earlier syncs left     *)
(* behind: every address has the name and the kind of the highest rank,    *)
(* every network and every rule its own name under its own key, and names  *)
(* of what is gone are gone; the user's own label wins (unifi.rs:463-469,  *)
(* 263, 369).                                                              *)
NamesAreCurrent ==
  pc = "wait" /\ status = "ok" /\ ~disturbed /\ current # None
  => /\ \A ip \in Content[site].ips :
          Called(ip) = IF ip \in DOMAIN get_devices
                       THEN [name |-> get_devices[ip], kind |-> addresses[ip].kind] ELSE None
     /\ LET lans == {n \in Range(Answers.nets) : bridge_for(n) # None}
        IN /\ \A n \in lans : get_networks[bridge_for(n)] \in {n.name, "own"}
           /\ DOMAIN networks = {bridge_for(n) : n \in lans}
                \cup {w.ifname : w \in UNION {Range(d.wans) : d \in Range(Answers.device)}}
     /\ Range(get_firewall_rules) = {p.name : p \in Range(Answers.policies)}
     /\ \A p \in Range(Answers.policies) : \E k \in DOMAIN policies :
          /\ policies[k] = p.name /\ k[4] = p.index
          /\ k[1] = Answers.tokens[p.src] /\ k[2] = Answers.tokens[p.dst]
=============================================================================
