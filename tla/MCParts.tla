-------------------------------- MODULE MCParts --------------------------------
(***************************************************************************)
(* Small instances of the parts that do not interact: the first state      *)
(* chooses one of them, and only that one moves.                           *)
(***************************************************************************)
EXTENDS Parts, Queries, Lines, MCRows

VARIABLE part

-----------------------------------------------------------------------------
(* What the UniFi controller answers: the tv was at x and moved to y, and  *)
(* the phone has x now.                                                    *)

Client(mac, name, hostname, ip, last_ip, last_seen) ==
  [mac |-> mac, name |-> name, hostname |-> hostname, oui |-> "vendor", ip |-> ip,
   last_ip |-> last_ip, last_seen |-> last_seen]
Device(mac, name, type, ip, wans) ==
  [mac |-> mac, name |-> name, hostname |-> None, oui |-> None, type |-> type, ip |-> ip, wans |-> wans]
Net(name, purpose, vlan, vlan_enabled, subnet) ==
  [name |-> name, purpose |-> purpose, enabled |-> TRUE, vlan |-> vlan,
   vlan_enabled |-> vlan_enabled, subnet |-> subnet, group |-> "WAN"]
Policy(name, src, dst, action, index) ==
  [name |-> name, src |-> src, dst |-> dst, action |-> action, index |-> index]
Gateway == Device("gw", "Express", "udm", "wanip", <<[ifname |-> "eth4", ip |-> "wanip", group |-> "WAN"]>>)
Zones == <<[id |-> 1, key |-> "internal"], [id |-> 5, key |-> None], [id |-> 3, key |-> None]>>
Tokens == [z \in {1, 3, 5} |-> IF z = 1 THEN <<"LAN", 0>> ELSE <<"CUSTOM", IF z = 3 THEN 1 ELSE 2>>]
Ips == {"x", "z", "y", "inner", "wanip"}

MCContent ==
  [before |->
    [sta      |-> <<Client("tv", None, "tv", "x", None, 4)>>,
     alluser  |-> <<Client("phone", "Phone", None, None, "z", 3), Client("tv", None, "tv", None, "x", 4),
                    Client("nas", None, None, None, "z", 1)>>,
     device   |-> <<Gateway>>,
     nets     |-> <<Net("Lan", "corporate", None, FALSE, "inner"), Net("IoT", "guest", 15, None, "y"),
                    Net("Internet", "wan", None, None, None)>>,
     zones    |-> Zones,
     policies |-> <<Policy("a", 1, 5, "ALLOW", 7), Policy("b", 3, 1, "REJECT", 7)>>,
     tokens   |-> Tokens, ips |-> Ips],
   after  |->
    [sta      |-> <<Client("phone", "Phone", None, "x", None, 8)>>,
     alluser  |-> <<Client("phone", "Phone", None, None, "x", 8), Client("tv", None, "tv", None, "y", 6),
                    Client("nas", None, None, None, "z", 1)>>,
     device   |-> <<Gateway, Device("ap", "Ap", "uap", "y", <<>>)>>,
     nets     |-> <<Net("Lan", "corporate", None, FALSE, "inner"), Net("Internet", "wan", None, None, None)>>,
     zones    |-> Zones,
     policies |-> <<Policy("c", 3, 1, "REJECT", 7)>>,
     tokens   |-> Tokens, ips |-> Ips]]

(* Lines of a gateway.                                                     *)

\* Of the zone-based firewall, of the older one, and one that begins with a letter.
RuleNames == {<<<<"DMZ_LOCAL">>, <<"10002">>>>, <<<<"WAN_IN", "B", "1">>, <<>>>>, <<<<"A">>, <<"7">>>>}
Firewall ==
  UNION {[kind : {"firewall"}, style : {"letter"}, before : {r[1]}, after : {r[2]},
          action : {"allow", "block", "redirect"}, long : BOOLEAN] : r \in RuleNames}
    \cup [kind : {"firewall"}, style : {"descr"}, before : {<<"WAN_LOCAL">>}, action : {"allow", "block"}, long : {TRUE}]
Dhcp ==
  [kind : {"dhcp"}, event : {"DHCPACK", "DHCPNAK"}, ip : {<<>>, <<"address">>},
   host : {<<>>, <<"tv">>}, reason : {<<>>, <<"wrong", "network">>}]
Dns == [kind : {"dns"}, event : {"query[", "reply ", "cached ", "forwarded ", "config "}]
Wifi ==
  [kind : {"wifi"}, event : {"disassociated", "associated", "disconnected", "connected", "roamed", "beacon lost"}]
Roaming == [kind : {"roaming"}, json : [mac : {"from", "damaged"}, event : {"roam", None}]]
Cef(signature, severity, name, whom, fields) ==
  [kind |-> "cef", signature |-> signature, severity |-> severity, name |-> name, client |-> whom,
   fields |-> fields]
MCText == STRING
MCMeanings ==
  Firewall \cup Dhcp \cup Dns \cup Wifi \cup Roaming
    \cup {Cef("400", 1, "WiFi Client Connected", "c", [clientIp |-> "c", clientMac |-> "from"]),
          Cef("401", 1, "WiFi Client Disconnected", "c", [clientIp |-> "", srcClientIp |-> "null", src |-> "c"]),
          Cef("203", 8, "Blocked by Firewall", "s",
              [clientIp |-> "null", srcClientIp |-> "s", src |-> "w", dst |-> "d"]),
          Cef("546", 10, "Config Modified", None, [clientAlias |-> ""]),
          [kind |-> "other", event |-> "started"]}

MCFolded == [s \in {"eth4", "Eth4", "br0"} |-> IF s = "br0" THEN s ELSE "eth4"]

-----------------------------------------------------------------------------
MCSpellings == DOMAIN MCFolded

\* Where a part may begin in several ways, only its own run does.
MCInit ==
  /\ part \in {"client", "score", "unifi", "geo", "views", "answers", "names", "ids", "text"}
  /\ Init /\ (part # "client" => client.key = NoKey)
  /\ ScoresInit /\ (part # "score" => perDay = 1)
  /\ UnifiInit /\ (part # "unifi" => site = "before")
  /\ GeoInit /\ (part # "geo" => geoip_dir = "old" /\ reader["City"] = None)
  /\ QueriesInit /\ (part # "views" => asked_for = Unfiltered)
  /\ CacheInit /\ NamesInit /\ IdsInit /\ LinesInit

MCNext ==
  /\ UNCHANGED part
  /\ \/ part = "client" /\ Next
     \/ part # "client" /\ UNCHANGED client_vars
  /\ \/ part = "score" /\ ScoresNext
     \/ part # "score" /\ UNCHANGED score_vars
  /\ \/ part = "unifi" /\ UnifiNext
     \/ part # "unifi" /\ UNCHANGED unifi_vars
  /\ \/ part = "geo" /\ GeoNext
     \/ part # "geo" /\ UNCHANGED geo_vars
  /\ \/ part = "views" /\ QueriesNext
     \/ part # "views" /\ UNCHANGED queries_vars
  /\ \/ part = "answers" /\ CacheNext
     \/ part # "answers" /\ UNCHANGED cache_vars
  /\ \/ part = "names" /\ NamesNext
     \/ part # "names" /\ UNCHANGED names_vars
  /\ \/ part = "ids" /\ IdsNext
     \/ part # "ids" /\ UNCHANGED ids_vars
  /\ \/ part = "text" /\ LinesNext
     \/ part # "text" /\ UNCHANGED lines_vars

rest == <<part, score_vars, unifi_vars, geo_vars, queries_vars, cache_vars, names_vars, ids_vars, lines_vars>>
all  == <<client_vars, rest>>

\* Blocked traffic keeps asking, a request ends, and the clock runs; nobody
\* has to touch the key or restart the service.
InClient == part = "client" /\ UNCHANGED rest

MCSpec ==
  /\ MCInit /\ [][MCNext]_all
  /\ WF_all(InClient /\ AnyAsk) /\ WF_all(InClient /\ AnyReceive) /\ WF_all(InClient /\ Tick)

=============================================================================
