-------------------------------- MODULE MCRows --------------------------------
(* Rows and filters for the small instances of LogView and Queries.        *)
EXTENDS Filters

NoText == [c \in Columns |-> {}]

MCBlocked ==
  [type |-> "firewall", action |-> "block", direction |-> "inbound",
   src |-> "remote", dst |-> "wan", sport |-> 40000, dport |-> 443, mac |-> None,
   severity |-> 4, asn |-> 64500, threat |-> 90, ts |-> 0, place |-> "berlin",
   text |-> [NoText EXCEPT !["r.name"] = {"WAN_LOCAL-D-1"}, !["r.descr"] = {"Block"},
      !["ii.name"] = {"eth4"}, !["pr.name"] = {"tcp"}, !["l.geo_country"] = {"DE"},
      !["l.asn_name"] = {"acme"}, !["l.rdns"] = {"scan.acme"}, !["pg.name"] = {"kernel"}]]

MCQuery ==
  [type |-> "dns", action |-> None, direction |-> None,
   src |-> "tv", dst |-> None, sport |-> None, dport |-> None, mac |-> None,
   severity |-> None, asn |-> None, threat |-> None, ts |-> 0, place |-> None,
   text |-> [NoText EXCEPT !["l.dns_query"] = {"acme"}, !["l.dns_type"] = {"AAAA"},
      !["pg.name"] = {"dnsmasq"}]]

MCAllowed ==
  [MCBlocked EXCEPT !.action = "allow", !.direction = "outbound", !.src = "tv",
     !.dst = "remote", !.dport = 53,
     !.text = [MCBlocked.text EXCEPT !["r.name"] = {"LAN_WAN-A-7"}, !["ii.name"] = {"br20"},
        !["io.name"] = {"eth4"}]]

Unfiltered ==
  [log_type |-> {}, action |-> {}, direction |-> {}, iface |-> {}, proto |-> {}, country |-> {},
   iface_in |-> None, iface_out |-> None, port |-> None, threat_min |-> None,
   from |-> None, to |-> None, q |-> {}]

Tok(prefix, shape, value, negated) ==
  [prefix |-> prefix, shape |-> shape, value |-> value, negated |-> negated]

\* Two more packets of the address that was blocked: by another protocol to
\* another port, and one no rule speaks of, from inside to inside.
MCProbe ==
  [MCBlocked EXCEPT !.dport = 53, !.ts = 70, !.threat = 40, !.text = [MCBlocked.text EXCEPT !["pr.name"] = {"udp"}]]

MCInner ==
  [MCBlocked EXCEPT !.action = None, !.direction = None, !.src = "tv", !.dst = "nas", !.place = None,
     !.asn = None, !.threat = None, !.ts = 3, !.dport = None,
     !.text = [NoText EXCEPT !["ii.name"] = {"br20"}, !["io.name"] = {"br20"}, !["pr.name"] = {"tcp"}]]

MCPool == <<MCBlocked, MCQuery, MCAllowed, MCProbe, MCInner>>

With(field, value) == [Unfiltered EXCEPT ![field] = value]
Searching(q) == With("q", q)

MCAsked ==
  {Unfiltered,
   With("action", {"block"}), With("action", {"unknown"}), With("action", {"block", "unheard of"}),
   With("direction", {"inbound"}), With("log_type", {"dns"}), With("log_type", {"firewall", "dhcp"}),
   [With("log_type", {"firewall", "dns"}) EXCEPT !.action = {"allow"}],
   With("iface", {"eth4"}), With("iface_in", "br20"), With("proto", {"tcp"}), With("port", 53),
   [With("country", {"DE"}) EXCEPT !.threat_min = 50], With("from", 2),
   Searching({Tok("dst", "address", "remote", TRUE)}),
   Searching({Tok("ip", "network", {"tv", "nas"}, FALSE)}),
   Searching({Tok("country", "word", "DE", TRUE), Tok("port", "port", 53, FALSE)}),
   Searching({Tok("asn", "number", 64500, FALSE)}),
   Searching({Tok("interface", "word", "eth4", TRUE)}), Searching({Tok("action", "word", "block", TRUE)}),
   Searching({Tok("rule", "word", "WAN_LOCAL-D-1", FALSE)}), Searching({Tok(None, "word", "AAAA", FALSE)}),
   Searching({Tok(None, "word", "acme", FALSE)})}

ASSUME RowsAndFilters == (\A i \in DOMAIN MCPool : IsRow(MCPool[i])) /\ \A f \in MCAsked : IsFilter(f)
=============================================================================
