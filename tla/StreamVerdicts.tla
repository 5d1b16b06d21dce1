---------------------------- MODULE StreamVerdicts ----------------------------
(***************************************************************************)
(* What the live stream does with a row that has just been written: the    *)
(* verdicts of stream.rs.  The row carries what the writer knew of its     *)
(* remote address at that moment; a filter that asks for more cannot be    *)
(* answered yet.                                                           *)
(***************************************************************************)
EXTENDS Filters

Verdicts == {"Pass", "Reject", "Unknowable"}

ASSUME VerdictsAssumption == None \notin Verdicts

Hit(b) == IF b THEN "Pass" ELSE "Reject"

\* combine(): a certain rejection wins, then what is not known.
combine(verdicts) ==
  IF "Reject" \in verdicts THEN "Reject"
  ELSE IF "Unknowable" \in verdicts THEN "Unknowable" ELSE "Pass"

\* list_verdict(): an absent value is in no list.
list_verdict(active, value) == Hit(active = {} \/ value \in active)

iface_verdict(active, row) ==
  Hit(active = {} \/ (row.text["ii.name"] \cup row.text["io.name"]) \cap active # {})

exact_iface_verdict(want, words) == Hit(want = None \/ want \in words)

port_verdict(port, row) == Hit(port = None \/ port \in {row.sport, row.dport})

\* Mutant of enriched_verdict: an unknown fact is taken for a mismatch.
EnrichedOrRejected(f, row) ==
  combine({Hit(f.country = {} \/ row.text["l.geo_country"] \cap f.country # {}),
           Hit(f.threat_min = None \/ (row.threat # None /\ row.threat >= f.threat_min))})

\* enriched_verdict(): country and score, where they are known.
enriched_verdict(f, row) ==
  LET country == row.text["l.geo_country"]
  IN combine({IF f.country # {} /\ country = {} THEN "Unknowable"
                ELSE Hit(f.country = {} \/ country \cap f.country # {}),
              IF f.threat_min # None /\ row.threat = None THEN "Unknowable"
                ELSE Hit(f.threat_min = None \/ row.threat >= f.threat_min)})

\* The texts of a LiveRow a free word is looked for in.
LiveColumns ==
  {"r.name", "pr.name", "ii.name", "io.name", "dn.name", "l.dns_query", "l.dns_type",
   "l.dns_answer", "l.dhcp_event", "l.wifi_event", "l.raw_log"}

\* text_hit() in one of the columns.
TextHit(row, columns, word) == Hit(\E c \in columns : word \in row.text[c])

\* term_hit(): one search term, before its negation.
term_hit(row, t) ==
  CASE t.kind = "address" -> Hit(t.value \in AddressSides(row, t.field))
    [] t.kind = "network" -> Hit(AddressSides(row, t.field) \cap t.value # {})
    [] t.kind = "port"    -> Hit(t.value \in PortSides(row, t.field))
    [] t.kind = "mac"     -> Hit(t.value = row.mac)
    [] t.kind = "asn"     -> "Unknowable"
    [] OTHER ->
       CASE t.field \in {"country", "asn"} -> "Unknowable"
         [] t.field = "action"    -> Hit(t.value = row.action)
         [] t.field = "type"      -> Hit(t.value = row.type)
         [] t.field = "rule"      -> TextHit(row, {"r.name"}, t.value)
         [] t.field = "protocol"  -> TextHit(row, {"pr.name"}, t.value)
         [] t.field = "interface" -> TextHit(row, {"ii.name", "io.name"}, t.value)
         [] t.field = "host"      -> TextHit(row, {"dn.name"}, t.value)
         [] OTHER -> IF t.value = row.mac THEN "Pass" ELSE TextHit(row, LiveColumns, t.value)

\* search_verdict(): negation turns a hit round, not what is not known.
search_verdict(row, q) ==
  combine({LET hit == term_hit(row, t)
           IN IF ~t.negated \/ hit = "Unknowable" THEN hit
              ELSE IF hit = "Pass" THEN "Reject" ELSE "Pass"
           : t \in parse_search(q)})

\* matches_live(): the times of the filter are left aside on purpose.
matches_live(row, f) ==
  combine({list_verdict(f.log_type, row.type),
           list_verdict(f.action, row.action),
           list_verdict(f.direction, row.direction),
           iface_verdict(f.iface, row),
           exact_iface_verdict(f.iface_in, row.text["ii.name"]),
           exact_iface_verdict(f.iface_out, row.text["io.name"]),
           Hit(f.proto = {} \/ row.text["pr.name"] \cap f.proto # {}),
           port_verdict(f.port, row),
           enriched_verdict(f, row),
           search_verdict(row, f.q)})

-----------------------------------------------------------------------------
(* Terms the live stream and the database read from the same columns.      *)

SameColumns(t) ==
  \/ t.kind \in {"address", "network", "port", "mac"}
  \/ t.kind = "text" /\ t.field \in {"action", "type", "protocol", "interface"}

AboutFacts(t) == t.kind = "asn" \/ t.field \in {"country", "asn"}

\* A free word is also found in what the page does not look at.
FoundByStreamOnly(row, q) ==
  \E t \in parse_search(q) :
    /\ t.kind = "text" /\ t.field = None
    /\ t.value = row.mac \/ t.value \in row.text["l.dns_type"] \cup row.text["l.dns_answer"]
=============================================================================
