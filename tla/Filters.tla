------------------------------- MODULE Filters -------------------------------
(***************************************************************************)
(* The filter of the log view and its two readings: the WHERE clause every *)
(* query of the API is built with (filters.rs), and the verdict of the     *)
(* live stream on a row that has just been written (stream.rs).  Both take *)
(* the same search terms (search.rs).                                      *)
(*                                                                         *)
(* A text column holds the set of words it contains; an absent one (NULL)  *)
(* is {}; None is any other absent value, or a pill that is not set.       *)
(* Letter case and the '*' of a pattern are not modelled.                  *)
(***************************************************************************)
EXTENDS Null, Integers, FiniteSets

-----------------------------------------------------------------------------
(* Names with a fixed id.  A name without one is not an error.             *)

log_type_id  == {"firewall", "dns", "dhcp", "wifi", "system"}
action_id    == {"allow", "block", "redirect"}
direction_id == {"inbound", "outbound", "local", "inter_vlan", "vpn", "nat"}

SeverityLevels == 0..7

Columns ==
  {"r.name", "r.descr", "ii.name", "io.name", "pr.name", "dn.name", "pg.name",
   "l.dns_query", "l.dns_type", "l.dns_answer", "l.rdns", "l.asn_name", "l.geo_country",
   "l.geo_city", "l.dhcp_event", "l.wifi_event", "l.raw_log"}

\* A row as the queries see it.
IsRow(row) ==
  /\ DOMAIN row = {"type", "action", "direction", "src", "dst", "sport", "dport", "mac",
                   "severity", "asn", "threat", "ts", "place", "text"}
  /\ row.type \in log_type_id
  /\ row.action \in action_id \cup {None} /\ row.direction \in direction_id \cup {None}
  /\ DOMAIN row.text = Columns

\* A row before the enrichment.
Plain(row) ==
  [row EXCEPT !.asn = None, !.threat = None, !.place = None,
     !.text = [c \in DOMAIN row.text |->
        IF c \in {"l.rdns", "l.asn_name", "l.geo_country", "l.geo_city"} THEN {} ELSE row.text[c]]]

-----------------------------------------------------------------------------
(* Search terms.  A token has an optional prefix and a body whose shape is *)
(* what its characters can be read as.                                     *)

Shapes == {"address", "network", "mac", "port", "number", "word"}

TextFields == {"rule", "host", "country", "protocol", "interface", "action",
               "type", "program", "severity"}
PortFields == {"port", "sport", "dport"}
AddressFields == {"ip", "src", "dst"}
Fields == TextFields \cup PortFields \cup AddressFields \cup {"asn"}

ASSUME FilterAssumption == None \notin log_type_id \cup action_id \cup direction_id \cup Fields

\* typed(): without a field the content decides.
typed(shape) == IF shape \in {"word", "number"} THEN "text" ELSE shape

\* typed_for(): a field takes the values it can hold; the rest stays text.
typed_for(shape, field) ==
  CASE field \in TextFields    -> "text"
    [] field = "asn"           -> IF shape \in {"port", "number"} THEN "asn" ELSE "text"
    [] field \in PortFields    -> IF shape = "port" THEN "port" ELSE "text"
    [] field \in AddressFields -> IF shape \in {"address", "network"} THEN shape ELSE "text"
    [] OTHER                   -> typed(shape)

\* classify(): an unknown prefix belongs to the text.
classify(token) ==
  LET field == IF token.prefix \in Fields THEN token.prefix ELSE None
  IN [kind |-> typed_for(token.shape, field), field |-> field,
      value |-> token.value, negated |-> token.negated]

\* What a filter asks for is never the absence of a value.
IsToken(token) ==
  /\ token.shape \in Shapes /\ token.negated \in BOOLEAN /\ token.value # None
  /\ token.shape = "network" => None \notin token.value

IsFilter(f) ==
  /\ None \notin f.action \cup f.direction
  /\ \A token \in f.q : IsToken(token)

parse_search(q) == {classify(token) : token \in q}

-----------------------------------------------------------------------------
(* The tables a query joins.                                               *)

LookupTables == {"rules", "programs", "interfaces", "protocols", "hostnames"}

TableOf ==
  [c \in {"r.name", "r.descr", "ii.name", "io.name", "pr.name", "dn.name", "pg.name"} |->
    CASE c \in {"r.name", "r.descr"}   -> "rules"
      [] c \in {"ii.name", "io.name"}  -> "interfaces"
      [] c = "pr.name"                 -> "protocols"
      [] c = "dn.name"                 -> "hostnames"
      [] c = "pg.name"                 -> "programs"]

FreeColumns == Columns \ {"l.dns_type", "l.dns_answer"}

\* The columns push_term compares a text with.
TextColumns(field) ==
  CASE field = "rule"      -> {"r.name", "r.descr"}
    [] field = "country"   -> {"l.geo_country"}
    [] field = "asn"       -> {"l.asn_name"}
    [] field = "protocol"  -> {"pr.name"}
    [] field = "interface" -> {"ii.name", "io.name"}
    [] field = "host"      -> {"dn.name", "l.rdns"}
    [] field = "program"   -> {"pg.name"}
    [] OTHER               -> FreeColumns

IsIdTerm(t)    == t.kind = "text" /\ t.field \in {"action", "type"}
IsLevelTerm(t) == t.kind = "text" /\ t.field = "severity"
IsTextTerm(t)  == t.kind = "text" /\ ~IsIdTerm(t) /\ ~IsLevelTerm(t)

\* term_joins(): a text in an address or port field falls to the last arm.
term_joins(t) ==
  IF t.kind # "text" THEN {} ELSE
  CASE t.field = "rule"      -> {"rules"}
    [] t.field = "program"   -> {"programs"}
    [] t.field = "protocol"  -> {"protocols"}
    [] t.field = "interface" -> {"interfaces"}
    [] t.field = "host"      -> {"hostnames"}
    [] t.field = None        -> LookupTables
    [] OTHER                 -> {}

SidesChosen(f) == f.iface # {} \/ f.iface_in # None \/ f.iface_out # None

needed_joins(f) ==
  (IF SidesChosen(f) THEN {"interfaces"} ELSE {})
    \cup (IF f.proto # {} THEN {"protocols"} ELSE {})
    \cup UNION {term_joins(t) : t \in parse_search(f.q)}

\* The lookup tables the WHERE clause of push_where names.
TablesNamed(f) ==
  (IF SidesChosen(f) THEN {"interfaces"} ELSE {})
    \cup (IF f.proto # {} THEN {"protocols"} ELSE {})
    \cup {TableOf[c] : c \in DOMAIN TableOf \cap
            UNION {TextColumns(t.field) : t \in {u \in parse_search(f.q) : IsTextTerm(u)}}}

\* push_joins(): what the filter needs and what the query itself selects.
push_joins(f, extra) == needed_joins(f) \cup extra

-----------------------------------------------------------------------------
(* SQL's three values; OR of a set of them.                                *)

Truth(b) == IF b THEN "true" ELSE "false"

Or(S) ==
  IF "true" \in S THEN "true" ELSE IF "null" \in S THEN "null" ELSE "false"

In(x, S)     == IF x = None THEN "null" ELSE Truth(x \in S)
AtMost(x, n) == IF x = None THEN "null" ELSE Truth(x <= n)
AtLeast(x, n) == IF x = None THEN "null" ELSE Truth(x >= n)
Ilike(words, w) == IF words = {} THEN "null" ELSE Truth(w \in words)
AnyOf(words, S) == IF words = {} THEN "null" ELSE Truth(words \cap S # {})

AddressSides(row, field) ==
  CASE field = "src" -> {row.src} [] field = "dst" -> {row.dst} [] OTHER -> {row.src, row.dst}
PortSides(row, field) ==
  CASE field = "sport" -> {row.sport} [] field = "dport" -> {row.dport}
    [] OTHER -> {row.sport, row.dport}

\* The condition push_term writes for a term; a network is its addresses.
TermCondition(row, t) ==
  CASE t.kind = "address" -> Or({In(x, {t.value}) : x \in AddressSides(row, t.field)})
    [] t.kind = "network" -> Or({In(x, t.value) : x \in AddressSides(row, t.field)})
    [] t.kind = "port"    -> Or({In(x, {t.value}) : x \in PortSides(row, t.field)})
    [] t.kind = "mac"     -> In(row.mac, {t.value})
    [] t.kind = "asn"     -> In(row.asn, {t.value})
    [] IsIdTerm(t) ->
         LET known == IF t.field = "action" THEN action_id ELSE log_type_id
             id    == IF t.field = "action" THEN row.action ELSE row.type
         IN IF t.value \in known THEN In(id, {t.value}) ELSE "false"
    [] IsLevelTerm(t) ->
         IF t.value \in SeverityLevels THEN AtMost(row.severity, t.value) ELSE "false"
    [] OTHER -> Or({Ilike(row.text[c], t.value) : c \in TextColumns(t.field)})

\* A negated condition that is NULL does not match, so its row stays.
push_term(row, t) ==
  LET hit == TermCondition(row, t)
  IN IF t.negated THEN Truth(hit # "true") ELSE hit

\* The chosen kinds of log whose rows carry no action and no direction.
actionless_types(f) == (f.log_type \cap log_type_id) \ {"firewall"}

TypeClause(row, f) ==
  LET types == f.log_type \cap log_type_id
  IN IF types = {} THEN "true" ELSE In(row.type, types)

\* "unknown" is the absence of an action.
ActionClause(row, f) ==
  LET actions == f.action \cap action_id
      wants_unknown == "unknown" \in f.action
  IN IF actions = {} /\ ~wants_unknown THEN "true" ELSE
     Or({In(row.action, actions),
         Truth(wants_unknown /\ row.action = None),
         Truth(row.action = None /\ row.type \in actionless_types(f))})

DirectionClause(row, f) ==
  LET directions == f.direction \cap direction_id
  IN IF directions = {} THEN "true" ELSE
     Or({In(row.direction, directions), Truth(row.type \in actionless_types(f))})

\* Conditions of the pills that are a name, a number or a list of them.
PillClauses(row, f) ==
  {IF f.iface = {} THEN "true"
     ELSE Or({AnyOf(row.text["ii.name"], f.iface), AnyOf(row.text["io.name"], f.iface)}),
   IF f.proto = {} THEN "true" ELSE AnyOf(row.text["pr.name"], f.proto),
   IF f.country = {} THEN "true" ELSE AnyOf(row.text["l.geo_country"], f.country),
   IF f.iface_in = None THEN "true" ELSE AnyOf(row.text["ii.name"], {f.iface_in}),
   IF f.iface_out = None THEN "true" ELSE AnyOf(row.text["io.name"], {f.iface_out}),
   IF f.port = None THEN "true" ELSE Or({In(row.sport, {f.port}), In(row.dport, {f.port})}),
   IF f.threat_min = None THEN "true" ELSE AtLeast(row.threat, f.threat_min),
   IF f.from = None THEN "true" ELSE AtLeast(row.ts, f.from),
   IF f.to = None THEN "true" ELSE AtMost(row.ts, f.to)}

\* push_where(): a row is listed when every clause is true.
push_where(row, f) ==
  {TypeClause(row, f), ActionClause(row, f), DirectionClause(row, f)}
    \cup PillClauses(row, f)
    \cup {push_term(row, t) : t \in parse_search(f.q)}

Lists(row, f) == push_where(row, f) = {"true"}
=============================================================================
