------------------------------ MODULE Dashboards ------------------------------
(***************************************************************************)
(* The aggregates of the API: dashboard.rs, count.rs, flows.rs,            *)
(* hostdetail.rs and threats.rs.  Each is a function of the stored rows    *)
(* and the filter, which it shares with the log view.                      *)
(*                                                                         *)
(* `rows' is a function from ids to rows.  A row has the fields Filters    *)
(* reads and `place', its rounded coordinates.  Which of several groups of *)
(* the same size a LIMIT keeps is left open.                               *)
(***************************************************************************)
EXTENDS Filters, FiniteSetsExt

CONSTANT Other  \* the node of the flow view for everything below the limit

\* What the WHERE clause of every aggregate leaves.
Listed(rows, f) == {i \in DOMAIN rows : Lists(rows[i], f)}

\* COUNT(*) FILTER (WHERE rule_action_id = ...)
CountOf(rows, S, action) == Cardinality({i \in S : rows[i].action = action})

\* The key of a text column, or of several columns together.
Named(words) == IF words = {} THEN None ELSE words
Both(a, b)   == IF a = None \/ b = None THEN None ELSE <<a, b>>

\* The keys are [rows -> key]; GROUP BY with the key IS NOT NULL.
GroupBy(S, key) ==
  [k \in {key[i] : i \in S} \ {None} |-> {i \in S : key[i] = k}]

Sizes(groups) == [k \in DOMAIN groups |-> Cardinality(groups[k])]

\* ORDER BY n DESC LIMIT
Largest(n, limit) ==
  CHOOSE T \in SUBSET DOMAIN n :
    /\ Cardinality(T) = IF Cardinality(DOMAIN n) < limit THEN Cardinality(DOMAIN n) ELSE limit
    /\ \A k \in T, j \in DOMAIN n \ T : n[k] >= n[j]

Top(n, limit) == [k \in Largest(n, limit) |-> n[k]]

-----------------------------------------------------------------------------
(* dashboard.rs                                                            *)

\* fetch_totals() and fetch_unique_sources(); rows without a direction are
\* not a seventh direction.
get_stats(rows, f) ==
  LET S == Listed(rows, f)
  IN [total          |-> Cardinality(S),
      allowed        |-> CountOf(rows, S, "allow"),
      blocked        |-> CountOf(rows, S, "block"),
      threats        |-> Cardinality({i \in S : rows[i].threat # None /\ rows[i].threat >= 50}),
      by_type        |-> Sizes(GroupBy(S, [i \in S |-> rows[i].type])),
      by_direction   |-> Sizes(GroupBy(S, [i \in S |-> rows[i].direction])),
      unique_sources |-> Cardinality({rows[i].src : i \in S} \ {None})]

HOUR == 60  \* times are in minutes
DAY  == 24 * HOUR

\* window_duration(): up to now, and over a day, unless the filter says more.
window_duration(f, now) ==
  LET until == IF f.to = None THEN now ELSE f.to
      since == IF f.from = None THEN until - DAY ELSE f.from
  IN IF until < since THEN 0 ELSE until - since

\* bucket_width()
bucket_width(window) ==
  CASE window <= HOUR       -> 1
    [] window > HOUR /\ window <= 6 * HOUR   -> 5
    [] window > 6 * HOUR /\ window <= DAY    -> 15
    [] window > DAY /\ window <= 7 * DAY     -> HOUR
    [] window > 7 * DAY                      -> 6 * HOUR

\* get_series(): a row of none of the three actions is in no curve.
get_series(rows, f, now) ==
  LET width == bucket_width(window_duration(f, now))
  IN [b \in {rows[i].ts \div width : i \in Listed(rows, f)} |->
       LET S == {i \in Listed(rows, f) : rows[i].ts \div width = b}
       IN [a \in action_id |-> CountOf(rows, S, a)]]

\* get_top(): the lists whose key is a column of the row.
TopKey(row, what) ==
  CASE what = "countries"    -> Named(row.text["l.geo_country"])
    [] what = "sources"      -> row.src
    [] what = "destinations" -> row.dst
    [] what = "ports"        -> row.dport
    [] what = "rules"        -> Named(row.text["r.name"] \cup row.text["r.descr"])
    [] what = "asns"         -> row.asn
    [] what = "threats"      -> IF row.threat # None /\ row.threat >= 50 THEN row.src ELSE None

\* A row counts for its incoming and for its outgoing interface.
InterfaceCounts(rows, S) ==
  LET incoming == GroupBy(S, [i \in S |-> Named(rows[i].text["ii.name"])])
      outgoing == GroupBy(S, [i \in S |-> Named(rows[i].text["io.name"])])
      size(groups, k) == IF k \in DOMAIN groups THEN Cardinality(groups[k]) ELSE 0
  IN [k \in DOMAIN incoming \cup DOMAIN outgoing |-> size(incoming, k) + size(outgoing, k)]

get_top(rows, f, what, limit) ==
  LET S == Listed(rows, f)
  IN Top(IF what = "interfaces" THEN InterfaceCounts(rows, S)
         ELSE Sizes(GroupBy(S, [i \in S |-> TopKey(rows[i], what)])), limit)

Flowing(rows, S) ==
  {i \in S : rows[i].type = "firewall" /\ rows[i].src # None /\ rows[i].dst # None}

\* get_ip_pairs(): who speaks with whom, on which service.
get_ip_pairs(rows, f, limit) ==
  LET S == Flowing(rows, Listed(rows, f))
      groups == GroupBy(S, [i \in S |-> IF rows[i].dport = None THEN None
                  ELSE <<rows[i].src, rows[i].dst, rows[i].dport, rows[i].text["pr.name"]>>])
      kept == DOMAIN Top(Sizes(groups), limit)
  IN [k \in kept |-> [total   |-> Cardinality(groups[k]),
                      allowed |-> CountOf(rows, groups[k], "allow"),
                      blocked |-> CountOf(rows, groups[k], "block")]]

-----------------------------------------------------------------------------
(* count.rs                                                                *)

is_unfiltered(f) ==
  /\ f.log_type = {} /\ f.action = {} /\ f.direction = {} /\ f.iface = {} /\ f.proto = {}
  /\ f.country = {} /\ f.iface_in = None /\ f.iface_out = None /\ f.port = None
  /\ f.threat_min = None /\ f.from = None /\ f.to = None /\ f.q = {}

\* get_count(): the statistics of the database, or a count that stops.
get_count(rows, f, estimate, cap) ==
  LET n      == Cardinality(Listed(rows, f))
      capped == IF n < cap THEN n ELSE cap
  IN IF is_unfiltered(f) THEN [total |-> estimate, exact |-> FALSE]
     ELSE [total |-> capped, exact |-> capped < cap]

-----------------------------------------------------------------------------
(* flows.rs                                                                *)

\* Mutant of resolve: a key stays itself though its column is cut.
ResolveToItself(key, top) == key

\* resolve(): what is below the limit falls into one node of its column.
resolve(key, top) == IF key \in top THEN key ELSE Other

\* The nodes of a column, column_keys().
column_keys(volume, top) ==
  top \cup IF DOMAIN volume # top THEN {Other} ELSE {}

\* get_sankey(): source -> service -> destination.
get_sankey(rows, f, limit) ==
  LET S == Flowing(rows, Listed(rows, f))
      service(i) == <<rows[i].dport, rows[i].text["pr.name"]>>
      volume == [source      |-> Sizes(GroupBy(S, [i \in S |-> rows[i].src])),
                 service     |-> Sizes(GroupBy(S, [i \in S |-> service(i)])),
                 destination |-> Sizes(GroupBy(S, [i \in S |-> rows[i].dst]))]
      top    == [kind \in DOMAIN volume |-> Largest(volume[kind], limit)]
      hop1   == GroupBy(S, [i \in S |-> <<resolve(rows[i].src, top.source),
                                             resolve(service(i), top.service)>>])
      hop2   == GroupBy(S, [i \in S |-> <<resolve(service(i), top.service),
                                             resolve(rows[i].dst, top.destination)>>])
      link(group) == [value |-> Cardinality(group), blocked |-> CountOf(rows, group, "block")]
  IN [nodes |-> [kind \in DOMAIN volume |-> column_keys(volume[kind], top[kind])],
      hop1  |-> [k \in DOMAIN hop1 |-> link(hop1[k])],
      hop2  |-> [k \in DOMAIN hop2 |-> link(hop2[k])]]

\* get_zones(): rows that know both interfaces.
get_zones(rows, f) ==
  LET S == Listed(rows, f)
      cells == GroupBy(S, [i \in S |-> Both(Named(rows[i].text["ii.name"]),
                                            Named(rows[i].text["io.name"]))])
  IN [k \in DOMAIN cells |-> [allowed |-> CountOf(rows, cells[k], "allow"),
                              blocked |-> CountOf(rows, cells[k], "block")]]

-----------------------------------------------------------------------------
(* threats.rs and hostdetail.rs                                            *)

\* get_points(): the map, and how much there would be to show.
get_points(rows, f) ==
  LET S == {i \in Listed(rows, f) : rows[i].type = "firewall" /\ rows[i].action = "block"}
  IN [points |-> Sizes(GroupBy(S, [i \in S |-> rows[i].place])), blocked_total |-> Cardinality(S)]

\* The other end of a row, for the host at one of them.
Peer(row, ip) == IF row.src = ip THEN row.dst ELSE row.src

\* get_host_detail()
get_host_detail(rows, f, ip) ==
  LET S == {i \in Listed(rows, f) : ip \in {rows[i].src, rows[i].dst}}
      linked == {i \in S : rows[i].src # None /\ rows[i].dst # None}
  IN [total    |-> Cardinality(S),
      allowed  |-> CountOf(rows, S, "allow"),
      blocked  |-> CountOf(rows, S, "block"),
      peers    |-> Cardinality({Peer(rows[i], ip) : i \in S} \ {None}),
      partners |-> Top(Sizes(GroupBy(linked, [i \in linked |-> Peer(rows[i], ip)])), 10),
      services |-> Top(Sizes(GroupBy(S, [i \in S |-> IF rows[i].dport = None THEN None
                                       ELSE <<rows[i].dport, rows[i].text["pr.name"]>>])), 10),
      rules    |-> Top(Sizes(GroupBy(S, [i \in S |-> Named(rows[i].text["r.name"])])), 8)]
=============================================================================
