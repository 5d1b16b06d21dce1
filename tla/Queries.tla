-------------------------------- MODULE Queries --------------------------------
(***************************************************************************)
(* What the views say about the same rows.  Rows are stored, some of them  *)
(* with the facts about their remote address, some enriched later; the     *)
(* live stream gives its verdict on a row when it is stored, every         *)
(* endpoint reads the table whenever it is asked, and the user changes the *)
(* filter all of them share.                                               *)
(***************************************************************************)
EXTENDS Dashboards, StreamVerdicts

CONSTANTS
  Pool,       \* sequence of rows that are stored, each as it is once enriched
  Asked,      \* filters the user sets
  FlowLimits, \* how many nodes a column of the flow view may have
  Cap         \* of get_count()

\* None is the key of no group of flows.
ASSUME QueriesAssumption ==
  /\ IsFiniteSet(DOMAIN Pool) /\ \A i \in DOMAIN Pool : IsRow(Pool[i])
  /\ \A f \in Asked : IsFilter(f)
  /\ FlowLimits \subseteq Nat \ {0} /\ Cap \in Nat
  /\ LET ends     == {Pool[i].src : i \in DOMAIN Pool} \cup {Pool[i].dst : i \in DOMAIN Pool} \cup {Other}
         services == {<<Pool[i].dport, Pool[i].text["pr.name"]>> : i \in DOMAIN Pool} \cup {Other}
     IN None \notin services \cup (ends \X services) \cup (services \X ends)

VARIABLES
  stored,   \* [Pool's indices -> "no", "plain" or "enriched"]
  verdict,  \* the live stream's verdict on each row under this filter, or None
  asked_for \* the filter

queries_vars == <<stored, verdict, asked_for>>

Rows == DOMAIN Pool

As(i, status) == IF status = "plain" THEN Plain(Pool[i]) ELSE Pool[i]

\* The table as a query reads it.
Table == [i \in {j \in Rows : stored[j] # "no"} |-> As(i, stored[i])]

Insert(i, status) ==
  /\ stored[i] = "no"
  /\ stored' = [stored EXCEPT ![i] = status]
  /\ verdict' = [verdict EXCEPT ![i] = matches_live(As(i, status), asked_for)]
  /\ UNCHANGED asked_for

EnrichRow(i) ==
  /\ stored[i] = "plain"
  /\ stored' = [stored EXCEPT ![i] = "enriched"]
  /\ UNCHANGED <<verdict, asked_for>>

\* A new connection is opened with the new filter.
ChooseFilter(f) ==
  /\ asked_for' = f
  /\ verdict' = [i \in Rows |-> None]
  /\ UNCHANGED stored

QueriesInit ==
  /\ stored = [i \in Rows |-> "no"]
  /\ verdict = [i \in Rows |-> None]
  /\ asked_for \in Asked

QueriesNext ==
  \/ \E i \in Rows : (\E status \in {"plain", "enriched"} : Insert(i, status)) \/ EnrichRow(i)
  \/ \E f \in Asked \ {asked_for} : ChooseFilter(f)

QueriesSpec == QueriesInit /\ [][QueriesNext]_queries_vars

-----------------------------------------------------------------------------
(* The lookup tables each query joins of its own accord, and those whose   *)
(* columns it selects.                                                     *)

Joined ==
  [get_logs |-> LookupTables, export_csv |-> LookupTables, get_count |-> {}, fetch_totals |-> {},
   fetch_unique_sources |-> {}, get_series |-> {}, top_rules |-> {"rules"}, top_others |-> {},
   get_ip_pairs |-> {"protocols"}, get_sankey |-> {"protocols"}, get_zones |-> {"interfaces"},
   get_points |-> {}, blocked_total |-> {}, host_summary |-> {}, host_peers |-> {},
   host_services |-> {"protocols"}, host_rules |-> {"rules"}]

Selected ==
  [q \in DOMAIN Joined |->
    CASE q \in {"get_logs", "export_csv"} -> LookupTables
      [] q \in {"top_rules", "host_rules"} -> {"rules"}
      [] q \in {"get_ip_pairs", "get_sankey", "host_services"} -> {"protocols"}
      [] q = "get_zones" -> {"interfaces"}
      [] OTHER -> {}]

\* A query that names a table it has not joined is an SQL error.
Answered(q, f) == TablesNamed(f) \cup Selected[q] \subseteq push_joins(f, Joined[q])

\* Text in a field that holds addresses or ports: "dst:printer", "port:http".
Misplaced(f) ==
  \E t \in parse_search(f.q) : t.kind = "text" /\ t.field \in AddressFields \cup PortFields

(* "The tables a search term touches" are joined (filters.rs:196-198): no  *)
(* filter makes a query fail.                                              *)
EveryQueryIsAnswered == \A q \in DOMAIN Joined : Answered(q, asked_for)

-----------------------------------------------------------------------------
SameNames(f) ==
  /\ f.log_type \subseteq log_type_id /\ f.action \subseteq action_id
  /\ f.direction \subseteq direction_id
  /\ f.action \cup f.direction # {} => actionless_types(f) = {}

Terms == parse_search(asked_for.q)

(* The live view speaks for the page: a row it lets through is on the page *)
(* of the same filter and stays there when the enrichment has been at it,  *)
(* and a row it turns away is not, whatever facts were known at the time.  *)
(* The exceptions are named: the times, which a live view leaves aside; a  *)
(* free word found in the type or the answer of a lookup or in the MAC,    *)
(* where the page does not look; a word looked for in columns only one of  *)
(* them reads, as soon as it is negated; and for a rejection every word,   *)
(* unknown names, and kinds of log without an action (stream.rs:155-287,   *)
(* filters.rs:319-526).                                                    *)
LiveSpeaksForPage ==
  /\ asked_for.from = None /\ asked_for.to = None
  /\ \A t \in Terms : \/ SameColumns(t) \/ AboutFacts(t)
                      \/ ~t.negated /\ t.field \in {"rule", "host", None}
  => \A i \in Rows :
       /\ verdict[i] = "Pass"
          => Lists(Table[i], asked_for) \/ FoundByStreamOnly(Table[i], asked_for.q)
       /\ /\ verdict[i] = "Reject"
          /\ SameNames(asked_for) /\ \A t \in Terms : SameColumns(t) \/ AboutFacts(t)
          => ~Lists(Table[i], asked_for)

Total(n) == MapThenSumSet(LAMBDA k : n[k], DOMAIN n)
Part(links, field) == Total([k \in DOMAIN links |-> links[k][field]])

\* Each row counts once in every division of the rows, and a bounded list is
\* part of the whole.  Bound and not defined: every view is computed once.
TotalsAgree(rows, f) ==
  \A S \in {Listed(rows, f)}, stats \in {get_stats(rows, f)}, series \in {get_series(rows, f, DAY)},
     zones \in {get_zones(rows, f)} :
    /\ stats.total = Total(stats.by_type)
    /\ stats.total = Total(stats.by_direction) + Cardinality({i \in S : rows[i].direction = None})
    /\ Part(series, "allow") = stats.allowed /\ Part(series, "block") = stats.blocked
    /\ Cardinality(DOMAIN get_top(rows, f, "sources", 100))
         = IF stats.unique_sources < 100 THEN stats.unique_sources ELSE 100
    /\ Total(get_top(rows, f, "threats", 100)) <= stats.threats
    /\ Total(get_top(rows, f, "ports", 1)) <= stats.total
    /\ Part(zones, "blocked") <= stats.blocked

\* The map shows what was blocked, as far as it knows where; an exact count is
\* one.
CountsAgree(rows, f) ==
  \A S \in {Listed(rows, f)}, map \in {get_points(rows, f)}, count \in {get_count(rows, f, Cap + 1, Cap)} :
    /\ Total(map.points) + Cardinality({i \in S : /\ rows[i].type = "firewall" /\ rows[i].action = "block"
                                                  /\ rows[i].place = None}) = map.blocked_total
    /\ count.exact => count.total = Cardinality(S)
    /\ ~count.exact /\ ~is_unfiltered(f) => count.total <= Cardinality(S)

\* The links of a hop that end (side 2) or begin (side 1) at a node.
At(links, side, node) == [k \in {j \in DOMAIN links : j[side] = node} |-> links[k]]

\* What flows into a service flows out of it, cut columns included.
FlowsAgree(rows, f) ==
  \A flow \in {Cardinality(Flowing(rows, Listed(rows, f)))} :
    /\ Part(get_ip_pairs(rows, f, 25), "total") <= flow
    /\ \A limit \in FlowLimits : \A sankey \in {get_sankey(rows, f, limit)} :
         /\ Part(sankey.hop1, "value") = flow
         /\ \A node \in sankey.nodes.service, field \in {"value", "blocked"} :
              Part(At(sankey.hop1, 2, node), field) = Part(At(sankey.hop2, 1, node), field)
         /\ \A kind \in DOMAIN sankey.nodes : Cardinality(sankey.nodes[kind]) <= limit + 1
         /\ {k[1] : k \in DOMAIN sankey.hop1} = sankey.nodes.source
         /\ {k[2] : k \in DOMAIN sankey.hop2} = sankey.nodes.destination

\* A host has its share of the rows.
HostsAgree(rows, f) ==
  \A S \in {Listed(rows, f)} : \A ip \in {rows[i].src : i \in DOMAIN rows} \ {None} :
    \A host \in {get_host_detail(rows, f, ip)} :
      /\ host.allowed + host.blocked <= host.total /\ host.total <= Cardinality(S)
      /\ DOMAIN host.partners \subseteq {rows[i].src : i \in S} \cup {rows[i].dst : i \in S}
      /\ Total(host.partners) <= host.total /\ Cardinality(DOMAIN host.partners) <= host.peers

(* Every view is answered, unless text is looked for where addresses or    *)
(* ports are; and what they say agrees with the table and with each other  *)
(* (dashboard.rs, count.rs, flows.rs, threats.rs, hostdetail.rs).          *)
ViewsAgree ==
  /\ EveryQueryIsAnswered \/ Misplaced(asked_for)
  /\ \A rows \in {Table} :
       /\ TotalsAgree(rows, asked_for) /\ CountsAgree(rows, asked_for)
       /\ FlowsAgree(rows, asked_for) /\ HostsAgree(rows, asked_for)

(* The verdicts of the stream are nothing to the views, so it is enough to *)
(* look at the states without any, in which every table meets every filter *)
(* (dashboard.rs:106).                                                     *)
ViewsAgreeUnseen == verdict = [i \in Rows |-> None] => ViewsAgree
=============================================================================
