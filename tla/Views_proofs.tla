----------------------------- MODULE Views_proofs -----------------------------
(***************************************************************************)
(* Theorems about the views, for any rows and filters, any sizes of page   *)
(* and ring, and any number of page requests, failures and changes of the  *)
(* filter.                                                                 *)
(*                                                                         *)
(* The stream and the page read a filter alike because each clause and     *)
(* each term has the same three outcomes in both (StreamSpeaksForPage).    *)
(* The log view rests on four invariants beside the types: what a row on   *)
(* the screen lacks is still to come or excused (FactsInv), a row comes    *)
(* twice only if it was on its way while a page was read (OnceInv), the    *)
(* latest request has the filter in force and each page the rows of its    *)
(* own (FilterInv), and down to every cursor in use the rows the walk      *)
(* began with have been shown (WalkInv).                                   *)
(***************************************************************************)
EXTENDS LogView, Queries, FiniteSetTheorems, SequenceTheorems, WellFoundedInduction, TLAPS

-----------------------------------------------------------------------------
(* The two readings of a filter.                                           *)

Typed(t) ==
  /\ t.kind \in {"address", "network", "mac", "port", "asn", "text"}
  /\ t.field \in Fields \cup {None}
  /\ t.value # None /\ t.negated \in BOOLEAN
  /\ t.kind = "network" => None \notin t.value
  /\ t.kind = "asn" => t.field = "asn"

\* A token becomes a term of a kind its field can hold.
LEMMA ClassifyType ==
  ASSUME NEW token, IsToken(token)
  PROVE  Typed(classify(token))
<1> DEFINE field == IF token.prefix \in Fields THEN token.prefix ELSE None
<1>1. field \in Fields \cup {None}
  OBVIOUS
<1>2. token.shape \in Shapes
  BY DEF IsToken
<1>3. typed_for(token.shape, field) \in {"address", "network", "mac", "port", "asn", "text"}
  BY <1>1, <1>2, FilterAssumption DEF typed_for, typed, Shapes, Fields, TextFields, PortFields, AddressFields
<1>4. typed_for(token.shape, field) = "network" => token.shape = "network"
  BY <1>1, <1>2, FilterAssumption DEF typed_for, typed, Shapes, Fields, TextFields, PortFields, AddressFields
<1>5. typed_for(token.shape, field) = "asn" => field = "asn"
  BY <1>1, <1>2, FilterAssumption DEF typed_for, typed, Shapes, Fields, TextFields, PortFields, AddressFields
<1> HIDE DEF field
<1>6. classify(token) = [kind |-> typed_for(token.shape, field), field |-> field,
                         value |-> token.value, negated |-> token.negated]
  BY DEF classify, field
<1> QED
  BY <1>1, <1>3, <1>4, <1>5, <1>6 DEF Typed, IsToken

\* The terms of a filter are typed.
LEMMA TermsTyped ==
  ASSUME NEW f, IsFilter(f), NEW t \in parse_search(f.q)
  PROVE  Typed(t)
BY ClassifyType DEF parse_search, IsFilter

LEMMA OrTrue == \A S : Or(S) = "true" <=> "true" \in S
BY DEF Or

\* combine() passes what every verdict passes.
LEMMA CombinePasses ==
  ASSUME NEW S, S \subseteq {"Pass", "Reject", "Unknowable"}
  PROVE  /\ combine(S) = "Pass" <=> S \subseteq {"Pass"}
         /\ combine(S) = "Reject" <=> "Reject" \in S
         /\ combine(S) \in {"Pass", "Reject", "Unknowable"}
BY DEF combine

LEMMA HitType == \A b : Hit(b) \in Verdicts /\ (Hit(b) = "Pass" <=> b) /\ (Hit(b) = "Reject" <=> ~b)
BY DEF Hit, Verdicts

LEMMA TermHitType ==
  ASSUME NEW row, NEW t, Typed(t)
  PROVE  term_hit(row, t) \in Verdicts
BY HitType DEF term_hit, Typed, TextHit, Verdicts

\* Both read a term from the same columns: they agree on it.
LEMMA SameColumnsAgree ==
  ASSUME NEW row, IsRow(row), NEW t, Typed(t), SameColumns(t)
  PROVE  /\ term_hit(row, t) \in {"Pass", "Reject"}
         /\ TermCondition(row, t) = "true" <=> term_hit(row, t) = "Pass"
<1> USE DEF Typed
<1>1. CASE t.kind = "address"
  <2>1. term_hit(row, t) = Hit(t.value \in AddressSides(row, t.field))
    BY <1>1 DEF term_hit
  <2>2. TermCondition(row, t) = Or({In(x, {t.value}) : x \in AddressSides(row, t.field)})
    BY <1>1 DEF TermCondition, IsIdTerm, IsLevelTerm
  <2>3. \A x : In(x, {t.value}) = "true" <=> x = t.value
    BY DEF In, Truth
  <2> QED
    BY <2>1, <2>2, <2>3, OrTrue, HitType DEF Hit
<1>2. CASE t.kind = "network"
  <2>1. term_hit(row, t) = Hit(AddressSides(row, t.field) \cap t.value # {})
    BY <1>2 DEF term_hit
  <2>2. TermCondition(row, t) = Or({In(x, t.value) : x \in AddressSides(row, t.field)})
    BY <1>2 DEF TermCondition, IsIdTerm, IsLevelTerm
  <2>3. \A x : In(x, t.value) = "true" <=> x \in t.value
    BY <1>2 DEF In, Truth
  <2> QED
    BY <2>1, <2>2, <2>3, OrTrue, HitType DEF Hit
<1>3. CASE t.kind = "port"
  <2>1. term_hit(row, t) = Hit(t.value \in PortSides(row, t.field))
    BY <1>3 DEF term_hit
  <2>2. TermCondition(row, t) = Or({In(x, {t.value}) : x \in PortSides(row, t.field)})
    BY <1>3 DEF TermCondition, IsIdTerm, IsLevelTerm
  <2>3. \A x : In(x, {t.value}) = "true" <=> x = t.value
    BY DEF In, Truth
  <2> QED
    BY <2>1, <2>2, <2>3, OrTrue, HitType DEF Hit
<1>4. CASE t.kind = "mac"
  BY <1>4, HitType DEF term_hit, TermCondition, IsIdTerm, IsLevelTerm, In, Truth, Hit
<1>5. CASE t.kind = "text" /\ t.field \in {"action", "type"}
  <2>1. t.field = "action" => term_hit(row, t) = Hit(t.value = row.action)
    BY <1>5 DEF term_hit
  <2>2. t.field = "type" => term_hit(row, t) = Hit(t.value = row.type)
    BY <1>5 DEF term_hit
  <2>3. TermCondition(row, t) =
          LET names == IF t.field = "action" THEN action_id ELSE log_type_id
              id    == IF t.field = "action" THEN row.action ELSE row.type
          IN IF t.value \in names THEN In(id, {t.value}) ELSE "false"
    BY <1>5 DEF TermCondition, IsIdTerm, IsLevelTerm
  <2> QED
    BY <1>5, <2>1, <2>2, <2>3, FilterAssumption, HitType DEF In, Truth, Hit, IsRow
<1>6. CASE t.kind = "text" /\ t.field \in {"protocol", "interface"}
  <2>1. term_hit(row, t) = TextHit(row, TextColumns(t.field), t.value)
    BY <1>6 DEF term_hit, TextColumns
  <2>2. TermCondition(row, t) = Or({Ilike(row.text[c], t.value) : c \in TextColumns(t.field)})
    BY <1>6 DEF TermCondition, IsIdTerm, IsLevelTerm
  <2>3. \A words : Ilike(words, t.value) = "true" <=> t.value \in words
    BY DEF Ilike, Truth
  <2> QED
    BY <2>1, <2>2, <2>3, OrTrue, HitType DEF Hit, TextHit
<1> QED
  BY <1>1, <1>2, <1>3, <1>4, <1>5, <1>6 DEF SameColumns

\* The terms for which the stream speaks when it lets a row through.
Spoken(t) ==
  SameColumns(t) \/ AboutFacts(t) \/ (~t.negated /\ t.field \in {"rule", "host", None})

TermVerdict(row, t) ==
  LET hit == term_hit(row, t)
  IN IF ~t.negated \/ hit = "Unknowable" THEN hit
     ELSE IF hit = "Pass" THEN "Reject" ELSE "Pass"

StreamOnly(row, t) ==
  /\ t.kind = "text" /\ t.field = None
  /\ t.value = row.mac \/ t.value \in row.text["l.dns_type"] \cup row.text["l.dns_answer"]

LEMMA FactsAreUnknown ==
  ASSUME NEW row, NEW t, Typed(t), AboutFacts(t)
  PROVE  SameColumns(t) \/ term_hit(row, t) = "Unknowable"
BY DEF Typed, AboutFacts, SameColumns, term_hit

\* A term the stream lets through is one the page finds as well.
LEMMA LiveTermListed ==
  ASSUME NEW row, IsRow(row), NEW t, Typed(t), Spoken(t), TermVerdict(row, t) = "Pass"
  PROVE  push_term(row, t) = "true" \/ StreamOnly(row, t)
<1>1. CASE SameColumns(t)
  BY <1>1, SameColumnsAgree DEF push_term, TermVerdict, Typed, Truth
<1>2. CASE ~SameColumns(t) /\ AboutFacts(t)
  BY <1>2, FactsAreUnknown DEF TermVerdict
<1>3. CASE ~SameColumns(t) /\ ~AboutFacts(t)
  <2>1. ~t.negated /\ t.field \in {"rule", "host", None} /\ t.kind = "text"
    BY <1>3 DEF Spoken, SameColumns, AboutFacts, Typed
  <2>2. t.field = None => t.field \notin Fields
    BY FilterAssumption
  <2>3. TermCondition(row, t) = Or({Ilike(row.text[c], t.value) : c \in TextColumns(t.field)})
    BY <2>1, <2>2 DEF TermCondition, IsIdTerm, IsLevelTerm, Fields, TextFields
  <2>4. push_term(row, t) = "true" <=> \E c \in TextColumns(t.field) : t.value \in row.text[c]
    <3>1. \A words : Ilike(words, t.value) = "true" <=> t.value \in words
      BY DEF Ilike, Truth
    <3> QED
      BY <2>1, <2>3, <3>1, OrTrue DEF push_term
  <2>5. term_hit(row, t) = "Pass"
    BY <2>1 DEF TermVerdict
  <2>6. CASE t.field = "rule"
    <3>1. t.value \in row.text["r.name"]
      BY <2>1, <2>5, <2>6, HitType DEF term_hit, TextHit
    <3> QED
      BY <2>4, <2>6, <3>1 DEF TextColumns
  <2>7. CASE t.field = "host"
    <3>1. t.value \in row.text["dn.name"]
      BY <2>1, <2>5, <2>7, HitType DEF term_hit, TextHit
    <3> QED
      BY <2>4, <2>7, <3>1 DEF TextColumns
  <2>8. CASE t.field = None
    <3>1. TextColumns(t.field) = FreeColumns
      BY <2>8, <2>2 DEF TextColumns, Fields, TextFields
    <3>2. t.value = row.mac \/ \E c \in LiveColumns : t.value \in row.text[c]
      BY <2>1, <2>5, <2>8, <2>2, HitType DEF term_hit, TextHit, Fields, TextFields
    <3>3. LiveColumns \subseteq FreeColumns \cup {"l.dns_type", "l.dns_answer"}
      BY DEF LiveColumns, FreeColumns, Columns
    <3> QED
      BY <2>1, <2>4, <2>8, <3>1, <3>2, <3>3 DEF StreamOnly
  <2> QED
    BY <2>1, <2>6, <2>7, <2>8
<1> QED
  BY <1>1, <1>2, <1>3

-----------------------------------------------------------------------------
(* Rows with and without their facts.                                      *)

FactColumns == {"l.rdns", "l.asn_name", "l.geo_country", "l.geo_city"}

\* What the enrichment adds, and that it takes nothing away.
LEMMA PlainRow ==
  ASSUME NEW row, IsRow(row)
  PROVE  /\ IsRow(Plain(row))
         /\ \A c \in Columns : Plain(row).text[c] = IF c \in FactColumns THEN {} ELSE row.text[c]
         /\ Plain(row).asn = None /\ Plain(row).threat = None
         /\ Plain(row).type = row.type /\ Plain(row).action = row.action
         /\ Plain(row).direction = row.direction /\ Plain(row).src = row.src
         /\ Plain(row).dst = row.dst /\ Plain(row).sport = row.sport
         /\ Plain(row).dport = row.dport /\ Plain(row).mac = row.mac
         /\ Plain(row).severity = row.severity /\ Plain(row).ts = row.ts
BY DEF IsRow, Plain, FactColumns

\* The terms that keep matching when the facts arrive.
Lasting(t) ==
  SameColumns(t) \/ (~t.negated /\ (AboutFacts(t) \/ t.field \in {"rule", "host", None}))

\* The facts are in none of the columns both readings look at.
LEMMA SameHit ==
  ASSUME NEW row, IsRow(row), NEW t, Typed(t), SameColumns(t)
  PROVE  term_hit(Plain(row), t) = term_hit(row, t)
<1>1. AddressSides(Plain(row), t.field) = AddressSides(row, t.field)
  BY PlainRow DEF AddressSides
<1>2. PortSides(Plain(row), t.field) = PortSides(row, t.field)
  BY PlainRow DEF PortSides
<1>3. \A c \in {"pr.name", "ii.name", "io.name"} : Plain(row).text[c] = row.text[c]
  BY PlainRow DEF Columns, FactColumns
<1>4. CASE t.kind \in {"address", "network", "port", "mac"}
  BY <1>1, <1>2, <1>4, PlainRow DEF term_hit
<1>5. CASE t.kind = "text" /\ t.field \in {"action", "type"}
  BY <1>5, PlainRow DEF term_hit
<1>6. CASE t.kind = "text" /\ t.field \in {"protocol", "interface"}
  <2>1. /\ TextHit(Plain(row), {"pr.name"}, t.value) = TextHit(row, {"pr.name"}, t.value)
        /\ TextHit(Plain(row), {"ii.name", "io.name"}, t.value)
             = TextHit(row, {"ii.name", "io.name"}, t.value)
    BY <1>3 DEF TextHit
  <2> QED
    BY <1>6, <2>1 DEF term_hit
<1> QED
  BY <1>4, <1>5, <1>6 DEF SameColumns

LEMMA PlainTermStays ==
  ASSUME NEW row, IsRow(row), NEW t, Typed(t), Lasting(t), push_term(Plain(row), t) = "true"
  PROVE  push_term(row, t) = "true"
<1>1. CASE SameColumns(t)
  BY <1>1, SameHit, PlainRow, SameColumnsAgree DEF push_term, Truth
<1>2. CASE ~SameColumns(t) /\ t.kind = "asn"
  <2>1. TermCondition(Plain(row), t) = "null"
    BY <1>2, PlainRow DEF TermCondition, IsIdTerm, IsLevelTerm, In
  <2> QED
    BY <1>2, <2>1 DEF push_term, Lasting
<1>3. CASE ~SameColumns(t) /\ t.kind # "asn"
  <2>1. ~t.negated /\ t.field \in {"country", "asn", "rule", "host", None} /\ t.kind = "text"
    BY <1>3 DEF Lasting, SameColumns, AboutFacts, Typed
  <2>2. t.field = None => t.field \notin Fields
    BY FilterAssumption
  <2>3. \A r : TermCondition(r, t) = Or({Ilike(r.text[c], t.value) : c \in TextColumns(t.field)})
    BY <2>1, <2>2 DEF TermCondition, IsIdTerm, IsLevelTerm, Fields, TextFields
  <2>4. \A r : push_term(r, t) = "true" <=> \E c \in TextColumns(t.field) : t.value \in r.text[c]
    <3>1. \A words : Ilike(words, t.value) = "true" <=> t.value \in words
      BY DEF Ilike, Truth
    <3>2. TAKE r
    <3>3. push_term(r, t) = Or({Ilike(r.text[c], t.value) : c \in TextColumns(t.field)})
      BY <2>1, <2>3 DEF push_term
    <3> QED
      BY <3>1, <3>3, OrTrue
  <2>5. TextColumns(t.field) \subseteq Columns
    BY <2>1 DEF TextColumns, Columns, FreeColumns
  <2> QED
    BY <2>4, <2>5, PlainRow
<1> QED
  BY <1>1, <1>2, <1>3

-----------------------------------------------------------------------------
(* The verdicts of the stream and the clauses of the page.                 *)

LEMMA SearchVerdict ==
  ASSUME NEW row, NEW f, IsFilter(f)
  PROVE  /\ search_verdict(row, f.q) \in Verdicts
         /\ search_verdict(row, f.q) = "Pass"
            <=> \A t \in parse_search(f.q) : TermVerdict(row, t) = "Pass"
         /\ search_verdict(row, f.q) = "Reject"
            <=> \E t \in parse_search(f.q) : TermVerdict(row, t) = "Reject"
<1> DEFINE S == {TermVerdict(row, t) : t \in parse_search(f.q)}
<1>1. search_verdict(row, f.q) = combine(S)
  BY DEF search_verdict, TermVerdict
<1>2. S \subseteq {"Pass", "Reject", "Unknowable"}
  BY TermsTyped, TermHitType DEF TermVerdict, Verdicts
<1> QED
  BY <1>1, <1>2, CombinePasses DEF Verdicts

LEMMA EnrichedVerdict ==
  ASSUME NEW row, NEW f
  PROVE  /\ enriched_verdict(f, row) \in Verdicts
         /\ enriched_verdict(f, row) = "Pass"
            => /\ f.country # {} => row.text["l.geo_country"] \cap f.country # {}
               /\ f.threat_min # None => row.threat # None /\ row.threat >= f.threat_min
         /\ enriched_verdict(f, row) = "Reject"
            => \/ /\ f.country # {} /\ row.text["l.geo_country"] # {}
                  /\ row.text["l.geo_country"] \cap f.country = {}
               \/ /\ f.threat_min # None /\ row.threat # None
                  /\ ~(row.threat >= f.threat_min)
<1> DEFINE country == row.text["l.geo_country"]
           C == IF f.country # {} /\ country = {} THEN "Unknowable"
                ELSE Hit(f.country = {} \/ country \cap f.country # {})
           T == IF f.threat_min # None /\ row.threat = None THEN "Unknowable"
                ELSE Hit(f.threat_min = None \/ row.threat >= f.threat_min)
<1>1. enriched_verdict(f, row) = combine({C, T})
  BY DEF enriched_verdict
<1>2. C \in Verdicts /\ T \in Verdicts
  BY HitType DEF Verdicts
<1>3. /\ C = "Pass" => f.country = {} \/ country \cap f.country # {}
      /\ C = "Reject" => f.country # {} /\ country # {} /\ country \cap f.country = {}
  BY HitType DEF Hit
<1>4. /\ T = "Pass" => f.threat_min = None \/ (row.threat # None /\ row.threat >= f.threat_min)
      /\ T = "Reject" => f.threat_min # None /\ row.threat # None /\ ~(row.threat >= f.threat_min)
  BY HitType DEF Hit
<1> HIDE DEF C, T
<1>5. /\ combine({C, T}) \in Verdicts
      /\ combine({C, T}) = "Pass" => C = "Pass" /\ T = "Pass"
      /\ combine({C, T}) = "Reject" => C = "Reject" \/ T = "Reject"
  BY <1>2, CombinePasses DEF Verdicts
<1> QED
  BY <1>1, <1>3, <1>4, <1>5

\* The ten verdicts of matches_live() by name.
LiveVerdicts(row, f) ==
  {list_verdict(f.log_type, row.type),
   list_verdict(f.action, row.action),
   list_verdict(f.direction, row.direction),
   iface_verdict(f.iface, row),
   exact_iface_verdict(f.iface_in, row.text["ii.name"]),
   exact_iface_verdict(f.iface_out, row.text["io.name"]),
   Hit(f.proto = {} \/ row.text["pr.name"] \cap f.proto # {}),
   port_verdict(f.port, row),
   enriched_verdict(f, row),
   search_verdict(row, f.q)}

LEMMA LiveVerdictsType ==
  ASSUME NEW row, NEW f, IsFilter(f)
  PROVE  /\ LiveVerdicts(row, f) \subseteq {"Pass", "Reject", "Unknowable"}
         /\ matches_live(row, f) = combine(LiveVerdicts(row, f))
         /\ matches_live(row, f) \in Verdicts
         /\ matches_live(row, f) = "Pass" <=> LiveVerdicts(row, f) \subseteq {"Pass"}
         /\ matches_live(row, f) = "Reject" <=> "Reject" \in LiveVerdicts(row, f)
<1>1. LiveVerdicts(row, f) \subseteq {"Pass", "Reject", "Unknowable"}
  BY HitType, EnrichedVerdict, SearchVerdict
     DEF LiveVerdicts, Verdicts, list_verdict, iface_verdict, exact_iface_verdict, port_verdict
<1>2. matches_live(row, f) = combine(LiveVerdicts(row, f))
  BY DEF matches_live, LiveVerdicts
<1> QED
  BY <1>1, <1>2, CombinePasses DEF Verdicts

\* A row the stream lets through is on the page, or a free word was found
\* where the page does not look.
LEMMA LivePassListed ==
  ASSUME NEW row, IsRow(row), NEW f, IsFilter(f), f.from = None, f.to = None,
         \A t \in parse_search(f.q) : Spoken(t),
         matches_live(row, f) = "Pass", ~FoundByStreamOnly(row, f.q)
  PROVE  Lists(row, f)
<1>1. \A v \in LiveVerdicts(row, f) : v = "Pass"
  BY LiveVerdictsType
<1>2. TypeClause(row, f) = "true"
  <2>1. f.log_type = {} \/ row.type \in f.log_type
    BY <1>1, HitType DEF LiveVerdicts, list_verdict
  <2> QED
    BY <2>1, FilterAssumption DEF TypeClause, In, Truth, IsRow
<1>3. ActionClause(row, f) = "true"
  <2>1. f.action = {} \/ row.action \in f.action
    BY <1>1, HitType DEF LiveVerdicts, list_verdict
  <2>2. f.action # {} => row.action \in f.action \cap action_id /\ row.action # None
    BY <2>1 DEF IsRow, IsFilter
  <2>3. f.action # {} => In(row.action, f.action \cap action_id) = "true"
    BY <2>2 DEF In, Truth
  <2> QED
    BY <2>3, <2>2, OrTrue DEF ActionClause
<1>4. DirectionClause(row, f) = "true"
  <2>1. f.direction = {} \/ row.direction \in f.direction
    BY <1>1, HitType DEF LiveVerdicts, list_verdict
  <2>2. f.direction # {} => row.direction \in f.direction \cap direction_id /\ row.direction # None
    BY <2>1 DEF IsRow, IsFilter
  <2>3. f.direction # {} => In(row.direction, f.direction \cap direction_id) = "true"
    BY <2>2 DEF In, Truth
  <2> QED
    BY <2>3, <2>2, OrTrue DEF DirectionClause
<1>5. PillClauses(row, f) \subseteq {"true"}
  <2>1. f.iface = {} \/ (row.text["ii.name"] \cup row.text["io.name"]) \cap f.iface # {}
    BY <1>1, HitType DEF LiveVerdicts, iface_verdict
  <2>2. /\ f.iface_in = None \/ f.iface_in \in row.text["ii.name"]
        /\ f.iface_out = None \/ f.iface_out \in row.text["io.name"]
    BY <1>1, HitType DEF LiveVerdicts, exact_iface_verdict
  <2>3. f.proto = {} \/ row.text["pr.name"] \cap f.proto # {}
    BY <1>1, HitType DEF LiveVerdicts
  <2>4. f.port = None \/ f.port \in {row.sport, row.dport}
    BY <1>1, HitType DEF LiveVerdicts, port_verdict
  <2>5. /\ f.country # {} => row.text["l.geo_country"] \cap f.country # {}
        /\ f.threat_min # None => row.threat # None /\ row.threat >= f.threat_min
    BY <1>1, EnrichedVerdict DEF LiveVerdicts
  <2>6. \A words, S : words \cap S # {} => AnyOf(words, S) = "true"
    BY DEF AnyOf, Truth
  <2>7. f.iface # {} => Or({AnyOf(row.text["ii.name"], f.iface), AnyOf(row.text["io.name"], f.iface)}) = "true"
    BY <2>1, <2>6, OrTrue
  <2>8. f.iface_in # None => AnyOf(row.text["ii.name"], {f.iface_in}) = "true"
    BY <2>2, <2>6
  <2>9. f.iface_out # None => AnyOf(row.text["io.name"], {f.iface_out}) = "true"
    BY <2>2, <2>6
  <2>10. f.port # None => Or({In(row.sport, {f.port}), In(row.dport, {f.port})}) = "true"
    BY <2>4, OrTrue DEF In, Truth
  <2>11. f.threat_min # None => AtLeast(row.threat, f.threat_min) = "true"
    BY <2>5 DEF AtLeast, Truth
  <2> QED
    BY <2>3, <2>5, <2>6, <2>7, <2>8, <2>9, <2>10, <2>11 DEF PillClauses
<1>6. \A t \in parse_search(f.q) : push_term(row, t) = "true"
  <2>1. search_verdict(row, f.q) = "Pass"
    BY <1>1 DEF LiveVerdicts
  <2>2. \A t \in parse_search(f.q) : TermVerdict(row, t) = "Pass" /\ ~StreamOnly(row, t)
    BY <2>1, SearchVerdict DEF FoundByStreamOnly, StreamOnly
  <2> QED
    BY <2>2, TermsTyped, LiveTermListed
<1> QED
  BY <1>2, <1>3, <1>4, <1>5, <1>6 DEF Lists, push_where

\* A row listed without its facts is listed with them.
LEMMA PlainListedStays ==
  ASSUME NEW row, IsRow(row), NEW f, IsFilter(f),
         \A t \in parse_search(f.q) : Lasting(t),
         Lists(Plain(row), f)
  PROVE  Lists(row, f)
<1>1. \A v \in push_where(Plain(row), f) : v = "true"
  BY DEF Lists
<1>2. TypeClause(row, f) = "true" /\ ActionClause(row, f) = "true" /\ DirectionClause(row, f) = "true"
  <2>1. /\ TypeClause(Plain(row), f) = "true" /\ ActionClause(Plain(row), f) = "true"
        /\ DirectionClause(Plain(row), f) = "true"
    BY <1>1 DEF push_where
  <2>2. TypeClause(Plain(row), f) = TypeClause(row, f)
    BY PlainRow DEF TypeClause
  <2>3. ActionClause(Plain(row), f) = ActionClause(row, f)
    BY PlainRow DEF ActionClause
  <2>4. DirectionClause(Plain(row), f) = DirectionClause(row, f)
    BY PlainRow DEF DirectionClause
  <2> QED
    BY <2>1, <2>2, <2>3, <2>4
<1>3. PillClauses(row, f) \subseteq {"true"}
  <2>1. \A v \in PillClauses(Plain(row), f) : v = "true"
    BY <1>1 DEF push_where
  <2>2. \A c \in {"ii.name", "io.name", "pr.name"} : Plain(row).text[c] = row.text[c]
    BY PlainRow DEF Columns, FactColumns
  <2>3. f.country # {} => FALSE
    <3>1. Plain(row).text["l.geo_country"] = {}
      BY PlainRow DEF Columns, FactColumns
    <3>2. SUFFICES ASSUME f.country # {} PROVE FALSE
      OBVIOUS
    <3>3. AnyOf(Plain(row).text["l.geo_country"], f.country) \in PillClauses(Plain(row), f)
      BY <3>2 DEF PillClauses
    <3> QED
      BY <2>1, <3>1, <3>3 DEF AnyOf
  <2>4. f.threat_min # None => FALSE
    <3>1. SUFFICES ASSUME f.threat_min # None PROVE FALSE
      OBVIOUS
    <3>2. AtLeast(Plain(row).threat, f.threat_min) \in PillClauses(Plain(row), f)
      BY <3>1 DEF PillClauses
    <3> QED
      BY <2>1, <3>2, PlainRow DEF AtLeast
  <2> QED
    BY <2>1, <2>2, <2>3, <2>4, PlainRow DEF PillClauses
<1>4. \A t \in parse_search(f.q) : push_term(row, t) = "true"
  <2>1. \A t \in parse_search(f.q) : push_term(Plain(row), t) = "true"
    BY <1>1 DEF push_where
  <2> QED
    BY <2>1, TermsTyped, PlainTermStays
<1> QED
  BY <1>2, <1>3, <1>4 DEF Lists, push_where

\* A row the stream turns away is not on the page, whatever it knew.
LEMMA LiveRejectUnlisted ==
  ASSUME NEW row, IsRow(row), NEW live \in {row, Plain(row)}, NEW f, IsFilter(f), SameNames(f),
         \A t \in parse_search(f.q) : SameColumns(t) \/ AboutFacts(t),
         matches_live(live, f) = "Reject"
  PROVE  ~Lists(row, f)
<1> SUFFICES ASSUME Lists(row, f) PROVE FALSE
  OBVIOUS
<1>1. \A v \in push_where(row, f) : v = "true"
  BY DEF Lists
<1>2. /\ live.type = row.type /\ live.action = row.action /\ live.direction = row.direction
      /\ live.sport = row.sport /\ live.dport = row.dport
      /\ \A c \in {"ii.name", "io.name", "pr.name"} : live.text[c] = row.text[c]
  BY PlainRow DEF Columns, FactColumns
<1>3. list_verdict(f.log_type, live.type) = "Pass"
  <2>1. TypeClause(row, f) = "true"
    BY <1>1 DEF push_where
  <2> QED
    BY <1>2, <2>1, HitType DEF TypeClause, In, Truth, list_verdict, SameNames
<1>4. list_verdict(f.action, live.action) = "Pass"
  <2>1. ActionClause(row, f) = "true"
    BY <1>1 DEF push_where
  <2>2. CASE f.action = {}
    BY <2>2, HitType DEF list_verdict
  <2>3. CASE f.action # {}
    <3>1. "unknown" \notin f.action /\ f.action \cap action_id = f.action /\ actionless_types(f) = {}
      BY <2>3 DEF SameNames, action_id
    <3>2. In(row.action, f.action) = "true"
      BY <2>1, <2>3, <3>1, OrTrue DEF ActionClause, Truth
    <3> QED
      BY <1>2, <3>2, HitType DEF In, Truth, list_verdict
  <2> QED
    BY <2>2, <2>3
<1>5. list_verdict(f.direction, live.direction) = "Pass"
  <2>1. DirectionClause(row, f) = "true"
    BY <1>1 DEF push_where
  <2>2. CASE f.direction = {}
    BY <2>2, HitType DEF list_verdict
  <2>3. CASE f.direction # {}
    <3>1. f.direction \cap direction_id = f.direction /\ actionless_types(f) = {}
      BY <2>3 DEF SameNames
    <3>2. In(row.direction, f.direction) = "true"
      BY <2>1, <2>3, <3>1, OrTrue DEF DirectionClause, Truth
    <3> QED
      BY <1>2, <3>2, HitType DEF In, Truth, list_verdict
  <2> QED
    BY <2>2, <2>3
<1>6. \A v \in PillClauses(row, f) : v = "true"
  BY <1>1 DEF push_where
<1>7. \A words, S : AnyOf(words, S) = "true" => words \cap S # {}
  BY DEF AnyOf, Truth
<1>8. iface_verdict(f.iface, live) = "Pass"
  <2>1. CASE f.iface # {}
    <3>1. Or({AnyOf(row.text["ii.name"], f.iface), AnyOf(row.text["io.name"], f.iface)}) = "true"
      BY <1>6, <2>1 DEF PillClauses
    <3>2. row.text["ii.name"] \cap f.iface # {} \/ row.text["io.name"] \cap f.iface # {}
      <4>1. \E v \in {AnyOf(row.text["ii.name"], f.iface), AnyOf(row.text["io.name"], f.iface)} : v = "true"
        BY <3>1, OrTrue
      <4>2. AnyOf(row.text["ii.name"], f.iface) = "true" \/ AnyOf(row.text["io.name"], f.iface) = "true"
        BY <4>1
      <4> QED
        BY <1>7, <4>2
    <3> QED
      BY <1>2, <3>2, HitType DEF iface_verdict
  <2> QED
    BY <2>1, HitType DEF iface_verdict
<1>9. exact_iface_verdict(f.iface_in, live.text["ii.name"]) = "Pass"
  <2>1. f.iface_in # None => AnyOf(row.text["ii.name"], {f.iface_in}) = "true"
    BY <1>6 DEF PillClauses
  <2>2. f.iface_in = None \/ f.iface_in \in live.text["ii.name"]
    BY <1>2, <1>7, <2>1
  <2> QED
    BY <2>2, HitType DEF exact_iface_verdict
<1>10. exact_iface_verdict(f.iface_out, live.text["io.name"]) = "Pass"
  <2>1. f.iface_out # None => AnyOf(row.text["io.name"], {f.iface_out}) = "true"
    BY <1>6 DEF PillClauses
  <2>2. f.iface_out = None \/ f.iface_out \in live.text["io.name"]
    BY <1>2, <1>7, <2>1
  <2> QED
    BY <2>2, HitType DEF exact_iface_verdict
<1>11. Hit(f.proto = {} \/ live.text["pr.name"] \cap f.proto # {}) = "Pass"
  <2>1. f.proto # {} => AnyOf(row.text["pr.name"], f.proto) = "true"
    BY <1>6 DEF PillClauses
  <2> QED
    BY <1>2, <1>7, <2>1, HitType
<1>12. port_verdict(f.port, live) = "Pass"
  <2>1. f.port # None => Or({In(row.sport, {f.port}), In(row.dport, {f.port})}) = "true"
    BY <1>6 DEF PillClauses
  <2>2. \A x : In(x, {f.port}) = "true" => x = f.port
    BY DEF In, Truth
  <2>3. f.port = None \/ f.port \in {live.sport, live.dport}
    BY <1>2, <2>1, <2>2, OrTrue
  <2> QED
    BY <2>3, HitType DEF port_verdict
<1>13. enriched_verdict(f, live) # "Reject"
  <2>1. f.country # {} => AnyOf(row.text["l.geo_country"], f.country) = "true"
    BY <1>6 DEF PillClauses
  <2>2. f.threat_min # None => AtLeast(row.threat, f.threat_min) = "true"
    BY <1>6 DEF PillClauses
  <2>3. live.text["l.geo_country"] = {} \/ live.text["l.geo_country"] = row.text["l.geo_country"]
    BY PlainRow DEF Columns, FactColumns
  <2>4. live.threat = None \/ live.threat = row.threat
    BY PlainRow
  <2>5. f.threat_min # None => row.threat >= f.threat_min
    BY <2>2 DEF AtLeast, Truth
  <2> QED
    BY <1>7, <2>1, <2>3, <2>4, <2>5, EnrichedVerdict
<1>14. search_verdict(live, f.q) # "Reject"
  <2>1. SUFFICES ASSUME NEW t \in parse_search(f.q), TermVerdict(live, t) = "Reject" PROVE FALSE
    BY SearchVerdict
  <2>2. Typed(t) /\ push_term(row, t) = "true"
    BY <1>1, TermsTyped DEF push_where
  <2>3. CASE ~SameColumns(t)
    BY <2>1, <2>2, <2>3, FactsAreUnknown DEF TermVerdict
  <2>4. CASE SameColumns(t)
    <3>1. term_hit(live, t) = term_hit(row, t)
      BY <2>2, <2>4, SameHit
    <3> QED
      BY <2>1, <2>2, <2>4, <3>1, SameColumnsAgree DEF push_term, TermVerdict, Truth
  <2> QED
    BY <2>3, <2>4
<1>15. "Reject" \in LiveVerdicts(live, f)
  BY LiveVerdictsType
<1> QED
  BY <1>3, <1>4, <1>5, <1>8, <1>9, <1>10, <1>11, <1>12, <1>13, <1>14, <1>15 DEF LiveVerdicts

-----------------------------------------------------------------------------
(* The verdicts of the stream on a table that is being enriched.           *)

\* A verdict was given on the row as it was stored, and under this filter.
VerdictsInv ==
  /\ stored \in [Rows -> {"no", "plain", "enriched"}]
  /\ verdict \in [Rows -> Verdicts \cup {None}]
  /\ asked_for \in Asked
  /\ \A i \in Rows : verdict[i] # None =>
       \/ stored[i] = "plain" /\ verdict[i] = matches_live(Plain(Pool[i]), asked_for)
       \/ /\ stored[i] = "enriched"
          /\ \E live \in {Pool[i], Plain(Pool[i])} : verdict[i] = matches_live(live, asked_for)

\* A fact that must be missing is not known to the stream.
LEMMA LivePassLasting ==
  ASSUME NEW row, NEW f, IsFilter(f), matches_live(row, f) = "Pass",
         \A t \in parse_search(f.q) : Spoken(t)
  PROVE  \A t \in parse_search(f.q) : Lasting(t)
<1> SUFFICES ASSUME NEW t \in parse_search(f.q) PROVE Lasting(t)
  OBVIOUS
<1>1. TermVerdict(row, t) = "Pass"
  BY LiveVerdictsType, SearchVerdict DEF LiveVerdicts
<1> QED
  BY <1>1, TermsTyped, FactsAreUnknown DEF Spoken, Lasting, TermVerdict

LEMMA SameStreamOnly ==
  ASSUME NEW row, IsRow(row), NEW q
  PROVE  FoundByStreamOnly(Plain(row), q) <=> FoundByStreamOnly(row, q)
<1>1. \A c \in {"l.dns_type", "l.dns_answer"} : Plain(row).text[c] = row.text[c]
  BY PlainRow DEF Columns, FactColumns
<1> QED
  BY <1>1, PlainRow DEF FoundByStreamOnly

\* The live view speaks for the page, whatever rows are stored and whatever
\* filter is set (stream.rs:270-287).
THEOREM StreamSpeaksForPage == QueriesSpec => []LiveSpeaksForPage
<1>1. QueriesInit => VerdictsInv
  BY DEF QueriesInit, VerdictsInv
<1>2. VerdictsInv /\ [QueriesNext]_queries_vars => VerdictsInv'
  <2> SUFFICES ASSUME VerdictsInv, [QueriesNext]_queries_vars PROVE VerdictsInv'
    OBVIOUS
  <2>1. ASSUME NEW i \in Rows, NEW status \in {"plain", "enriched"}, Insert(i, status)
        PROVE  VerdictsInv'
    <3>1. matches_live(As(i, status), asked_for) \in Verdicts
      BY QueriesAssumption, LiveVerdictsType DEF VerdictsInv
    <3>2. As(i, status) = IF status = "plain" THEN Plain(Pool[i]) ELSE Pool[i]
      BY DEF As
    <3> QED
      BY <2>1, <3>1, <3>2 DEF Insert, VerdictsInv
  <2>2. ASSUME NEW i \in Rows, EnrichRow(i)
        PROVE  VerdictsInv'
    BY <2>2 DEF EnrichRow, VerdictsInv
  <2>3. ASSUME NEW f \in Asked, ChooseFilter(f)
        PROVE  VerdictsInv'
    BY <2>3 DEF ChooseFilter, VerdictsInv
  <2>4. CASE UNCHANGED queries_vars
    BY <2>4 DEF queries_vars, VerdictsInv
  <2> QED
    BY <2>1, <2>2, <2>3, <2>4 DEF QueriesNext
<1>3. VerdictsInv => LiveSpeaksForPage
  <2> SUFFICES ASSUME VerdictsInv, asked_for.from = None, asked_for.to = None,
                      \A t \in Terms : Spoken(t),
                      NEW i \in Rows
               PROVE  /\ verdict[i] = "Pass" => \/ Lists(Table[i], asked_for)
                                                \/ FoundByStreamOnly(Table[i], asked_for.q)
                      /\ verdict[i] = "Reject" /\ SameNames(asked_for)
                         /\ (\A t \in Terms : SameColumns(t) \/ AboutFacts(t))
                         => ~Lists(Table[i], asked_for)
    BY DEF LiveSpeaksForPage, Spoken
  <2>1. IsFilter(asked_for) /\ IsRow(Pool[i]) /\ IsRow(Plain(Pool[i]))
    BY QueriesAssumption, PlainRow DEF VerdictsInv, Rows
  <2>2. Terms = parse_search(asked_for.q)
    BY DEF Terms
  <2> SUFFICES ASSUME verdict[i] \in {"Pass", "Reject"}
               PROVE  /\ verdict[i] = "Pass" => \/ Lists(Table[i], asked_for)
                                                \/ FoundByStreamOnly(Table[i], asked_for.q)
                      /\ verdict[i] = "Reject" /\ SameNames(asked_for)
                         /\ (\A t \in Terms : SameColumns(t) \/ AboutFacts(t))
                         => ~Lists(Table[i], asked_for)
    OBVIOUS
  <2>3. verdict[i] # None
    BY VerdictsAssumption DEF Verdicts
  <2>4. CASE stored[i] = "plain" /\ verdict[i] = matches_live(Plain(Pool[i]), asked_for)
    <3>1. Table[i] = Plain(Pool[i])
      BY <2>4 DEF Table, As
    <3> QED
      BY <2>1, <2>2, <2>4, <3>1, LivePassListed, LiveRejectUnlisted
  <2>5. ASSUME stored[i] = "enriched", verdict[i] = matches_live(Pool[i], asked_for)
        PROVE  /\ verdict[i] = "Pass" => \/ Lists(Table[i], asked_for)
                                         \/ FoundByStreamOnly(Table[i], asked_for.q)
               /\ verdict[i] = "Reject" /\ SameNames(asked_for)
                  /\ (\A t \in Terms : SameColumns(t) \/ AboutFacts(t))
                  => ~Lists(Table[i], asked_for)
    <3>1. Table[i] = Pool[i]
      BY <2>5 DEF Table, As
    <3> QED
      BY <2>1, <2>2, <2>5, <3>1, LivePassListed, LiveRejectUnlisted
  <2>6. ASSUME stored[i] = "enriched", verdict[i] = matches_live(Plain(Pool[i]), asked_for)
        PROVE  /\ verdict[i] = "Pass" => \/ Lists(Table[i], asked_for)
                                         \/ FoundByStreamOnly(Table[i], asked_for.q)
               /\ verdict[i] = "Reject" /\ SameNames(asked_for)
                  /\ (\A t \in Terms : SameColumns(t) \/ AboutFacts(t))
                  => ~Lists(Table[i], asked_for)
    <3>1. Table[i] = Pool[i]
      BY <2>6 DEF Table, As
    <3>2. verdict[i] = "Pass" /\ ~FoundByStreamOnly(Pool[i], asked_for.q) => Lists(Pool[i], asked_for)
      <4> SUFFICES ASSUME verdict[i] = "Pass", ~FoundByStreamOnly(Pool[i], asked_for.q)
                   PROVE  Lists(Pool[i], asked_for)
        OBVIOUS
      <4>1. Lists(Plain(Pool[i]), asked_for)
        BY <2>1, <2>2, <2>6, SameStreamOnly, LivePassListed
      <4>2. \A t \in parse_search(asked_for.q) : Lasting(t)
        BY <2>1, <2>2, <2>6, LivePassLasting
      <4> QED
        BY <2>1, <4>1, <4>2, PlainListedStays
    <3> QED
      BY <2>1, <2>2, <2>6, <3>1, <3>2, LiveRejectUnlisted
  <2> QED
    BY <2>3, <2>4, <2>5, <2>6 DEF VerdictsInv
<1> QED
  BY <1>1, <1>2, <1>3, PTL DEF QueriesSpec

-----------------------------------------------------------------------------
(* What the views say about a table: sums over the groups of its rows.     *)

(* Every nonempty set of numbers has a least element.                      *)
LEMMA LeastNumber ==
  ASSUME NEW T, T \subseteq Nat, T # {}
  PROVE  \E x \in T : \A y \in T : x <= y
<1>1. \E x \in T : \A y \in T : ~(<<y, x>> \in OpToRel(<, Nat))
  BY NatLessThanWellFounded, WFMin, Zenon
<1>2. PICK x \in T : \A y \in T : ~(<<y, x>> \in OpToRel(<, Nat))
  BY <1>1
<1>3. \A y \in T : ~(y < x)
  <2> TAKE y \in T
  <2>1. <<y, x>> \in Nat \X Nat /\ <<y, x>>[1] = y /\ <<y, x>>[2] = x
    BY <1>2
  <2>2. <<y, x>> \notin {ss \in Nat \X Nat : ss[1] < ss[2]}
    BY <1>2, Zenon DEF OpToRel
  <2> QED
    BY <2>1, <2>2
<1> QED
  BY <1>3

\* A sum is what adds up element by element.
LEMMA SumIs ==
  ASSUME NEW n, IsFiniteSet(DOMAIN n), NEW g \in [SUBSET DOMAIN n -> Nat],
         g[{}] = 0,
         \A s \in SUBSET DOMAIN n : \A k \in s : g[s] = n[k] + g[s \ {k}]
  PROVE  Total(n) = g[DOMAIN n]
<1> DEFINE D == DOMAIN n
           Body(h) == [s \in SUBSET D |->
                         IF s = {} THEN 0 ELSE n[CHOOSE x \in s : TRUE] + h[s \ {CHOOSE x \in s : TRUE}]]
           it == CHOOSE h : h = Body(h)
<1>1. Total(n) = it[D]
  BY DEF Total, MapThenSumSet, MapThenFoldSet
<1>2. g = Body(g)
  <2>1. \A s \in SUBSET D : s # {} => (CHOOSE x \in s : TRUE) \in s
    OBVIOUS
  <2>2. \A s \in SUBSET D : g[s] = Body(g)[s]
    BY <2>1
  <2> QED
    BY <2>2
<1>3. it = Body(it)
  <2> HIDE DEF Body
  <2>1. \E h : h = Body(h)
    BY <1>2
  <2> QED
    BY <2>1
<1>4. \A s \in SUBSET D : IsFiniteSet(s) /\ Cardinality(s) \in Nat
  BY FS_Subset, FS_CardinalityType
<1> DEFINE wrong == {Cardinality(s) : s \in {t \in SUBSET D : it[t] # g[t]}}
<1>5. wrong = {}
  <2> SUFFICES ASSUME wrong # {} PROVE FALSE
    OBVIOUS
  <2>1. wrong \subseteq Nat
    BY <1>4
  <2>2. PICK m \in wrong : \A j \in wrong : m <= j
    BY <2>1, LeastNumber
  <2>3. PICK s \in SUBSET D : it[s] # g[s] /\ Cardinality(s) = m
    BY <2>2
  <2>4. CASE s = {}
    BY <1>3, <2>3, <2>4
  <2>5. CASE s # {}
    <3> DEFINE x == CHOOSE x \in s : TRUE
               rest == s \ {x}
    <3>1. x \in s
      BY <2>5
    <3> HIDE DEF x
    <3>2. rest \in SUBSET D /\ Cardinality(rest) = m - 1 /\ m \in Nat
      <4>1. IsFiniteSet(s) /\ m \in Nat
        BY <1>4, <2>3
      <4>2. Cardinality(rest) = Cardinality(s) - 1
        BY <3>1, <4>1, FS_RemoveElement
      <4> QED
        BY <2>3, <4>1, <4>2
    <3>3. it[rest] = g[rest]
      <4> SUFFICES ASSUME it[rest] # g[rest] PROVE FALSE
        OBVIOUS
      <4>1. Cardinality(rest) \in wrong
        BY <3>2
      <4> HIDE DEF wrong
      <4> QED
        BY <2>2, <3>2, <4>1
    <3>4. it[s] = n[x] + it[rest]
      <4>1. it[s] = Body(it)[s]
        BY <1>3
      <4>2. Body(it)[s] = n[CHOOSE y \in s : TRUE] + it[s \ {CHOOSE y \in s : TRUE}]
        BY <2>5
      <4> QED
        BY <4>1, <4>2 DEF x
    <3>5. g[s] = n[x] + g[rest]
      BY <3>1
    <3> QED
      BY <2>3, <3>3, <3>4, <3>5
  <2> QED
    BY <2>4, <2>5
<1>6. it[D] = g[D]
  <2> HIDE DEF it
  <2>1. D \in SUBSET D
    OBVIOUS
  <2> SUFFICES ASSUME it[D] # g[D] PROVE FALSE
    OBVIOUS
  <2>2. Cardinality(D) \in wrong
    BY <2>1
  <2> QED
    BY <1>5, <2>2
<1> QED
  BY <1>1, <1>6

\* The sizes of sets that do not meet add up to the size of their union.
LEMMA SumOfGroups ==
  ASSUME NEW n, IsFiniteSet(DOMAIN n), NEW S, IsFiniteSet(S), NEW R,
         \A k \in DOMAIN n : R[k] \subseteq S /\ n[k] = Cardinality(R[k]),
         \A k, j \in DOMAIN n : k # j => R[k] \cap R[j] = {}
  PROVE  /\ Total(n) = Cardinality(UNION {R[k] : k \in DOMAIN n})
         /\ Total(n) <= Cardinality(S) /\ Total(n) \in Nat
<1> DEFINE D == DOMAIN n
           U(s) == UNION {R[k] : k \in s}
           g == [s \in SUBSET D |-> Cardinality(U(s))]
<1>1. \A s \in SUBSET D : U(s) \subseteq S
  OBVIOUS
<1>2. \A s \in SUBSET D : IsFiniteSet(U(s)) /\ Cardinality(U(s)) \in Nat /\ Cardinality(U(s)) <= Cardinality(S)
  BY <1>1, FS_Subset, FS_CardinalityType
<1>3. g \in [SUBSET D -> Nat]
  BY <1>2
<1>4. g[{}] = 0
  <2>1. U({}) = {}
    OBVIOUS
  <2> QED
    BY <2>1, FS_EmptySet
<1>5. ASSUME NEW s \in SUBSET D, NEW k \in s
      PROVE  g[s] = n[k] + g[s \ {k}]
  <2>1. U(s) = R[k] \cup U(s \ {k})
    OBVIOUS
  <2>2. R[k] \cap U(s \ {k}) = {}
    OBVIOUS
  <2>3. IsFiniteSet(R[k]) /\ n[k] = Cardinality(R[k]) /\ Cardinality(R[k]) \in Nat
    BY FS_Subset, FS_CardinalityType
  <2>4. s \ {k} \in SUBSET D
    OBVIOUS
  <2> HIDE DEF U
  <2>5. Cardinality(U(s)) = Cardinality(R[k]) + Cardinality(U(s \ {k})) - Cardinality(R[k] \cap U(s \ {k}))
    BY <1>2, <2>1, <2>3, <2>4, FS_Union
  <2>6. Cardinality(U(s)) = n[k] + Cardinality(U(s \ {k}))
    <3>1. Cardinality(R[k] \cap U(s \ {k})) = 0
      BY <2>2, FS_EmptySet
    <3>2. Cardinality(U(s \ {k})) \in Nat
      BY <1>2, <2>4
    <3> QED
      BY <2>3, <2>5, <3>1, <3>2
  <2> QED
    BY <2>4, <2>6
<1>6. Total(n) = g[D]
  <2> HIDE DEF g
  <2> QED
    BY <1>3, <1>4, <1>5, SumIs
<1>7. D \in SUBSET D
  OBVIOUS
<1> QED
  BY <1>2, <1>6, <1>7

\* ORDER BY n DESC LIMIT: the largest groups exist.
LEMMA LargestIs ==
  ASSUME NEW n, IsFiniteSet(DOMAIN n), \A k \in DOMAIN n : n[k] \in Nat, NEW limit \in Nat
  PROVE  /\ Largest(n, limit) \subseteq DOMAIN n
         /\ Cardinality(Largest(n, limit)) = IF Cardinality(DOMAIN n) < limit THEN Cardinality(DOMAIN n) ELSE limit
         /\ IsFiniteSet(Largest(n, limit))
<1> DEFINE D == DOMAIN n
           c == Cardinality(D)
           Leading(T) == \A k \in T, j \in D \ T : n[k] >= n[j]
           missing == {m \in 0..c : ~\E T \in SUBSET D : Cardinality(T) = m /\ Leading(T)}
<1>1. c \in Nat /\ \A T \in SUBSET D : IsFiniteSet(T) /\ Cardinality(T) \in Nat
  BY FS_Subset, FS_CardinalityType
<1>2. missing = {}
  <2> SUFFICES ASSUME missing # {} PROVE FALSE
    OBVIOUS
  <2>1. PICK m \in missing : \A j \in missing : m <= j
    <3>1. missing \subseteq Nat
      BY <1>1
    <3> HIDE DEF missing
    <3> QED
      BY <3>1, LeastNumber
  <2>2. m \in 0..c /\ m \in Nat /\ ~\E T \in SUBSET D : Cardinality(T) = m /\ Leading(T)
    BY <1>1
  <2>3. m # 0
    <3>1. {} \in SUBSET D /\ Cardinality({}) = 0 /\ Leading({})
      BY FS_EmptySet
    <3> QED
      BY <2>2, <3>1
  <2>4. PICK T \in SUBSET D : Cardinality(T) = m - 1 /\ Leading(T)
    <3>1. m - 1 \in 0..c /\ m - 1 < m
      BY <1>1, <2>2, <2>3
    <3>2. m - 1 \notin missing
      BY <2>1, <2>2, <3>1
    <3> QED
      BY <3>1, <3>2
  <2> DEFINE left == D \ T
             above(k) == {j \in left : n[j] > n[k]}
             counts == {Cardinality(above(k)) : k \in left}
  <2>5. left # {}
    BY <1>1, <2>2, <2>4
  <2>6. PICK x \in left : \A j \in left : n[x] >= n[j]
    <3>1. \A k \in left : IsFiniteSet(above(k)) /\ Cardinality(above(k)) \in Nat
      <4>1. \A k \in left : above(k) \in SUBSET D
        OBVIOUS
      <4> HIDE DEF above
      <4> QED
        BY <1>1, <4>1
    <3>2. PICK x \in left : \A k \in left : Cardinality(above(x)) <= Cardinality(above(k))
      <4> HIDE DEF above, left
      <4>1. counts \subseteq Nat /\ counts # {}
        BY <2>5, <3>1
      <4>2. PICK i \in counts : \A j \in counts : i <= j
        <5> HIDE DEF counts
        <5> QED
          BY <4>1, LeastNumber
      <4> QED
        BY <4>2
    <3>3. ASSUME NEW j \in left, n[j] > n[x] PROVE FALSE
      <4>1. above(j) \subseteq above(x) \ {j} /\ j \in above(x)
        <5>1. \A k \in left : n[k] \in Nat
          OBVIOUS
        <5> HIDE DEF left
        <5> QED
          BY <3>2, <3>3, <5>1
      <4> HIDE DEF above, left
      <4>2. IsFiniteSet(above(x) \ {j}) /\ Cardinality(above(x) \ {j}) = Cardinality(above(x)) - 1
        BY <3>1, <3>2, <4>1, FS_RemoveElement
      <4>3. Cardinality(above(j)) <= Cardinality(above(x)) - 1
        BY <4>1, <4>2, FS_Subset
      <4> QED
        BY <3>1, <3>2, <3>3, <4>3
    <3> QED
      BY <3>2, <3>3
  <2>7. Leading(T \cup {x})
    BY <2>4, <2>6
  <2>8. Cardinality(T \cup {x}) = m
    BY <1>1, <2>2, <2>4, <2>6, FS_AddElement
  <2> QED
    BY <2>2, <2>4, <2>6, <2>7, <2>8
<1> DEFINE m == IF c < limit THEN c ELSE limit
<1>3. \E T \in SUBSET D : Cardinality(T) = m /\ Leading(T)
  <2>1. m \in 0..c
    BY <1>1
  <2> HIDE DEF m
  <2> QED
    BY <1>2, <2>1
<1>4. Largest(n, limit) \in SUBSET D /\ Cardinality(Largest(n, limit)) = m /\ Leading(Largest(n, limit))
  BY <1>3 DEF Largest
<1> QED
  BY <1>1, <1>4

\* The rows with a key, and those with one of several.
Keyed(S, key, k)   == {i \in S : key[i] = k}
KeyedIn(S, key, K) == {i \in S : key[i] \in K}
KeysOf(S, key)     == {key[i] : i \in S}
WithKey(S, key)    == {i \in S : key[i] # None}

LEMMA KeysFinite ==
  ASSUME NEW S, IsFiniteSet(S), NEW key
  PROVE  /\ \A k : IsFiniteSet(Keyed(S, key, k)) /\ Cardinality(Keyed(S, key, k)) \in Nat
         /\ \A K : IsFiniteSet(KeyedIn(S, key, K)) /\ Cardinality(KeyedIn(S, key, K)) \in Nat
         /\ IsFiniteSet(WithKey(S, key)) /\ Cardinality(WithKey(S, key)) \in Nat
         /\ IsFiniteSet(KeysOf(S, key))
<1>1. \A T : T \subseteq S => IsFiniteSet(T) /\ Cardinality(T) \in Nat
  BY FS_Subset, FS_CardinalityType
<1>2. /\ \A k : Keyed(S, key, k) \subseteq S
      /\ \A K : KeyedIn(S, key, K) \subseteq S
      /\ WithKey(S, key) \subseteq S
  BY DEF Keyed, KeyedIn, WithKey
<1>3. IsFiniteSet(KeysOf(S, key))
  <2> DEFINE h == [i \in S |-> key[i]]
             T == KeysOf(S, key)
  <2>1. h \in Surjection(S, T)
    BY DEF Surjection, KeysOf
  <2> QED
    BY <2>1, FS_Surjection
<1> QED
  BY <1>1, <1>2, <1>3

\* Rows counted by a key add up to the rows whose key is counted.
LEMMA SumByKey ==
  ASSUME NEW n, IsFiniteSet(DOMAIN n), NEW W, IsFiniteSet(W), NEW key,
         \A k \in DOMAIN n : n[k] = Cardinality(Keyed(W, key, k))
  PROVE  /\ Total(n) = Cardinality(KeyedIn(W, key, DOMAIN n))
         /\ Total(n) <= Cardinality(W) /\ Total(n) \in Nat
<1> DEFINE R == [k \in DOMAIN n |-> Keyed(W, key, k)]
<1>1. \A k \in DOMAIN n : R[k] \subseteq W /\ n[k] = Cardinality(R[k])
  BY DEF Keyed
<1>2. \A k, j \in DOMAIN n : k # j => R[k] \cap R[j] = {}
  BY DEF Keyed
<1>3. UNION {R[k] : k \in DOMAIN n} = KeyedIn(W, key, DOMAIN n)
  BY DEF Keyed, KeyedIn
<1> HIDE DEF R
<1>4. /\ Total(n) = Cardinality(UNION {R[k] : k \in DOMAIN n})
      /\ Total(n) <= Cardinality(W) /\ Total(n) \in Nat
  BY <1>1, <1>2, SumOfGroups
<1> QED
  BY <1>3, <1>4

LEMMA PartByKey ==
  ASSUME NEW links, IsFiniteSet(DOMAIN links), NEW field, NEW W, IsFiniteSet(W), NEW key,
         \A k \in DOMAIN links : links[k][field] = Cardinality(Keyed(W, key, k))
  PROVE  /\ Part(links, field) = Cardinality(KeyedIn(W, key, DOMAIN links))
         /\ Part(links, field) <= Cardinality(W) /\ Part(links, field) \in Nat
<1> DEFINE n == [k \in DOMAIN links |-> links[k][field]]
<1>1. IsFiniteSet(DOMAIN n) /\ DOMAIN n = DOMAIN links
  OBVIOUS
<1>2. \A k \in DOMAIN n : n[k] = Cardinality(Keyed(W, key, k))
  OBVIOUS
<1>3. Part(links, field) = Total(n)
  BY DEF Part
<1> HIDE DEF n
<1>4. /\ Total(n) = Cardinality(KeyedIn(W, key, DOMAIN n))
      /\ Total(n) <= Cardinality(W) /\ Total(n) \in Nat
  BY <1>1, <1>2, SumByKey
<1> QED
  BY <1>1, <1>3, <1>4

\* GROUP BY has a group for each key, and the groups are finitely many.
LEMMA Grouped ==
  ASSUME NEW S, IsFiniteSet(S), NEW key, NEW groups, groups = GroupBy(S, key)
  PROVE  /\ DOMAIN groups = KeysOf(S, key) \ {None} /\ IsFiniteSet(DOMAIN groups)
         /\ \A k \in DOMAIN groups : groups[k] = Keyed(S, key, k)
         /\ KeyedIn(S, key, DOMAIN groups) = WithKey(S, key)
<1>1. DOMAIN groups = KeysOf(S, key) \ {None}
  BY DEF GroupBy, KeysOf
<1>2. IsFiniteSet(DOMAIN groups)
  BY <1>1, KeysFinite, FS_Subset
<1>3. \A k \in DOMAIN groups : groups[k] = Keyed(S, key, k)
  BY DEF GroupBy, Keyed
<1>4. KeyedIn(S, key, DOMAIN groups) = WithKey(S, key)
  BY <1>1 DEF KeyedIn, WithKey, KeysOf
<1> QED
  BY <1>1, <1>2, <1>3, <1>4

LEMMA GroupsAdd ==
  ASSUME NEW S, IsFiniteSet(S), NEW key, NEW n, n = Sizes(GroupBy(S, key))
  PROVE  /\ DOMAIN n = KeysOf(S, key) \ {None} /\ IsFiniteSet(DOMAIN n)
         /\ \A k \in DOMAIN n : n[k] = Cardinality(Keyed(S, key, k)) /\ n[k] \in Nat
         /\ Total(n) = Cardinality(WithKey(S, key))
<1> DEFINE groups == GroupBy(S, key)
<1>1. DOMAIN n = DOMAIN groups /\ \A k \in DOMAIN groups : n[k] = Cardinality(groups[k])
  BY DEF Sizes
<1> HIDE DEF groups
<1>2. /\ DOMAIN groups = KeysOf(S, key) \ {None} /\ IsFiniteSet(DOMAIN groups)
      /\ \A k \in DOMAIN groups : groups[k] = Keyed(S, key, k)
      /\ KeyedIn(S, key, DOMAIN groups) = WithKey(S, key)
  BY Grouped DEF groups
<1>3. IsFiniteSet(DOMAIN n) /\ \A k \in DOMAIN n : n[k] = Cardinality(Keyed(S, key, k))
  BY <1>1, <1>2
<1>4. Total(n) = Cardinality(KeyedIn(S, key, DOMAIN n))
  BY <1>3, SumByKey
<1>5. \A k \in DOMAIN n : n[k] \in Nat
  BY <1>3, KeysFinite
<1> QED
  BY <1>1, <1>2, <1>3, <1>4, <1>5

\* A list with a limit: as long as it may be, and part of the whole.
LEMMA TopAdds ==
  ASSUME NEW S, IsFiniteSet(S), NEW key, NEW limit \in Nat, NEW n, n = Sizes(GroupBy(S, key)),
         NEW t, t = Top(n, limit)
  PROVE  /\ DOMAIN t \subseteq KeysOf(S, key) \ {None} /\ IsFiniteSet(DOMAIN t)
         /\ Cardinality(DOMAIN t) = IF Cardinality(DOMAIN n) < limit THEN Cardinality(DOMAIN n) ELSE limit
         /\ Total(t) <= Cardinality(WithKey(S, key)) /\ Total(t) \in Nat
<1>1. /\ DOMAIN n = KeysOf(S, key) \ {None} /\ IsFiniteSet(DOMAIN n)
      /\ \A k \in DOMAIN n : n[k] = Cardinality(Keyed(S, key, k)) /\ n[k] \in Nat
  BY GroupsAdd
<1>2. /\ Largest(n, limit) \subseteq DOMAIN n /\ IsFiniteSet(Largest(n, limit))
      /\ Cardinality(Largest(n, limit)) = IF Cardinality(DOMAIN n) < limit THEN Cardinality(DOMAIN n) ELSE limit
  BY <1>1, LargestIs
<1>3. DOMAIN t = Largest(n, limit) /\ \A k \in DOMAIN t : t[k] = n[k]
  BY DEF Top
<1> DEFINE W == WithKey(S, key)
<1>4. \A k \in DOMAIN n : Keyed(S, key, k) = Keyed(W, key, k)
  BY <1>1 DEF Keyed, WithKey, KeysOf
<1>5. IsFiniteSet(W)
  BY KeysFinite
<1> HIDE DEF W
<1>6. IsFiniteSet(DOMAIN t) /\ \A k \in DOMAIN t : t[k] = Cardinality(Keyed(W, key, k))
  BY <1>1, <1>2, <1>3, <1>4
<1>7. Total(t) <= Cardinality(W) /\ Total(t) \in Nat
  BY <1>5, <1>6, SumByKey
<1> QED
  BY <1>1, <1>2, <1>3, <1>7 DEF W

\* A table the queries may read.
IsTable(data) ==
  /\ IsFiniteSet(DOMAIN data) /\ DOMAIN data \subseteq Rows
  /\ \A i \in DOMAIN data : IsRow(data[i]) /\ data[i] \in {Pool[i], Plain(Pool[i])}

LEMMA ListedFinite ==
  ASSUME NEW data, IsTable(data), NEW f
  PROVE  /\ IsFiniteSet(Listed(data, f)) /\ Cardinality(Listed(data, f)) \in Nat
         /\ Listed(data, f) \subseteq DOMAIN data
         /\ \A T : T \subseteq Listed(data, f) =>
              /\ IsFiniteSet(T) /\ Cardinality(T) \in Nat
              /\ Cardinality(T) <= Cardinality(Listed(data, f))
<1>1. Listed(data, f) \subseteq DOMAIN data
  BY DEF Listed
<1>2. IsFiniteSet(Listed(data, f)) /\ Cardinality(Listed(data, f)) \in Nat
  BY <1>1, FS_Subset, FS_CardinalityType DEF IsTable
<1> QED
  BY <1>1, <1>2, FS_Subset, FS_CardinalityType

\* The rows of a group with an action are those with the action and the key.
Acting(data, S, action) == {i \in S : data[i].action = action}

LEMMA CountInGroup ==
  ASSUME NEW data, NEW S, NEW key, NEW k, NEW action
  PROVE  CountOf(data, Keyed(S, key, k), action) = Cardinality(Keyed(Acting(data, S, action), key, k))
<1>1. {i \in Keyed(S, key, k) : data[i].action = action} = Keyed(Acting(data, S, action), key, k)
  BY DEF Keyed, Acting
<1> QED
  BY <1>1 DEF CountOf

LEMMA TotalsDo ==
  ASSUME NEW data, IsTable(data), NEW f
  PROVE  TotalsAgree(data, f)
<1> DEFINE S == Listed(data, f)
           stats == get_stats(data, f)
           series == get_series(data, f, DAY)
           zones == get_zones(data, f)
<1>1. /\ IsFiniteSet(S) /\ Cardinality(S) \in Nat
      /\ \A T : T \subseteq S => IsFiniteSet(T) /\ Cardinality(T) \in Nat /\ Cardinality(T) <= Cardinality(S)
  BY ListedFinite
<1>2. stats.total = Total(stats.by_type)
  <2> DEFINE key == [i \in S |-> data[i].type]
  <2>1. stats.total = Cardinality(S) /\ stats.by_type = Sizes(GroupBy(S, key))
    BY DEF get_stats
  <2>2. WithKey(S, key) = S
    <3>1. \A i \in S : data[i].type \in log_type_id
      BY ListedFinite DEF IsTable, IsRow
    <3>2. \A i \in S : data[i].type # None
      BY <3>1, FilterAssumption
    <3> QED
      BY <3>2 DEF WithKey
  <2> HIDE DEF S, key, stats
  <2>3. Total(stats.by_type) = Cardinality(WithKey(S, key))
    BY <1>1, <2>1, GroupsAdd
  <2> QED
    BY <2>1, <2>2, <2>3
<1>3. stats.total = Total(stats.by_direction) + Cardinality({i \in S : data[i].direction = None})
  <2> DEFINE key == [i \in S |-> data[i].direction]
             without == {i \in S : data[i].direction = None}
  <2>1. stats.total = Cardinality(S) /\ stats.by_direction = Sizes(GroupBy(S, key))
    BY DEF get_stats
  <2>2. WithKey(S, key) = S \ without /\ without \subseteq S
    BY DEF WithKey
  <2> HIDE DEF S, key, without
  <2>3. Total(stats.by_direction) = Cardinality(S \ without)
    BY <1>1, <2>1, <2>2, GroupsAdd
  <2>4. Cardinality(S \ without) = Cardinality(S) - Cardinality(without)
    <3>1. S \cap without = without
      BY <2>2
    <3> QED
      BY <1>1, <3>1, FS_Difference
  <2>5. Cardinality(without) \in Nat
    BY <1>1, <2>2
  <2> QED
    BY <1>1, <2>1, <2>3, <2>4, <2>5 DEF without
<1>4. ASSUME NEW action \in {"allow", "block"}
      PROVE  Part(series, action) = CountOf(data, S, action)
  <2> DEFINE width == bucket_width(window_duration(f, DAY))
             key == [i \in S |-> data[i].ts \div width]
             W == Acting(data, S, action)
  <2>1. DOMAIN series = KeysOf(S, key)
    BY DEF get_series, KeysOf
  <2>2. \A b \in DOMAIN series : series[b][action] = CountOf(data, Keyed(S, key, b), action)
    <3>1. action \in action_id
      BY DEF action_id
    <3>2. \A b : Keyed(S, key, b) = {i \in Listed(data, f) : data[i].ts \div width = b}
      BY DEF Keyed
    <3> QED
      BY <3>1, <3>2 DEF get_series
  <2>3. W \subseteq S
    BY DEF Acting
  <2>4. KeyedIn(W, key, KeysOf(S, key)) = W
    BY <2>3 DEF KeyedIn, KeysOf
  <2> HIDE DEF S, key, series
  <2>5. IsFiniteSet(DOMAIN series)
    BY <1>1, <2>1, KeysFinite
  <2>6. \A b \in DOMAIN series : series[b][action] = Cardinality(Keyed(W, key, b))
    BY <2>2, CountInGroup
  <2>7. IsFiniteSet(W)
    BY <1>1, <2>3
  <2> HIDE DEF W
  <2>8. Part(series, action) = Cardinality(KeyedIn(W, key, DOMAIN series))
    BY <2>5, <2>6, <2>7, PartByKey
  <2> QED
    BY <2>1, <2>4, <2>8 DEF W, Acting, CountOf
<1>5. stats.allowed = CountOf(data, S, "allow") /\ stats.blocked = CountOf(data, S, "block")
  BY DEF get_stats
<1>6. Cardinality(DOMAIN get_top(data, f, "sources", 100))
        = IF stats.unique_sources < 100 THEN stats.unique_sources ELSE 100
  <2> DEFINE key == [i \in S |-> TopKey(data[i], "sources")]
             n == Sizes(GroupBy(S, key))
  <2>1. get_top(data, f, "sources", 100) = Top(n, 100)
    BY DEF get_top
  <2>2. stats.unique_sources = Cardinality(KeysOf(S, key) \ {None})
    BY DEF get_stats, KeysOf, TopKey
  <2> HIDE DEF S, key
  <2>3. DOMAIN n = KeysOf(S, key) \ {None}
    BY <1>1, GroupsAdd
  <2>4. Cardinality(DOMAIN Top(n, 100)) = IF Cardinality(DOMAIN n) < 100 THEN Cardinality(DOMAIN n) ELSE 100
    BY <1>1, TopAdds
  <2> QED
    BY <2>1, <2>2, <2>3, <2>4
<1>7. Total(get_top(data, f, "threats", 100)) <= stats.threats
  <2> DEFINE key == [i \in S |-> TopKey(data[i], "threats")]
             high == {i \in S : data[i].threat # None /\ data[i].threat >= 50}
             t == get_top(data, f, "threats", 100)
  <2>1. t = Top(Sizes(GroupBy(S, key)), 100)
    BY DEF get_top
  <2>2. stats.threats = Cardinality(high)
    BY DEF get_stats
  <2>3. WithKey(S, key) \subseteq high /\ high \subseteq S
    BY DEF WithKey, TopKey
  <2> HIDE DEF S, key, high, t
  <2>4. IsFiniteSet(high) /\ Cardinality(high) \in Nat
    BY <1>1, <2>3
  <2>5. Cardinality(WithKey(S, key)) <= Cardinality(high) /\ Cardinality(WithKey(S, key)) \in Nat
    BY <1>1, <2>3, <2>4, FS_Subset, KeysFinite
  <2>6. Total(t) <= Cardinality(WithKey(S, key)) /\ Total(t) \in Nat
    BY <1>1, <2>1, TopAdds
  <2> QED
    BY <2>2, <2>4, <2>5, <2>6 DEF t
<1>8. Total(get_top(data, f, "ports", 1)) <= stats.total
  <2> DEFINE key == [i \in S |-> TopKey(data[i], "ports")]
             t == get_top(data, f, "ports", 1)
  <2>1. t = Top(Sizes(GroupBy(S, key)), 1)
    BY DEF get_top
  <2>2. stats.total = Cardinality(S)
    BY DEF get_stats
  <2>3. WithKey(S, key) \subseteq S
    BY DEF WithKey
  <2> HIDE DEF S, key, t
  <2>4. Cardinality(WithKey(S, key)) <= Cardinality(S) /\ Cardinality(WithKey(S, key)) \in Nat
    BY <1>1, <2>3
  <2>5. Total(t) <= Cardinality(WithKey(S, key)) /\ Total(t) \in Nat
    BY <1>1, <2>1, TopAdds
  <2> QED
    BY <1>1, <2>2, <2>4, <2>5 DEF t
<1>9. Part(zones, "blocked") <= stats.blocked
  <2> DEFINE key == [i \in S |-> Both(Named(data[i].text["ii.name"]), Named(data[i].text["io.name"]))]
             cells == GroupBy(S, key)
             W == Acting(data, S, "block")
  <2>1. DOMAIN zones = DOMAIN cells /\ \A k \in DOMAIN cells : zones[k]["blocked"] = CountOf(data, cells[k], "block")
    BY DEF get_zones
  <2>2. W \subseteq S
    BY DEF Acting
  <2> HIDE DEF S, key, cells, zones
  <2>3. IsFiniteSet(DOMAIN cells) /\ \A k \in DOMAIN cells : cells[k] = Keyed(S, key, k)
    BY <1>1, Grouped DEF cells
  <2>4. \A k \in DOMAIN zones : zones[k]["blocked"] = Cardinality(Keyed(W, key, k))
    BY <2>1, <2>3, CountInGroup
  <2>5. IsFiniteSet(W)
    BY <1>1, <2>2
  <2> HIDE DEF W
  <2>6. Part(zones, "blocked") <= Cardinality(W)
    BY <2>1, <2>3, <2>4, <2>5, PartByKey
  <2> QED
    BY <1>5, <2>6 DEF W, Acting, CountOf
<1> HIDE DEF S, stats, series, zones
<1>10. Part(series, "allow") = stats.allowed /\ Part(series, "block") = stats.blocked
  BY <1>4, <1>5
<1> QED
  BY <1>2, <1>3, <1>6, <1>7, <1>8, <1>9, <1>10 DEF TotalsAgree, S, stats, series, zones

LEMMA CountsDo ==
  ASSUME NEW data, IsTable(data), NEW f
  PROVE  CountsAgree(data, f)
<1> DEFINE S == Listed(data, f)
           map == get_points(data, f)
           count == get_count(data, f, Cap + 1, Cap)
           unknown == {i \in S : /\ data[i].type = "firewall" /\ data[i].action = "block"
                                 /\ data[i].place = None}
<1>1. /\ IsFiniteSet(S) /\ Cardinality(S) \in Nat
      /\ \A T : T \subseteq S => IsFiniteSet(T) /\ Cardinality(T) \in Nat /\ Cardinality(T) <= Cardinality(S)
  BY ListedFinite
<1>2. Total(map.points) + Cardinality(unknown) = map.blocked_total
  <2> DEFINE B == {i \in S : data[i].type = "firewall" /\ data[i].action = "block"}
             key == [i \in B |-> data[i].place]
  <2>1. map.points = Sizes(GroupBy(B, key)) /\ map.blocked_total = Cardinality(B)
    BY DEF get_points
  <2>2. B \subseteq S /\ unknown \subseteq B /\ WithKey(B, key) = B \ unknown
    BY DEF WithKey
  <2> HIDE DEF S, B, key, map, unknown
  <2>3. IsFiniteSet(B) /\ Cardinality(B) \in Nat
    BY <1>1, <2>2
  <2>4. IsFiniteSet(unknown) /\ Cardinality(unknown) \in Nat /\ B \cap unknown = unknown
    BY <2>2, <2>3, FS_Subset, FS_CardinalityType
  <2>5. Total(map.points) = Cardinality(B \ unknown)
    BY <2>1, <2>2, <2>3, GroupsAdd
  <2>6. Cardinality(B \ unknown) = Cardinality(B) - Cardinality(unknown)
    BY <2>3, <2>4, FS_Difference
  <2> QED
    BY <2>1, <2>3, <2>4, <2>5, <2>6
<1>3. /\ count.exact => count.total = Cardinality(S)
      /\ ~count.exact /\ ~is_unfiltered(f) => count.total <= Cardinality(S)
  <2>1. Cap \in Nat
    BY QueriesAssumption
  <2>2. is_unfiltered(f) => ~count.exact
    BY DEF get_count
  <2>3. ~is_unfiltered(f) =>
          /\ count.total = IF Cardinality(S) < Cap THEN Cardinality(S) ELSE Cap
          /\ count.exact <=> count.total < Cap
    BY DEF get_count
  <2> HIDE DEF S, count
  <2> QED
    BY <1>1, <2>1, <2>2, <2>3
<1> HIDE DEF S, map, count
<1> QED
  BY <1>2, <1>3 DEF CountsAgree, S, map, count

\* The rows of a host.
LEMMA HostsDo ==
  ASSUME NEW data, IsTable(data), NEW f
  PROVE  HostsAgree(data, f)
<1> SUFFICES ASSUME NEW ip \in {data[i].src : i \in DOMAIN data} \ {None}
             PROVE  LET S == Listed(data, f)
                        host == get_host_detail(data, f, ip)
                    IN /\ host.allowed + host.blocked <= host.total /\ host.total <= Cardinality(S)
                       /\ DOMAIN host.partners \subseteq {data[i].src : i \in S} \cup {data[i].dst : i \in S}
                       /\ Total(host.partners) <= host.total /\ Cardinality(DOMAIN host.partners) <= host.peers
  BY DEF HostsAgree
<1> DEFINE S == Listed(data, f)
           host == get_host_detail(data, f, ip)
           H == {i \in S : ip \in {data[i].src, data[i].dst}}
           linked == {i \in H : data[i].src # None /\ data[i].dst # None}
           key == [i \in linked |-> Peer(data[i], ip)]
           peers == [i \in H |-> Peer(data[i], ip)]
           allowed == Acting(data, H, "allow")
           blocked == Acting(data, H, "block")
<1>1. /\ IsFiniteSet(S) /\ Cardinality(S) \in Nat
      /\ \A T : T \subseteq S => IsFiniteSet(T) /\ Cardinality(T) \in Nat /\ Cardinality(T) <= Cardinality(S)
  BY ListedFinite
<1>2. /\ host.total = Cardinality(H) /\ host.allowed = Cardinality(allowed)
      /\ host.blocked = Cardinality(blocked) /\ host.peers = Cardinality(KeysOf(H, peers) \ {None})
      /\ host.partners = Top(Sizes(GroupBy(linked, key)), 10)
  <2>1. KeysOf(H, peers) = {Peer(data[i], ip) : i \in H}
    BY DEF KeysOf
  <2> QED
    BY <2>1 DEF get_host_detail, CountOf, Acting
<1>3. /\ H \subseteq S /\ linked \subseteq H
      /\ allowed \subseteq H /\ blocked \subseteq H /\ allowed \cap blocked = {}
  BY DEF Acting
<1>4. /\ KeysOf(linked, key) \subseteq {data[i].src : i \in S} \cup {data[i].dst : i \in S}
      /\ KeysOf(linked, key) \subseteq KeysOf(H, peers)
      /\ WithKey(linked, key) \subseteq H
  BY DEF KeysOf, Peer, WithKey
<1> HIDE DEF H, linked, key, peers, allowed, blocked, host
<1>5. /\ IsFiniteSet(H) /\ Cardinality(H) \in Nat /\ Cardinality(H) <= Cardinality(S)
      /\ IsFiniteSet(linked)
      /\ IsFiniteSet(allowed) /\ Cardinality(allowed) \in Nat
      /\ IsFiniteSet(blocked) /\ Cardinality(blocked) \in Nat
  <2>1. linked \subseteq S /\ allowed \subseteq S /\ blocked \subseteq S
    BY <1>3
  <2> HIDE DEF S
  <2> QED
    BY <1>1, <1>3, <2>1
<1>6. host.allowed + host.blocked <= host.total
  <2>1. Cardinality(allowed \cup blocked) = Cardinality(allowed) + Cardinality(blocked)
    <3>1. Cardinality(allowed \cup blocked)
            = Cardinality(allowed) + Cardinality(blocked) - Cardinality(allowed \cap blocked)
      BY <1>5, FS_Union
    <3>2. Cardinality(allowed \cap blocked) = 0
      BY <1>3, FS_EmptySet
    <3> QED
      BY <1>5, <3>1, <3>2
  <2>2. Cardinality(allowed \cup blocked) <= Cardinality(H)
    <3>1. allowed \cup blocked \in SUBSET H
      BY <1>3
    <3> QED
      BY <1>5, <3>1, FS_Subset
  <2> QED
    BY <1>2, <2>1, <2>2
<1>7. /\ DOMAIN host.partners \subseteq KeysOf(linked, key) \ {None}
      /\ Total(host.partners) <= Cardinality(WithKey(linked, key)) /\ Total(host.partners) \in Nat
  BY <1>2, <1>5, TopAdds
<1>8. Total(host.partners) <= host.total
  <2>1. Cardinality(WithKey(linked, key)) <= Cardinality(H) /\ Cardinality(WithKey(linked, key)) \in Nat
    BY <1>4, <1>5, FS_Subset, KeysFinite
  <2> QED
    BY <1>2, <1>5, <1>7, <2>1
<1>9. Cardinality(DOMAIN host.partners) <= host.peers
  <2>1. DOMAIN host.partners \in SUBSET (KeysOf(H, peers) \ {None})
    BY <1>4, <1>7
  <2>2. IsFiniteSet(KeysOf(H, peers) \ {None})
    BY <1>5, KeysFinite, FS_Subset
  <2> QED
    BY <1>2, <2>1, <2>2, FS_Subset
<1>10. DOMAIN host.partners \subseteq {data[i].src : i \in S} \cup {data[i].dst : i \in S}
  <2> DEFINE sides == {data[i].src : i \in S} \cup {data[i].dst : i \in S}
  <2>1. KeysOf(linked, key) \subseteq sides
    BY <1>4
  <2> HIDE DEF sides
  <2>2. DOMAIN host.partners \subseteq sides
    BY <1>7, <2>1
  <2> QED
    BY <2>2 DEF sides
<1> HIDE DEF S
<1> QED
  BY <1>2, <1>5, <1>6, <1>8, <1>9, <1>10 DEF host, S

\* The nodes of a column are what its keys resolve to, and one more than the
\* limit at most.
LEMMA ColumnIs ==
  ASSUME NEW S, IsFiniteSet(S), NEW key, \A i \in S : key[i] # None,
         NEW limit \in Nat, NEW volume, volume = Sizes(GroupBy(S, key)),
         NEW top, top = Largest(volume, limit)
  PROVE  /\ column_keys(volume, top) = {resolve(key[i], top) : i \in S}
         /\ Cardinality(column_keys(volume, top)) <= limit + 1
<1>1. /\ DOMAIN volume = KeysOf(S, key) \ {None} /\ IsFiniteSet(DOMAIN volume)
      /\ \A k \in DOMAIN volume : volume[k] \in Nat
  BY GroupsAdd
<1>2. /\ top \subseteq DOMAIN volume /\ IsFiniteSet(top)
      /\ Cardinality(top) = IF Cardinality(DOMAIN volume) < limit THEN Cardinality(DOMAIN volume) ELSE limit
  BY <1>1, LargestIs
<1>3. \A k : k \in DOMAIN volume <=> \E i \in S : key[i] = k
  BY <1>1 DEF KeysOf
<1>4. \A k : k \in column_keys(volume, top) <=> k \in top \/ (k = Other /\ \E j \in DOMAIN volume : j \notin top)
  BY <1>2 DEF column_keys
<1>5. column_keys(volume, top) = {resolve(key[i], top) : i \in S}
  <2>1. ASSUME NEW k \in column_keys(volume, top) PROVE \E i \in S : k = resolve(key[i], top)
    <3>1. CASE k \in top
      BY <1>2, <1>3, <3>1 DEF resolve
    <3>2. CASE k = Other /\ \E j \in DOMAIN volume : j \notin top
      BY <1>3, <3>2 DEF resolve
    <3> QED
      BY <1>4, <2>1, <3>1, <3>2
  <2>2. ASSUME NEW i \in S PROVE resolve(key[i], top) \in column_keys(volume, top)
    <3>1. key[i] \in DOMAIN volume
      BY <1>3
    <3>2. CASE key[i] \in top
      BY <1>4, <3>2 DEF resolve
    <3>3. CASE key[i] \notin top
      BY <1>4, <3>1, <3>3 DEF resolve
    <3> QED
      BY <3>2, <3>3
  <2> QED
    BY <2>1, <2>2
<1>6. Cardinality(column_keys(volume, top)) <= limit + 1
  <2>1. Cardinality(top) \in Nat /\ Cardinality(top) <= limit
    BY <1>1, <1>2, FS_CardinalityType
  <2>2. /\ IsFiniteSet(top \cup {Other}) /\ Cardinality(top \cup {Other}) \in Nat
        /\ Cardinality(top \cup {Other}) <= Cardinality(top) + 1
    <3>1. /\ IsFiniteSet(top \cup {Other})
          /\ Cardinality(top \cup {Other})
               = IF Other \in top THEN Cardinality(top) ELSE Cardinality(top) + 1
      BY <1>2, FS_AddElement
    <3> QED
      BY <2>1, <3>1
  <2>3. column_keys(volume, top) \in SUBSET (top \cup {Other})
    BY <1>4
  <2>4. /\ Cardinality(column_keys(volume, top)) <= Cardinality(top \cup {Other})
        /\ Cardinality(column_keys(volume, top)) \in Nat
    BY <2>2, <2>3, FS_Subset, FS_CardinalityType
  <2> QED
    BY <2>1, <2>2, <2>4
<1> QED
  BY <1>5, <1>6

\* The rows whose link begins or ends at a node.
Meeting(S, h, side, node) == {i \in S : h[i][side] = node}

Links(data, hop) ==
  [k \in DOMAIN hop |-> [value |-> Cardinality(hop[k]), blocked |-> CountOf(data, hop[k], "block")]]

\* A hop carries every row, each over one link.
LEMMA HopCarries ==
  ASSUME NEW data, NEW S, IsFiniteSet(S), NEW h, \A i \in S : h[i] # None,
         NEW hop, hop = GroupBy(S, h), NEW links, links = Links(data, hop)
  PROVE  /\ DOMAIN links = KeysOf(S, h)
         /\ Part(links, "value") = Cardinality(S)
         /\ \A side, node :
              /\ Part(At(links, side, node), "value") = Cardinality(Meeting(S, h, side, node))
              /\ Part(At(links, side, node), "blocked")
                   = Cardinality(Meeting(Acting(data, S, "block"), h, side, node))
<1>1. /\ DOMAIN hop = KeysOf(S, h) \ {None} /\ IsFiniteSet(DOMAIN hop)
      /\ \A k \in DOMAIN hop : hop[k] = Keyed(S, h, k)
      /\ KeyedIn(S, h, DOMAIN hop) = WithKey(S, h)
  BY Grouped
<1>2. None \notin KeysOf(S, h) /\ WithKey(S, h) = S
  BY DEF KeysOf, WithKey
<1>3. DOMAIN links = KeysOf(S, h) /\ IsFiniteSet(DOMAIN links)
  BY <1>1, <1>2 DEF Links
<1> DEFINE B == Acting(data, S, "block")
<1>4. \A k \in DOMAIN links : /\ links[k]["value"] = Cardinality(Keyed(S, h, k))
                              /\ links[k]["blocked"] = Cardinality(Keyed(B, h, k))
  BY <1>1, CountInGroup DEF Links
<1>5. B \subseteq S /\ IsFiniteSet(B)
  <2>1. B \subseteq S
    BY DEF Acting
  <2> QED
    BY <2>1, FS_Subset
<1>6. Part(links, "value") = Cardinality(S)
  BY <1>1, <1>2, <1>3, <1>4, PartByKey
<1> HIDE DEF B
<1>7. ASSUME NEW side, NEW node, NEW W, W \subseteq S, IsFiniteSet(W), NEW field,
             \A k \in DOMAIN links : links[k][field] = Cardinality(Keyed(W, h, k))
      PROVE  Part(At(links, side, node), field) = Cardinality(Meeting(W, h, side, node))
  <2> DEFINE some == At(links, side, node)
  <2>1. /\ DOMAIN some = {k \in DOMAIN links : k[side] = node}
        /\ \A k \in DOMAIN some : some[k] = links[k]
    BY DEF At
  <2>2. KeyedIn(W, h, DOMAIN some) = Meeting(W, h, side, node)
    BY <1>3, <1>7, <2>1 DEF KeyedIn, KeysOf, Meeting
  <2> HIDE DEF some
  <2>3. IsFiniteSet(DOMAIN some)
    BY <1>3, <2>1, FS_Subset
  <2>4. \A k \in DOMAIN some : some[k][field] = Cardinality(Keyed(W, h, k))
    BY <1>7, <2>1
  <2>5. Part(some, field) = Cardinality(KeyedIn(W, h, DOMAIN some))
    BY <1>7, <2>3, <2>4, PartByKey
  <2> QED
    BY <2>2, <2>5 DEF some
<1>8. \A side, node : Part(At(links, side, node), "value") = Cardinality(Meeting(S, h, side, node))
  BY <1>4, <1>7
<1>9. \A side, node : Part(At(links, side, node), "blocked") = Cardinality(Meeting(B, h, side, node))
  BY <1>4, <1>5, <1>7
<1> QED
  BY <1>3, <1>6, <1>8, <1>9 DEF B

\* No flow and no pair of its ends is taken for an absent key.
LEMMA FlowKeys ==
  ASSUME NEW data, IsTable(data), NEW i \in DOMAIN data
  PROVE  LET service == <<data[i].dport, data[i].text["pr.name"]>>
         IN /\ service # None
            /\ \A top1, top2 : /\ <<resolve(data[i].src, top1), resolve(service, top2)>> # None
                               /\ <<resolve(service, top2), resolve(data[i].dst, top1)>> # None
<1> DEFINE ends == {Pool[j].src : j \in DOMAIN Pool} \cup {Pool[j].dst : j \in DOMAIN Pool} \cup {Other}
           services == {<<Pool[j].dport, Pool[j].text["pr.name"]>> : j \in DOMAIN Pool} \cup {Other}
           service == <<data[i].dport, data[i].text["pr.name"]>>
<1>1. None \notin services /\ None \notin ends \X services /\ None \notin services \X ends
  BY QueriesAssumption
<1>2. i \in DOMAIN Pool /\ data[i] \in {Pool[i], Plain(Pool[i])}
  BY DEF IsTable, Rows
<1>3. /\ data[i].src = Pool[i].src /\ data[i].dst = Pool[i].dst /\ data[i].dport = Pool[i].dport
      /\ data[i].text["pr.name"] = Pool[i].text["pr.name"]
  <2>1. IsRow(Pool[i])
    BY <1>2, QueriesAssumption
  <2>2. Plain(Pool[i]).text["pr.name"] = Pool[i].text["pr.name"]
    BY <2>1, PlainRow DEF Columns, FactColumns
  <2> QED
    BY <1>2, <2>1, <2>2, PlainRow
<1>4. data[i].src \in ends /\ data[i].dst \in ends /\ service \in services /\ Other \in ends \cap services
  BY <1>2, <1>3
<1> HIDE DEF ends, services, service
<1>5. \A top : /\ resolve(data[i].src, top) \in ends /\ resolve(data[i].dst, top) \in ends
               /\ resolve(service, top) \in services
  BY <1>4 DEF resolve
<1>6. /\ service # None
      /\ \A top1, top2 : /\ <<resolve(data[i].src, top1), resolve(service, top2)>> # None
                         /\ <<resolve(service, top2), resolve(data[i].dst, top1)>> # None
  BY <1>1, <1>4, <1>5
<1> QED
  BY <1>6 DEF service

LEMMA PairsDo ==
  ASSUME NEW data, IsTable(data), NEW f
  PROVE  Part(get_ip_pairs(data, f, 25), "total") <= Cardinality(Flowing(data, Listed(data, f)))
<1> DEFINE S == Flowing(data, Listed(data, f))
           key == [i \in S |-> IF data[i].dport = None THEN None
                     ELSE <<data[i].src, data[i].dst, data[i].dport, data[i].text["pr.name"]>>]
           groups == GroupBy(S, key)
           top == Top(Sizes(groups), 25)
           pairs == get_ip_pairs(data, f, 25)
<1>1. IsFiniteSet(S)
  BY ListedFinite DEF Flowing
<1>2. DOMAIN pairs = DOMAIN top /\ \A k \in DOMAIN top : pairs[k]["total"] = Cardinality(groups[k])
  BY DEF get_ip_pairs
<1> HIDE DEF S, key, pairs
<1>3. /\ DOMAIN groups = KeysOf(S, key) \ {None}
      /\ \A k \in DOMAIN groups : groups[k] = Keyed(S, key, k)
  BY <1>1, Grouped
<1>4. DOMAIN top \subseteq KeysOf(S, key) \ {None} /\ IsFiniteSet(DOMAIN top)
  BY <1>1, TopAdds
<1> HIDE DEF groups, top
<1>5. IsFiniteSet(DOMAIN pairs) /\ \A k \in DOMAIN pairs : pairs[k]["total"] = Cardinality(Keyed(S, key, k))
  BY <1>2, <1>3, <1>4
<1>6. Part(pairs, "total") <= Cardinality(S)
  BY <1>1, <1>5, PartByKey
<1> QED
  BY <1>6 DEF pairs, S

LEMMA SankeyDo ==
  ASSUME NEW data, IsTable(data), NEW f, NEW limit \in Nat
  PROVE  LET sankey == get_sankey(data, f, limit)
         IN /\ Part(sankey.hop1, "value") = Cardinality(Flowing(data, Listed(data, f)))
            /\ \A node \in sankey.nodes.service, field \in {"value", "blocked"} :
                 Part(At(sankey.hop1, 2, node), field) = Part(At(sankey.hop2, 1, node), field)
            /\ \A kind \in DOMAIN sankey.nodes : Cardinality(sankey.nodes[kind]) <= limit + 1
            /\ {k[1] : k \in DOMAIN sankey.hop1} = sankey.nodes.source
            /\ {k[2] : k \in DOMAIN sankey.hop2} = sankey.nodes.destination
<1> DEFINE S == Flowing(data, Listed(data, f))
           sankey == get_sankey(data, f, limit)
           src == [i \in S |-> data[i].src]
           svc == [i \in S |-> <<data[i].dport, data[i].text["pr.name"]>>]
           dst == [i \in S |-> data[i].dst]
           vsrc == Sizes(GroupBy(S, src))
           vsvc == Sizes(GroupBy(S, svc))
           vdst == Sizes(GroupBy(S, dst))
           tsrc == Largest(vsrc, limit)
           tsvc == Largest(vsvc, limit)
           tdst == Largest(vdst, limit)
           h1 == [i \in S |-> <<resolve(data[i].src, tsrc),
                                resolve(<<data[i].dport, data[i].text["pr.name"]>>, tsvc)>>]
           h2 == [i \in S |-> <<resolve(<<data[i].dport, data[i].text["pr.name"]>>, tsvc),
                                resolve(data[i].dst, tdst)>>]
           hop1 == GroupBy(S, h1)
           hop2 == GroupBy(S, h2)
           links1 == Links(data, hop1)
           links2 == Links(data, hop2)
<1>1. IsFiniteSet(S) /\ S \subseteq DOMAIN data
  BY ListedFinite DEF Flowing
<1>2. /\ sankey.hop1 = links1 /\ sankey.hop2 = links2
      /\ DOMAIN sankey.nodes = {"source", "service", "destination"}
      /\ sankey.nodes["source"] = column_keys(vsrc, tsrc)
      /\ sankey.nodes["service"] = column_keys(vsvc, tsvc)
      /\ sankey.nodes["destination"] = column_keys(vdst, tdst)
  BY DEF get_sankey, Links
<1>3. \A i \in S : src[i] # None /\ dst[i] # None
  BY DEF Flowing
<1>4. \A i \in S : svc[i] # None /\ h1[i] # None /\ h2[i] # None
  BY <1>1, FlowKeys
<1>5. \A i \in S : /\ h1[i][1] = resolve(src[i], tsrc) /\ h1[i][2] = resolve(svc[i], tsvc)
                   /\ h2[i][1] = resolve(svc[i], tsvc) /\ h2[i][2] = resolve(dst[i], tdst)
  OBVIOUS
<1> HIDE DEF S, sankey, src, svc, dst, h1, h2, hop1, hop2, links1, links2
<1>6. /\ column_keys(vsrc, tsrc) = {resolve(src[i], tsrc) : i \in S}
      /\ Cardinality(column_keys(vsrc, tsrc)) <= limit + 1
  BY <1>1, <1>3, ColumnIs
<1>7. Cardinality(column_keys(vsvc, tsvc)) <= limit + 1
  BY <1>1, <1>4, ColumnIs
<1>8. /\ column_keys(vdst, tdst) = {resolve(dst[i], tdst) : i \in S}
      /\ Cardinality(column_keys(vdst, tdst)) <= limit + 1
  BY <1>1, <1>3, ColumnIs
<1> DEFINE B == Acting(data, S, "block")
<1> HIDE DEF B, vsrc, vsvc, vdst, tsrc, tsvc, tdst
<1>9. /\ DOMAIN links1 = KeysOf(S, h1) /\ Part(links1, "value") = Cardinality(S)
      /\ \A side, node :
           /\ Part(At(links1, side, node), "value") = Cardinality(Meeting(S, h1, side, node))
           /\ Part(At(links1, side, node), "blocked") = Cardinality(Meeting(B, h1, side, node))
  BY <1>1, <1>4, HopCarries DEF hop1, links1, B
<1>10. /\ DOMAIN links2 = KeysOf(S, h2)
       /\ \A side, node :
            /\ Part(At(links2, side, node), "value") = Cardinality(Meeting(S, h2, side, node))
            /\ Part(At(links2, side, node), "blocked") = Cardinality(Meeting(B, h2, side, node))
  BY <1>1, <1>4, HopCarries DEF hop2, links2, B
<1>11. ASSUME NEW node
       PROVE  /\ Part(At(links1, 2, node), "value") = Part(At(links2, 1, node), "value")
              /\ Part(At(links1, 2, node), "blocked") = Part(At(links2, 1, node), "blocked")
  <2>1. Meeting(S, h1, 2, node) = Meeting(S, h2, 1, node)
    BY <1>5 DEF Meeting
  <2>2. B \subseteq S
    BY DEF B, Acting
  <2>3. Meeting(B, h1, 2, node) = Meeting(B, h2, 1, node)
    BY <1>5, <2>2 DEF Meeting
  <2> QED
    BY <1>9, <1>10, <2>1, <2>3
<1>12. {k[1] : k \in DOMAIN links1} = column_keys(vsrc, tsrc)
  BY <1>5, <1>6, <1>9 DEF KeysOf
<1>13. {k[2] : k \in DOMAIN links2} = column_keys(vdst, tdst)
  BY <1>5, <1>8, <1>10 DEF KeysOf
<1>14. \A kind \in DOMAIN sankey.nodes : Cardinality(sankey.nodes[kind]) <= limit + 1
  BY <1>2, <1>6, <1>7, <1>8
<1> QED
  BY <1>2, <1>9, <1>11, <1>12, <1>13, <1>14 DEF sankey, S

LEMMA FlowsDo ==
  ASSUME NEW data, IsTable(data), NEW f
  PROVE  FlowsAgree(data, f)
<1>1. SUFFICES ASSUME NEW limit \in FlowLimits
               PROVE  LET sankey == get_sankey(data, f, limit)
                          flow   == Cardinality(Flowing(data, Listed(data, f)))
                      IN /\ Part(sankey.hop1, "value") = flow
                         /\ \A node \in sankey.nodes.service, field \in {"value", "blocked"} :
                              Part(At(sankey.hop1, 2, node), field) = Part(At(sankey.hop2, 1, node), field)
                         /\ \A kind \in DOMAIN sankey.nodes : Cardinality(sankey.nodes[kind]) <= limit + 1
                         /\ {k[1] : k \in DOMAIN sankey.hop1} = sankey.nodes.source
                         /\ {k[2] : k \in DOMAIN sankey.hop2} = sankey.nodes.destination
  BY PairsDo DEF FlowsAgree
<1>2. limit \in Nat
  BY QueriesAssumption
<1> QED
  BY <1>2, SankeyDo, Zenon

LEMMA JoinsDo ==
  ASSUME NEW f, IsFilter(f), ~Misplaced(f), NEW q \in DOMAIN Joined
  PROVE  Answered(q, f)
<1>1. Selected[q] \subseteq Joined[q]
  BY DEF Selected, Joined, LookupTables
<1>2. ASSUME NEW t \in parse_search(f.q), IsTextTerm(t), NEW c \in DOMAIN TableOf \cap TextColumns(t.field)
      PROVE  TableOf[c] \in term_joins(t)
  <2>1. t.kind = "text" /\ t.field \in (TextFields \cup {"asn", None}) \ {"action", "type", "severity"}
    BY <1>2, TermsTyped DEF IsTextTerm, IsIdTerm, IsLevelTerm, Typed, Misplaced, Fields
  <2>2. CASE t.field = None
    BY <1>2, <2>1, <2>2, FilterAssumption DEF term_joins, TableOf, LookupTables, Fields, TextFields
  <2>3. CASE t.field # None
    BY <1>2, <2>1, <2>3 DEF term_joins, TableOf, TextColumns, TextFields
  <2> QED
    BY <2>2, <2>3
<1>3. TablesNamed(f) \subseteq needed_joins(f)
  BY <1>2 DEF TablesNamed, needed_joins
<1> QED
  BY <1>1, <1>3 DEF Answered, push_joins

\* What the views read is a table.
LEMMA TableIs ==
  ASSUME stored \in [Rows -> {"no", "plain", "enriched"}]
  PROVE  IsTable(Table)
<1>1. DOMAIN Table = {j \in Rows : stored[j] # "no"}
  BY DEF Table
<1>2. IsFiniteSet(DOMAIN Table) /\ DOMAIN Table \subseteq Rows
  BY <1>1, FS_Subset, QueriesAssumption DEF Rows
<1>3. \A i \in DOMAIN Table : Table[i] \in {Pool[i], Plain(Pool[i])}
  BY <1>1 DEF Table, As
<1>4. \A i \in Rows : IsRow(Pool[i]) /\ IsRow(Plain(Pool[i]))
  BY PlainRow, QueriesAssumption DEF Rows
<1> QED
  BY <1>2, <1>3, <1>4 DEF IsTable

(* The views agree with the table and with each other, whatever rows are   *)
(* stored and enriched and whatever filter is set: each row counts once in *)
(* every division, a bounded list is part of the whole, what flows into a  *)
(* node of the flow view flows out of it, and a query without text in a    *)
(* field of addresses or ports is never an error (dashboard.rs, count.rs,  *)
(* flows.rs, threats.rs, hostdetail.rs, filters.rs:196-230).               *)
THEOREM ViewsAgreeAlways == QueriesSpec => []ViewsAgree
<1> DEFINE Inv == stored \in [Rows -> {"no", "plain", "enriched"}] /\ asked_for \in Asked
<1>1. QueriesInit => Inv
  BY DEF QueriesInit
<1>2. Inv /\ [QueriesNext]_queries_vars => Inv'
  BY DEF QueriesNext, Insert, EnrichRow, ChooseFilter, queries_vars
<1>3. Inv => ViewsAgree
  <2> SUFFICES ASSUME Inv PROVE ViewsAgree
    OBVIOUS
  <2>1. IsTable(Table) /\ IsFilter(asked_for)
    BY TableIs, QueriesAssumption
  <2>2. EveryQueryIsAnswered \/ Misplaced(asked_for)
    BY <2>1, JoinsDo DEF EveryQueryIsAnswered
  <2>3. /\ TotalsAgree(Table, asked_for) /\ CountsAgree(Table, asked_for)
        /\ FlowsAgree(Table, asked_for) /\ HostsAgree(Table, asked_for)
    BY <2>1, TotalsDo, CountsDo, FlowsDo, HostsDo
  <2> QED
    BY <2>2, <2>3 DEF ViewsAgree
<1> QED
  BY <1>1, <1>2, <1>3, PTL DEF QueriesSpec

(* In particular where the stream has given no verdict yet, which is what  *)
(* the run looks at (dashboard.rs:106).                                    *)
THEOREM ViewsAgreeFromTheStart == QueriesSpec => []ViewsAgreeUnseen
<1>1. ViewsAgree => ViewsAgreeUnseen
  BY DEF ViewsAgreeUnseen
<1> QED
  BY <1>1, ViewsAgreeAlways, PTL

-----------------------------------------------------------------------------
(* A page: the newest of the listed rows, in order.                        *)

Row   == [kind : Kinds, ts : 1..MaxTime, facts : BOOLEAN]

LEMMA KeysAreOrdered ==
  ASSUME table \in Seq(Row)
  PROVE  /\ \A a \in Ids : Key(a) \in Cursors
         /\ \A a, b \in Ids : a # b => Before(Key(a), Key(b)) \/ Before(Key(b), Key(a))
         /\ \A j, k, l \in Cursors : Before(j, k) /\ Before(k, l) => Before(j, l)
         /\ \A k \in Cursors : ~Before(k, k)
<1>1. \A a \in Ids : table[a].ts \in Nat /\ a \in Nat
  <2>1. \A a \in Ids : table[a] \in Row /\ a \in Nat
    BY ElementOfSeq, LenProperties DEF Ids
  <2> QED
    BY <2>1, LogViewAssumption DEF Row
<1> QED
  BY <1>1 DEF Key, Before, Cursors

\* How many rows of S are newer than a row.
Newer(S, a) == {j \in S : Before(Key(a), Key(j))}
Rank(S, a)  == Cardinality(Newer(S, a))

\* The ranks of n rows are 0..n-1, one each.
LEMMA Ranks ==
  ASSUME table \in Seq(Row), NEW S, S \subseteq Ids
  PROVE  /\ IsFiniteSet(S) /\ Cardinality(S) \in Nat
         /\ \A a \in S : Rank(S, a) \in 0..(Cardinality(S) - 1)
         /\ \A a, b \in S : Before(Key(a), Key(b)) => Rank(S, b) < Rank(S, a)
         /\ \A a, b \in S : Rank(S, a) = Rank(S, b) => a = b
         /\ \A i \in 0..(Cardinality(S) - 1) : \E a \in S : Rank(S, a) = i
<1>1. IsFiniteSet(S) /\ Cardinality(S) \in Nat
  <2>1. IsFiniteSet(Ids)
    BY FS_Interval DEF Ids
  <2> QED
    BY <2>1, FS_Subset, FS_CardinalityType
<1>2. \A a \in S : Rank(S, a) \in 0..(Cardinality(S) - 1) /\ IsFiniteSet(Newer(S, a))
  <2> SUFFICES ASSUME NEW a \in S
               PROVE  Rank(S, a) \in 0..(Cardinality(S) - 1) /\ IsFiniteSet(Newer(S, a))
    OBVIOUS
  <2>1. Newer(S, a) \subseteq S \ {a}
    BY KeysAreOrdered DEF Newer
  <2>2. IsFiniteSet(S \ {a}) /\ Cardinality(S \ {a}) = Cardinality(S) - 1
    BY <1>1, FS_RemoveElement
  <2>3. IsFiniteSet(Newer(S, a)) /\ Rank(S, a) <= Cardinality(S) - 1 /\ Rank(S, a) \in Nat
    BY <2>1, <2>2, FS_Subset, FS_CardinalityType DEF Rank
  <2> QED
    BY <1>1, <2>3
<1>3. \A a, b \in S : Before(Key(a), Key(b)) => Rank(S, b) < Rank(S, a)
  <2> SUFFICES ASSUME NEW a \in S, NEW b \in S, Before(Key(a), Key(b))
               PROVE  Rank(S, b) < Rank(S, a)
    OBVIOUS
  <2>1. Newer(S, b) \subseteq Newer(S, a) \ {b}
    BY KeysAreOrdered DEF Newer
  <2>2. b \in Newer(S, a)
    BY DEF Newer
  <2>3. IsFiniteSet(Newer(S, a) \ {b}) /\ Cardinality(Newer(S, a) \ {b}) = Rank(S, a) - 1
    BY <1>2, <2>2, FS_RemoveElement DEF Rank
  <2>4. Rank(S, b) <= Rank(S, a) - 1
    BY <2>1, <2>3, FS_Subset DEF Rank
  <2> QED
    BY <1>1, <1>2, <2>4
<1>4. \A a, b \in S : Rank(S, a) = Rank(S, b) => a = b
  BY <1>1, <1>2, <1>3, KeysAreOrdered
<1>5. \A i \in 0..(Cardinality(S) - 1) : \E a \in S : Rank(S, a) = i
  <2> DEFINE T == 0..(Cardinality(S) - 1)
             R == [a \in S |-> Rank(S, a)]
  <2>1. R \in Injection(S, T)
    BY <1>2, <1>4 DEF Injection, IsInjective
  <2>2. IsFiniteSet(T) /\ Cardinality(T) = Cardinality(S)
    <3>1. 0 \in Int /\ Cardinality(S) - 1 \in Int
      BY <1>1
    <3>2. /\ IsFiniteSet(T)
          /\ Cardinality(T) = IF 0 > Cardinality(S) - 1 THEN 0 ELSE (Cardinality(S) - 1) - 0 + 1
      BY <3>1, FS_Interval
    <3> QED
      BY <1>1, <3>2
  <2>3. R \in Surjection(S, T)
    BY <2>1, <2>2, FS_Injection
  <2> QED
    BY <2>3 DEF Surjection
<1> QED
  BY <1>1, <1>2, <1>3, <1>4, <1>5

ListedRows(f, cursor) ==
  {id \in Ids : Lists(Stored(id), Setting[f]) /\ (cursor = None \/ Before(Key(id), cursor))}

\* get_logs() returns listed rows, each once, and none of those it leaves out
\* is as new as the last one.
LEMMA PageFacts ==
  ASSUME table \in Seq(Row), NEW f, NEW cursor
  PROVE  LET ids == Page(f, cursor)
             S   == ListedRows(f, cursor)
         IN /\ ids \in Seq(S) /\ Len(ids) <= PageSize
            /\ \A i, j \in DOMAIN ids : i # j => ids[i] # ids[j]
            /\ ids = <<>> => S = {}
            /\ ids # <<>> => \A id \in S : \/ Before(Key(id), Key(Last(ids)))
                                           \/ \E i \in DOMAIN ids : ids[i] = id
<1> DEFINE S == ListedRows(f, cursor)
           size == IF Cardinality(S) < PageSize THEN Cardinality(S) ELSE PageSize
           ids == [i \in 1..size |-> CHOOSE id \in S : Rank(S, id) = i - 1]
<1>1. Page(f, cursor) = ids
  BY DEF Page, Continues, ListedRows, Rank, Newer
<1>2. S \subseteq Ids
  BY DEF ListedRows
<1> HIDE DEF S
<1>3. size \in Nat /\ size <= PageSize /\ size <= Cardinality(S) /\ Cardinality(S) \in Nat
  BY <1>2, Ranks, LogViewAssumption
<1>4. \A i \in 1..size : ids[i] \in S /\ Rank(S, ids[i]) = i - 1
  <2> SUFFICES ASSUME NEW i \in 1..size PROVE ids[i] \in S /\ Rank(S, ids[i]) = i - 1
    OBVIOUS
  <2>1. i - 1 \in 0..(Cardinality(S) - 1)
    BY <1>3
  <2>2. \E a \in S : Rank(S, a) = i - 1
    BY <2>1, <1>2, Ranks
  <2> QED
    BY <2>2
<1> HIDE DEF size
<1>5. ids \in Seq(S) /\ Len(ids) = size /\ DOMAIN ids = 1..size
  <2>1. ids \in [1..size -> S]
    BY <1>4
  <2> QED
    BY <2>1, <1>3
<1> HIDE DEF ids
<1>6. \A i, j \in DOMAIN ids : i # j => ids[i] # ids[j]
  BY <1>3, <1>4, <1>5
<1>7. ids = <<>> => S = {}
  <2>1. ids = <<>> => size = 0
    BY <1>5, <1>3
  <2>2. size = 0 => Cardinality(S) = 0
    BY LogViewAssumption, <1>3 DEF size
  <2> QED
    BY <2>1, <2>2, <1>2, Ranks, FS_EmptySet
<1>8. ASSUME ids # <<>>, NEW id \in S, ~Before(Key(id), Key(Last(ids)))
      PROVE  \E i \in DOMAIN ids : ids[i] = id
  <2>1. size # 0 /\ Last(ids) = ids[size] /\ ids[size] \in S /\ Rank(S, ids[size]) = size - 1
    BY <1>8, <1>3, <1>4, <1>5 DEF Last
  <2>2. Rank(S, id) <= size - 1
    <3>1. id = ids[size] \/ Before(Key(ids[size]), Key(id))
      BY <1>8, <2>1, <1>2, KeysAreOrdered
    <3>2. Rank(S, id) \in 0..(Cardinality(S) - 1)
      BY <1>2, Ranks
    <3> QED
      BY <3>1, <3>2, <2>1, <1>2, <1>3, Ranks
  <2>3. Rank(S, id) \in 0..(size - 1)
    BY <2>2, <1>2, <1>3, Ranks
  <2>4. Rank(S, ids[Rank(S, id) + 1]) = Rank(S, id) /\ ids[Rank(S, id) + 1] \in S
    BY <2>3, <1>3, <1>4
  <2> QED
    BY <2>3, <2>4, <1>2, <1>3, <1>5, Ranks
<1> QED
  BY <1>1, <1>3, <1>5, <1>6, <1>7, <1>8 DEF S

-----------------------------------------------------------------------------
(* Types of the log view.                                                  *)

Addresses == {Remote[k] : k \in Kinds} \ {None}

Event == [what : {"row"}, id : Nat, facts : BOOLEAN] \cup [what : {"enriched"}, ip : Addresses]

Request ==
  [n : Nat, f : Filters, before : Cursors \cup {None}, page : Pages \cup {None},
   open : SUBSET Nat, steady : BOOLEAN]

BackendTypes ==
  /\ table \in Seq(Row) /\ known \subseteq Addresses /\ announcing \subseteq known
  /\ sending \subseteq [id : Ids, read : BOOLEAN, facts : BOOLEAN]
  /\ \A s, t \in sending : s = t

ChannelTypes ==
  /\ queue \in Seq(Event) /\ Len(queue) <= Capacity /\ lagged \in Nat
  /\ \A i \in DOMAIN queue : queue[i].what = "row" => queue[i].id \in Ids
  /\ query = filter

ScreenTypes ==
  /\ filter \in Filters
  /\ rows \in Seq(Shown) /\ RowIds(rows) \subseteq Ids
  /\ beforeStack \in Seq(Cursors \cup {None}) /\ Len(beforeStack) >= 1
  /\ \A i \in 1..Len(beforeStack) : beforeStack[i] = None <=> i = 1
  /\ nextCursor \in Cursors \cup {None}
  /\ base \subseteq Ids /\ walked \subseteq Ids

RequestTypes ==
  /\ requests \subseteq Request
  /\ \A r \in requests : r.n \in 1..asked
  /\ \A q, r \in requests : q.n = r.n => q = r
  /\ \A r \in requests : r.page # None => /\ RowIds(r.page.rows) \subseteq Ids
                                          /\ r.page.listed \subseteq Ids
  /\ asked \in 1..MaxRequests /\ shown \in 0..asked /\ overtaken \in BOOLEAN

Types == BackendTypes /\ ChannelTypes /\ ScreenTypes /\ RequestTypes

\* A row, once stored, keeps its place, its kind and its time.
Grows ==
  /\ table' \in Seq(Row) /\ Ids \subseteq Ids'
  /\ \A id \in Ids : /\ table'[id].kind = table[id].kind /\ table'[id].ts = table[id].ts
                     /\ table[id].facts => table'[id].facts

LEMMA TableRows ==
  ASSUME table \in Seq(Row)
  PROVE  /\ Len(table) \in Nat /\ Ids = DOMAIN table /\ Ids \subseteq Nat
         /\ \A id \in Ids : /\ table[id] \in Row /\ table[id].kind \in Kinds
                            /\ table[id].facts \in BOOLEAN
<1>1. Len(table) \in Nat /\ Ids = DOMAIN table /\ Ids \subseteq Nat
  BY LenProperties DEF Ids
<1>2. \A id \in Ids : table[id] \in Row
  BY ElementOfSeq DEF Ids
<1> QED
  BY <1>1, <1>2 DEF Row

LEMMA StoreGrows ==
  ASSUME BackendTypes, NEW kind \in Kinds, NEW ts \in 1..MaxTime, Store(kind, ts)
  PROVE  /\ Grows /\ Len(table') = Len(table) + 1
         /\ \A id \in Ids : table'[id] = table[id]
         /\ table'[Len(table) + 1] = [kind |-> kind, ts |-> ts, facts |-> FALSE]
<1> DEFINE row == [kind |-> kind, ts |-> ts, facts |-> FALSE]
<1>1. row \in Row /\ table' = Append(table, row) /\ table \in Seq(Row)
  BY DEF Store, Row, BackendTypes
<1> HIDE DEF row
<1>2. /\ table' \in Seq(Row) /\ Len(table') = Len(table) + 1
      /\ \A i \in 1..Len(table) : table'[i] = table[i]
      /\ table'[Len(table) + 1] = row
  BY <1>1, AppendProperties
<1>3. Len(table) \in Nat
  BY <1>1, LenProperties
<1> QED
  BY <1>2, <1>3 DEF Grows, Ids, row

LEMMA EnrichGrows ==
  ASSUME BackendTypes, NEW a, Enrich(a)
  PROVE  /\ Grows /\ Len(table') = Len(table)
         /\ \A id \in Ids : table'[id].facts <=> table[id].facts \/ AddressOf(id) = a
<1>1. table' = [id \in Ids |-> IF AddressOf(id) = a THEN [table[id] EXCEPT !.facts = TRUE]
                              ELSE table[id]]
  BY DEF Enrich
<1>2. /\ Len(table) \in Nat /\ Ids = 1..Len(table)
      /\ \A id \in Ids : table[id] \in Row
  BY TableRows DEF BackendTypes, Ids
<1>3. \A id \in Ids : /\ table'[id] \in Row
                      /\ table'[id].kind = table[id].kind /\ table'[id].ts = table[id].ts
                      /\ table'[id].facts <=> table[id].facts \/ AddressOf(id) = a
  BY <1>1, <1>2 DEF Row
<1>4. table' \in Seq(Row) /\ Len(table') = Len(table)
  <2>1. table' \in [1..Len(table) -> Row]
    BY <1>1, <1>2, <1>3
  <2> QED
    BY <2>1, <1>2
<1>5. Ids' = Ids
  BY <1>2, <1>4 DEF Ids
<1>6. Grows
  BY <1>3, <1>4, <1>5 DEF Grows
<1> QED
  BY <1>3, <1>4, <1>6

\* What a page holds when it is read.
ReadPage(req, page) ==
  /\ requests' = (requests \ {req}) \cup {[req EXCEPT !.page = page, !.open = OnTheWay]}
  /\ page \in Pages /\ page # None
  /\ page.listed = {id \in Ids : Lists(Stored(id), Setting[req.f])}
  /\ Len(page.rows) <= PageSize
  /\ \A i \in DOMAIN page.rows :
       /\ page.rows[i].id \in ListedRows(req.f, req.before)
       /\ page.rows[i].facts = table[page.rows[i].id].facts
  /\ \A i, j \in DOMAIN page.rows : i # j => page.rows[i].id # page.rows[j].id
  /\ \A id \in ListedRows(req.f, req.before) :
       page.next = None \/ ~Before(Key(id), page.next) => id \in RowIds(page.rows)

LEMMA ReadFacts ==
  ASSUME table \in Seq(Row), NEW req, Read(req)
  PROVE  \E page : ReadPage(req, page)
<1> DEFINE ids == Page(req.f, req.before)
           S == ListedRows(req.f, req.before)
           shownRows == [i \in DOMAIN ids |-> [id |-> ids[i], facts |-> table[ids[i]].facts]]
           page == [rows |-> shownRows,
                    next |-> IF ids = <<>> THEN None ELSE Key(Last(ids)),
                    listed |-> {id \in Ids : Lists(Stored(id), Setting[req.f])}]
<1>1. requests' = (requests \ {req}) \cup {[req EXCEPT !.page = page, !.open = OnTheWay]}
  BY DEF Read
<1>2. /\ ids \in Seq(S) /\ Len(ids) <= PageSize
      /\ \A i, j \in DOMAIN ids : i # j => ids[i] # ids[j]
      /\ ids = <<>> => S = {}
      /\ ids # <<>> => \A id \in S : \/ Before(Key(id), Key(Last(ids)))
                                     \/ \E i \in DOMAIN ids : ids[i] = id
  BY PageFacts
<1>3. S \subseteq Ids
  BY DEF ListedRows
<1> HIDE DEF ids, S
<1>4. Len(ids) \in Nat /\ DOMAIN ids = 1..Len(ids) /\ \A i \in 1..Len(ids) : ids[i] \in S
  BY <1>2, LenProperties, ElementOfSeq
<1>5. \A i \in 1..Len(ids) : /\ shownRows[i] = [id |-> ids[i], facts |-> table[ids[i]].facts]
                             /\ shownRows[i] \in Shown
  BY <1>3, <1>4, TableRows DEF Shown
<1>6. shownRows \in Seq(Shown) /\ Len(shownRows) = Len(ids) /\ DOMAIN shownRows = 1..Len(ids)
  <2>1. shownRows \in [1..Len(ids) -> Shown]
    BY <1>4, <1>5
  <2> QED
    BY <2>1, <1>4
<1> HIDE DEF shownRows
<1>7. ids # <<>> => Key(Last(ids)) \in Cursors
  <2>1. ids # <<>> => Last(ids) \in S
    BY <1>2, <1>4 DEF Last
  <2> QED
    BY <2>1, <1>3, KeysAreOrdered
<1>8. page \in Pages /\ page # None
  <2>1. page.listed \subseteq Nat
    BY TableRows
  <2>2. page \in Pages
    BY <1>6, <1>7, <2>1 DEF Pages
  <2> QED
    BY <2>2, LogViewAssumption
<1>9. RowIds(page.rows) = {ids[i] : i \in DOMAIN ids}
  BY <1>4, <1>5, <1>6 DEF RowIds
<1>10. \A id \in S : page.next = None \/ ~Before(Key(id), page.next) => id \in RowIds(page.rows)
  BY <1>2, <1>7, <1>9, LogViewAssumption
<1> HIDE DEF page
<1>11. page.rows = shownRows /\ page.listed = {id \in Ids : Lists(Stored(id), Setting[req.f])}
  BY DEF page
<1> QED
  <2>1. \A i \in DOMAIN page.rows :
          /\ page.rows[i].id \in S
          /\ page.rows[i].facts = table[page.rows[i].id].facts
    BY <1>4, <1>5, <1>6, <1>11
  <2>2. \A i, j \in DOMAIN page.rows : i # j => page.rows[i].id # page.rows[j].id
    BY <1>2, <1>4, <1>5, <1>6, <1>11
  <2> QED
    BY <1>1, <1>2, <1>6, <1>8, <1>10, <1>11, <2>1, <2>2 DEF ReadPage, S

\* The events that stay keep their order, and the new one is the last.
LEMMA BroadcastFacts ==
  ASSUME queue \in Seq(Event), Len(queue) <= Capacity, lagged \in Nat,
         NEW e \in Event, Broadcast(e)
  PROVE  /\ queue' \in Seq(Event) /\ Len(queue') <= Capacity /\ lagged' \in Nat
         /\ Len(queue') >= 1 /\ queue'[Len(queue')] = e
         /\ \E d \in {0, 1} :
              /\ Len(queue') = Len(queue) + 1 - d
              /\ d = 1 => Len(queue) = Capacity /\ queue # <<>>
              /\ \A i \in 1..(Len(queue') - 1) : queue'[i] = queue[i + d]
<1> USE LogViewAssumption
<1>0. Len(queue) \in Nat
  BY LenProperties
<1>1. CASE Len(queue) < Capacity
  <2>1. queue' = Append(queue, e) /\ lagged' = lagged
    BY <1>1 DEF Broadcast
  <2>2. /\ queue' \in Seq(Event) /\ Len(queue') = Len(queue) + 1
        /\ \A i \in 1..Len(queue) : queue'[i] = queue[i]
        /\ queue'[Len(queue) + 1] = e
    BY <2>1, AppendProperties
  <2> QED
    BY <1>0, <1>1, <2>1, <2>2
<1>2. CASE ~(Len(queue) < Capacity)
  <2>1. queue' = Append(Tail(queue), e) /\ lagged' = lagged + 1
    BY <1>2 DEF Broadcast
  <2>2. Len(queue) = Capacity /\ queue # <<>>
    BY <1>0, <1>2, EmptySeq
  <2>3. /\ Tail(queue) \in Seq(Event) /\ Len(Tail(queue)) = Len(queue) - 1
        /\ \A i \in 1..Len(Tail(queue)) : Tail(queue)[i] = queue[i + 1]
    BY <2>2, HeadTailProperties
  <2>4. /\ queue' \in Seq(Event) /\ Len(queue') = Len(queue)
        /\ \A i \in 1..(Len(queue) - 1) : queue'[i] = Tail(queue)[i]
        /\ queue'[Len(queue)] = e
    BY <1>0, <2>1, <2>3, AppendProperties
  <2> QED
    BY <1>0, <2>1, <2>2, <2>3, <2>4
<1> QED
  BY <1>1, <1>2

LEMMA TailFacts ==
  ASSUME queue \in Seq(Event), queue # <<>>, queue' = Tail(queue)
  PROVE  /\ queue' \in Seq(Event) /\ Len(queue') = Len(queue) - 1 /\ Len(queue) \in Nat \ {0}
         /\ Head(queue) = queue[1] /\ Head(queue) \in Event
         /\ \A i \in 1..Len(queue') : queue'[i] = queue[i + 1]
BY HeadTailProperties, LenProperties, EmptySeq

\* A row on top pushes the last one out of a full page.
LEMMA PushFacts ==
  ASSUME rows \in Seq(Shown), NEW x \in Shown,
         rows' = SubSeq(<<x>> \o rows, 1, IF Len(rows) < PageSize THEN Len(rows) + 1 ELSE PageSize)
  PROVE  /\ rows' \in Seq(Shown) /\ Len(rows') <= PageSize
         /\ Len(rows') \in 1..(Len(rows) + 1) /\ rows'[1] = x
         /\ \A i \in 2..Len(rows') : rows'[i] = rows[i - 1]
<1> DEFINE s == <<x>> \o rows
           n == IF Len(rows) < PageSize THEN Len(rows) + 1 ELSE PageSize
<1>1. Len(rows) \in Nat /\ PageSize \in Nat \ {0}
  BY LenProperties, LogViewAssumption
<1>2. <<x>> \in Seq(Shown) /\ Len(<<x>>) = 1 /\ <<x>>[1] = x
  OBVIOUS
<1>3. /\ s \in Seq(Shown) /\ Len(s) = Len(rows) + 1 /\ s[1] = x
      /\ \A i \in 2..(Len(rows) + 1) : s[i] = rows[i - 1]
  BY <1>1, <1>2, ConcatProperties
<1> HIDE DEF s
<1>4. n \in 1..Len(s) /\ n <= PageSize /\ n \in Int
  BY <1>1, <1>3
<1>5. \A i \in 1..n : s[i] \in Shown
  BY <1>3, <1>4, ElementOfSeq
<1> HIDE DEF n
<1>6. /\ SubSeq(s, 1, n) \in Seq(Shown) /\ Len(SubSeq(s, 1, n)) = n
      /\ \A i \in 1..n : SubSeq(s, 1, n)[i] = s[i]
  <2>1. /\ SubSeq(s, 1, n) \in Seq(Shown)
        /\ Len(SubSeq(s, 1, n)) = IF 1 <= n THEN n - 1 + 1 ELSE 0
        /\ \A i \in 1..(n - 1 + 1) : SubSeq(s, 1, n)[i] = s[1 + i - 1]
    BY <1>4, <1>5, SubSeqProperties
  <2> QED
    BY <1>4, <2>1
<1>7. rows' = SubSeq(s, 1, n)
  BY DEF s, n
<1> QED
  BY <1>1, <1>3, <1>4, <1>6, <1>7

-----------------------------------------------------------------------------
(* Every step keeps the types.                                             *)

LEMMA StillBackend ==
  ASSUME BackendTypes, table' = table, known' = known, sending' = sending, announcing' = announcing
  PROVE  BackendTypes'
BY DEF BackendTypes, Ids

LEMMA BackendStep ==
  ASSUME BackendTypes, Next
  PROVE  BackendTypes' /\ Grows
<1> USE DEF backend, Addresses
<1>0. ASSUME table' = table PROVE Grows
  BY <1>0 DEF Grows, BackendTypes, Ids
<1>1. ASSUME NEW kind \in Kinds, NEW ts \in 1..MaxTime, Store(kind, ts)
      PROVE  BackendTypes' /\ Grows
  <2>1. /\ Grows /\ Len(table') = Len(table) + 1 /\ Len(table) \in Nat
    BY <1>1, StoreGrows, TableRows DEF BackendTypes
  <2>2. Len(table) + 1 \in Ids'
    BY <2>1 DEF Ids
  <2>3. /\ known' = known /\ announcing' = announcing
        /\ sending' = {[id |-> Len(table) + 1, read |-> FALSE, facts |-> FALSE]}
    BY <1>1 DEF Store
  <2> QED
    BY <2>1, <2>2, <2>3 DEF BackendTypes, Grows
<1>2. CASE LookUp
  <2>1. PICK s \in sending :
          /\ sending' = {[s EXCEPT !.read = TRUE, !.facts = AddressOf(s.id) \in known]}
          /\ table' = table /\ known' = known /\ announcing' = announcing
    BY <1>2 DEF LookUp
  <2>2. \A b \in BOOLEAN : [s EXCEPT !.read = TRUE, !.facts = b]
                           \in [id : Ids, read : BOOLEAN, facts : BOOLEAN]
    BY DEF BackendTypes
  <2>3. AddressOf(s.id) \in known => sending' = {[s EXCEPT !.read = TRUE, !.facts = TRUE]}
    BY <2>1, Zenon
  <2>4. AddressOf(s.id) \notin known => sending' = {[s EXCEPT !.read = TRUE, !.facts = FALSE]}
    <3>1. ASSUME AddressOf(s.id) \notin known PROVE (AddressOf(s.id) \in known) = FALSE
      BY <3>1
    <3> QED
      BY <2>1, <3>1, Zenon
  <2>5. sending' \subseteq [id : Ids', read : BOOLEAN, facts : BOOLEAN] /\ \A x, y \in sending' : x = y
    BY <2>1, <2>2, <2>3, <2>4 DEF Ids
  <2> QED
    BY <2>1, <2>5, <1>0 DEF BackendTypes
<1>3. CASE Send
  <2>1. sending' = {} /\ table' = table /\ known' = known /\ announcing' = announcing
    BY <1>3 DEF Send
  <2> QED
    BY <2>1, <1>0 DEF BackendTypes
<1>4. ASSUME NEW a \in {Remote[k] : k \in Kinds} \ {None}, Enrich(a)
      PROVE  BackendTypes' /\ Grows
  <2>1. Grows /\ Len(table') = Len(table)
    BY <1>4, EnrichGrows
  <2>2. known' = known \cup {a} /\ announcing' = announcing \cup {a} /\ sending' = sending
    BY <1>4 DEF Enrich
  <2>3. Ids' = Ids
    BY <2>1 DEF Ids
  <2> QED
    BY <2>1, <2>2, <2>3 DEF BackendTypes, Grows
<1>5. ASSUME NEW a \in {Remote[k] : k \in Kinds} \ {None}, Announce(a)
      PROVE  BackendTypes' /\ Grows
  <2>1. announcing' = announcing \ {a} /\ table' = table /\ known' = known /\ sending' = sending
    BY <1>5 DEF Announce
  <2> QED
    BY <2>1, <1>0 DEF BackendTypes, Ids
<1>6. CASE Deliver \/ Reconnect \/ TogglePause \/ goNext \/ goPrev \/ refreshPage \/ AtRest
  BY <1>6, <1>0, StillBackend DEF Deliver, Reconnect, TogglePause, goNext, goPrev, refreshPage, Walk, AtRest, vars
<1>7. ASSUME NEW req \in requests, Read(req) \/ Answer(req) \/ AnswerFails(req)
      PROVE  BackendTypes' /\ Grows
  BY <1>7, <1>0, StillBackend DEF Read, Answer, AnswerFails
<1>8. ASSUME NEW f \in Filters, SetFilter(f)
      PROVE  BackendTypes' /\ Grows
  BY <1>8, <1>0, StillBackend DEF SetFilter
<1> QED
  BY <1>1, <1>2, <1>3, <1>4, <1>5, <1>6, <1>7, <1>8 DEF Next

LEMMA ChannelStep ==
  ASSUME Types, Next, BackendTypes', Grows
  PROVE  ChannelTypes'
<1> USE DEF Types, channel
<1>1. /\ queue \in Seq(Event) /\ Len(queue) <= Capacity /\ lagged \in Nat /\ query = filter
      /\ \A i \in DOMAIN queue : queue[i].what = "row" => queue[i].id \in Ids
      /\ Ids \subseteq Ids' /\ Len(queue) \in Nat
  BY LenProperties DEF ChannelTypes, Grows
<1>2. ASSUME queue' = queue, lagged' \in Nat, query' = query, filter' = filter
      PROVE  ChannelTypes'
  BY <1>1, <1>2 DEF ChannelTypes
<1>3. ASSUME NEW e \in Event, Broadcast(e), e.what = "row" => e.id \in Ids,
             query' = query, filter' = filter
      PROVE  ChannelTypes'
  <2>1. /\ queue' \in Seq(Event) /\ Len(queue') <= Capacity /\ lagged' \in Nat
        /\ Len(queue') >= 1 /\ queue'[Len(queue')] = e
        /\ \E d \in {0, 1} :
             /\ Len(queue') = Len(queue) + 1 - d
             /\ d = 1 => Len(queue) = Capacity /\ queue # <<>>
             /\ \A i \in 1..(Len(queue') - 1) : queue'[i] = queue[i + d]
    BY <1>1, <1>3, BroadcastFacts
  <2>2. \A i \in DOMAIN queue' : queue'[i].what = "row" => queue'[i].id \in Ids
    <3>1. SUFFICES ASSUME NEW i \in DOMAIN queue', queue'[i].what = "row"
                   PROVE  queue'[i].id \in Ids
      OBVIOUS
    <3>2. DOMAIN queue' = 1..Len(queue') /\ Len(queue') \in Nat /\ DOMAIN queue = 1..Len(queue)
      BY <1>1, <2>1, LenProperties
    <3>3. CASE i = Len(queue')
      BY <3>1, <3>3, <2>1, <1>3
    <3>4. CASE i # Len(queue')
      <4>1. PICK d \in {0, 1} : /\ Len(queue') = Len(queue) + 1 - d
                                /\ \A k \in 1..(Len(queue') - 1) : queue'[k] = queue[k + d]
        BY <2>1
      <4>2. i \in 1..(Len(queue') - 1) /\ i + d \in 1..Len(queue)
        BY <3>2, <3>4, <4>1, <1>1
      <4> QED
        BY <3>1, <3>2, <4>1, <4>2, <1>1
    <3> QED
      BY <3>3, <3>4
  <2> QED
    BY <1>1, <1>3, <2>1, <2>2 DEF ChannelTypes
<1>4. ASSUME queue' = <<>>, lagged' = 0, query' = filter'
      PROVE  ChannelTypes'
  BY <1>4, LogViewAssumption DEF ChannelTypes
<1>5. ASSUME NEW kind \in Kinds, NEW ts \in 1..MaxTime, Store(kind, ts)
      PROVE  ChannelTypes'
  BY <1>1, <1>2, <1>5 DEF Store
<1>6. CASE LookUp
  BY <1>1, <1>2, <1>6 DEF LookUp
<1>7. CASE Send
  <2>1. PICK s \in sending : /\ Broadcast([what |-> "row", id |-> s.id, facts |-> s.facts])
                            /\ query' = query /\ filter' = filter
    BY <1>7 DEF Send
  <2>2. s.id \in Ids /\ s.id \in Nat /\ s.facts \in BOOLEAN
    BY TableRows DEF BackendTypes
  <2>3. [what |-> "row", id |-> s.id, facts |-> s.facts] \in Event
    BY <2>2 DEF Event
  <2> QED
    BY <1>3, <2>1, <2>2, <2>3
<1>8. ASSUME NEW a \in {Remote[k] : k \in Kinds} \ {None}, Enrich(a)
      PROVE  ChannelTypes'
  BY <1>1, <1>2, <1>8 DEF Enrich
<1>9. ASSUME NEW a \in {Remote[k] : k \in Kinds} \ {None}, Announce(a)
      PROVE  ChannelTypes'
  <2>1. /\ Broadcast([what |-> "enriched", ip |-> a])
        /\ query' = query /\ filter' = filter
    BY <1>9 DEF Announce
  <2>2. a \in Addresses
    BY DEF Addresses
  <2>3. [what |-> "enriched", ip |-> a] \in Event
    BY <2>2 DEF Event
  <2> QED
    BY <1>3, <2>1, <2>3
<1>10. CASE Deliver
  <2>1. /\ query' = query /\ filter' = filter /\ queue # <<>>
        /\ \/ lagged' = 0 /\ queue' = queue
           \/ lagged' = lagged /\ queue' = Tail(queue)
    BY <1>10 DEF Deliver
  <2>2. CASE lagged' = 0 /\ queue' = queue
    BY <1>2, <2>1, <2>2
  <2>3. CASE lagged' = lagged /\ queue' = Tail(queue)
    <3>1. /\ queue' \in Seq(Event) /\ Len(queue') = Len(queue) - 1
          /\ \A i \in 1..Len(queue') : queue'[i] = queue[i + 1]
      BY <1>1, <2>1, <2>3, TailFacts
    <3>2. DOMAIN queue' = 1..Len(queue') /\ DOMAIN queue = 1..Len(queue)
      BY <1>1, <3>1, LenProperties
    <3>3. \A i \in DOMAIN queue' : queue'[i] = queue[i + 1] /\ i + 1 \in DOMAIN queue
      BY <1>1, <3>1, <3>2
    <3> QED
      BY <1>1, <2>1, <2>3, <3>1, <3>3, LogViewAssumption DEF ChannelTypes
  <2> QED
    BY <2>1, <2>2, <2>3
<1>11. CASE Reconnect
  BY <1>4, <1>11 DEF Reconnect, Subscribe
<1>12. ASSUME NEW f \in Filters, SetFilter(f)
       PROVE  ChannelTypes'
  BY <1>4, <1>12 DEF SetFilter, Subscribe
<1>13. ASSUME NEW req \in requests, Read(req) \/ Answer(req) \/ AnswerFails(req)
       PROVE  ChannelTypes'
  BY <1>1, <1>2, <1>13 DEF Read, Answer, AnswerFails
<1>14. CASE TogglePause \/ goNext \/ goPrev \/ refreshPage \/ AtRest
  BY <1>1, <1>2, <1>14 DEF TogglePause, goNext, goPrev, refreshPage, Walk, AtRest, vars
<1> QED
  BY <1>5, <1>6, <1>7, <1>8, <1>9, <1>10, <1>11, <1>12, <1>13, <1>14 DEF Next

-----------------------------------------------------------------------------
(* What the steps do to the screen and to the requests.                    *)

Patched(a) ==
  /\ rows' \in Seq(Shown) /\ Len(rows') = Len(rows)
  /\ \A i \in 1..Len(rows) : /\ rows'[i].id = rows[i].id
                             /\ rows'[i].facts <=> rows[i].facts \/ a \in Ends(rows[i].id)

Pushed(e) ==
  /\ rows' \in Seq(Shown) /\ Len(rows') <= PageSize
  /\ Len(rows') \in 1..(Len(rows) + 1) /\ rows'[1] = [id |-> e.id, facts |-> e.facts]
  /\ \A i \in 2..Len(rows') : rows'[i] = rows[i - 1]

LEMMA PatchFacts ==
  ASSUME ScreenTypes, NEW a, rows' = [i \in DOMAIN rows |-> applyEnrichment(rows[i], a)]
  PROVE  Patched(a)
<1>1. rows \in Seq(Shown) /\ Len(rows) \in Nat /\ DOMAIN rows = 1..Len(rows)
  BY LenProperties DEF ScreenTypes
<1>2. \A i \in 1..Len(rows) : rows[i] \in Shown
  BY <1>1, ElementOfSeq
<1>3. ASSUME NEW i \in 1..Len(rows)
      PROVE  /\ rows'[i] \in Shown /\ rows'[i].id = rows[i].id
             /\ rows'[i].facts <=> rows[i].facts \/ a \in Ends(rows[i].id)
  <2>1. rows'[i] = applyEnrichment(rows[i], a)
    BY <1>1
  <2>2. CASE a \in Ends(rows[i].id)
    <3>1. applyEnrichment(rows[i], a) = [rows[i] EXCEPT !.facts = TRUE]
      BY <2>2 DEF applyEnrichment
    <3>2. /\ rows'[i] \in Shown /\ rows'[i].id = rows[i].id /\ rows'[i].facts = TRUE
      BY <1>2, <2>1, <3>1 DEF Shown
    <3> QED
      BY <2>2, <3>2
  <2>3. CASE a \notin Ends(rows[i].id)
    <3>1. applyEnrichment(rows[i], a) = rows[i]
      BY <2>3 DEF applyEnrichment
    <3> QED
      BY <1>2, <2>1, <2>3, <3>1
  <2> QED
    BY <2>2, <2>3
<1>4. rows' \in Seq(Shown) /\ Len(rows') = Len(rows)
  <2>1. rows' \in [1..Len(rows) -> Shown]
    BY <1>1, <1>3
  <2> QED
    BY <2>1, <1>1
<1> QED
  BY <1>3, <1>4 DEF Patched

\* The view handles the oldest event, or hears that some were overwritten.
LEMMA DeliverFacts ==
  ASSUME ScreenTypes, ChannelTypes, Deliver
  PROVE  /\ table' = table /\ sending' = sending /\ announcing' = announcing /\ filter' = filter
         /\ beforeStack' = beforeStack /\ nextCursor' = nextCursor /\ requests' = requests
         /\ asked' = asked /\ shown' = shown /\ base' = base /\ straddled' = straddled
         /\ excused' = excused /\ overtaken' = overtaken
         /\ \/ queue' = queue /\ rows' = rows /\ walked' = walked
            \/ /\ queue # <<>> /\ queue' = Tail(queue)
               /\ \/ /\ queue[1].what = "enriched"
                     /\ Patched(queue[1].ip) /\ walked' = walked
                  \/ /\ queue[1].what = "row"
                     /\ \/ rows' = rows /\ walked' = walked
                        \/ /\ matches_live(RowOf(queue[1].id, queue[1].facts), Setting[query]) = "Pass"
                           /\ Pushed(queue[1]) /\ walked' = walked \cup {queue[1].id}
<1>1. /\ table' = table /\ sending' = sending /\ announcing' = announcing /\ filter' = filter
      /\ requests' = requests /\ asked' = asked /\ shown' = shown /\ base' = base
      /\ straddled' = straddled /\ excused' = excused /\ overtaken' = overtaken /\ queue # <<>>
  BY DEF Deliver, backend
<1>2. CASE lagged > 0
  BY <1>1, <1>2 DEF Deliver, screen
<1>3. CASE ~(lagged > 0)
  <2>1. /\ Handle(Head(queue)) /\ queue' = Tail(queue)
        /\ beforeStack' = beforeStack /\ nextCursor' = nextCursor
    BY <1>3 DEF Deliver
  <2>2. Head(queue) = queue[1] /\ queue[1] \in Event
    BY <1>1, HeadTailProperties DEF ChannelTypes
  <2>3. CASE queue[1].what = "enriched"
    <3>1. /\ rows' = [i \in DOMAIN rows |-> applyEnrichment(rows[i], queue[1].ip)]
          /\ walked' = walked
      BY <2>1, <2>2, <2>3 DEF Handle
    <3> QED
      BY <1>1, <2>1, <2>3, <3>1, PatchFacts
  <2>4. CASE queue[1].what = "row"
    <3> DEFINE e == queue[1]
               pass == matches_live(RowOf(e.id, e.facts), Setting[query]) = "Pass"
    <3>1. IF pass THEN ShowRow(e) ELSE rows' = rows /\ walked' = walked
      BY <2>1, <2>2, <2>4 DEF Handle
    <3>2. CASE ~pass \/ paused \/ ~atFirstPage
      <4>1. rows' = rows /\ walked' = walked
        BY <3>1, <3>2 DEF ShowRow
      <4> QED
        BY <1>1, <2>1, <2>4, <4>1
    <3>3. CASE pass /\ ~(paused \/ ~atFirstPage)
      <4>1. /\ rows' = SubSeq(<<[id |-> e.id, facts |-> e.facts]>> \o rows, 1,
                              IF Len(rows) < PageSize THEN Len(rows) + 1 ELSE PageSize)
            /\ walked' = walked \cup {e.id}
        BY <3>1, <3>3 DEF ShowRow
      <4>2. [id |-> e.id, facts |-> e.facts] \in Shown
        BY <2>2, <2>4 DEF Event, Shown
      <4>3. Pushed(e)
        BY <4>1, <4>2, PushFacts DEF ScreenTypes, Pushed
      <4> QED
        BY <1>1, <2>1, <2>4, <3>3, <4>1, <4>3
    <3> QED
      BY <3>2, <3>3
  <2> QED
    BY <2>2, <2>3, <2>4 DEF Event
<1> QED
  BY <1>2, <1>3

\* The request that goes out.
Asking(f, cursor) ==
  [n |-> asked + 1, f |-> f, before |-> cursor, page |-> None, open |-> {},
   steady |-> cursor = None \/ requests = {}]

LEMMA LoadFacts ==
  ASSUME RequestTypes, NEW f \in Filters, NEW cursor \in Cursors \cup {None}, LoadPage(f, cursor)
  PROVE  /\ Asking(f, cursor) \in Request
         /\ requests' = requests \cup {Asking(f, cursor)}
         /\ asked' = asked + 1 /\ asked' \in 1..MaxRequests
<1>1. requests' = requests \cup {Asking(f, cursor)} /\ asked' = asked + 1 /\ asked < MaxRequests
  BY DEF LoadPage, Asking
<1>2. (cursor = None \/ requests = {}) \in BOOLEAN
  BY Zenon
<1>3. asked \in 1..MaxRequests /\ MaxRequests \in Nat
  BY LogViewAssumption DEF RequestTypes
<1>4. Asking(f, cursor) \in Request
  BY <1>2, <1>3 DEF Asking, Request
<1> QED
  BY <1>1, <1>3, <1>4

\* A page is turned: forward by one, back by one, or not at all.
Turned(stack) ==
  /\ Walk(stack) /\ stack \in Seq(Cursors \cup {None}) /\ Len(stack) \in Nat \ {0}
  /\ \/ /\ nextCursor # None /\ Len(stack) = Len(beforeStack) + 1
        /\ stack[Len(stack)] = nextCursor
     \/ Len(stack) <= Len(beforeStack)
  /\ \A i \in 1..Len(stack) : i <= Len(beforeStack) => stack[i] = beforeStack[i]

LEMMA TurnFacts ==
  ASSUME ScreenTypes, goNext \/ goPrev \/ refreshPage
  PROVE  \E stack : Turned(stack)
<1>1. /\ beforeStack \in Seq(Cursors \cup {None}) /\ Len(beforeStack) \in Nat \ {0}
      /\ nextCursor \in Cursors \cup {None}
  BY LenProperties DEF ScreenTypes
<1>2. CASE goNext
  <2>1. nextCursor # None /\ Walk(Append(beforeStack, nextCursor))
    BY <1>2 DEF goNext
  <2>2. Turned(Append(beforeStack, nextCursor))
    BY <1>1, <2>1, AppendProperties DEF Turned
  <2> QED
    BY <2>2
<1>3. CASE goPrev
  <2>1. Walk(Front(beforeStack)) /\ Len(beforeStack) # 1
    BY <1>3 DEF goPrev, atFirstPage
  <2> DEFINE n == Len(beforeStack) - 1
  <2>2. n \in Int /\ n \in 1..Len(beforeStack) /\ n >= 1
    <3>1. \A l \in Nat \ {0} : l # 1 => l - 1 \in Int /\ l - 1 \in 1..l /\ l - 1 >= 1
      OBVIOUS
    <3> QED
      BY <1>1, <2>1, <3>1
  <2>3. \A i \in 1..n : beforeStack[i] \in Cursors \cup {None}
    BY <1>1, <2>2, ElementOfSeq
  <2> HIDE DEF n
  <2>4. /\ SubSeq(beforeStack, 1, n) \in Seq(Cursors \cup {None})
        /\ Len(SubSeq(beforeStack, 1, n)) = n
        /\ \A i \in 1..n : SubSeq(beforeStack, 1, n)[i] = beforeStack[i]
    <3>1. /\ SubSeq(beforeStack, 1, n) \in Seq(Cursors \cup {None})
          /\ Len(SubSeq(beforeStack, 1, n)) = IF 1 <= n THEN n - 1 + 1 ELSE 0
          /\ \A i \in 1..(n - 1 + 1) : SubSeq(beforeStack, 1, n)[i] = beforeStack[1 + i - 1]
      BY <2>2, <2>3, SubSeqProperties
    <3> QED
      BY <2>2, <3>1
  <2>5. Front(beforeStack) = SubSeq(beforeStack, 1, n)
    BY DEF Front, n
  <2>6. Turned(Front(beforeStack))
    BY <1>1, <2>1, <2>2, <2>4, <2>5 DEF Turned
  <2> QED
    BY <2>6
<1>4. CASE refreshPage
  <2>1. Turned(beforeStack)
    BY <1>1, <1>4 DEF refreshPage, Turned
  <2> QED
    BY <2>1
<1> QED
  BY <1>2, <1>3, <1>4

LEMMA OnTheWayStored ==
  ASSUME BackendTypes, ChannelTypes
  PROVE  OnTheWay \subseteq Ids
BY DEF OnTheWay, BackendTypes, ChannelTypes

\* The request whose page has been read.
Filled(req, page) == [req EXCEPT !.page = page, !.open = OnTheWay]

LEMMA FilledFacts ==
  ASSUME Types, NEW req \in requests, NEW page, ReadPage(req, page)
  PROVE  /\ Filled(req, page) \in Request /\ requests' = (requests \ {req}) \cup {Filled(req, page)}
         /\ Filled(req, page).n = req.n /\ Filled(req, page).f = req.f
         /\ Filled(req, page).before = req.before /\ Filled(req, page).steady = req.steady
         /\ Filled(req, page).page = page /\ Filled(req, page).open = OnTheWay
         /\ RowIds(page.rows) \subseteq Ids /\ page.listed \subseteq Ids
<1>1. req \in Request /\ page \in Pages /\ OnTheWay \subseteq Nat
  BY OnTheWayStored, TableRows DEF Types, RequestTypes, ReadPage, BackendTypes
<1>2. /\ Filled(req, page) \in Request
      /\ Filled(req, page).n = req.n /\ Filled(req, page).f = req.f
      /\ Filled(req, page).before = req.before /\ Filled(req, page).steady = req.steady
      /\ Filled(req, page).page = page /\ Filled(req, page).open = OnTheWay
  BY <1>1 DEF Filled, Request
<1>3. RowIds(page.rows) \subseteq Ids /\ page.listed \subseteq Ids
  BY DEF ReadPage, RowIds, ListedRows
<1> QED
  BY <1>2, <1>3 DEF ReadPage, Filled

LEMMA PageTypes ==
  ASSUME RequestTypes, NEW req \in requests, req.page # None
  PROVE  /\ req.page \in Pages /\ req.page.rows \in Seq(Shown)
         /\ req.page.next \in Cursors \cup {None} /\ req.page.listed \subseteq Nat
         /\ RowIds(req.page.rows) \subseteq Ids /\ req.page.listed \subseteq Ids
         /\ req \in Request /\ req.n \in 1..asked
BY DEF RequestTypes, Request, Pages

-----------------------------------------------------------------------------

LEMMA ScreenStep ==
  ASSUME Types, Next, Grows
  PROVE  ScreenTypes'
<1> USE DEF Types
<1>1. /\ filter \in Filters /\ rows \in Seq(Shown) /\ RowIds(rows) \subseteq Ids
      /\ beforeStack \in Seq(Cursors \cup {None}) /\ Len(beforeStack) >= 1
      /\ \A i \in 1..Len(beforeStack) : beforeStack[i] = None <=> i = 1
      /\ nextCursor \in Cursors \cup {None} /\ base \subseteq Ids /\ walked \subseteq Ids
      /\ Ids \subseteq Ids'
  BY DEF ScreenTypes, Grows
<1>2. ASSUME filter' = filter, rows' = rows, beforeStack' = beforeStack, nextCursor' = nextCursor,
             base' = base, walked' = walked
      PROVE  ScreenTypes'
  BY <1>1, <1>2 DEF ScreenTypes, RowIds
<1> USE DEF screen, history
<1>3. ASSUME NEW kind \in Kinds, NEW ts \in 1..MaxTime, Store(kind, ts)
      PROVE  ScreenTypes'
  BY <1>2, <1>3 DEF Store
<1>4. CASE LookUp \/ Send
  BY <1>2, <1>4 DEF LookUp, Send
<1>5. ASSUME NEW a \in {Remote[k] : k \in Kinds} \ {None}, Enrich(a) \/ Announce(a)
      PROVE  ScreenTypes'
  BY <1>2, <1>5 DEF Enrich, Announce
<1>6. CASE Deliver
  <2>1. /\ filter' = filter /\ beforeStack' = beforeStack /\ nextCursor' = nextCursor /\ base' = base
        /\ table' = table
    BY <1>6, DeliverFacts
  <2>2. CASE rows' = rows /\ walked' = walked
    BY <1>2, <2>1, <2>2
  <2>3. ASSUME Patched(queue[1].ip), walked' = walked
        PROVE  ScreenTypes'
    <3>1. /\ rows' \in Seq(Shown) /\ Len(rows') = Len(rows)
          /\ \A i \in 1..Len(rows) : rows'[i].id = rows[i].id
      BY <2>3 DEF Patched
    <3>2. DOMAIN rows = 1..Len(rows) /\ DOMAIN rows' = 1..Len(rows')
      BY <1>1, <3>1, LenProperties
    <3>3. RowIds(rows)' \subseteq RowIds(rows)
      BY <3>1, <3>2 DEF RowIds
    <3> QED
      BY <1>1, <2>1, <2>3, <3>1, <3>3 DEF ScreenTypes
  <2>4. ASSUME queue # <<>>, queue[1].what = "row", Pushed(queue[1]), walked' = walked \cup {queue[1].id}
        PROVE  ScreenTypes'
    <3>1. /\ rows' \in Seq(Shown) /\ Len(rows') \in 1..(Len(rows) + 1)
          /\ rows'[1] = [id |-> queue[1].id, facts |-> queue[1].facts]
          /\ \A i \in 2..Len(rows') : rows'[i] = rows[i - 1]
      BY <2>4 DEF Pushed
    <3>2. DOMAIN rows = 1..Len(rows) /\ DOMAIN rows' = 1..Len(rows') /\ Len(rows) \in Nat
      BY <1>1, <3>1, LenProperties
    <3>3. queue[1].id \in Ids
      <4>1. Len(queue) \in Nat \ {0} /\ DOMAIN queue = 1..Len(queue)
        BY <2>4, LenProperties, EmptySeq DEF ChannelTypes
      <4> QED
        BY <2>4, <4>1 DEF ChannelTypes
    <3>4. \A i \in DOMAIN rows' : rows'[i].id \in Ids
      <4>1. TAKE i \in DOMAIN rows'
      <4>2. CASE i = 1
        BY <3>1, <3>3, <4>2
      <4>3. CASE i # 1
        <5>1. i \in 2..Len(rows') /\ i - 1 \in DOMAIN rows
          BY <3>1, <3>2, <4>3
        <5> QED
          BY <1>1, <3>1, <5>1 DEF RowIds
      <4> QED
        BY <4>2, <4>3
    <3>5. RowIds(rows)' \subseteq Ids
      BY <3>4 DEF RowIds
    <3> QED
      BY <1>1, <2>1, <2>4, <3>1, <3>3, <3>5 DEF ScreenTypes
  <2> QED
    BY <1>6, <2>2, <2>3, <2>4, DeliverFacts
<1>7. CASE Reconnect \/ TogglePause \/ AtRest
  BY <1>2, <1>7 DEF Reconnect, TogglePause, AtRest, vars
<1>8. ASSUME NEW req \in requests, Read(req)
      PROVE  ScreenTypes'
  BY <1>2, <1>8 DEF Read
<1>9. ASSUME NEW req \in requests, Answer(req)
      PROVE  ScreenTypes'
  <2>1. /\ req.page # None /\ rows' = req.page.rows /\ nextCursor' = req.page.next
        /\ base' = (IF req.before = None THEN req.page.listed ELSE base)
        /\ walked' = RowIds(req.page.rows) \cup (IF req.before = None THEN {} ELSE walked)
        /\ filter' = filter /\ beforeStack' = beforeStack
    BY <1>9 DEF Answer, PageShown
  <2>2. RowIds(rows)' = RowIds(req.page.rows)
    BY <2>1 DEF RowIds
  <2> QED
    BY <1>1, <2>1, <2>2, PageTypes DEF ScreenTypes
<1>10. ASSUME NEW req \in requests, AnswerFails(req)
       PROVE  ScreenTypes'
  BY <1>1, <1>10 DEF AnswerFails, ScreenTypes, RowIds
<1>11. ASSUME NEW f \in Filters, SetFilter(f)
       PROVE  ScreenTypes'
  BY <1>1, <1>11 DEF SetFilter, ScreenTypes, RowIds
<1>12. CASE goNext \/ goPrev \/ refreshPage
  <2>1. PICK stack : Turned(stack)
    BY <1>12, TurnFacts
  <2>2. /\ beforeStack' = stack /\ filter' = filter /\ rows' = rows /\ nextCursor' = nextCursor
        /\ base' = base /\ walked' = walked
    BY <2>1 DEF Turned, Walk
  <2>3. Len(beforeStack) \in Nat
    BY <1>1, LenProperties
  <2>4. \A i \in 1..Len(stack) : stack[i] = None <=> i = 1
    <3>1. TAKE i \in 1..Len(stack)
    <3>2. CASE i <= Len(beforeStack)
      BY <1>1, <2>1, <2>3, <3>2 DEF Turned
    <3>3. CASE ~(i <= Len(beforeStack))
      BY <1>1, <2>1, <2>3, <3>3 DEF Turned
    <3> QED
      BY <3>2, <3>3
  <2>5. RowIds(rows)' = RowIds(rows)
    BY <2>2 DEF RowIds
  <2> QED
    BY <1>1, <2>1, <2>2, <2>4, <2>5 DEF ScreenTypes, Turned
<1> QED
  BY <1>3, <1>4, <1>5, <1>6, <1>7, <1>8, <1>9, <1>10, <1>11, <1>12 DEF Next

LEMMA RequestStep ==
  ASSUME Types, Next, Grows
  PROVE  RequestTypes'
<1> USE DEF Types
<1>1. /\ requests \subseteq Request /\ \A r \in requests : r.n \in 1..asked
      /\ \A q, r \in requests : q.n = r.n => q = r
      /\ \A r \in requests : r.page # None => /\ RowIds(r.page.rows) \subseteq Ids
                                              /\ r.page.listed \subseteq Ids
      /\ asked \in 1..MaxRequests /\ shown \in 0..asked /\ overtaken \in BOOLEAN
      /\ Ids \subseteq Ids' /\ MaxRequests \in Nat \ {0}
  BY LogViewAssumption DEF RequestTypes, Grows
<1>2. ASSUME requests' \subseteq requests, asked' = asked, shown' \in 0..asked, overtaken' \in BOOLEAN
      PROVE  RequestTypes'
  BY <1>1, <1>2 DEF RequestTypes
<1>3. ASSUME NEW f \in Filters, NEW cursor \in Cursors \cup {None}, LoadPage(f, cursor),
             shown' = shown, overtaken' = overtaken
      PROVE  RequestTypes'
  <2>1. /\ Asking(f, cursor) \in Request /\ Asking(f, cursor).n = asked + 1
        /\ Asking(f, cursor).page = None
        /\ requests' = requests \cup {Asking(f, cursor)}
        /\ asked' = asked + 1 /\ asked' \in 1..MaxRequests
    BY <1>3, LoadFacts DEF Asking
  <2> QED
    BY <1>1, <1>3, <2>1 DEF RequestTypes
<1> USE DEF history
<1>4. ASSUME NEW kind \in Kinds, NEW ts \in 1..MaxTime, Store(kind, ts)
      PROVE  RequestTypes'
  BY <1>1, <1>2, <1>4 DEF Store
<1>5. CASE LookUp \/ Send
  BY <1>1, <1>2, <1>5 DEF LookUp, Send
<1>6. ASSUME NEW a \in {Remote[k] : k \in Kinds} \ {None}, Enrich(a) \/ Announce(a)
      PROVE  RequestTypes'
  BY <1>1, <1>2, <1>6 DEF Enrich, Announce
<1>7. CASE Deliver
  BY <1>1, <1>2, <1>7, DeliverFacts
<1>8. CASE Reconnect \/ TogglePause \/ AtRest
  BY <1>1, <1>2, <1>8 DEF Reconnect, TogglePause, AtRest, vars
<1>9. ASSUME NEW req \in requests, Read(req)
      PROVE  RequestTypes'
  <2>1. PICK page : ReadPage(req, page)
    BY <1>9, ReadFacts DEF BackendTypes
  <2>2. /\ asked' = asked /\ shown' = shown /\ overtaken' = overtaken
    BY <1>9 DEF Read
  <2>3. \A r \in requests' : r = Filled(req, page) \/ (r \in requests /\ r # req)
    BY <2>1, FilledFacts
  <2> HIDE DEF Types
  <2>4. /\ Filled(req, page) \in Request /\ Filled(req, page).n = req.n
        /\ Filled(req, page).page = page
        /\ RowIds(page.rows) \subseteq Ids /\ page.listed \subseteq Ids
    BY <2>1, FilledFacts
  <2>5. requests' \subseteq Request /\ \A r \in requests' : r.n \in 1..asked
    BY <1>1, <2>3, <2>4
  <2>6. \A q, r \in requests' : q.n = r.n => q = r
    BY <1>1, <2>3, <2>4
  <2>7. \A r \in requests' : r.page # None => /\ RowIds(r.page.rows) \subseteq Ids'
                                              /\ r.page.listed \subseteq Ids'
    BY <1>1, <2>3, <2>4
  <2> QED
    BY <1>1, <2>2, <2>5, <2>6, <2>7 DEF RequestTypes
<1>10. ASSUME NEW req \in requests, Answer(req)
       PROVE  RequestTypes'
  <2>1. /\ requests' = requests \ {req} /\ asked' = asked /\ shown' = req.n
        /\ overtaken' = (req.n < asked \/ ~req.steady \/ (overtaken /\ req.before # None))
    BY <1>10 DEF Answer
  <2>2. (req.n < asked \/ ~req.steady \/ (overtaken /\ req.before # None)) \in BOOLEAN
    BY Zenon
  <2> QED
    BY <1>1, <1>2, <2>1, <2>2
<1>11. ASSUME NEW req \in requests, AnswerFails(req)
       PROVE  RequestTypes'
  <2>1. /\ requests' = requests \ {req} /\ asked' = asked /\ shown' = 0
        /\ overtaken' = (overtaken \/ ~req.steady)
    BY <1>11 DEF AnswerFails
  <2>2. (overtaken \/ ~req.steady) \in BOOLEAN
    BY Zenon
  <2> QED
    BY <1>1, <1>2, <2>1, <2>2
<1>12. ASSUME NEW f \in Filters, SetFilter(f)
       PROVE  RequestTypes'
  BY <1>3, <1>12 DEF SetFilter
<1>13. CASE goNext \/ goPrev \/ refreshPage
  <2>1. PICK stack : Turned(stack)
    BY <1>13, TurnFacts
  <2>2. LoadPage(filter, Last(stack)) /\ shown' = shown /\ overtaken' = overtaken
    BY <2>1 DEF Turned, Walk
  <2>3. Last(stack) \in Cursors \cup {None} /\ filter \in Filters
    BY <2>1, ElementOfSeq DEF Turned, Last, ScreenTypes
  <2> QED
    BY <1>3, <2>2, <2>3
<1> QED
  BY <1>4, <1>5, <1>6, <1>7, <1>8, <1>9, <1>10, <1>11, <1>12, <1>13 DEF Next

LEMMA TypesStep ==
  ASSUME Types, [Next]_vars
  PROVE  Types' /\ Grows
<1>1. CASE Next
  <2>1. BackendTypes' /\ Grows
    BY <1>1, BackendStep DEF Types
  <2> QED
    BY <1>1, <2>1, ChannelStep, ScreenStep, RequestStep DEF Types
<1>2. CASE UNCHANGED vars
  <2> USE <1>2 DEF vars, backend, channel, screen, history
  <2>1. BackendTypes' /\ Grows
    BY StillBackend DEF Types, Grows, BackendTypes, Ids
  <2>2. ChannelTypes' /\ ScreenTypes' /\ RequestTypes'
    BY DEF Types, ChannelTypes, ScreenTypes, RequestTypes, Ids, RowIds
  <2> QED
    BY <2>1, <2>2 DEF Types
<1> QED
  BY <1>1, <1>2

LEMMA TypesInit ==
  ASSUME Init
  PROVE  Types
<1> USE DEF Init
<1>1. BackendTypes
  <2>1. [kind : Kinds, ts : 1..MaxTime, facts : {FALSE}] \subseteq Row
    BY DEF Row
  <2>2. table \in Seq(Row)
    <3>1. \A i \in 1..Len(Log) : Log[i] \in Row
      BY <2>1, LogViewAssumption, ElementOfSeq
    <3>2. Len(Log) \in Nat /\ DOMAIN Log = 1..Len(Log) /\ Log = [i \in 1..Len(Log) |-> Log[i]]
      BY LogViewAssumption, LenProperties
    <3>3. Log \in [1..Len(Log) -> Row]
      BY <3>1, <3>2
    <3> QED
      BY <3>2, <3>3
  <2> QED
    BY <2>2 DEF BackendTypes
<1>2. ChannelTypes
  BY LogViewAssumption DEF ChannelTypes
<1>3. ScreenTypes
  BY LogViewAssumption DEF ScreenTypes, RowIds
<1>4. RequestTypes
  <2>1. [n |-> 1, f |-> filter, before |-> None, page |-> None, open |-> {}, steady |-> TRUE] \in Request
    BY LogViewAssumption DEF Request
  <2> DEFINE r0 == [n |-> 1, f |-> filter, before |-> None, page |-> None, open |-> {}, steady |-> TRUE]
  <2>2. r0.n = 1 /\ r0.page = None /\ requests = {r0}
    OBVIOUS
  <2>3. r0 \in Request
    BY <2>1
  <2> HIDE DEF r0
  <2>4. 1 \in 1..MaxRequests /\ asked = 1 /\ shown = 0 /\ overtaken = FALSE
    BY LogViewAssumption
  <2> HIDE DEF Init
  <2>5. requests \subseteq Request /\ \A r \in requests : r.page = None
    BY <2>2, <2>3
  <2>6. \A r \in requests : r.n \in 1..asked
    BY <2>2, <2>4
  <2>7. \A q, r \in requests : q = r
    BY <2>2
  <2>8. overtaken \in BOOLEAN
    BY <2>4, Zenon
  <2>9. asked \in 1..MaxRequests /\ shown \in 0..asked
    BY <2>4
  <2> QED
    BY <2>5, <2>6, <2>7, <2>8, <2>9 DEF RequestTypes
<1> QED
  BY <1>1, <1>2, <1>3, <1>4 DEF Types

\* The page, the stream and the requests keep their types, and the queue its
\* bound (logs.rs, stream.rs, LogsView.tsx).
THEOREM ViewTyping == Spec => []TypeOK
<1>1. Init => Types
  BY TypesInit
<1>2. Types /\ [Next]_vars => Types'
  BY TypesStep
<1>3. Types => TypeOK
  <2> SUFFICES ASSUME Types PROVE TypeOK
    OBVIOUS
  <2>1. Addresses \subseteq Range(Remote)
    BY LogViewAssumption DEF Addresses, Range
  <2>2. \A id \in Ids : table[id].kind \in Kinds /\ table[id].facts \in BOOLEAN
    BY TableRows DEF Types, BackendTypes
  <2> QED
    BY <2>1, <2>2 DEF Types, TypeOK, BackendTypes, ChannelTypes, ScreenTypes, RequestTypes
<1> QED
  BY <1>1, <1>2, <1>3, PTL DEF Spec

-----------------------------------------------------------------------------
(* Facts reach the screen.                                                 *)

\* The row has been announced behind the first i events, or is excused.
Coming(id, i) ==
  \/ AddressOf(id) \in announcing
  \/ \E j \in DOMAIN queue : j > i /\ queue[j].what = "enriched" /\ queue[j].ip = AddressOf(id)
  \/ id \in excused

\* The rows that are still in the queue have to be told as well.
FactsInv ==
  /\ \A i \in DOMAIN rows :
       ~rows[i].facts /\ table[rows[i].id].facts => Coming(rows[i].id, 0)
  /\ \A i \in DOMAIN queue :
       queue[i].what = "row" /\ ~queue[i].facts /\ table[queue[i].id].facts
       => Coming(queue[i].id, i)

LEMMA AddressIsAnEnd ==
  ASSUME BackendTypes, NEW id \in Ids, AddressOf(id) \in Addresses
  PROVE  AddressOf(id) \in Ends(id)
<1>1. table[id].kind \in Kinds
  BY TableRows DEF BackendTypes
<1> QED
  BY <1>1, LogViewAssumption DEF AddressOf, Ends, Addresses

LEMMA SequenceDomains ==
  ASSUME Types
  PROVE  /\ Len(rows) \in Nat /\ DOMAIN rows = 1..Len(rows)
         /\ Len(queue) \in Nat /\ DOMAIN queue = 1..Len(queue)
         /\ \A i \in DOMAIN rows : rows[i] \in Shown /\ rows[i].id \in Ids
         /\ \A i \in DOMAIN queue : queue[i] \in Event
         /\ \A i \in DOMAIN queue : queue[i].what = "row" => queue[i].id \in Ids
         /\ \A i \in DOMAIN queue : queue[i].what = "enriched" => queue[i].ip \in Addresses
<1>1. rows \in Seq(Shown) /\ RowIds(rows) \subseteq Ids /\ queue \in Seq(Event)
  BY DEF Types, ScreenTypes, ChannelTypes
<1>2. /\ Len(rows) \in Nat /\ DOMAIN rows = 1..Len(rows)
      /\ Len(queue) \in Nat /\ DOMAIN queue = 1..Len(queue)
  BY <1>1, LenProperties
<1>3. /\ \A i \in DOMAIN rows : rows[i] \in Shown /\ rows[i].id \in Ids
      /\ \A i \in DOMAIN queue : queue[i] \in Event
  BY <1>1, <1>2, ElementOfSeq DEF RowIds
<1> QED
  BY <1>2, <1>3 DEF Types, ChannelTypes, Event

\* An event is added, and the oldest one may be lost.
LEMMA FactsBroadcast ==
  ASSUME Types, FactsInv, NEW e \in Event, Broadcast(e), table' = table, rows' = rows,
         e.what = "row" => e.id \in Ids,
         Overwritten \cup excused \subseteq excused',
         \A a \in announcing \ announcing' : e.what = "enriched" /\ e.ip = a,
         e.what = "row" /\ ~e.facts /\ table[e.id].facts
           => AddressOf(e.id) \in announcing' \/ e.id \in excused'
  PROVE  FactsInv'
<1>1. queue \in Seq(Event) /\ Len(queue) <= Capacity /\ lagged \in Nat
  BY DEF Types, ChannelTypes
<1>2. PICK d \in {0, 1} :
        /\ Len(queue') = Len(queue) + 1 - d
        /\ d = 1 => Len(queue) = Capacity /\ queue # <<>>
        /\ \A i \in 1..(Len(queue') - 1) : queue'[i] = queue[i + d]
  BY <1>1, BroadcastFacts
<1>3. queue' \in Seq(Event) /\ Len(queue') >= 1 /\ queue'[Len(queue')] = e
  BY <1>1, BroadcastFacts
<1>4. Len(queue') \in Nat /\ DOMAIN queue' = 1..Len(queue')
  BY <1>3, LenProperties
<1>5. ASSUME NEW id \in Ids, NEW k \in 0..(Len(queue') - 1), NEW m \in {k + d, k}, m = k + d \/ k = 0,
             Coming(id, m)
      PROVE  Coming(id, k)'
  <2>1. AddressOf(id)' = AddressOf(id)
    BY DEF AddressOf
  <2>2. CASE AddressOf(id) \in announcing
    <3>1. CASE AddressOf(id) \in announcing'
      BY <2>1, <3>1 DEF Coming
    <3>2. CASE AddressOf(id) \notin announcing'
      <4>1. e.what = "enriched" /\ e.ip = AddressOf(id)
        BY <2>2, <3>2
      <4>2. Len(queue') \in DOMAIN queue' /\ Len(queue') > k
        BY <1>3, <1>4
      <4> QED
        BY <1>3, <2>1, <4>1, <4>2 DEF Coming
    <3> QED
      BY <3>1, <3>2
  <2>3. CASE id \in excused
    BY <2>3 DEF Coming
  <2>4. ASSUME NEW j \in DOMAIN queue, j > m, queue[j].what = "enriched", queue[j].ip = AddressOf(id)
        PROVE  Coming(id, k)'
    <3>1. j \in 1..Len(queue) /\ Len(queue) \in Nat
      BY SequenceDomains
    <3>2. CASE j - d >= 1
      <4>1. j - d \in 1..(Len(queue') - 1) /\ j - d > k /\ j - d + d = j
        BY <1>2, <1>5, <2>4, <3>1, <3>2
      <4>2. queue'[j - d] = queue[j] /\ j - d \in DOMAIN queue'
        BY <1>2, <1>4, <4>1
      <4> QED
        BY <2>1, <2>4, <4>1, <4>2 DEF Coming
    <3>3. CASE ~(j - d >= 1)
      <4>1. j = 1 /\ d = 1
        BY <3>1, <3>3
      <4>2. Head(queue) = queue[1] /\ Len(queue) = Capacity
        BY <1>1, <1>2, <4>1, HeadTailProperties
      <4>3. AddressOf(id) \in Ends(id)
        BY <2>4, SequenceDomains, AddressIsAnEnd DEF Types
      <4>4. id \in Overwritten
        BY <2>4, <4>1, <4>2, <4>3 DEF Overwritten, IdsOf
      <4> QED
        BY <4>4 DEF Coming
    <3> QED
      BY <3>2, <3>3
  <2> QED
    BY <1>5, <2>2, <2>3, <2>4 DEF Coming
<1>6. ASSUME NEW i \in DOMAIN rows', ~rows'[i].facts, table'[rows'[i].id].facts
      PROVE  Coming(rows[i].id, 0)'
  <2>1. rows[i].id \in Ids /\ Coming(rows[i].id, 0)
    BY <1>6, SequenceDomains DEF FactsInv
  <2>2. 0 \in 0..(Len(queue') - 1)
    BY <1>3, <1>4
  <2>3. \A id \in Ids : Coming(id, 0) => Coming(id, 0)'
    BY <1>5, <2>2
  <2> QED
    BY <2>1, <2>3
<1>7. ASSUME NEW i \in DOMAIN queue', queue'[i].what = "row", ~queue'[i].facts,
             table'[queue'[i].id].facts
      PROVE  Coming(queue[i].id, i)'
  <2>1. CASE i = Len(queue')
    <3>1. queue'[i] = e /\ AddressOf(e.id)' = AddressOf(e.id)
      BY <1>3, <2>1 DEF AddressOf
    <3>2. AddressOf(e.id) \in announcing' \/ e.id \in excused'
      BY <1>7, <3>1
    <3>3. Coming(e.id, i)'
      BY <3>1, <3>2 DEF Coming
    <3> QED
      BY <3>1, <3>3
  <2>2. CASE i # Len(queue')
    <3>1. i \in 1..(Len(queue') - 1) /\ i + d \in DOMAIN queue /\ queue'[i] = queue[i + d]
      <4>1. Len(queue) \in Nat /\ DOMAIN queue = 1..Len(queue)
        BY <1>1, LenProperties
      <4>2. i \in 1..(Len(queue') - 1)
        BY <1>4, <2>2
      <4>3. i + d \in 1..Len(queue)
        BY <1>2, <1>4, <4>1, <4>2
      <4> QED
        BY <1>2, <4>1, <4>2, <4>3
    <3>2. queue[i + d].id \in Ids /\ Coming(queue[i + d].id, i + d)
      BY <1>7, <3>1, SequenceDomains DEF FactsInv
    <3>3. \A id \in Ids : Coming(id, i + d) => Coming(id, i)'
      BY <1>4, <1>5, <3>1
    <3> QED
      BY <3>1, <3>2, <3>3
  <2> QED
    BY <2>1, <2>2
<1> QED
  BY <1>6, <1>7 DEF FactsInv

\* Nothing happens to the events and to the rows shown.
LEMMA FactsStill ==
  ASSUME Types, FactsInv, Grows, queue' = queue, rows' = rows,
         announcing \subseteq announcing', excused \subseteq excused',
         \A id \in Ids : table'[id].facts => table[id].facts \/ AddressOf(id) \in announcing'
  PROVE  FactsInv'
<1>1. \A id \in Ids : AddressOf(id)' = AddressOf(id)
  BY DEF Grows, AddressOf
<1>2. ASSUME NEW id \in Ids, NEW i, table'[id].facts, table[id].facts => Coming(id, i)
      PROVE  Coming(id, i)'
  BY <1>1, <1>2 DEF Coming
<1>3. ASSUME NEW i \in DOMAIN rows', ~rows'[i].facts, table'[rows'[i].id].facts
      PROVE  Coming(rows[i].id, 0)'
  <2>1. rows[i].id \in Ids /\ (table[rows[i].id].facts => Coming(rows[i].id, 0))
    BY <1>3, SequenceDomains DEF FactsInv
  <2>2. Coming(rows[i].id, 0)'
    <3>1. \A id \in Ids : table'[id].facts /\ (table[id].facts => Coming(id, 0)) => Coming(id, 0)'
      BY <1>2
    <3> QED
      BY <1>3, <2>1, <3>1
  <2> QED
    BY <2>2
<1>4. ASSUME NEW i \in DOMAIN queue', queue'[i].what = "row", ~queue'[i].facts,
             table'[queue'[i].id].facts
      PROVE  Coming(queue[i].id, i)'
  <2>1. queue[i].id \in Ids /\ (table[queue[i].id].facts => Coming(queue[i].id, i))
    BY <1>4, SequenceDomains DEF FactsInv
  <2>2. \A id \in Ids : table'[id].facts /\ (table[id].facts => Coming(id, i)) => Coming(id, i)'
    BY <1>2
  <2> QED
    BY <1>4, <2>1, <2>2
<1> QED
  BY <1>3, <1>4 DEF FactsInv

\* The view handles the oldest event.
LEMMA FactsDeliver ==
  ASSUME Types, FactsInv, Deliver
  PROVE  FactsInv'
<1>1. /\ table' = table /\ announcing' = announcing /\ excused' = excused
      /\ \/ queue' = queue /\ rows' = rows
         \/ /\ queue # <<>> /\ queue' = Tail(queue)
            /\ \/ queue[1].what = "enriched" /\ Patched(queue[1].ip)
               \/ queue[1].what = "row" /\ (rows' = rows \/ Pushed(queue[1]))
  BY DeliverFacts DEF Types
<1>2. CASE queue' = queue /\ rows' = rows
  <2>1. Grows
    BY <1>1 DEF Grows, Types, BackendTypes, Ids
  <2> QED
    BY <1>1, <1>2, <2>1, FactsStill
<1>3. CASE queue # <<>> /\ queue' = Tail(queue)
  <2>1. /\ queue' \in Seq(Event) /\ Len(queue') = Len(queue) - 1 /\ Len(queue) \in Nat \ {0}
        /\ \A i \in 1..Len(queue') : queue'[i] = queue[i + 1]
    BY <1>3, TailFacts DEF Types, ChannelTypes
  <2>2. DOMAIN queue' = 1..Len(queue') /\ DOMAIN queue = 1..Len(queue) /\ 1 \in DOMAIN queue
    BY <2>1, LenProperties, SequenceDomains
  <2>3. ASSUME NEW id \in Ids, NEW k \in Nat, Coming(id, k + 1)
        PROVE  Coming(id, k)'
    <3>1. AddressOf(id)' = AddressOf(id)
      BY <1>1 DEF AddressOf
    <3>2. ASSUME NEW j \in DOMAIN queue, j > k + 1, queue[j].what = "enriched", queue[j].ip = AddressOf(id)
          PROVE  Coming(id, k)'
      <4>1. j - 1 \in DOMAIN queue' /\ j - 1 > k /\ j - 1 + 1 = j
        BY <2>1, <2>2, <3>2
      <4>2. queue'[j - 1] = queue[j]
        BY <2>1, <2>2, <4>1
      <4> QED
        BY <3>1, <3>2, <4>1, <4>2 DEF Coming
    <3> QED
      BY <1>1, <2>3, <3>1, <3>2 DEF Coming
  <2>4. ASSUME NEW id \in Ids, Coming(id, 0), queue[1].what = "enriched" => queue[1].ip # AddressOf(id)
        PROVE  Coming(id, 0)'
    <3>1. ASSUME NEW j \in DOMAIN queue, queue[j].what = "enriched", queue[j].ip = AddressOf(id)
          PROVE  Coming(id, 0 + 1)
      <4>1. j > 0 + 1
        BY <2>2, <2>4, <3>1
      <4> QED
        BY <3>1, <4>1 DEF Coming
    <3>2. Coming(id, 0 + 1)
      BY <2>4, <3>1 DEF Coming
    <3> QED
      BY <2>3, <3>2
  <2>5. ASSUME NEW i \in DOMAIN queue', queue'[i].what = "row", ~queue'[i].facts, table'[queue'[i].id].facts
        PROVE  Coming(queue[i].id, i)'
    <3>1. queue'[i] = queue[i + 1] /\ i + 1 \in DOMAIN queue /\ i \in Nat
      BY <2>1, <2>2
    <3>2. queue[i + 1].id \in Ids /\ Coming(queue[i + 1].id, i + 1)
      BY <1>1, <2>5, <3>1, SequenceDomains DEF FactsInv
    <3>3. \A id \in Ids : Coming(id, i + 1) => Coming(id, i)'
      BY <2>3, <3>1
    <3> QED
      BY <3>1, <3>2, <3>3
  <2>6. ASSUME rows' = rows, queue[1].what = "row"
        PROVE  FactsInv'
    <3>1. ASSUME NEW i \in DOMAIN rows', ~rows'[i].facts, table'[rows'[i].id].facts
          PROVE  Coming(rows[i].id, 0)'
      <4>1. rows[i].id \in Ids /\ Coming(rows[i].id, 0)
        BY <1>1, <2>6, <3>1, SequenceDomains DEF FactsInv
      <4>2. \A id \in Ids : Coming(id, 0) => Coming(id, 0)'
        BY <2>4, <2>6
      <4> QED
        BY <2>6, <4>1, <4>2
    <3> QED
      BY <2>5, <3>1 DEF FactsInv
  <2>7. ASSUME queue[1].what = "row", Pushed(queue[1])
        PROVE  FactsInv'
    <3>1. /\ rows' \in Seq(Shown) /\ Len(rows') \in 1..(Len(rows) + 1)
          /\ rows'[1] = [id |-> queue[1].id, facts |-> queue[1].facts]
          /\ \A i \in 2..Len(rows') : rows'[i] = rows[i - 1]
      BY <2>7 DEF Pushed
    <3>2. DOMAIN rows' = 1..Len(rows') /\ DOMAIN rows = 1..Len(rows) /\ Len(rows) \in Nat
      BY <3>1, LenProperties, SequenceDomains
    <3>3. ASSUME NEW i \in DOMAIN rows', ~rows'[i].facts, table'[rows'[i].id].facts
          PROVE  Coming(rows[i].id, 0)'
      <4>1. CASE i = 1
        <5>1. rows'[i].id = queue[1].id /\ rows'[i].facts = queue[1].facts
          BY <3>1, <4>1
        <5>2. queue[1].id \in Ids /\ Coming(queue[1].id, 0 + 1)
          <6>1. queue[1].id \in Ids
            BY <2>2, <2>7, SequenceDomains
          <6>2. ~queue[1].facts /\ table[queue[1].id].facts
            BY <1>1, <3>3, <5>1
          <6>3. Coming(queue[1].id, 1)
            BY <2>2, <2>7, <6>2 DEF FactsInv
          <6> QED
            BY <6>1, <6>3
        <5>3. \A id \in Ids : Coming(id, 0 + 1) => Coming(id, 0)'
          BY <2>3
        <5> QED
          BY <5>1, <5>2, <5>3
      <4>2. CASE i # 1
        <5>1. i \in 2..Len(rows') /\ i - 1 \in DOMAIN rows
          BY <3>1, <3>2, <4>2
        <5>2. rows'[i] = rows[i - 1]
          BY <3>1, <5>1
        <5>3. rows[i - 1].id \in Ids /\ Coming(rows[i - 1].id, 0)
          BY <1>1, <3>3, <5>1, <5>2, SequenceDomains DEF FactsInv
        <5>4. \A id \in Ids : Coming(id, 0) => Coming(id, 0)'
          BY <2>4, <2>7
        <5> QED
          BY <5>2, <5>3, <5>4
      <4> QED
        BY <4>1, <4>2
    <3> QED
      BY <2>5, <3>3 DEF FactsInv
  <2>8. ASSUME queue[1].what = "enriched", Patched(queue[1].ip)
        PROVE  FactsInv'
    <3>1. /\ rows' \in Seq(Shown) /\ Len(rows') = Len(rows)
          /\ \A i \in 1..Len(rows) :
               /\ rows'[i].id = rows[i].id
               /\ rows'[i].facts <=> rows[i].facts \/ queue[1].ip \in Ends(rows[i].id)
      BY <2>8 DEF Patched
    <3>2. DOMAIN rows' = 1..Len(rows') /\ DOMAIN rows = 1..Len(rows)
      BY <3>1, LenProperties, SequenceDomains
    <3>3. ASSUME NEW i \in DOMAIN rows', ~rows'[i].facts, table'[rows'[i].id].facts
          PROVE  Coming(rows[i].id, 0)'
      <4>1. /\ i \in DOMAIN rows /\ rows'[i].id = rows[i].id /\ ~rows[i].facts
            /\ queue[1].ip \notin Ends(rows[i].id) /\ rows[i].id \in Ids
        BY <3>1, <3>2, <3>3, SequenceDomains
      <4>2. Coming(rows[i].id, 0)
        BY <1>1, <3>3, <4>1 DEF FactsInv
      <4>3. queue[1].ip # AddressOf(rows[i].id)
        BY <2>2, <2>8, <4>1, SequenceDomains, AddressIsAnEnd DEF Types
      <4>4. \A id \in Ids : Coming(id, 0) /\ queue[1].ip # AddressOf(id) => Coming(id, 0)'
        BY <2>4
      <4> QED
        BY <4>1, <4>2, <4>3, <4>4
    <3> QED
      BY <2>5, <3>3 DEF FactsInv
  <2> QED
    BY <1>1, <1>3, <2>6, <2>7, <2>8, <1>2
<1> QED
  BY <1>1, <1>2, <1>3

LEMMA FactsStep ==
  ASSUME Types, FactsInv, Grows, [Next]_vars
  PROVE  FactsInv'
<1> USE DEF backend, channel, screen, history
<1>1. ASSUME queue' = queue, rows' = rows, announcing \subseteq announcing', excused \subseteq excused',
             table' = table
      PROVE  FactsInv'
  BY <1>1, FactsStill
<1>2. ASSUME NEW kind \in Kinds, NEW ts \in 1..MaxTime, Store(kind, ts)
      PROVE  FactsInv'
  <2>1. \A id \in Ids : table'[id] = table[id]
    BY <1>2, StoreGrows DEF Types
  <2> QED
    BY <1>2, <2>1, FactsStill DEF Store
<1>3. CASE LookUp
  BY <1>1, <1>3 DEF LookUp
<1>4. CASE Send
  <2>1. PICK s \in sending :
          /\ Broadcast([what |-> "row", id |-> s.id, facts |-> s.facts])
          /\ excused' = excused \cup Overwritten \cup
               {id \in {s.id} : ~s.facts /\ table[id].facts /\ AddressOf(id) \notin announcing}
          /\ table' = table /\ announcing' = announcing /\ rows' = rows
    BY <1>4 DEF Send
  <2> DEFINE e == [what |-> "row", id |-> s.id, facts |-> s.facts]
  <2>2. s.id \in Ids /\ s.id \in Nat /\ s.facts \in BOOLEAN
    BY TableRows DEF Types, BackendTypes
  <2>3. e \in Event /\ e.what = "row" /\ e.id = s.id /\ e.facts = s.facts
    BY <2>2 DEF Event
  <2> HIDE DEF e
  <2>4. Broadcast(e)
    BY <2>1 DEF e
  <2>5. ~e.facts /\ table[e.id].facts => AddressOf(e.id) \in announcing' \/ e.id \in excused'
    BY <2>1, <2>3
  <2> QED
    BY <2>1, <2>2, <2>3, <2>4, <2>5, FactsBroadcast
<1>5. ASSUME NEW a \in {Remote[k] : k \in Kinds} \ {None}, Enrich(a)
      PROVE  FactsInv'
  <2>1. \A id \in Ids : table'[id].facts => table[id].facts \/ AddressOf(id) = a
    BY <1>5, EnrichGrows DEF Types
  <2>2. /\ announcing' = announcing \cup {a} /\ queue' = queue /\ rows' = rows /\ excused' = excused
    BY <1>5 DEF Enrich
  <2> QED
    BY <2>1, <2>2, FactsStill
<1>6. ASSUME NEW a \in {Remote[k] : k \in Kinds} \ {None}, Announce(a)
      PROVE  FactsInv'
  <2> DEFINE e == [what |-> "enriched", ip |-> a]
  <2>1. /\ announcing' = announcing \ {a} /\ Broadcast(e) /\ excused' = excused \cup Overwritten
        /\ table' = table /\ rows' = rows
    BY <1>6 DEF Announce
  <2>2. e \in Event /\ e.what = "enriched" /\ e.ip = a
    BY DEF Event, Addresses
  <2> HIDE DEF e
  <2> QED
    BY <2>1, <2>2, FactsBroadcast
<1>7. CASE Deliver
  BY <1>7, FactsDeliver
<1>8. ASSUME queue' = <<>>, rows' = rows, excused' = excused \cup RowIds(rows)
      PROVE  FactsInv'
  BY <1>8 DEF FactsInv, Coming, RowIds
<1>9. CASE Reconnect
  BY <1>8, <1>9 DEF Reconnect, Subscribe
<1>10. ASSUME NEW f \in Filters, SetFilter(f)
       PROVE  FactsInv'
  BY <1>8, <1>10 DEF SetFilter, Subscribe
<1>11. CASE TogglePause \/ goNext \/ goPrev \/ refreshPage \/ AtRest \/ UNCHANGED vars
  BY <1>1, <1>11 DEF TogglePause, goNext, goPrev, refreshPage, Walk, AtRest, vars
<1>12. ASSUME NEW req \in requests, Read(req)
       PROVE  FactsInv'
  BY <1>1, <1>12 DEF Read
<1>13. ASSUME queue' = queue, announcing' = announcing, table' = table, excused \subseteq excused'
       PROVE  \A i \in DOMAIN queue' :
                queue'[i].what = "row" /\ ~queue'[i].facts /\ table'[queue'[i].id].facts
                => Coming(queue[i].id, i)'
  BY <1>13 DEF FactsInv, Coming, AddressOf
<1>14. ASSUME NEW req \in requests, Answer(req)
       PROVE  FactsInv'
  <2>1. /\ req.page # None /\ rows' = req.page.rows
        /\ excused' = excused \cup
             {r.id : r \in {s \in Range(req.page.rows) : ~s.facts /\ table[s.id].facts}}
        /\ queue' = queue /\ announcing' = announcing /\ table' = table
    BY <1>14 DEF Answer, PageShown
  <2>2. ASSUME NEW i \in DOMAIN rows', ~rows'[i].facts, table'[rows'[i].id].facts
        PROVE  Coming(rows[i].id, 0)'
    <3>1. rows'[i] \in {s \in Range(req.page.rows) : ~s.facts /\ table[s.id].facts}
      BY <2>1, <2>2 DEF Range
    <3>2. rows'[i].id \in excused'
      BY <2>1, <3>1
    <3> QED
      BY <3>2 DEF Coming
  <2> QED
    BY <1>13, <2>1, <2>2 DEF FactsInv
<1>15. ASSUME NEW req \in requests, AnswerFails(req)
       PROVE  FactsInv'
  <2>1. /\ rows' = <<>> /\ excused' = excused /\ queue' = queue /\ announcing' = announcing /\ table' = table
    BY <1>15 DEF AnswerFails
  <2> QED
    BY <1>13, <2>1 DEF FactsInv
<1> QED
  BY <1>2, <1>3, <1>4, <1>5, <1>6, <1>7, <1>9, <1>10, <1>11, <1>12, <1>14, <1>15 DEF Next

\* What the worker finds out reaches the rows on the screen, but for the rows
\* whose announcement the channel or the page has lost (LogsView.tsx:891-903,
\* stream.rs:311-323).
THEOREM FactsReachTheScreen == Spec => []FactsArrive
<1>1. Init => Types /\ FactsInv
  <2>1. Init => rows = <<>> /\ queue = <<>>
    BY DEF Init
  <2>2. rows = <<>> /\ queue = <<>> => FactsInv
    BY DEF FactsInv
  <2> QED
    BY <2>1, <2>2, TypesInit
<1>2. Types /\ FactsInv /\ [Next]_vars => (Types /\ FactsInv)'
  BY TypesStep, FactsStep
<1>3. Types /\ FactsInv => FactsArrive
  <2> SUFFICES ASSUME Types, FactsInv, NEW r \in Range(rows), ~r.facts, table[r.id].facts
               PROVE  \/ AddressOf(r.id) \in announcing
                      \/ \E i \in DOMAIN queue : /\ queue[i].what = "enriched"
                                                 /\ queue[i].ip = AddressOf(r.id)
                      \/ r.id \in excused
    BY DEF FactsArrive
  <2>1. PICK i \in DOMAIN rows : r = rows[i]
    BY DEF Range
  <2> QED
    BY <2>1 DEF FactsInv, Coming
<1> QED
  BY <1>1, <1>2, <1>3, PTL DEF Spec

-----------------------------------------------------------------------------
(* No row is shown twice.                                                  *)

\* The rows are sent in the order in which they were stored.
InOrder ==
  /\ \A i, j \in DOMAIN queue :
       i < j /\ queue[i].what = "row" /\ queue[j].what = "row" => queue[i].id < queue[j].id
  /\ \A s \in sending : \A i \in DOMAIN queue : queue[i].what = "row" => queue[i].id < s.id

\* A row that is still on its way is on the screen only if a page has brought it.
ScreenOnce == OnTheWay \cap RowIds(rows) \subseteq straddled /\ ShownOnce

PagesOnce ==
  \A r \in requests : r.page # None =>
    /\ OnTheWay \cap RowIds(r.page.rows) \subseteq r.open
    /\ Len(r.page.rows) <= PageSize
    /\ \A i, j \in DOMAIN r.page.rows : i # j => r.page.rows[i].id # r.page.rows[j].id

OnceInv == InOrder /\ ScreenOnce /\ PagesOnce

\* An event of the new queue is an old one, or the one that was sent.
LEMMA EventsAfter ==
  ASSUME Types, NEW e \in Event, Broadcast(e)
  PROVE  \E d \in {0, 1} : \A i \in DOMAIN queue' :
           \/ i = Len(queue') /\ queue'[i] = e
           \/ i < Len(queue') /\ i + d \in DOMAIN queue /\ queue'[i] = queue[i + d]
<1>1. queue \in Seq(Event) /\ Len(queue) <= Capacity /\ lagged \in Nat
  BY DEF Types, ChannelTypes
<1>2. PICK d \in {0, 1} :
        /\ Len(queue') = Len(queue) + 1 - d
        /\ \A i \in 1..(Len(queue') - 1) : queue'[i] = queue[i + d]
  BY <1>1, BroadcastFacts
<1>3. queue' \in Seq(Event) /\ queue'[Len(queue')] = e
  BY <1>1, BroadcastFacts
<1>4. /\ Len(queue') \in Nat /\ DOMAIN queue' = 1..Len(queue')
      /\ Len(queue) \in Nat /\ DOMAIN queue = 1..Len(queue)
  BY <1>3, LenProperties, SequenceDomains
<1>5. ASSUME NEW i \in DOMAIN queue', i # Len(queue')
      PROVE  i < Len(queue') /\ i + d \in DOMAIN queue /\ queue'[i] = queue[i + d]
  BY <1>2, <1>4, <1>5
<1> QED
  BY <1>3, <1>5

\* What the steps do to the events and to the rows on their way.
LEMMA OrderStep ==
  ASSUME Types, InOrder, [Next]_vars
  PROVE  /\ InOrder'
         /\ \A id \in OnTheWay' : id \in OnTheWay \/ id \notin Ids
<1> USE DEF backend, channel
<1>1. \A i \in DOMAIN queue : queue[i].what = "row" => queue[i].id \in Ids /\ queue[i].id \in OnTheWay
  BY SequenceDomains DEF OnTheWay
<1>2. \A s \in sending : s.id \in Ids /\ s.id \in OnTheWay
  BY DEF Types, BackendTypes, OnTheWay
<1>3. ASSUME sending' \subseteq sending,
             \E d \in {0, 1} : \A i \in DOMAIN queue' : /\ i + d \in DOMAIN queue
                                                        /\ queue'[i] = queue[i + d]
      PROVE  /\ InOrder'
             /\ \A id \in OnTheWay' : id \in OnTheWay
  <2>1. PICK d \in {0, 1} : \A i \in DOMAIN queue' : i + d \in DOMAIN queue /\ queue'[i] = queue[i + d]
    BY <1>3
  <2>2. /\ \A i \in DOMAIN queue' : i \in Int
        /\ \A i \in DOMAIN queue : i \in Int
    <3>1. \A i \in DOMAIN queue : i \in Int
      BY SequenceDomains
    <3>2. Types'
      BY TypesStep
    <3>3. queue' \in Seq(Event)
      BY <3>2 DEF Types, ChannelTypes
    <3>4. DOMAIN queue' = 1..Len(queue') /\ Len(queue') \in Nat
      BY <3>3, LenProperties
    <3> QED
      BY <3>1, <3>4
  <2>3. InOrder'
    <3>1. \A i, j \in DOMAIN queue' :
            i < j /\ queue'[i].what = "row" /\ queue'[j].what = "row" => queue'[i].id < queue'[j].id
      <4> SUFFICES ASSUME NEW i \in DOMAIN queue', NEW j \in DOMAIN queue',
                          i < j, queue'[i].what = "row", queue'[j].what = "row"
                   PROVE  queue'[i].id < queue'[j].id
        OBVIOUS
      <4>1. i + d \in DOMAIN queue /\ j + d \in DOMAIN queue /\ i + d < j + d
        BY <2>1, <2>2
      <4> QED
        BY <2>1, <4>1 DEF InOrder
    <3>2. \A s \in sending' : \A i \in DOMAIN queue' : queue'[i].what = "row" => queue'[i].id < s.id
      BY <1>3, <2>1 DEF InOrder
    <3> QED
      BY <3>1, <3>2 DEF InOrder
  <2>4. \A s \in sending' : s.id \in OnTheWay
    BY <1>2, <1>3
  <2>5. \A i \in DOMAIN queue' : queue'[i].what = "row" => queue'[i].id \in OnTheWay
    BY <1>1, <2>1
  <2>6. \A id \in OnTheWay' : \/ \E s \in sending' : id = s.id
                              \/ \E i \in DOMAIN queue' : queue'[i].what = "row" /\ id = queue'[i].id
    BY DEF OnTheWay
  <2>7. \A id \in OnTheWay' : id \in OnTheWay
    BY <2>4, <2>5, <2>6
  <2> QED
    BY <2>3, <2>7
<1>4. ASSUME queue' = queue, sending' = sending
      PROVE  /\ InOrder'
             /\ \A id \in OnTheWay' : id \in OnTheWay
  BY <1>4 DEF InOrder, OnTheWay
<1>5. ASSUME NEW kind \in Kinds, NEW ts \in 1..MaxTime, Store(kind, ts)
      PROVE  /\ InOrder'
             /\ \A id \in OnTheWay' : id \in OnTheWay \/ id \notin Ids
  <2>1. /\ queue' = queue
        /\ sending' = {[id |-> Len(table) + 1, read |-> FALSE, facts |-> FALSE]}
    BY <1>5 DEF Store
  <2>2. Len(table) \in Nat /\ Len(table) + 1 \notin Ids /\ \A id \in Ids : id < Len(table) + 1
    BY TableRows DEF Types, BackendTypes, Ids
  <2>3. InOrder'
    BY <1>1, <2>1, <2>2 DEF InOrder
  <2>4. OnTheWay' \subseteq OnTheWay \cup {Len(table) + 1}
    BY <2>1 DEF OnTheWay
  <2> QED
    BY <2>2, <2>3, <2>4
<1>6. CASE LookUp
  <2>1. PICK s \in sending :
          /\ sending' = {[s EXCEPT !.read = TRUE, !.facts = AddressOf(s.id) \in known]}
          /\ queue' = queue
    BY <1>6 DEF LookUp
  <2>2. s \in [id : Ids, read : BOOLEAN, facts : BOOLEAN]
    BY DEF Types, BackendTypes
  <2>3. \A x \in sending' : x.id = s.id
    BY <2>1, <2>2
  <2>4. InOrder'
    BY <2>1, <2>3 DEF InOrder
  <2>5. \A id \in OnTheWay' : id \in OnTheWay
    BY <2>1, <2>3 DEF OnTheWay
  <2> QED
    BY <2>4, <2>5
<1>7. CASE Send
  <2>1. PICK s \in sending : /\ Broadcast([what |-> "row", id |-> s.id, facts |-> s.facts])
                             /\ sending' = {}
    BY <1>7 DEF Send
  <2> DEFINE e == [what |-> "row", id |-> s.id, facts |-> s.facts]
  <2>2. s.id \in Ids /\ s.id \in Nat /\ s.facts \in BOOLEAN /\ s.id \in OnTheWay
    BY <1>2, TableRows DEF Types, BackendTypes
  <2>3. e \in Event /\ e.what = "row" /\ e.id = s.id
    BY <2>2 DEF Event
  <2> HIDE DEF e
  <2>4. PICK d \in {0, 1} : \A i \in DOMAIN queue' :
          \/ i = Len(queue') /\ queue'[i] = e
          \/ i < Len(queue') /\ i + d \in DOMAIN queue /\ queue'[i] = queue[i + d]
    BY <2>1, <2>3, EventsAfter DEF e
  <2>5. \A i \in DOMAIN queue' : i \in Int
    BY TypesStep, SequenceDomains
  <2>6. \A i \in DOMAIN queue : queue[i].what = "row" => queue[i].id < e.id
    BY <2>3 DEF InOrder
  <2>7. InOrder'
    <3>1. ASSUME NEW i \in DOMAIN queue', NEW j \in DOMAIN queue', i < j,
                 queue'[i].what = "row", queue'[j].what = "row"
          PROVE  queue'[i].id < queue'[j].id
      <4>1. i + d \in DOMAIN queue /\ queue'[i] = queue[i + d]
        BY <2>4, <2>5, <3>1
      <4>2. CASE j = Len(queue') /\ queue'[j] = e
        BY <2>6, <3>1, <4>1, <4>2
      <4>3. CASE j + d \in DOMAIN queue /\ queue'[j] = queue[j + d]
        <5>1. i + d < j + d
          BY <2>5, <3>1
        <5> QED
          BY <3>1, <4>1, <4>3, <5>1 DEF InOrder
      <4> QED
        BY <2>4, <4>2, <4>3
    <3> QED
      BY <2>1, <3>1 DEF InOrder
  <2>8. \A id \in OnTheWay' : id \in OnTheWay
    BY <1>1, <2>1, <2>2, <2>3, <2>4 DEF OnTheWay
  <2> QED
    BY <2>7, <2>8
<1>8. ASSUME NEW a \in {Remote[k] : k \in Kinds} \ {None}, Enrich(a)
      PROVE  /\ InOrder'
             /\ \A id \in OnTheWay' : id \in OnTheWay
  BY <1>4, <1>8 DEF Enrich
<1>9. ASSUME NEW a \in {Remote[k] : k \in Kinds} \ {None}, Announce(a)
      PROVE  /\ InOrder'
             /\ \A id \in OnTheWay' : id \in OnTheWay
  <2> DEFINE e == [what |-> "enriched", ip |-> a]
  <2>1. Broadcast(e) /\ sending' = sending
    BY <1>9 DEF Announce
  <2>2. e \in Event /\ e.what = "enriched"
    BY DEF Event, Addresses
  <2> HIDE DEF e
  <2>3. PICK d \in {0, 1} : \A i \in DOMAIN queue' :
          \/ i = Len(queue') /\ queue'[i] = e
          \/ i < Len(queue') /\ i + d \in DOMAIN queue /\ queue'[i] = queue[i + d]
    BY <2>1, <2>2, EventsAfter
  <2>4. \A i \in DOMAIN queue' : i \in Int
    BY TypesStep, SequenceDomains
  <2>5. \A i \in DOMAIN queue' : queue'[i].what = "row" => i + d \in DOMAIN queue /\ queue'[i] = queue[i + d]
    BY <2>2, <2>3
  <2>6. InOrder'
    <3>1. ASSUME NEW i \in DOMAIN queue', NEW j \in DOMAIN queue', i < j,
                 queue'[i].what = "row", queue'[j].what = "row"
          PROVE  queue'[i].id < queue'[j].id
      <4>1. i + d < j + d
        BY <2>4, <3>1
      <4> QED
        BY <2>5, <3>1, <4>1 DEF InOrder
    <3> QED
      BY <2>1, <2>5, <3>1 DEF InOrder
  <2>7. \A id \in OnTheWay' : id \in OnTheWay
    BY <1>1, <2>1, <2>5 DEF OnTheWay
  <2> QED
    BY <2>6, <2>7
<1>10. CASE Deliver
  <2>1. sending' = sending /\ (queue' = queue \/ (queue # <<>> /\ queue' = Tail(queue)))
    BY <1>10, DeliverFacts DEF Types
  <2>2. CASE queue' = queue
    BY <1>4, <2>1, <2>2
  <2>3. CASE queue # <<>> /\ queue' = Tail(queue)
    <3>1. /\ queue' \in Seq(Event) /\ Len(queue') = Len(queue) - 1 /\ Len(queue) \in Nat \ {0}
          /\ \A i \in 1..Len(queue') : queue'[i] = queue[i + 1]
      BY <2>3, TailFacts DEF Types, ChannelTypes
    <3>2. DOMAIN queue' = 1..Len(queue') /\ DOMAIN queue = 1..Len(queue)
      BY <3>1, LenProperties, SequenceDomains
    <3>3. \A i \in DOMAIN queue' : i + 1 \in DOMAIN queue /\ queue'[i] = queue[i + 1]
      BY <3>1, <3>2
    <3> QED
      BY <1>3, <2>1, <3>3
  <2> QED
    BY <2>1, <2>2, <2>3
<1>11. ASSUME queue' = <<>>, sending' = sending
       PROVE  /\ InOrder'
              /\ \A id \in OnTheWay' : id \in OnTheWay
  BY <1>3, <1>11
<1>12. CASE Reconnect
  BY <1>11, <1>12 DEF Reconnect, Subscribe
<1>13. ASSUME NEW f \in Filters, SetFilter(f)
       PROVE  /\ InOrder'
              /\ \A id \in OnTheWay' : id \in OnTheWay
  BY <1>11, <1>13 DEF SetFilter, Subscribe
<1>14. ASSUME NEW req \in requests, Read(req) \/ Answer(req) \/ AnswerFails(req)
       PROVE  /\ InOrder'
              /\ \A id \in OnTheWay' : id \in OnTheWay
  BY <1>4, <1>14 DEF Read, Answer, AnswerFails
<1>15. CASE TogglePause \/ goNext \/ goPrev \/ refreshPage \/ AtRest \/ UNCHANGED vars
  BY <1>4, <1>15 DEF TogglePause, goNext, goPrev, refreshPage, Walk, AtRest, vars
<1> QED
  BY <1>5, <1>6, <1>7, <1>8, <1>9, <1>10, <1>12, <1>13, <1>14, <1>15 DEF Next

\* The event that is handled is the last one of its row.
LEMMA HandledIsGone ==
  ASSUME Types, InOrder, queue # <<>>, queue' = Tail(queue), sending' = sending,
         queue[1].what = "row"
  PROVE  queue[1].id \in OnTheWay /\ queue[1].id \notin OnTheWay'
<1>1. /\ queue' \in Seq(Event) /\ Len(queue') = Len(queue) - 1 /\ Len(queue) \in Nat \ {0}
      /\ \A i \in 1..Len(queue') : queue'[i] = queue[i + 1]
  BY TailFacts DEF Types, ChannelTypes
<1>2. DOMAIN queue' = 1..Len(queue') /\ DOMAIN queue = 1..Len(queue) /\ 1 \in DOMAIN queue
  BY <1>1, LenProperties, SequenceDomains
<1>3. queue[1].id \in OnTheWay /\ queue[1].id \in Nat
  BY <1>2, SequenceDomains, TableRows DEF OnTheWay, Types, BackendTypes
<1>4. \A s \in sending' : s.id # queue[1].id
  BY <1>2, <1>3, TableRows DEF InOrder, Types, BackendTypes
<1>5. ASSUME NEW i \in DOMAIN queue', queue'[i].what = "row"
      PROVE  queue'[i].id # queue[1].id
  <2>1. i + 1 \in DOMAIN queue /\ 1 < i + 1 /\ queue'[i] = queue[i + 1]
    BY <1>1, <1>2
  <2>2. queue[1].id < queue[i + 1].id /\ queue[i + 1].id \in Nat
    BY <1>2, <1>5, <2>1, SequenceDomains, TableRows DEF InOrder, Types, BackendTypes
  <2> QED
    BY <1>3, <2>1, <2>2
<1> QED
  BY <1>3, <1>4, <1>5 DEF OnTheWay

LEMMA OnceStep ==
  ASSUME Types, OnceInv, [Next]_vars
  PROVE  OnceInv'
<1> USE DEF screen, history
<1>1. InOrder' /\ \A id \in OnTheWay' : id \in OnTheWay \/ id \notin Ids
  BY OrderStep DEF OnceInv
<1> SUFFICES ScreenOnce' /\ PagesOnce'
  BY <1>1 DEF OnceInv
<1>2. RowIds(rows) \subseteq Ids /\ rows \in Seq(Shown) /\ ScreenOnce /\ PagesOnce
  BY DEF Types, ScreenTypes, OnceInv
<1>3. ASSUME rows' = rows, straddled \subseteq straddled'
      PROVE  ScreenOnce'
  <2>1. RowIds(rows)' = RowIds(rows)
    BY <1>3 DEF RowIds
  <2> QED
    BY <1>1, <1>2, <1>3, <2>1 DEF ScreenOnce, ShownOnce
<1>4. ASSUME \A r \in requests' : r \in requests \/ r.page = None
      PROVE  PagesOnce'
  <2>1. SUFFICES ASSUME NEW r \in requests', r.page # None
                 PROVE  /\ OnTheWay' \cap RowIds(r.page.rows) \subseteq r.open
                        /\ Len(r.page.rows) <= PageSize
                        /\ \A i, j \in DOMAIN r.page.rows :
                             i # j => r.page.rows[i].id # r.page.rows[j].id
    BY DEF PagesOnce, RowIds
  <2>2. r \in requests
    BY <1>4, <2>1
  <2>3. RowIds(r.page.rows) \subseteq Ids
    BY <2>1, <2>2, PageTypes DEF Types
  <2> QED
    BY <1>1, <1>2, <2>1, <2>2, <2>3 DEF PagesOnce
<1>5. ASSUME NEW kind \in Kinds, NEW ts \in 1..MaxTime, Store(kind, ts)
      PROVE  ScreenOnce' /\ PagesOnce'
  BY <1>3, <1>4, <1>5 DEF Store
<1>6. CASE LookUp \/ Send
  BY <1>3, <1>4, <1>6 DEF LookUp, Send
<1>7. ASSUME NEW a \in {Remote[k] : k \in Kinds} \ {None}, Enrich(a) \/ Announce(a)
      PROVE  ScreenOnce' /\ PagesOnce'
  BY <1>3, <1>4, <1>7 DEF Enrich, Announce
<1>8. CASE Deliver
  <2>1. /\ requests' = requests /\ straddled' = straddled /\ sending' = sending
        /\ \/ rows' = rows
           \/ /\ queue # <<>> /\ queue' = Tail(queue)
              /\ \/ Patched(queue[1].ip)
                 \/ queue[1].what = "row" /\ (rows' = rows \/ Pushed(queue[1]))
    BY <1>8, DeliverFacts DEF Types
  <2>2. DOMAIN rows = 1..Len(rows) /\ Len(rows) \in Nat
    BY SequenceDomains
  <2>3. CASE rows' = rows
    BY <1>3, <1>4, <2>1, <2>3
  <2>4. ASSUME Patched(queue[1].ip)
        PROVE  ScreenOnce'
    <3>1. /\ rows' \in Seq(Shown) /\ Len(rows') = Len(rows)
          /\ \A i \in 1..Len(rows) : rows'[i].id = rows[i].id
      BY <2>4 DEF Patched
    <3>2. DOMAIN rows' = 1..Len(rows')
      BY <3>1, LenProperties
    <3>3. RowIds(rows)' = RowIds(rows)
      BY <2>2, <3>1, <3>2 DEF RowIds
    <3>4. Len(rows) <= PageSize /\ \A i, j \in DOMAIN rows :
            i # j /\ rows[i].id = rows[j].id => rows[i].id \in straddled
      BY <1>2 DEF ScreenOnce, ShownOnce
    <3>5. ShownOnce'
      BY <2>1, <2>2, <3>1, <3>2, <3>4 DEF ShownOnce
    <3> QED
      BY <1>1, <1>2, <2>1, <3>3, <3>5 DEF ScreenOnce
  <2>5. ASSUME queue # <<>>, queue' = Tail(queue), queue[1].what = "row", Pushed(queue[1])
        PROVE  ScreenOnce'
    <3> DEFINE e == queue[1]
    <3>1. /\ rows' \in Seq(Shown) /\ Len(rows') \in 1..(Len(rows) + 1) /\ Len(rows') <= PageSize
          /\ rows'[1].id = e.id
          /\ \A i \in 2..Len(rows') : rows'[i] = rows[i - 1]
      BY <2>5 DEF Pushed
    <3>2. DOMAIN rows' = 1..Len(rows')
      BY <3>1, LenProperties
    <3>3. e.id \in OnTheWay /\ e.id \notin OnTheWay'
      BY <2>1, <2>5, HandledIsGone DEF OnceInv
    <3> HIDE DEF e
    <3>4. ASSUME NEW i \in DOMAIN rows', i # 1
          PROVE  i - 1 \in DOMAIN rows /\ rows'[i] = rows[i - 1] /\ rows'[i].id \in RowIds(rows)
      <4>1. i \in 2..Len(rows') /\ i - 1 \in DOMAIN rows
        BY <2>2, <3>1, <3>2, <3>4
      <4> QED
        BY <3>1, <4>1 DEF RowIds
    <3>5. RowIds(rows)' \subseteq RowIds(rows) \cup {e.id}
      BY <3>1, <3>4 DEF RowIds
    <3>6. OnTheWay' \cap RowIds(rows)' \subseteq straddled'
      BY <1>1, <1>2, <2>1, <3>3, <3>5 DEF ScreenOnce
    <3>7. ASSUME NEW i \in DOMAIN rows', NEW j \in DOMAIN rows', i # j, rows'[i].id = rows'[j].id
          PROVE  rows'[i].id \in straddled'
      <4>1. CASE i = 1 \/ j = 1
        <5>1. e.id \in RowIds(rows) /\ rows'[i].id = e.id
          BY <3>1, <3>4, <3>7, <4>1
        <5> QED
          BY <1>2, <2>1, <3>3, <5>1 DEF ScreenOnce
      <4>2. CASE i # 1 /\ j # 1
        <5>1. /\ i - 1 \in DOMAIN rows /\ rows'[i] = rows[i - 1]
              /\ j - 1 \in DOMAIN rows /\ rows'[j] = rows[j - 1]
          BY <3>4, <4>2
        <5>2. i - 1 # j - 1
          BY <3>2, <3>7
        <5> QED
          BY <1>2, <2>1, <3>7, <5>1, <5>2 DEF ScreenOnce, ShownOnce
      <4> QED
        BY <4>1, <4>2
    <3> QED
      BY <3>1, <3>6, <3>7 DEF ScreenOnce, ShownOnce
  <2> QED
    BY <1>4, <2>1, <2>3, <2>4, <2>5
<1>9. CASE Reconnect \/ TogglePause \/ AtRest \/ UNCHANGED vars
  BY <1>3, <1>4, <1>9 DEF Reconnect, TogglePause, AtRest, vars
<1>10. ASSUME NEW req \in requests, Read(req)
       PROVE  ScreenOnce' /\ PagesOnce'
  <2>1. PICK page : ReadPage(req, page)
    BY <1>10, ReadFacts DEF Types, BackendTypes
  <2>2. rows' = rows /\ straddled' = straddled /\ queue' = queue /\ sending' = sending
    BY <1>10 DEF Read, channel
  <2>3. OnTheWay' = OnTheWay
    BY <2>2 DEF OnTheWay
  <2>4. \A r \in requests' : r = Filled(req, page) \/ r \in requests
    BY <2>1, FilledFacts
  <2>5. Filled(req, page).page = page /\ Filled(req, page).open = OnTheWay
    BY <2>1, FilledFacts
  <2>6. /\ Len(page.rows) <= PageSize
        /\ \A i, j \in DOMAIN page.rows : i # j => page.rows[i].id # page.rows[j].id
    BY <2>1 DEF ReadPage
  <2>7. PagesOnce'
    <3>1. SUFFICES ASSUME NEW r \in requests', r.page # None
                   PROVE  /\ OnTheWay' \cap RowIds(r.page.rows) \subseteq r.open
                          /\ Len(r.page.rows) <= PageSize
                          /\ \A i, j \in DOMAIN r.page.rows :
                               i # j => r.page.rows[i].id # r.page.rows[j].id
      BY DEF PagesOnce, RowIds
    <3>2. CASE r = Filled(req, page)
      BY <2>3, <2>5, <2>6, <3>2
    <3>3. CASE r \in requests
      BY <1>2, <2>3, <3>1, <3>3 DEF PagesOnce
    <3> QED
      BY <2>4, <3>2, <3>3
  <2> QED
    BY <1>3, <2>2, <2>7
<1>11. ASSUME NEW req \in requests, Answer(req)
       PROVE  ScreenOnce' /\ PagesOnce'
  <2>1. /\ req.page # None /\ rows' = req.page.rows /\ requests' = requests \ {req}
        /\ straddled' = straddled \cup req.open /\ queue' = queue /\ sending' = sending
    BY <1>11 DEF Answer, PageShown, channel
  <2>2. RowIds(rows)' = RowIds(req.page.rows) /\ OnTheWay' = OnTheWay
    BY <2>1 DEF RowIds, OnTheWay
  <2>3. /\ OnTheWay \cap RowIds(req.page.rows) \subseteq req.open
        /\ Len(req.page.rows) <= PageSize
        /\ \A i, j \in DOMAIN req.page.rows : i # j => req.page.rows[i].id # req.page.rows[j].id
    BY <1>2, <2>1 DEF PagesOnce
  <2>4. ScreenOnce'
    BY <2>1, <2>2, <2>3 DEF ScreenOnce, ShownOnce
  <2> QED
    BY <1>4, <2>1, <2>4
<1>12. ASSUME NEW req \in requests, AnswerFails(req)
       PROVE  ScreenOnce' /\ PagesOnce'
  <2>1. rows' = <<>> /\ requests' = requests \ {req}
    BY <1>12 DEF AnswerFails
  <2>2. ScreenOnce'
    BY <2>1, LogViewAssumption DEF ScreenOnce, ShownOnce, RowIds
  <2> QED
    BY <1>4, <2>1, <2>2
<1>13. ASSUME NEW f, NEW cursor, LoadPage(f, cursor), rows' = rows, straddled' = straddled
       PROVE  ScreenOnce' /\ PagesOnce'
  BY <1>3, <1>4, <1>13 DEF LoadPage
<1>14. ASSUME NEW f \in Filters, SetFilter(f)
       PROVE  ScreenOnce' /\ PagesOnce'
  BY <1>13, <1>14 DEF SetFilter
<1>15. CASE goNext \/ goPrev \/ refreshPage
  <2>1. PICK stack : Turned(stack)
    BY <1>15, TurnFacts DEF Types
  <2> QED
    BY <1>13, <2>1 DEF Turned, Walk
<1> QED
  BY <1>1, <1>5, <1>6, <1>7, <1>8, <1>9, <1>10, <1>11, <1>12, <1>14, <1>15 DEF Next

-----------------------------------------------------------------------------
(* The rows shown match the filter.                                        *)

LEMMA RowFacts ==
  ASSUME BackendTypes, NEW id \in Ids
  PROVE  /\ IsRow(RowOf(id, TRUE)) /\ RowOf(id, FALSE) = Plain(RowOf(id, TRUE))
         /\ Stored(id) = IF table[id].facts THEN RowOf(id, TRUE) ELSE RowOf(id, FALSE)
<1>1. table[id].kind \in Kinds /\ IsRow(Content[table[id].kind])
  BY TableRows, LogViewAssumption DEF BackendTypes
<1>2. \A c, ts : IsRow(c) => IsRow([c EXCEPT !.ts = ts])
  BY DEF IsRow
<1>3. RowOf(id, TRUE) = [Content[table[id].kind] EXCEPT !.ts = table[id].ts]
  BY DEF RowOf, Dressed
<1>4. RowOf(id, FALSE) = Plain(RowOf(id, TRUE))
  BY DEF RowOf, Dressed
<1>5. Stored(id) = IF table[id].facts THEN RowOf(id, TRUE) ELSE RowOf(id, FALSE)
  BY DEF Stored, RowOf, Dressed
<1>6. IsRow(RowOf(id, TRUE))
  <2>1. IsRow([Content[table[id].kind] EXCEPT !.ts = table[id].ts])
    BY <1>1, <1>2, Zenon
  <2> QED
    BY <1>3, <2>1, Zenon
<1> QED
  BY <1>4, <1>5, <1>6, Zenon

LEMMA RowStays ==
  ASSUME Grows, NEW id \in Ids
  PROVE  /\ \A b : RowOf(id, b)' = RowOf(id, b)
         /\ Key(id)' = Key(id) /\ AddressOf(id)' = AddressOf(id)
         /\ table'[id].facts = table[id].facts => Stored(id)' = Stored(id)
BY DEF Grows, RowOf, Key, AddressOf, Stored

LEMMA KeepsTerms ==
  ASSUME NEW f, KeepsMatching(f)
  PROVE  /\ f.from = None /\ f.to = None
         /\ \A t \in parse_search(f.q) : Spoken(t) /\ Lasting(t)
BY DEF KeepsMatching, Spoken, Lasting

\* What the page lists it lists with the facts as well.
LEMMA ListedStays ==
  ASSUME BackendTypes, NEW id \in Ids, NEW f, IsFilter(f), KeepsMatching(f), Lists(Stored(id), f)
  PROVE  Lists(RowOf(id, TRUE), f)
BY RowFacts, KeepsTerms, PlainListedStays

\* And so does what the stream lets through.
LEMMA PassStays ==
  ASSUME BackendTypes, NEW id \in Ids, NEW b \in BOOLEAN, NEW f, IsFilter(f), KeepsMatching(f),
         matches_live(RowOf(id, b), f) = "Pass"
  PROVE  Lists(RowOf(id, TRUE), f) \/ FoundByStreamOnly(RowOf(id, TRUE), f.q)
<1>1. IsRow(RowOf(id, TRUE)) /\ RowOf(id, FALSE) = Plain(RowOf(id, TRUE))
  BY RowFacts
<1>2. CASE b
  BY <1>1, <1>2, KeepsTerms, LivePassListed
<1>3. CASE ~b
  <2>1. RowOf(id, b) = Plain(RowOf(id, TRUE)) /\ IsRow(Plain(RowOf(id, TRUE)))
    BY <1>1, <1>3, PlainRow
  <2>2. SUFFICES ASSUME ~FoundByStreamOnly(RowOf(id, TRUE), f.q)
                 PROVE  Lists(RowOf(id, TRUE), f)
    OBVIOUS
  <2>3. Lists(Plain(RowOf(id, TRUE)), f)
    BY <1>1, <2>1, <2>2, KeepsTerms, SameStreamOnly, LivePassListed
  <2> QED
    BY <1>1, <2>3, KeepsTerms, PlainListedStays
<1> QED
  BY <1>2, <1>3

Latest(r) == r.n = asked

\* The rows of a page match the filter it was asked for, and the latest
\* request asks for the current one.
FilterInv ==
  /\ \A r \in requests : Latest(r) => r.f = filter
  /\ \A r \in requests : r.page # None /\ KeepsMatching(Setting[r.f]) =>
       \A i \in DOMAIN r.page.rows : Lists(RowOf(r.page.rows[i].id, TRUE), Setting[r.f])
  /\ ScreenFollowsFilter

Matches(id) ==
  LET f == Setting[filter]
  IN Lists(RowOf(id, TRUE), f) \/ FoundByStreamOnly(RowOf(id, TRUE), f.q)

LEMMA FilterStep ==
  ASSUME Types, FilterInv, Grows, [Next]_vars
  PROVE  FilterInv'
<1> USE DEF screen, history
<1>1. \A id \in Ids : \A b : RowOf(id, b)' = RowOf(id, b)
  BY RowStays
<1>2. /\ \A r \in requests : r.n \in 1..asked /\ r.f \in Filters
      /\ asked \in Nat \ {0} /\ shown \in 0..asked /\ filter \in Filters
      /\ \A f \in Filters : IsFilter(Setting[f])
      /\ query = filter
  BY LogViewAssumption DEF Types, RequestTypes, ScreenTypes, ChannelTypes, Request
<1>3. /\ \A r \in requests : r.n = asked => r.f = filter
      /\ \A r \in requests : r.page # None /\ KeepsMatching(Setting[r.f]) =>
           \A i \in DOMAIN r.page.rows : Lists(RowOf(r.page.rows[i].id, TRUE), Setting[r.f])
  BY DEF FilterInv, Latest
<1>4. shown = asked /\ KeepsMatching(Setting[filter]) => \A i \in DOMAIN rows : Matches(rows[i].id)
  BY DEF FilterInv, ScreenFollowsFilter, Settled, Matches, Range
<1>5. \A id \in Ids : filter' = filter /\ Matches(id) => Matches(id)'
  BY <1>1 DEF Matches
<1> DEFINE Asks == \A r \in requests' : r.n = asked' => r.f = filter'
           Reads == \A r \in requests' : r.page # None /\ KeepsMatching(Setting[r.f]) =>
                      \A i \in DOMAIN r.page.rows : Lists(RowOf(r.page.rows[i].id, TRUE), Setting[r.f])'
           Shows == shown' = asked' /\ KeepsMatching(Setting[filter'])
                      => \A i \in DOMAIN rows' : Matches(rows[i].id)'
<1>6. SUFFICES Asks /\ Reads /\ Shows
  <2>1. ScreenFollowsFilter' <=> Shows
    BY DEF ScreenFollowsFilter, Settled, Matches, Range
  <2> QED
    BY <2>1 DEF FilterInv, Latest
<1>7. ASSUME \A r \in requests' : r \in requests \/ r.page = None
      PROVE  Reads
  <2>1. SUFFICES ASSUME NEW r \in requests', r.page # None, KeepsMatching(Setting[r.f]),
                        NEW i \in DOMAIN r.page.rows
                 PROVE  Lists(RowOf(r.page.rows[i].id, TRUE), Setting[r.f])'
    OBVIOUS
  <2>2. r \in requests
    BY <1>7, <2>1
  <2>3. r.page.rows[i].id \in Ids
    BY <2>1, <2>2, PageTypes DEF Types, RowIds
  <2>4. RowOf(r.page.rows[i].id, TRUE)' = RowOf(r.page.rows[i].id, TRUE)
    BY <1>1, <2>3
  <2>5. Lists(RowOf(r.page.rows[i].id, TRUE), Setting[r.f])
    BY <1>3, <2>1, <2>2
  <2> QED
    BY <2>4, <2>5
<1>8. ASSUME rows' = rows, shown' = shown, asked' = asked, filter' = filter
      PROVE  Shows
  BY <1>4, <1>5, <1>8, SequenceDomains
<1>9. ASSUME requests' \subseteq requests, rows' = rows, shown' = shown, asked' = asked, filter' = filter
      PROVE  Asks /\ Reads /\ Shows
  <2>1. Asks
    BY <1>3, <1>9
  <2>2. Reads
    BY <1>7, <1>9
  <2> QED
    BY <1>8, <1>9, <2>1, <2>2
<1>10. ASSUME NEW f, NEW cursor, LoadPage(f, cursor), filter' = f, shown' = shown
       PROVE  Asks /\ Reads /\ Shows
  <2>1. /\ requests' = requests \cup {Asking(f, cursor)} /\ asked' = asked + 1
        /\ Asking(f, cursor).f = f /\ Asking(f, cursor).page = None
    BY <1>10 DEF LoadPage, Asking
  <2>2. Asks
    BY <1>2, <1>10, <2>1
  <2>3. Reads
    BY <1>7, <2>1
  <2>4. Shows
    BY <1>2, <1>10, <2>1
  <2> QED
    BY <2>2, <2>3, <2>4
<1>11. ASSUME NEW kind \in Kinds, NEW ts \in 1..MaxTime, Store(kind, ts)
       PROVE  Asks /\ Reads /\ Shows
  BY <1>9, <1>11 DEF Store
<1>12. CASE LookUp \/ Send
  BY <1>9, <1>12 DEF LookUp, Send
<1>13. ASSUME NEW a \in {Remote[k] : k \in Kinds} \ {None}, Enrich(a) \/ Announce(a)
       PROVE  Asks /\ Reads /\ Shows
  BY <1>9, <1>13 DEF Enrich, Announce
<1>14. CASE Reconnect \/ TogglePause \/ AtRest \/ UNCHANGED vars
  BY <1>9, <1>14 DEF Reconnect, TogglePause, AtRest, vars
<1>15. CASE Deliver
  <2>1. /\ requests' = requests /\ shown' = shown /\ asked' = asked /\ filter' = filter
        /\ \/ rows' = rows
           \/ Patched(queue[1].ip)
           \/ /\ queue # <<>> /\ queue[1].what = "row"
              /\ matches_live(RowOf(queue[1].id, queue[1].facts), Setting[query]) = "Pass"
              /\ Pushed(queue[1])
    BY <1>15, DeliverFacts DEF Types
  <2>2. Asks /\ Reads
    BY <1>3, <1>7, <2>1
  <2>3. CASE rows' = rows
    BY <1>8, <2>1, <2>2, <2>3
  <2>4. DOMAIN rows = 1..Len(rows) /\ Len(rows) \in Nat /\ \A i \in DOMAIN rows : rows[i].id \in Ids
    BY SequenceDomains
  <2>5. ASSUME Patched(queue[1].ip)
        PROVE  Shows
    <3>1. /\ rows' \in Seq(Shown) /\ Len(rows') = Len(rows)
          /\ \A i \in 1..Len(rows) : rows'[i].id = rows[i].id
      BY <2>5 DEF Patched
    <3>2. DOMAIN rows' = 1..Len(rows')
      BY <3>1, LenProperties
    <3>3. SUFFICES ASSUME shown' = asked', KeepsMatching(Setting[filter']), NEW i \in DOMAIN rows'
                   PROVE  Matches(rows[i].id)'
      OBVIOUS
    <3>4. rows'[i].id = rows[i].id /\ rows[i].id \in Ids /\ Matches(rows[i].id)
      BY <1>4, <2>1, <2>4, <3>1, <3>2, <3>3
    <3> QED
      BY <1>5, <2>1, <3>4
  <2>6. ASSUME queue # <<>>, queue[1].what = "row", Pushed(queue[1]),
               matches_live(RowOf(queue[1].id, queue[1].facts), Setting[query]) = "Pass"
        PROVE  Shows
    <3>1. /\ rows' \in Seq(Shown) /\ Len(rows') \in 1..(Len(rows) + 1)
          /\ rows'[1].id = queue[1].id
          /\ \A i \in 2..Len(rows') : rows'[i] = rows[i - 1]
      BY <2>6 DEF Pushed
    <3>2. DOMAIN rows' = 1..Len(rows')
      BY <3>1, LenProperties
    <3>3. SUFFICES ASSUME shown' = asked', KeepsMatching(Setting[filter']), NEW i \in DOMAIN rows'
                   PROVE  Matches(rows[i].id)'
      OBVIOUS
    <3>4. CASE i = 1
      <4>1. 1 \in DOMAIN queue
        BY <2>6, SequenceDomains, EmptySeq DEF Types, ChannelTypes
      <4>2. queue[1].id \in Ids /\ queue[1].facts \in BOOLEAN
        BY <2>6, <4>1, SequenceDomains DEF Event
      <4>3. Matches(queue[1].id)
        BY <1>2, <2>1, <2>6, <3>3, <4>2, PassStays DEF Matches, Types
      <4> QED
        BY <1>5, <2>1, <3>1, <3>4, <4>2, <4>3
    <3>5. CASE i # 1
      <4>1. i \in 2..Len(rows') /\ i - 1 \in DOMAIN rows
        BY <2>4, <3>1, <3>2, <3>5
      <4>2. rows'[i] = rows[i - 1] /\ rows[i - 1].id \in Ids /\ Matches(rows[i - 1].id)
        BY <1>4, <2>1, <2>4, <3>1, <3>3, <4>1
      <4> QED
        BY <1>5, <2>1, <4>2
    <3> QED
      BY <3>4, <3>5
  <2> QED
    BY <2>1, <2>2, <2>3, <2>5, <2>6
<1>16. ASSUME NEW req \in requests, Read(req)
       PROVE  Asks /\ Reads /\ Shows
  <2>1. PICK page : ReadPage(req, page)
    BY <1>16, ReadFacts DEF Types, BackendTypes
  <2>2. /\ rows' = rows /\ shown' = shown /\ asked' = asked /\ filter' = filter /\ table' = table
    BY <1>16 DEF Read, backend
  <2>3. \A r \in requests' : r = Filled(req, page) \/ r \in requests
    BY <2>1, FilledFacts
  <2>4. /\ Filled(req, page).page = page /\ Filled(req, page).n = req.n
        /\ Filled(req, page).f = req.f
    BY <2>1, FilledFacts
  <2>5. Asks
    BY <1>3, <2>2, <2>3, <2>4
  <2>6. Reads
    <3>1. SUFFICES ASSUME NEW r \in requests', r.page # None, KeepsMatching(Setting[r.f]),
                          NEW i \in DOMAIN r.page.rows
                   PROVE  Lists(RowOf(r.page.rows[i].id, TRUE), Setting[r.f])
      BY <2>2 DEF RowOf
    <3>2. CASE r \in requests
      BY <1>3, <3>1, <3>2
    <3>3. CASE r = Filled(req, page)
      <4>1. /\ page.rows[i].id \in Ids /\ Lists(Stored(page.rows[i].id), Setting[req.f])
        BY <2>1, <2>4, <3>1, <3>3 DEF ReadPage, ListedRows
      <4>2. IsFilter(Setting[req.f]) /\ KeepsMatching(Setting[req.f])
        BY <1>2, <2>4, <3>1, <3>3
      <4> QED
        BY <2>4, <3>3, <4>1, <4>2, ListedStays DEF Types
    <3> QED
      BY <2>3, <3>2, <3>3
  <2> QED
    BY <1>8, <2>2, <2>5, <2>6
<1>17. ASSUME NEW req \in requests, Answer(req)
       PROVE  Asks /\ Reads /\ Shows
  <2>1. /\ req.page # None /\ rows' = req.page.rows /\ requests' = requests \ {req}
        /\ shown' = req.n /\ asked' = asked /\ filter' = filter /\ table' = table
    BY <1>17 DEF Answer, PageShown, backend
  <2>2. Asks
    BY <1>3, <2>1
  <2>3. Reads
    BY <1>7, <2>1
  <2>4. Shows
    <3>1. SUFFICES ASSUME shown' = asked', KeepsMatching(Setting[filter']), NEW i \in DOMAIN rows'
                   PROVE  Matches(rows[i].id)'
      OBVIOUS
    <3>2. req.f = filter
      BY <1>3, <2>1, <3>1
    <3>3. rows'[i].id = req.page.rows[i].id /\ req.page.rows[i].id \in Ids
      BY <2>1, <3>1, PageTypes DEF Types, RowIds
    <3>4. Matches(req.page.rows[i].id)
      BY <1>3, <2>1, <3>1, <3>2 DEF Matches
    <3> QED
      BY <1>5, <2>1, <3>3, <3>4
  <2> QED
    BY <2>2, <2>3, <2>4
<1>18. ASSUME NEW req \in requests, AnswerFails(req)
       PROVE  Asks /\ Reads /\ Shows
  <2>1. /\ rows' = <<>> /\ requests' = requests \ {req} /\ asked' = asked /\ filter' = filter
    BY <1>18 DEF AnswerFails
  <2>2. Asks
    BY <1>3, <2>1
  <2>3. Reads
    BY <1>7, <2>1
  <2>4. Shows
    BY <2>1
  <2> QED
    BY <2>2, <2>3, <2>4
<1>19. ASSUME NEW f \in Filters, SetFilter(f)
       PROVE  Asks /\ Reads /\ Shows
  BY <1>10, <1>19 DEF SetFilter
<1>20. CASE goNext \/ goPrev \/ refreshPage
  <2>1. PICK stack : Turned(stack)
    BY <1>20, TurnFacts DEF Types
  <2>2. LoadPage(filter, Last(stack)) /\ filter' = filter /\ shown' = shown
    BY <2>1 DEF Turned, Walk
  <2> QED
    BY <1>10, <2>2
<1> HIDE DEF Asks, Reads, Shows
<1> QED
  BY <1>11, <1>12, <1>13, <1>14, <1>15, <1>16, <1>17, <1>18, <1>19, <1>20 DEF Next

\* What is on the screen is one page of the current filter, every row once,
\* whatever the order of answers, events and enrichments (LogsView.tsx:862-906).
THEOREM ScreenStaysSound == Spec => []ScreenIsSound
<1>1. Init => Types /\ OnceInv /\ FilterInv
  <2>1. Init => /\ rows = <<>> /\ queue = <<>> /\ sending = {} /\ shown = 0 /\ asked = 1
                /\ \A r \in requests : r.page = None /\ r.f = filter
    BY DEF Init
  <2>2. rows = <<>> /\ queue = <<>> /\ sending = {} /\ (\A r \in requests : r.page = None) => OnceInv
    BY LogViewAssumption DEF OnceInv, InOrder, ScreenOnce, ShownOnce, PagesOnce, OnTheWay, RowIds
  <2>3. shown = 0 /\ asked = 1 /\ (\A r \in requests : r.page = None /\ r.f = filter) => FilterInv
    <3>1. shown = 0 /\ asked = 1 => ScreenFollowsFilter
      BY DEF ScreenFollowsFilter, Settled
    <3> QED
      BY <3>1 DEF FilterInv
  <2> QED
    BY <2>1, <2>2, <2>3, TypesInit
<1>2. Types /\ OnceInv /\ FilterInv /\ [Next]_vars => (Types /\ OnceInv /\ FilterInv)'
  BY TypesStep, OnceStep, FilterStep
<1>3. OnceInv /\ FilterInv => ScreenIsSound
  BY DEF OnceInv, ScreenOnce, FilterInv, ScreenIsSound
<1> QED
  BY <1>1, <1>2, <1>3, PTL DEF Spec

-----------------------------------------------------------------------------
(* A walk to older pages leaves no gap.                                    *)

StillListed(id) == Lists(Stored(id), Setting[filter])

\* A row of the walk that has no facts yet is still listed: so one that is
\* listed now has been all the time.
BaseKept == \A id \in base : ~table[id].facts => StillListed(id)

\* What is listed down to the cursor has been shown.
WalkedTo(cursor) ==
  \A id \in base : StillListed(id) /\ (cursor # None => ~Before(Key(id), cursor)) => id \in walked

\* The latest request asks for the page on top of the stack, and alone if it
\* continues the walk.
AsksForTop == \A r \in requests : Latest(r) => r.f = filter /\ r.before = Last(beforeStack)
AsksAlone  == \A r \in requests : Latest(r) /\ r.steady /\ r.before # None => requests = {r}

\* The cursors one can go back to, and the one to go on from.
StackWalked ==
  ~overtaken /\ Len(beforeStack) > 1 /\ (\A r \in requests : Latest(r) => r.steady)
  => BaseKept /\ \A k \in 2..Len(beforeStack) : WalkedTo(beforeStack[k])

ScreenWalked == ~overtaken /\ shown = asked => BaseKept /\ WalkedTo(nextCursor)

CursorIsOfLatest ==
  /\ \A r \in requests : r.n # shown
  /\ ~overtaken /\ nextCursor # None => shown = asked \/ \E r \in requests : Latest(r)

\* A page that has been read: it holds what was listed between its two
\* cursors, and the rows of the walk that still are.
PagesListed ==
  \A r \in requests : r.page # None =>
    /\ \A id \in r.page.listed : ~table[id].facts => Lists(Stored(id), Setting[r.f])
    /\ \A id \in r.page.listed :
         /\ r.before = None \/ Before(Key(id), r.before)
         /\ r.page.next = None \/ ~Before(Key(id), r.page.next)
         => id \in RowIds(r.page.rows)
    /\ Latest(r) /\ r.steady /\ r.before # None /\ ~overtaken
       => \A id \in base : StillListed(id) => id \in r.page.listed

WalkInv ==
  AsksForTop /\ AsksAlone /\ StackWalked /\ ScreenWalked /\ CursorIsOfLatest /\ PagesListed

LEMMA GrownRows ==
  ASSUME BackendTypes, Grows, NEW id \in Ids
  PROVE  /\ table[id].facts \in BOOLEAN /\ table'[id].facts \in BOOLEAN
         /\ table[id].facts => table'[id].facts
         /\ Key(id)' = Key(id)
         /\ table'[id].facts = table[id].facts => Stored(id)' = Stored(id)
<1>1. table[id].facts \in BOOLEAN
  BY TableRows DEF BackendTypes
<1>2. table'[id].facts \in BOOLEAN
  <2>1. table' \in Seq(Row) /\ id \in 1..Len(table')
    BY DEF Grows, Ids
  <2>2. table'[id] \in Row
    BY <2>1, ElementOfSeq
  <2> QED
    BY <2>2 DEF Row
<1>3. table[id].facts => table'[id].facts
  BY DEF Grows
<1> QED
  BY <1>1, <1>2, <1>3, RowStays

\* The table grows under a walk.
LEMMA WalkGrows ==
  ASSUME Types, Types', Grows, filter' = filter, base' = base, walked \subseteq walked', BaseKept
  PROVE  /\ BaseKept'
         /\ \A cursor : WalkedTo(cursor) => WalkedTo(cursor)'
         /\ \A id \in base : StillListed(id)' => StillListed(id)
<1>1. base \subseteq Ids
  BY DEF Types, ScreenTypes
<1>2. ASSUME NEW id \in base
      PROVE  /\ Key(id)' = Key(id)
             /\ ~table'[id].facts => StillListed(id)'
             /\ StillListed(id)' => StillListed(id)
  <2>1. /\ id \in Ids /\ table[id].facts \in BOOLEAN /\ table'[id].facts \in BOOLEAN
        /\ table[id].facts => table'[id].facts
        /\ Key(id)' = Key(id)
        /\ table'[id].facts = table[id].facts => Stored(id)' = Stored(id)
    <3>1. id \in Ids
      BY <1>1
    <3> QED
      BY <3>1, GrownRows DEF Types
  <2>2. CASE table'[id].facts = table[id].facts
    <3>1. StillListed(id)' <=> StillListed(id)
      BY <2>1, <2>2 DEF StillListed
    <3> QED
      BY <2>1, <2>2, <3>1 DEF BaseKept
  <2>3. CASE table'[id].facts # table[id].facts
    <3>1. ~table[id].facts /\ table'[id].facts
      BY <2>1, <2>3
    <3> QED
      BY <2>1, <3>1 DEF BaseKept
  <2> QED
    BY <2>2, <2>3
<1>3. BaseKept'
  BY <1>2 DEF BaseKept
<1>4. ASSUME NEW cursor, WalkedTo(cursor)
      PROVE  WalkedTo(cursor)'
  BY <1>2, <1>4 DEF WalkedTo
<1> QED
  BY <1>2, <1>3, <1>4

\* A request that goes on with a walk finds it kept.
LEMMA SteadyWalk ==
  ASSUME Types, WalkInv, NEW req \in requests, Latest(req), req.steady, req.before # None, ~overtaken
  PROVE  requests = {req} /\ BaseKept /\ WalkedTo(req.before) /\ Len(beforeStack) > 1
<1>1. requests = {req} /\ req.before = Last(beforeStack)
  BY DEF WalkInv, AsksForTop, AsksAlone
<1>2. /\ Len(beforeStack) \in Nat /\ Len(beforeStack) >= 1 /\ Last(beforeStack) = beforeStack[Len(beforeStack)]
      /\ \A i \in 1..Len(beforeStack) : beforeStack[i] = None <=> i = 1
  BY LenProperties DEF Types, ScreenTypes, Last
<1>3. Len(beforeStack) > 1
  BY <1>1, <1>2
<1>4. BaseKept /\ \A k \in 2..Len(beforeStack) : WalkedTo(beforeStack[k])
  BY <1>1, <1>3 DEF WalkInv, StackWalked
<1> QED
  BY <1>1, <1>2, <1>3, <1>4

LEMMA PagesStay ==
  ASSUME Types, Types', Grows, PagesListed, NEW r \in requests, r.page # None
  PROVE  /\ \A id \in r.page.listed : ~table'[id].facts => Lists(Stored(id), Setting[r.f])'
         /\ \A id \in r.page.listed :
              /\ r.before = None \/ Before(Key(id)', r.before)
              /\ r.page.next = None \/ ~Before(Key(id)', r.page.next)
              => id \in RowIds(r.page.rows)
<1>1. r.page.listed \subseteq Ids
  BY PageTypes DEF Types
<1>2. ASSUME NEW id \in r.page.listed
      PROVE  /\ Key(id)' = Key(id)
             /\ ~table'[id].facts => ~table[id].facts /\ Stored(id)' = Stored(id)
  <2>1. id \in Ids
    BY <1>1
  <2>2. /\ table[id].facts \in BOOLEAN /\ table'[id].facts \in BOOLEAN
        /\ table[id].facts => table'[id].facts
        /\ Key(id)' = Key(id)
        /\ table'[id].facts = table[id].facts => Stored(id)' = Stored(id)
    BY <2>1, GrownRows DEF Types
  <2> QED
    BY <2>2
<1>3. \A id \in r.page.listed : ~table'[id].facts => Lists(Stored(id), Setting[r.f])'
  BY <1>2 DEF PagesListed
<1>4. \A id \in r.page.listed :
         /\ r.before = None \/ Before(Key(id)', r.before)
         /\ r.page.next = None \/ ~Before(Key(id)', r.page.next)
         => id \in RowIds(r.page.rows)
  BY <1>2 DEF PagesListed
<1> QED
  BY <1>3, <1>4

\* Rows, facts and events come and go; the view asks for nothing.
LEMMA WalkRests ==
  ASSUME Types, Types', Grows, WalkInv, requests' = requests, asked' = asked, shown' = shown,
         overtaken' = overtaken, filter' = filter, beforeStack' = beforeStack,
         nextCursor' = nextCursor, base' = base, walked \subseteq walked'
  PROVE  WalkInv'
<1>1. BaseKept => /\ BaseKept'
                  /\ \A cursor : WalkedTo(cursor) => WalkedTo(cursor)'
                  /\ \A id \in base : StillListed(id)' => StillListed(id)
  BY WalkGrows
<1>2. AsksForTop' /\ AsksAlone' /\ CursorIsOfLatest'
  BY DEF WalkInv, AsksForTop, AsksAlone, CursorIsOfLatest, Latest
<1>3. StackWalked'
  BY <1>1 DEF WalkInv, StackWalked, Latest
<1>4. ScreenWalked'
  BY <1>1 DEF WalkInv, ScreenWalked
<1>5. PagesListed'
  <2>1. SUFFICES ASSUME NEW r \in requests, r.page # None
                 PROVE  /\ \A id \in r.page.listed : ~table'[id].facts => Lists(Stored(id), Setting[r.f])'
                        /\ \A id \in r.page.listed :
                             /\ r.before = None \/ Before(Key(id)', r.before)
                             /\ r.page.next = None \/ ~Before(Key(id)', r.page.next)
                             => id \in RowIds(r.page.rows)
                        /\ r.n = asked' /\ r.steady /\ r.before # None /\ ~overtaken'
                           => \A id \in base' : StillListed(id)' => id \in r.page.listed
    BY DEF PagesListed, Latest, RowIds
  <2>2. ASSUME r.n = asked', r.steady, r.before # None, ~overtaken',
               NEW id \in base', StillListed(id)'
        PROVE  id \in r.page.listed
    <3>1. Latest(r) /\ ~overtaken /\ id \in base
      BY <2>2 DEF Latest
    <3>2. BaseKept
      BY <2>2, <3>1, SteadyWalk
    <3>3. StillListed(id)
      BY <1>1, <2>2, <3>1, <3>2
    <3> QED
      BY <2>1, <2>2, <3>1, <3>3 DEF WalkInv, PagesListed
  <2> QED
    BY <2>1, <2>2, PagesStay DEF WalkInv
<1> QED
  BY <1>2, <1>3, <1>4, <1>5 DEF WalkInv

\* A page is asked for.
LEMMA WalkAsks ==
  ASSUME Types, Types', Grows, WalkInv, NEW f \in Filters, NEW cursor \in Cursors \cup {None},
         LoadPage(f, cursor), table' = table, filter' = f, cursor = Last(beforeStack'),
         overtaken' = overtaken, shown' = shown, nextCursor' = nextCursor,
         StackWalked'
  PROVE  WalkInv'
<1>1. /\ requests' = requests \cup {Asking(f, cursor)} /\ asked' = asked + 1
      /\ Asking(f, cursor).n = asked + 1 /\ Asking(f, cursor).f = f
      /\ Asking(f, cursor).before = cursor /\ Asking(f, cursor).page = None
      /\ Asking(f, cursor).steady <=> cursor = None \/ requests = {}
  BY DEF LoadPage, Asking
<1>2. /\ \A r \in requests : r.n \in 1..asked
      /\ asked \in Nat /\ shown \in 0..asked
  BY DEF Types, RequestTypes
<1>3. \A r \in requests' : r.n = asked' => r = Asking(f, cursor)
  BY <1>1, <1>2
<1>4. AsksForTop'
  BY <1>1, <1>3 DEF AsksForTop, Latest
<1>5. AsksAlone'
  BY <1>1, <1>3 DEF AsksAlone, Latest
<1>6. ScreenWalked'
  BY <1>1, <1>2 DEF ScreenWalked
<1>7. CursorIsOfLatest'
  <2>1. \A r \in requests' : r.n # shown'
    BY <1>1, <1>2 DEF WalkInv, CursorIsOfLatest
  <2>2. \E r \in requests' : r.n = asked'
    BY <1>1
  <2> QED
    BY <2>1, <2>2 DEF CursorIsOfLatest, Latest
<1>8. PagesListed'
  <2>1. SUFFICES ASSUME NEW r \in requests', r.page # None
                 PROVE  /\ \A id \in r.page.listed : ~table'[id].facts => Lists(Stored(id), Setting[r.f])'
                        /\ \A id \in r.page.listed :
                             /\ r.before = None \/ Before(Key(id)', r.before)
                             /\ r.page.next = None \/ ~Before(Key(id)', r.page.next)
                             => id \in RowIds(r.page.rows)
                        /\ r.n # asked'
    BY DEF PagesListed, Latest, RowIds
  <2>2. r \in requests
    BY <1>1, <2>1
  <2>3. r.n # asked'
    BY <1>1, <1>2, <2>2
  <2> QED
    BY <2>1, <2>2, <2>3, PagesStay DEF WalkInv
<1> QED
  BY <1>4, <1>5, <1>6, <1>7, <1>8 DEF WalkInv

\* The page is turned, and the walk goes on from a cursor that is good.
LEMMA WalkTurns ==
  ASSUME Types, Types', Grows, WalkInv, NEW stack, Turned(stack)
  PROVE  WalkInv'
<1>1. /\ beforeStack' = stack /\ LoadPage(filter, Last(stack)) /\ filter' = filter /\ nextCursor' = nextCursor
      /\ shown' = shown /\ base' = base /\ walked' = walked /\ overtaken' = overtaken /\ table' = table
  BY DEF Turned, Walk, history, backend
<1>2. /\ stack \in Seq(Cursors \cup {None}) /\ Len(stack) \in Nat \ {0} /\ Last(stack) = stack[Len(stack)]
      /\ stack[Len(stack)] \in Cursors \cup {None} /\ filter \in Filters
  BY ElementOfSeq DEF Turned, Last, Types, ScreenTypes
<1>3. /\ \A i \in 1..Len(stack) : stack[i] = None <=> i = 1
      /\ Len(beforeStack) \in Nat \ {0}
  BY <1>1, LenProperties DEF Types, ScreenTypes
<1>4. /\ requests' = requests \cup {Asking(filter, Last(stack))} /\ asked' = asked + 1
      /\ Asking(filter, Last(stack)).n = asked + 1
      /\ Asking(filter, Last(stack)).steady <=> Last(stack) = None \/ requests = {}
  BY <1>1 DEF LoadPage, Asking
<1>5. StackWalked'
  <2>1. SUFFICES ASSUME ~overtaken, Len(stack) > 1, \A r \in requests' : r.n = asked' => r.steady
                 PROVE  BaseKept' /\ \A k \in 2..Len(stack) : WalkedTo(stack[k])'
    BY <1>1 DEF StackWalked, Latest
  <2>2. requests = {}
    <3>1. Last(stack) # None
      BY <1>2, <1>3, <2>1
    <3> QED
      BY <1>4, <2>1, <3>1
  <2>3. Len(beforeStack) > 1 => BaseKept /\ \A k \in 2..Len(beforeStack) : WalkedTo(beforeStack[k])
    BY <2>1, <2>2 DEF WalkInv, StackWalked
  <2>4. nextCursor # None => BaseKept /\ WalkedTo(nextCursor)
    BY <2>1, <2>2 DEF WalkInv, CursorIsOfLatest, ScreenWalked
  <2>5. Len(stack) <= Len(beforeStack) \/ nextCursor # None
    BY DEF Turned
  <2>6. BaseKept
    BY <1>2, <1>3, <2>1, <2>3, <2>4, <2>5
  <2>7. ASSUME NEW k \in 2..Len(stack)
        PROVE  WalkedTo(stack[k])
    <3>1. CASE k <= Len(beforeStack)
      <4>1. stack[k] = beforeStack[k] /\ Len(beforeStack) > 1 /\ k \in 2..Len(beforeStack)
        BY <1>2, <1>3, <2>7, <3>1 DEF Turned
      <4> QED
        BY <2>3, <4>1
    <3>2. CASE ~(k <= Len(beforeStack))
      <4>1. stack[k] = nextCursor /\ nextCursor # None
        BY <1>2, <1>3, <2>7, <3>2 DEF Turned
      <4> QED
        BY <2>4, <4>1
    <3> QED
      BY <3>1, <3>2
  <2>8. BaseKept' /\ \A cursor : WalkedTo(cursor) => WalkedTo(cursor)'
    BY <1>1, <2>6, WalkGrows
  <2> QED
    BY <2>7, <2>8
<1> QED
  BY <1>1, <1>2, <1>5, WalkAsks

\* The database is read for a request.
LEMMA WalkReads ==
  ASSUME Types, Types', Grows, WalkInv, NEW req \in requests, Read(req)
  PROVE  WalkInv'
<1>1. PICK page : ReadPage(req, page)
  BY ReadFacts DEF Types, BackendTypes
<1>2. /\ asked' = asked /\ shown' = shown /\ overtaken' = overtaken /\ filter' = filter
      /\ beforeStack' = beforeStack /\ nextCursor' = nextCursor /\ base' = base /\ walked' = walked
      /\ table' = table
  BY DEF Read, screen, history, backend
<1> DEFINE new == Filled(req, page)
<1>3. /\ requests' = (requests \ {req}) \cup {new}
      /\ new.n = req.n /\ new.f = req.f /\ new.before = req.before /\ new.steady = req.steady
      /\ new.page = page
  BY <1>1, FilledFacts
<1> HIDE DEF new
<1>4. AsksForTop'
  BY <1>2, <1>3 DEF WalkInv, AsksForTop, Latest
<1>5. AsksAlone'
  <2>1. SUFFICES ASSUME NEW r \in requests', r.n = asked, r.steady, r.before # None
                 PROVE  requests' = {r}
    BY <1>2 DEF AsksAlone, Latest
  <2>2. CASE r = new
    <3>1. requests = {req}
      BY <1>3, <2>1, <2>2 DEF WalkInv, AsksAlone, Latest
    <3> QED
      BY <1>3, <2>2, <3>1
  <2>3. CASE r \in requests \ {req}
    BY <2>1, <2>3 DEF WalkInv, AsksAlone, Latest
  <2> QED
    BY <1>3, <2>2, <2>3
<1>6. (\A r \in requests' : r.n = asked' => r.steady) => \A r \in requests : r.n = asked => r.steady
  BY <1>2, <1>3
<1>7. /\ BaseKept' <=> BaseKept
      /\ \A cursor : WalkedTo(cursor)' <=> WalkedTo(cursor)
      /\ \A id : StillListed(id)' <=> StillListed(id)
  BY <1>2 DEF BaseKept, WalkedTo, StillListed, Stored, RowOf, Key
<1>8. StackWalked' /\ ScreenWalked'
  BY <1>2, <1>6, <1>7 DEF WalkInv, StackWalked, ScreenWalked, Latest
<1>9. CursorIsOfLatest'
  BY <1>2, <1>3 DEF WalkInv, CursorIsOfLatest, Latest
<1>10. PagesListed'
  <2>1. SUFFICES ASSUME NEW r \in requests', r.page # None
                 PROVE  /\ \A id \in r.page.listed : ~table'[id].facts => Lists(Stored(id), Setting[r.f])'
                        /\ \A id \in r.page.listed :
                             /\ r.before = None \/ Before(Key(id)', r.before)
                             /\ r.page.next = None \/ ~Before(Key(id)', r.page.next)
                             => id \in RowIds(r.page.rows)
                        /\ r.n = asked' /\ r.steady /\ r.before # None /\ ~overtaken'
                           => \A id \in base' : StillListed(id)' => id \in r.page.listed
    BY DEF PagesListed, Latest, RowIds
  <2>2. CASE r \in requests
    BY <1>2, <1>7, <2>1, <2>2, PagesStay DEF WalkInv, PagesListed, Latest
  <2>3. CASE r = new
    <3>1. /\ page.listed = {id \in Ids : Lists(Stored(id), Setting[req.f])}
          /\ \A id \in ListedRows(req.f, req.before) :
               page.next = None \/ ~Before(Key(id), page.next) => id \in RowIds(page.rows)
      BY <1>1 DEF ReadPage
    <3>2. \A id : Key(id)' = Key(id) /\ Stored(id)' = Stored(id)
      BY <1>2 DEF Key, Stored, RowOf
    <3>3. \A id \in page.listed : Lists(Stored(id), Setting[req.f])'
      BY <3>1, <3>2
    <3>4. \A id \in page.listed :
            /\ req.before = None \/ Before(Key(id)', req.before)
            /\ page.next = None \/ ~Before(Key(id)', page.next)
            => id \in RowIds(page.rows)
      BY <3>1, <3>2 DEF ListedRows
    <3>5. ASSUME req.n = asked, NEW id \in base, StillListed(id)
          PROVE  id \in page.listed
      <4>1. req.f = filter /\ id \in Ids
        BY <3>5 DEF WalkInv, AsksForTop, Latest, Types, ScreenTypes
      <4> QED
        BY <3>1, <3>5, <4>1 DEF StillListed
    <3> QED
      BY <1>2, <1>3, <1>7, <2>3, <3>3, <3>4, <3>5
  <2> QED
    BY <1>3, <2>2, <2>3
<1> QED
  BY <1>4, <1>5, <1>8, <1>9, <1>10 DEF WalkInv

\* The answer to the latest request, asked for from the page it continues.
LEMMA WalkIsAnswered ==
  ASSUME Types, Types', Grows, WalkInv, NEW req \in requests, Answer(req), ~overtaken'
  PROVE  StackWalked' /\ ScreenWalked' /\ \A r \in requests' : r.n # asked'
<1>1. /\ req.page # None /\ requests' = requests \ {req} /\ nextCursor' = req.page.next
      /\ base' = (IF req.before = None THEN req.page.listed ELSE base)
      /\ walked' = RowIds(req.page.rows) \cup (IF req.before = None THEN {} ELSE walked)
      /\ asked' = asked /\ filter' = filter /\ beforeStack' = beforeStack /\ table' = table
  BY DEF Answer, backend
<1>2. ~(req.n < asked) /\ req.steady /\ ~(overtaken /\ req.before # None)
  <2>1. overtaken' = (req.n < asked \/ ~req.steady \/ (overtaken /\ req.before # None))
    BY DEF Answer
  <2> QED
    BY <2>1
<1>3. req.n = asked
  <2>1. req.n \in 1..asked /\ asked \in Nat
    BY DEF Types, RequestTypes
  <2> QED
    BY <1>2, <2>1
<1>4. \A r \in requests' : r.n # asked'
  BY <1>1, <1>3 DEF Types, RequestTypes
<1>5. req.f = filter /\ req.before = Last(beforeStack)
  BY <1>3 DEF WalkInv, AsksForTop, Latest
<1>6. /\ Len(beforeStack) \in Nat /\ Len(beforeStack) >= 1 /\ Last(beforeStack) = beforeStack[Len(beforeStack)]
      /\ \A i \in 1..Len(beforeStack) : beforeStack[i] = None <=> i = 1
  BY LenProperties DEF Types, ScreenTypes, Last
<1>7. \A id : Key(id)' = Key(id) /\ (StillListed(id)' <=> StillListed(id))
  BY <1>1 DEF Key, StillListed, Stored, RowOf
<1>8. /\ \A id \in req.page.listed : ~table[id].facts => StillListed(id)
      /\ \A id \in req.page.listed :
           /\ req.before = None \/ Before(Key(id), req.before)
           /\ req.page.next = None \/ ~Before(Key(id), req.page.next)
           => id \in RowIds(req.page.rows)
      /\ req.before # None /\ ~overtaken => \A id \in base : StillListed(id) => id \in req.page.listed
  BY <1>1, <1>2, <1>3, <1>5 DEF WalkInv, PagesListed, Latest, StillListed
<1>9. CASE req.before = None
  <2>1. Len(beforeStack) = 1
    <3>1. beforeStack[Len(beforeStack)] = None /\ Len(beforeStack) \in 1..Len(beforeStack)
      BY <1>5, <1>6, <1>9
    <3> QED
      BY <1>6, <3>1
  <2>2. StackWalked'
    BY <1>1, <2>1 DEF StackWalked
  <2>3. BaseKept'
    BY <1>1, <1>7, <1>8, <1>9 DEF BaseKept
  <2>4. WalkedTo(nextCursor)'
    BY <1>1, <1>7, <1>8, <1>9 DEF WalkedTo
  <2> QED
    BY <1>4, <2>2, <2>3, <2>4 DEF ScreenWalked
<1>10. CASE req.before # None
  <2>1. ~overtaken
    BY <1>2, <1>10
  <2>2. requests = {req} /\ BaseKept /\ WalkedTo(req.before) /\ Len(beforeStack) > 1
    BY <1>2, <1>3, <1>10, <2>1, SteadyWalk DEF Latest
  <2>3. base' = base /\ walked' = RowIds(req.page.rows) \cup walked
    BY <1>1, <1>10
  <2>4. BaseKept' /\ \A cursor : WalkedTo(cursor) => WalkedTo(cursor)'
    BY <1>1, <2>2, <2>3, WalkGrows
  <2>5. \A k \in 2..Len(beforeStack) : WalkedTo(beforeStack[k])
    BY <1>2, <2>1, <2>2 DEF WalkInv, StackWalked
  <2>6. StackWalked'
    BY <1>1, <2>4, <2>5 DEF StackWalked
  <2>7. WalkedTo(nextCursor)'
    <3>1. SUFFICES ASSUME NEW id \in base, StillListed(id),
                          req.page.next # None => ~Before(Key(id), req.page.next)
                   PROVE  id \in RowIds(req.page.rows) \cup walked
      BY <1>1, <1>7, <2>3 DEF WalkedTo
    <3>2. CASE ~Before(Key(id), req.before)
      BY <2>2, <3>1, <3>2 DEF WalkedTo
    <3>3. CASE Before(Key(id), req.before)
      BY <1>8, <1>10, <2>1, <3>1, <3>3
    <3> QED
      BY <3>2, <3>3
  <2> QED
    BY <1>4, <2>4, <2>6, <2>7 DEF ScreenWalked
<1> QED
  BY <1>9, <1>10

LEMMA WalkAnswers ==
  ASSUME Types, Types', Grows, WalkInv, NEW req \in requests, Answer(req)
  PROVE  WalkInv'
<1>1. /\ requests' = requests \ {req} /\ shown' = req.n /\ asked' = asked /\ filter' = filter
      /\ beforeStack' = beforeStack /\ table' = table
  BY DEF Answer, backend
<1>2. ~overtaken' => StackWalked' /\ ScreenWalked' /\ \A r \in requests' : r.n # asked'
  BY WalkIsAnswered
<1>3. StackWalked' /\ ScreenWalked'
  BY <1>2 DEF StackWalked, ScreenWalked
<1>4. AsksForTop'
  BY <1>1 DEF WalkInv, AsksForTop, Latest
<1>5. AsksAlone'
  BY <1>1 DEF WalkInv, AsksAlone, Latest
<1>6. CursorIsOfLatest'
  <2>1. \A r \in requests' : r.n # shown'
    BY <1>1 DEF Types, RequestTypes
  <2>2. ~overtaken' => shown' = asked'
    <3>1. overtaken' = (req.n < asked \/ ~req.steady \/ (overtaken /\ req.before # None))
      BY DEF Answer
    <3>2. req.n \in 1..asked /\ asked \in Nat
      BY DEF Types, RequestTypes
    <3>3. ~overtaken' => ~(req.n < asked)
      BY <3>1
    <3> QED
      BY <1>1, <3>2, <3>3
  <2> QED
    BY <2>1, <2>2 DEF CursorIsOfLatest
<1>7. PagesListed'
  <2>1. SUFFICES ASSUME NEW r \in requests', r.page # None
                 PROVE  /\ \A id \in r.page.listed : ~table'[id].facts => Lists(Stored(id), Setting[r.f])'
                        /\ \A id \in r.page.listed :
                             /\ r.before = None \/ Before(Key(id)', r.before)
                             /\ r.page.next = None \/ ~Before(Key(id)', r.page.next)
                             => id \in RowIds(r.page.rows)
                        /\ r.n # asked' \/ overtaken'
    BY DEF PagesListed, Latest, RowIds
  <2> QED
    BY <1>1, <1>2, <2>1, PagesStay DEF WalkInv
<1> QED
  BY <1>3, <1>4, <1>5, <1>6, <1>7 DEF WalkInv

LEMMA WalkFails ==
  ASSUME Types, Types', Grows, WalkInv, NEW req \in requests, AnswerFails(req)
  PROVE  WalkInv'
<1>1. /\ requests' = requests \ {req} /\ shown' = 0 /\ nextCursor' = None /\ asked' = asked
      /\ filter' = filter /\ beforeStack' = beforeStack /\ table' = table /\ base' = base
      /\ walked' = walked
  BY DEF AnswerFails, backend
<1>2. ~overtaken' => ~overtaken /\ req.steady
  <2>1. overtaken' = (overtaken \/ ~req.steady)
    BY DEF AnswerFails
  <2> QED
    BY <2>1
<1>3. AsksForTop'
  BY <1>1 DEF WalkInv, AsksForTop, Latest
<1>4. AsksAlone'
  BY <1>1 DEF WalkInv, AsksAlone, Latest
<1>5. /\ BaseKept' <=> BaseKept
      /\ \A cursor : WalkedTo(cursor)' <=> WalkedTo(cursor)
      /\ \A id : StillListed(id)' <=> StillListed(id)
  BY <1>1 DEF BaseKept, WalkedTo, StillListed, Stored, RowOf, Key
<1>6. StackWalked'
  <2>1. ~overtaken' /\ (\A r \in requests' : r.n = asked' => r.steady)
        => ~overtaken /\ \A r \in requests : r.n = asked => r.steady
    BY <1>1, <1>2
  <2> QED
    BY <1>1, <1>5, <2>1 DEF WalkInv, StackWalked, Latest
<1>7. /\ asked' \in Nat \ {0} /\ \A r \in requests' : r.n \in 1..asked
      /\ asked \in Nat
  BY <1>1 DEF Types, RequestTypes
<1>8. ScreenWalked' /\ CursorIsOfLatest'
  BY <1>1, <1>7 DEF ScreenWalked, CursorIsOfLatest
<1>9. PagesListed'
  <2>1. SUFFICES ASSUME NEW r \in requests', r.page # None
                 PROVE  /\ \A id \in r.page.listed : ~table'[id].facts => Lists(Stored(id), Setting[r.f])'
                        /\ \A id \in r.page.listed :
                             /\ r.before = None \/ Before(Key(id)', r.before)
                             /\ r.page.next = None \/ ~Before(Key(id)', r.page.next)
                             => id \in RowIds(r.page.rows)
                        /\ r.n = asked' /\ r.steady /\ r.before # None /\ ~overtaken'
                           => \A id \in base' : StillListed(id)' => id \in r.page.listed
    BY DEF PagesListed, Latest, RowIds
  <2>2. r \in requests
    BY <1>1, <2>1
  <2>3. r.n = asked' /\ r.steady /\ r.before # None /\ ~overtaken'
        => \A id \in base' : StillListed(id)' => id \in r.page.listed
    BY <1>1, <1>2, <1>5, <2>1, <2>2 DEF WalkInv, PagesListed, Latest
  <2> QED
    BY <2>1, <2>2, <2>3, PagesStay DEF WalkInv
<1> QED
  BY <1>3, <1>4, <1>6, <1>8, <1>9 DEF WalkInv

LEMMA WalkStep ==
  ASSUME Types, Types', Grows, WalkInv, [Next]_vars
  PROVE  WalkInv'
<1> USE DEF screen, history
<1>1. ASSUME NEW kind \in Kinds, NEW ts \in 1..MaxTime, Store(kind, ts)
      PROVE  WalkInv'
  BY <1>1, WalkRests DEF Store
<1>2. CASE LookUp \/ Send
  BY <1>2, WalkRests DEF LookUp, Send
<1>3. ASSUME NEW a \in {Remote[k] : k \in Kinds} \ {None}, Enrich(a) \/ Announce(a)
      PROVE  WalkInv'
  BY <1>3, WalkRests DEF Enrich, Announce
<1>4. CASE Deliver
  <2>1. /\ requests' = requests /\ asked' = asked /\ shown' = shown /\ overtaken' = overtaken
        /\ filter' = filter /\ beforeStack' = beforeStack /\ nextCursor' = nextCursor /\ base' = base
        /\ walked \subseteq walked'
    BY <1>4, DeliverFacts DEF Types
  <2> QED
    BY <2>1, WalkRests
<1>5. CASE Reconnect \/ TogglePause \/ AtRest \/ UNCHANGED vars
  BY <1>5, WalkRests DEF Reconnect, TogglePause, AtRest, vars
<1>6. ASSUME NEW req \in requests, Read(req) \/ Answer(req) \/ AnswerFails(req)
      PROVE  WalkInv'
  BY <1>6, WalkReads, WalkAnswers, WalkFails
<1>7. ASSUME NEW f \in Filters, SetFilter(f)
      PROVE  WalkInv'
  <2>1. /\ LoadPage(f, None) /\ filter' = f /\ beforeStack' = <<None>> /\ table' = table
        /\ overtaken' = overtaken /\ shown' = shown /\ nextCursor' = nextCursor
    BY <1>7 DEF SetFilter, backend
  <2>2. None = Last(beforeStack') /\ Len(beforeStack') = 1
    BY <2>1 DEF Last
  <2>3. StackWalked'
    BY <2>2 DEF StackWalked
  <2> QED
    BY <2>1, <2>2, <2>3, WalkAsks
<1>8. CASE goNext \/ goPrev \/ refreshPage
  BY <1>8, TurnFacts, WalkTurns DEF Types
<1> QED
  BY <1>1, <1>2, <1>3, <1>4, <1>5, <1>6, <1>7, <1>8 DEF Next

\* Walking to older pages skips no row that was listed when the walk began,
\* though rows arrive and change on the way (logs.rs:55-61, 196).
THEOREM WalksAreComplete == Spec => []WalkLeavesNoGap
<1>1. Init => Types /\ WalkInv
  <2>1. Init => /\ base = {} /\ shown = 0 /\ asked = 1 /\ nextCursor = None /\ beforeStack = <<None>>
                /\ \A r \in requests : /\ r.page = None /\ r.f = filter /\ r.before = None
                                       /\ r.n = 1
    BY DEF Init
  <2>2. ASSUME base = {}, shown = 0, asked = 1, nextCursor = None, beforeStack = <<None>>,
               \A r \in requests : r.page = None /\ r.f = filter /\ r.before = None /\ r.n = 1
        PROVE  WalkInv
    <3>1. Last(beforeStack) = None /\ Len(beforeStack) = 1
      BY <2>2 DEF Last
    <3>2. AsksForTop /\ AsksAlone /\ StackWalked
      BY <2>2, <3>1 DEF AsksForTop, AsksAlone, StackWalked
    <3>3. ScreenWalked /\ CursorIsOfLatest /\ PagesListed
      BY <2>2 DEF ScreenWalked, CursorIsOfLatest, PagesListed
    <3> QED
      BY <3>2, <3>3 DEF WalkInv
  <2> QED
    BY <2>1, <2>2, TypesInit
<1>2. Types /\ WalkInv /\ [Next]_vars => (Types /\ WalkInv)'
  BY TypesStep, WalkStep
<1>3. WalkInv => WalkLeavesNoGap
  BY DEF WalkInv, ScreenWalked, WalkedTo, WalkLeavesNoGap, Settled, StillListed
<1> QED
  BY <1>1, <1>2, <1>3, PTL DEF Spec
=============================================================================
