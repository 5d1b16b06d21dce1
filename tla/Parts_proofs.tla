------------------------------ MODULE Parts_proofs ------------------------------
(***************************************************************************)
(* Theorems about the parts, each for every value of its constants: the    *)
(* caches of answers, names, ids and scores, the database files, and the   *)
(* sync with the UniFi controller.  No part sees the variables of another, *)
(* so each has an invariant of its own; PartsAreTyped puts them together.  *)
(***************************************************************************)
EXTENDS Parts, AbuseIpDb_proofs, FiniteSetTheorems, FunctionTheorems, SequenceTheorems,
  WellFoundedInduction, TLAPS

USE NullAssumption, CacheAssumption, NamesAssumption, IdsAssumption, ScoresAssumption, GeoAssumption

-----------------------------------------------------------------------------
(* The response cache.                                                     *)

(* Times are times: a query reads the table after it was asked for, and an *)
(* entry is put after its query read the table.                            *)
EntryOk(e) ==
  /\ e.at \in Nat /\ e.body \in Nat /\ e.took \in Nat
  /\ e.body <= e.at /\ e.at <= second /\ e.at - e.body <= e.took

RequestOk(c) ==
  /\ c.key \in Queries /\ c.since \in Nat /\ c.since <= second
  /\ c.body # None => c.body \in Nat /\ c.since <= c.body /\ c.body <= second

TimesInv ==
  /\ second \in Nat
  /\ served \in [Queries -> Nat] /\ \A k \in Queries : served[k] <= second
  /\ DOMAIN entries \subseteq Queries
  /\ \A k \in DOMAIN entries : EntryOk(entries[k])
  /\ \A c \in computing : RequestOk(c)

(* Of a key that was never computed twice at a time there is one request   *)
(* or one entry, and either is at least as new as what was served.         *)
OrderInv ==
  /\ \A k \in DOMAIN entries \ crossed : served[k] <= entries[k].body
  /\ \A c \in computing : c.key \notin crossed =>
       /\ c.key \notin DOMAIN entries
       /\ c.body # None => served[c.key] <= c.body
       /\ \A d \in computing : d.key = c.key => d = c

CacheInv == TimesInv /\ OrderInv /\ AnswersAreRecent

\* What put() leaves of the entries there were, it leaves as they are.
LEMMA PutEffect ==
  ASSUME NEW key \in Queries, NEW e, put(key, e)
  PROVE  /\ DOMAIN entries' \subseteq DOMAIN entries \cup {key}
         /\ key \in DOMAIN entries' /\ entries'[key] = e
         /\ \A k \in DOMAIN entries' \ {key} : k \in DOMAIN entries /\ entries'[k] = entries[k]
<1> DEFINE kept   == {k \in DOMAIN entries : IsFresh(entries[k])}
           oldest == CHOOSE k \in kept : \A j \in kept : entries[k].at <= entries[j].at
           room   == IF Cardinality(kept) >= MAX_ENTRIES THEN kept \ {oldest} ELSE kept
<1>1. entries' = [k \in room \cup {key} |-> IF k = key THEN e ELSE entries[k]]
  BY DEF put
<1>2. room \subseteq DOMAIN entries
  OBVIOUS
<1> HIDE DEF room
<1> QED
  BY <1>1, <1>2

\* get() leaves the entries as they are, but for one that has expired.
LEMMA GetEffect ==
  ASSUME NEW key
  PROVE  /\ DOMAIN AfterGet(key) \subseteq DOMAIN entries
         /\ \A k \in DOMAIN AfterGet(key) : AfterGet(key)[k] = entries[k]
         /\ key \in DOMAIN AfterGet(key) => Found(key)
BY DEF AfterGet, Found

LEMMA CacheStart == ASSUME CacheInit PROVE CacheInv
BY DEF CacheInit, CacheInv, TimesInv, OrderInv, AnswersAreRecent

\* An answer from the cache.
LEMMA HitStep ==
  ASSUME CacheInv, NEW key \in Queries, Request(key), Found(key)
  PROVE  CacheInv'
<1> USE DEF CacheInv
<1>1. /\ entries' = entries /\ computing' = computing /\ crossed' = crossed /\ second' = second
      /\ Serve(key, entries[key].body, entries[key].took)
  BY DEF Request, AfterGet
<1>2. /\ key \in DOMAIN entries /\ EntryOk(entries[key]) /\ second - entries[key].at <= TTL
      /\ key \notin crossed => served[key] <= entries[key].body
  BY DEF Found, IsFresh, TimesInv, OrderInv
<1>3. key \notin crossed => \A c \in computing : c.key # key
  BY <1>2 DEF OrderInv
<1>4. AnswersAreRecent'
  <2>1. latest'.key = key /\ latest'.age = second - entries[key].body /\ latest'.took = entries[key].took
    BY <1>1 DEF Serve
  <2>2. latest'.age <= TTL + latest'.took
    BY <1>2, <2>1 DEF EntryOk, TimesInv
  <2>3. latest'.back = (entries[key].body < served[key])
    BY <1>1, Zenon DEF Serve
  <2>4. latest'.back => key \in crossed
    <3>1. key \notin crossed => ~(entries[key].body < served[key])
      BY <1>2 DEF TimesInv, EntryOk
    <3> QED
      BY <2>3, <3>1
  <2> QED
    BY <1>1, <2>1, <2>2, <2>4 DEF AnswersAreRecent
<1>5. TimesInv'
  BY <1>1, <1>2 DEF Serve, TimesInv, EntryOk, RequestOk
<1>6. OrderInv'
  <2>1. \A k \in Queries : k # key => served'[k] = served[k]
    BY <1>1 DEF Serve, TimesInv
  <2>2. key \notin crossed => served'[key] <= entries[key].body
    BY <1>1, <1>2 DEF Serve, TimesInv, EntryOk
  <2> QED
    BY <1>1, <1>3, <2>1, <2>2 DEF OrderInv, TimesInv, RequestOk
<1> QED
  BY <1>4, <1>5, <1>6

\* A miss: a request begins.
LEMMA MissStep ==
  ASSUME CacheInv, NEW key \in Queries, Request(key), ~Found(key)
  PROVE  CacheInv'
<1> USE DEF CacheInv
<1> DEFINE new == [n |-> Unused, key |-> key, since |-> second, body |-> None]
<1>1. /\ entries' = AfterGet(key) /\ computing' = computing \cup {new}
      /\ crossed' = IF \E c \in computing : c.key = key THEN crossed \cup {key} ELSE crossed
      /\ latest' = None /\ served' = served /\ second' = second
  BY DEF Request
<1>2. new.key = key /\ new.since = second /\ new.body = None
  OBVIOUS
<1> HIDE DEF new
<1>3. AnswersAreRecent'
  BY <1>1 DEF AnswersAreRecent
<1>4. TimesInv'
  BY <1>1, <1>2, GetEffect DEF TimesInv, EntryOk, RequestOk
<1>5. OrderInv'
  <2>1. /\ \A k \in DOMAIN entries' : k \in DOMAIN entries /\ entries'[k] = entries[k]
        /\ key \notin DOMAIN entries'
    BY <1>1, GetEffect
  <2>2. \A k \in DOMAIN entries' \ crossed' : served'[k] <= entries'[k].body
    BY <1>1, <2>1 DEF OrderInv
  <2>3. ASSUME NEW c \in computing', c.key \notin crossed'
        PROVE  /\ c.key \notin DOMAIN entries'
               /\ c.body # None => served'[c.key] <= c.body
               /\ \A d \in computing' : d.key = c.key => d = c
    BY <1>1, <1>2, <2>1, <2>3 DEF OrderInv
  <2> QED
    BY <2>2, <2>3 DEF OrderInv
<1> QED
  BY <1>3, <1>4, <1>5

\* The query reads the table as it is now.
LEMMA ComputeStep ==
  ASSUME CacheInv, NEW c \in computing, Compute(c)
  PROVE  CacheInv'
<1> USE DEF CacheInv
<1> DEFINE read == [c EXCEPT !.body = second]
<1>1. /\ computing' = (computing \ {c}) \cup {read} /\ latest' = None
      /\ second' = second /\ entries' = entries /\ served' = served /\ crossed' = crossed
  BY DEF Compute
<1>2. RequestOk(c)
  BY DEF TimesInv
<1>3. read.key = c.key /\ read.since = c.since /\ (read.body = second \/ read.body = c.body)
  OBVIOUS
<1>4. c.body = None
  BY DEF Compute
<1> HIDE DEF read
<1>5. AnswersAreRecent'
  BY <1>1 DEF AnswersAreRecent
<1>6. TimesInv'
  BY <1>1, <1>2, <1>3, <1>4 DEF TimesInv, EntryOk, RequestOk
<1>7. OrderInv'
  <2>1. read.key \in Queries /\ (read.body # None => served[read.key] <= read.body)
    BY <1>2, <1>3, <1>4 DEF TimesInv, RequestOk
  <2>2. ASSUME NEW d \in computing', d.key \notin crossed'
        PROVE  /\ d.key \notin DOMAIN entries'
               /\ d.body # None => served'[d.key] <= d.body
               /\ \A f \in computing' : f.key = d.key => f = d
    BY <1>1, <1>3, <2>1, <2>2 DEF OrderInv
  <2> QED
    BY <1>1, <2>2 DEF OrderInv
<1> QED
  BY <1>5, <1>6, <1>7

\* The answer is stored and served.
LEMMA FinishStep ==
  ASSUME CacheInv, NEW c \in computing, Finish(c)
  PROVE  CacheInv'
<1> USE DEF CacheInv
<1> DEFINE e == [at |-> second, body |-> c.body, took |-> second - c.since]
<1>1. /\ c.body # None /\ computing' = computing \ {c} /\ second' = second /\ crossed' = crossed
      /\ Serve(c.key, c.body, second - c.since) /\ put(c.key, e)
  BY DEF Finish
<1>2. c.key \in Queries /\ c.since \in Nat /\ c.body \in Nat /\ c.since <= c.body /\ c.body <= second
  BY <1>1 DEF TimesInv, RequestOk
<1>3. EntryOk(e) /\ e.body = c.body
  BY <1>2 DEF EntryOk, TimesInv
<1> HIDE DEF e
<1>4. /\ DOMAIN entries' \subseteq Queries
      /\ \A k \in DOMAIN entries' : entries'[k] = IF k = c.key THEN e ELSE entries[k]
      /\ \A k \in DOMAIN entries' : k # c.key => k \in DOMAIN entries
  BY <1>1, <1>2, PutEffect DEF TimesInv
<1>5. c.key \notin crossed => served[c.key] <= c.body /\ (\A d \in computing' : d.key # c.key)
  BY <1>1 DEF OrderInv
<1>6. /\ served' \in [Queries -> Nat]
      /\ \A k \in Queries : k # c.key => served'[k] = served[k]
      /\ served'[c.key] = IF c.body > served[c.key] THEN c.body ELSE served[c.key]
  BY <1>1, <1>2 DEF Serve, TimesInv
<1>7. AnswersAreRecent'
  <2>1. latest'.key = c.key /\ latest'.age = second - c.body /\ latest'.took = second - c.since
    BY <1>1 DEF Serve
  <2>2. latest'.age <= TTL + latest'.took
    BY <1>2, <2>1 DEF TimesInv
  <2>3. latest'.back = (c.body < served[c.key])
    BY <1>1, Zenon DEF Serve
  <2>4. latest'.back => c.key \in crossed
    <3>1. c.key \notin crossed => ~(c.body < served[c.key])
      BY <1>2, <1>5 DEF TimesInv
    <3> QED
      BY <2>3, <3>1
  <2> QED
    BY <1>1, <2>1, <2>2, <2>4 DEF AnswersAreRecent
<1>8. TimesInv'
  BY <1>1, <1>2, <1>3, <1>4, <1>6 DEF TimesInv, EntryOk, RequestOk
<1>9. OrderInv'
  <2>1. ASSUME NEW k \in DOMAIN entries' \ crossed' PROVE served'[k] <= entries'[k].body
    <3>1. CASE k = c.key
      BY <1>1, <1>2, <1>3, <1>4, <1>5, <1>6, <3>1 DEF TimesInv
    <3>2. CASE k # c.key
      BY <1>1, <1>4, <1>6, <3>2 DEF OrderInv
    <3> QED
      BY <3>1, <3>2
  <2>2. ASSUME NEW d \in computing', d.key \notin crossed'
        PROVE  /\ d.key \notin DOMAIN entries'
               /\ d.body # None => served'[d.key] <= d.body
               /\ \A f \in computing' : f.key = d.key => f = d
    <3>1. d \in computing /\ d.key # c.key /\ d.key \in Queries
      BY <1>1, <1>5, <2>2 DEF TimesInv, RequestOk
    <3> QED
      BY <1>1, <1>4, <1>6, <2>2, <3>1 DEF OrderInv
  <2> QED
    BY <2>1, <2>2 DEF OrderInv
<1> QED
  BY <1>7, <1>8, <1>9

LEMMA FailStep ==
  ASSUME CacheInv, NEW c \in computing, Fails(c)
  PROVE  CacheInv'
BY DEF CacheInv, TimesInv, OrderInv, AnswersAreRecent, Fails, EntryOk, RequestOk

LEMMA TickStep ==
  ASSUME CacheInv, TickSecond
  PROVE  CacheInv'
BY DEF CacheInv, TimesInv, OrderInv, AnswersAreRecent, TickSecond, EntryOk, RequestOk

LEMMA CacheStep ==
  ASSUME CacheInv, [CacheNext]_cache_vars
  PROVE  CacheInv'
<1>1. CASE UNCHANGED cache_vars
  BY <1>1 DEF cache_vars, CacheInv, TimesInv, OrderInv, AnswersAreRecent, EntryOk, RequestOk
<1>2. CASE TickSecond
  BY <1>2, TickStep
<1>3. ASSUME NEW key \in Queries, Request(key) PROVE CacheInv'
  BY <1>3, HitStep, MissStep
<1>4. ASSUME NEW c \in computing, Compute(c) \/ Finish(c) \/ Fails(c) PROVE CacheInv'
  BY <1>4, ComputeStep, FinishStep, FailStep
<1> QED
  BY <1>1, <1>2, <1>3, <1>4 DEF CacheNext

(* What a view is told is at most a lifetime old, plus the time its own    *)
(* query took, and no older than what it was told before, unless the       *)
(* question was being computed twice at a time (cache.rs:7-13, 78-130).    *)
THEOREM AnswersStayRecent ==
  CacheSpec => []AnswersAreRecent
<1>1. CacheInit => CacheInv
  BY CacheStart
<1>2. CacheInv /\ [CacheNext]_cache_vars => CacheInv'
  BY CacheStep
<1>3. CacheInv => AnswersAreRecent
  BY DEF CacheInv
<1> QED
  BY <1>1, <1>2, <1>3, PTL DEF CacheSpec

-----------------------------------------------------------------------------
(* The bound of the cache.                                                 *)

\* A set of numbers that is not empty has a least one.
LEMMA LeastNumber ==
  ASSUME NEW T, T \subseteq Nat, T # {}
  PROVE  \E x \in T : \A y \in T : x <= y
<1>1. \E x \in T : \A y \in T : ~(<<y, x>> \in OpToRel(<, Nat))
  BY NatLessThanWellFounded, WFMin, Zenon
<1>2. PICK x \in T : \A y \in T : ~(<<y, x>> \in OpToRel(<, Nat))
  BY <1>1
<1>3. \A y \in T : ~(y < x)
  <2> TAKE y \in T
  <2>1. <<y, x>> \in Nat \X Nat /\ <<y, x>>[1] = y /\ <<y, x>>[2] = x
    BY <1>2
  <2>2. <<y, x>> \notin {ss \in Nat \X Nat : ss[1] < ss[2]}
    BY <1>2, Zenon DEF OpToRel
  <2> QED
    BY <2>1, <2>2
<1> QED
  BY <1>3

RoomInv == IsFiniteSet(DOMAIN entries) /\ Cardinality(DOMAIN entries) <= MAX_ENTRIES

\* put() makes room before it fills it: there is an oldest entry to evict.
LEMMA RoomAfterPut ==
  ASSUME TimesInv, RoomInv, NEW key, NEW e, put(key, e)
  PROVE  RoomInv'
<1> DEFINE kept   == {k \in DOMAIN entries : IsFresh(entries[k])}
           oldest == CHOOSE k \in kept : \A j \in kept : entries[k].at <= entries[j].at
           room   == IF Cardinality(kept) >= MAX_ENTRIES THEN kept \ {oldest} ELSE kept
<1>1. DOMAIN entries' = room \cup {key}
  BY DEF put
<1>2. /\ IsFiniteSet(kept) /\ Cardinality(kept) \in Nat /\ Cardinality(kept) <= MAX_ENTRIES
  <2>1. Cardinality(DOMAIN entries) \in Nat
    BY FS_CardinalityType DEF RoomInv
  <2>2. IsFiniteSet(kept) /\ Cardinality(kept) <= Cardinality(DOMAIN entries)
    BY FS_Subset DEF RoomInv
  <2>3. Cardinality(kept) \in Nat
    BY <2>2, FS_CardinalityType
  <2> QED
    BY <2>1, <2>2, <2>3 DEF RoomInv
<1>3. kept # {} => oldest \in kept
  <2> SUFFICES ASSUME kept # {} PROVE \E k \in kept : \A j \in kept : entries[k].at <= entries[j].at
    OBVIOUS
  <2> DEFINE times == {entries[k].at : k \in kept}
  <2>1. times \subseteq Nat /\ times # {}
    BY DEF TimesInv, EntryOk
  <2>2. PICK x \in times : \A y \in times : x <= y
    BY <2>1, LeastNumber
  <2> QED
    BY <2>2
<1>4. Cardinality({}) = 0
  BY FS_EmptySet
<1> HIDE DEF kept, oldest
<1>5. IsFiniteSet(room) /\ Cardinality(room) \in Nat /\ Cardinality(room) < MAX_ENTRIES
  <2>1. CASE Cardinality(kept) >= MAX_ENTRIES
    <3>1. kept # {} /\ room = kept \ {oldest}
      BY <1>2, <1>4, <2>1
    <3>2. IsFiniteSet(room) /\ Cardinality(room) = Cardinality(kept) - 1
      BY <1>2, <1>3, <3>1, FS_RemoveElement
    <3>3. Cardinality(room) \in Nat
      BY <3>2, FS_CardinalityType
    <3> QED
      BY <1>2, <3>2, <3>3
  <2>2. CASE ~(Cardinality(kept) >= MAX_ENTRIES)
    BY <1>2, <2>2
  <2> QED
    BY <2>1, <2>2
<1> HIDE DEF room
<1>6. /\ IsFiniteSet(room \cup {key})
      /\ Cardinality(room \cup {key}) = IF key \in room THEN Cardinality(room) ELSE Cardinality(room) + 1
  BY <1>5, FS_AddElement
<1> QED
  BY <1>1, <1>5, <1>6 DEF RoomInv

LEMMA RoomStep ==
  ASSUME TimesInv, RoomInv, [CacheNext]_cache_vars
  PROVE  RoomInv'
<1>1. ASSUME entries' = entries PROVE RoomInv'
  BY <1>1 DEF RoomInv
<1>2. ASSUME NEW key \in Queries, Request(key) PROVE RoomInv'
  <2>1. DOMAIN entries' \subseteq DOMAIN entries
    BY <1>2, GetEffect DEF Request
  <2>2. IsFiniteSet(DOMAIN entries') /\ Cardinality(DOMAIN entries') <= Cardinality(DOMAIN entries)
    BY <2>1, FS_Subset DEF RoomInv
  <2>3. Cardinality(DOMAIN entries') \in Nat /\ Cardinality(DOMAIN entries) \in Nat
    BY <2>2, FS_CardinalityType DEF RoomInv
  <2> QED
    BY <2>2, <2>3 DEF RoomInv
<1>3. ASSUME NEW c \in computing, Finish(c) PROVE RoomInv'
  BY <1>3, RoomAfterPut DEF Finish
<1> QED
  BY <1>1, <1>2, <1>3 DEF CacheNext, cache_vars, TickSecond, Compute, Fails

(* Entries speak of the past, and there are never more of them than        *)
(* MAX_ENTRIES (cache.rs:29, 78-92).                                       *)
THEOREM CacheTyping == CacheSpec => []CacheTypes
<1>1. CacheInit => CacheInv /\ RoomInv
  <2> SUFFICES ASSUME CacheInit PROVE RoomInv
    BY CacheStart
  <2>1. DOMAIN entries = {}
    BY DEF CacheInit
  <2> QED
    BY <2>1, FS_EmptySet DEF RoomInv
<1>2. CacheInv /\ RoomInv /\ [CacheNext]_cache_vars => CacheInv' /\ RoomInv'
  BY CacheStep, RoomStep DEF CacheInv
<1>3. CacheInv /\ RoomInv => CacheTypes
  BY DEF CacheInv, RoomInv, CacheTypes, TimesInv, EntryOk
<1> QED
  BY <1>1, <1>2, <1>3, PTL DEF CacheSpec

-----------------------------------------------------------------------------
(* The cache of names.                                                     *)

MemoryInv ==
  /\ hour \in Nat
  /\ looking # None => looking.ip \in Hosts
  /\ DOMAIN remembered \subseteq Hosts
  /\ \A a \in DOMAIN remembered : remembered[a].at \in Nat /\ remembered[a].at <= hour
  /\ questions \in [Hosts -> SUBSET Nat]
  /\ \A a \in Hosts : \A t \in questions[a] : t <= hour

\* The resolver is being asked about an address, which is not remembered.
Asking(a) == looking # None /\ looking.ip = a

\* Every question is being answered, has its answer remembered, or is old.
AnsweredInv ==
  \A a \in Hosts : \A t \in questions[a] :
    \/ Asking(a)
    \/ a \in DOMAIN remembered /\ t <= remembered[a].at
    \/ hour - t >= Ttl

NamesInv == MemoryInv /\ AnsweredInv /\ AskedOnceADay

LEMMA NamesStart == ASSUME NamesInit PROVE NamesInv
BY DEF NamesInit, NamesInv, MemoryInv, AnsweredInv, AskedOnceADay

\* An address is asked for again only when every question about it is old.
LEMMA QuestionsAreOld ==
  ASSUME NamesInv, NEW ip \in Hosts, looking = None, ~Alive(ip)
  PROVE  \A t \in questions[ip] : hour - t >= Ttl
BY DEF NamesInv, MemoryInv, AnsweredInv, Asking, Alive

LEMMA LookupStep ==
  ASSUME NamesInv, NEW ip \in Hosts, Lookup(ip)
  PROVE  NamesInv'
<1>1. CASE Alive(ip)
  <2>1. UNCHANGED <<hour, remembered, looking, questions>>
    BY <1>1 DEF Lookup
  <2> QED
    BY <2>1 DEF NamesInv, MemoryInv, AnsweredInv, AskedOnceADay, Asking
<1>2. CASE ~Alive(ip)
  <2>1. /\ looking = None /\ hour' = hour
        /\ remembered' = [a \in DOMAIN remembered \ {ip} |-> remembered[a]]
        /\ looking' = [ip |-> ip, since |-> hour]
        /\ questions' = [questions EXCEPT ![ip] = @ \cup {hour}]
    BY <1>2 DEF Lookup
  <2>2. looking' # None /\ looking'.ip = ip
    BY <2>1 DEF NamesInv, MemoryInv
  <2>3. MemoryInv'
    BY <2>1, <2>2 DEF NamesInv, MemoryInv
  <2>4. AnsweredInv'
    <3>1. ASSUME NEW a \in Hosts, NEW t \in questions'[a], a # ip
          PROVE  (a \in DOMAIN remembered' /\ t <= remembered'[a].at) \/ hour' - t >= Ttl
      BY <2>1, <3>1 DEF NamesInv, MemoryInv, AnsweredInv, Asking
    <3> QED
      BY <2>2, <3>1 DEF AnsweredInv, Asking
  <2>5. AskedOnceADay'
    <3>1. \A t \in questions[ip] : t <= hour /\ hour - t >= Ttl
      BY <1>2, <2>1, QuestionsAreOld DEF NamesInv, MemoryInv
    <3>2. ASSUME NEW a \in Hosts, NEW s \in questions'[a], NEW t \in questions'[a], s < t
          PROVE  t - s >= Ttl
      <4>1. CASE a # ip
        BY <2>1, <3>2, <4>1 DEF NamesInv, MemoryInv, AskedOnceADay
      <4>2. CASE a = ip
        <5>1. s \in questions[ip] \cup {hour} /\ t \in questions[ip] \cup {hour}
          BY <2>1, <3>2, <4>2 DEF NamesInv, MemoryInv
        <5>2. questions[ip] \subseteq Nat /\ hour \in Nat
          BY DEF NamesInv, MemoryInv
        <5>3. CASE t = hour
          BY <3>1, <3>2, <5>1, <5>2, <5>3
        <5>4. CASE t # hour
          BY <3>1, <3>2, <5>1, <5>2, <5>4 DEF NamesInv, AskedOnceADay
        <5> QED
          BY <5>3, <5>4
      <4> QED
        BY <4>1, <4>2
    <3> QED
      BY <3>2 DEF AskedOnceADay
  <2> QED
    BY <2>3, <2>4, <2>5 DEF NamesInv
<1> QED
  BY <1>1, <1>2

\* What put_name() sweeps is old, and what it writes is new.
LEMMA PutNameEffect ==
  ASSUME NEW ip, NEW value, put_name(ip, value)
  PROVE  /\ DOMAIN remembered' \subseteq DOMAIN remembered \cup {ip}
         /\ ip \in DOMAIN remembered' /\ remembered'[ip].at = hour
         /\ \A a \in DOMAIN remembered' \ {ip} : remembered'[a] = remembered[a]
         /\ \A a \in DOMAIN remembered \ DOMAIN remembered' : ~Alive(a)
<1> DEFINE kept == IF Cardinality(DOMAIN remembered) > Plenty
                   THEN {a \in DOMAIN remembered : Alive(a)} ELSE DOMAIN remembered
<1>1. remembered' = [a \in kept \cup {ip} |->
                       IF a = ip THEN [at |-> hour, value |-> value] ELSE remembered[a]]
  BY DEF put_name
<1>2. kept \subseteq DOMAIN remembered /\ \A a \in DOMAIN remembered \ kept : ~Alive(a)
  OBVIOUS
<1> HIDE DEF kept
<1> QED
  BY <1>1, <1>2

LEMMA ResolvedStep ==
  ASSUME NamesInv, NEW value, Resolved(value)
  PROVE  NamesInv'
<1>1. /\ looking # None /\ looking.ip \in Hosts /\ looking' = None
      /\ hour' = hour /\ questions' = questions /\ put_name(looking.ip, value)
  BY DEF Resolved, NamesInv, MemoryInv
<1>2. MemoryInv'
  BY <1>1, PutNameEffect DEF NamesInv, MemoryInv
<1>3. AnsweredInv'
  <2> SUFFICES ASSUME NEW a \in Hosts, NEW t \in questions[a]
               PROVE  (a \in DOMAIN remembered' /\ t <= remembered'[a].at) \/ hour - t >= Ttl
    BY <1>1 DEF AnsweredInv
  <2>1. t \in Nat /\ t <= hour /\ hour \in Nat
    BY DEF NamesInv, MemoryInv
  <2>2. CASE a = looking.ip
    BY <1>1, <2>1, <2>2, PutNameEffect
  <2>3. CASE a # looking.ip
    <3>1. (a \in DOMAIN remembered /\ t <= remembered[a].at) \/ hour - t >= Ttl
      BY <2>3 DEF NamesInv, AnsweredInv, Asking
    <3>2. a \in DOMAIN remembered \ DOMAIN remembered' => hour - remembered[a].at >= Ttl
      BY <1>1, PutNameEffect DEF Alive, NamesInv, MemoryInv
    <3>3. a \in DOMAIN remembered => remembered[a].at \in Nat
      BY DEF NamesInv, MemoryInv
    <3>4. a \in DOMAIN remembered' => remembered'[a] = remembered[a]
      BY <1>1, <2>3, PutNameEffect
    <3> QED
      BY <2>1, <3>1, <3>2, <3>3, <3>4, NamesAssumption
  <2> QED
    BY <2>2, <2>3
<1>4. AskedOnceADay'
  BY <1>1 DEF NamesInv, AskedOnceADay
<1> QED
  BY <1>2, <1>3, <1>4 DEF NamesInv

LEMMA TickHourStep ==
  ASSUME NamesInv, TickHour
  PROVE  NamesInv'
<1>1. hour' = hour + 1 /\ UNCHANGED <<remembered, looking, questions>>
  BY DEF TickHour
<1>2. MemoryInv'
  BY <1>1 DEF NamesInv, MemoryInv
<1>3. AnsweredInv' /\ AskedOnceADay'
  BY <1>1 DEF NamesInv, MemoryInv, AnsweredInv, AskedOnceADay, Asking
<1> QED
  BY <1>2, <1>3 DEF NamesInv

LEMMA ForgetStep == ASSUME NamesInv, ForgetAll PROVE NamesInv'
BY DEF ForgetAll, NamesInv, MemoryInv, AnsweredInv, AskedOnceADay

LEMMA NamesStep ==
  ASSUME NamesInv, [NamesNext]_names_vars
  PROVE  NamesInv'
<1>1. CASE UNCHANGED names_vars
  BY <1>1 DEF names_vars, NamesInv, MemoryInv, AnsweredInv, AskedOnceADay, Asking
<1> QED
  BY <1>1, TickHourStep, ForgetStep, LookupStep, ResolvedStep DEF NamesNext

(* In one process the resolver is asked again for an address only when its *)
(* last question is as old as the lifetime, failures and timeouts and      *)
(* sweeps included (rdns.rs:8-35, 57-67).                                  *)
THEOREM ResolverIsSpared ==
  NamesSpec => []AskedOnceADay
<1>1. NamesInit => NamesInv
  BY NamesStart
<1>2. NamesInv /\ [NamesNext]_names_vars => NamesInv'
  BY NamesStep
<1>3. NamesInv => AskedOnceADay
  BY DEF NamesInv
<1> QED
  BY <1>1, <1>2, <1>3, PTL DEF NamesSpec

(* Only addresses of the process are remembered, and none from the future   *)
(* (rdns.rs:19-35).                                                         *)
THEOREM NamesTyping == NamesSpec => []NamesTypes
<1>1. NamesInit => NamesInv
  BY NamesStart
<1>2. NamesInv /\ [NamesNext]_names_vars => NamesInv'
  BY NamesStep
<1>3. NamesInv => NamesTypes
  BY DEF NamesInv, MemoryInv, NamesTypes
<1> QED
  BY <1>1, <1>2, <1>3, PTL DEF NamesSpec

-----------------------------------------------------------------------------
(* The lookup ids.                                                         *)

LEMMA NamesAreFinite == IsFiniteSet(Names) /\ Cardinality(Names) \in Nat
<1> DEFINE f == [s \in Spellings |-> Folded[s]]
<1>1. f \in Surjection(Spellings, Names)
  BY DEF Names, Surjection
<1>2. IsFiniteSet(Names)
  BY <1>1, FS_Surjection, IdsAssumption
<1> QED
  BY <1>2, FS_CardinalityType

(* The table gives each name an id of its own, and the cache, the rows and *)
(* the lookup under way agree with it.                                     *)
TableInv ==
  /\ sequence \in Nat /\ sequence <= MaxId /\ troubles \in Nat
  /\ DOMAIN ids \subseteq Names
  /\ \A n \in DOMAIN ids : ids[n] \in Nat /\ ids[n] <= sequence
  /\ \A m, n \in DOMAIN ids : ids[m] = ids[n] => m = n
  /\ DOMAIN cached \subseteq DOMAIN ids
  /\ \A n \in DOMAIN cached : cached[n] = ids[n]
  /\ \A u \in used : \E n \in DOMAIN ids : u = <<n, ids[n]>>
  /\ burnt \in [Names -> Nat]

LookupInv ==
  writing # None =>
    /\ writing \in [name : Names, step : {"insert", "select"}]
    /\ writing.name \notin DOMAIN cached
    /\ writing.step = "select" => writing.name \in DOMAIN ids

\* Names that may still take a number before the next failure or restart.
Pending == IF writing # None /\ writing.step = "select" THEN {writing.name} ELSE {}
Unpaid  == Names \ (DOMAIN cached \cup Pending)

(* What was taken and what may still be taken fit into what a failure each *)
(* allows.                                                                 *)
NumbersInv ==
  /\ \A n \in Names : burnt[n] + (IF n \in Unpaid THEN 1 ELSE 0) <= troubles + 1
  /\ sequence + Cardinality(Unpaid) <= (troubles + 1) * Cardinality(Names)

IdsInv == TableInv /\ LookupInv /\ NumbersInv

LEMMA UnpaidIsFinite ==
  /\ IsFiniteSet(Unpaid) /\ Cardinality(Unpaid) \in Nat
  /\ Cardinality(Unpaid) <= Cardinality(Names)
<1>1. Unpaid \in SUBSET Names
  BY DEF Unpaid
<1>2. IsFiniteSet(Unpaid) /\ Cardinality(Unpaid) <= Cardinality(Names)
  BY <1>1, NamesAreFinite, FS_Subset
<1> QED
  BY <1>2, FS_CardinalityType

LEMMA IdsStart == ASSUME IdsInit PROVE IdsInv
<1>1. TableInv /\ LookupInv
  BY DEF IdsInit, NoIds, TableInv, LookupInv
<1>2. sequence = 0 /\ troubles = 0 /\ \A n \in Names : burnt[n] = 0
  BY DEF IdsInit
<1>3. NumbersInv
  BY <1>2, UnpaidIsFinite, NamesAreFinite DEF NumbersInv
<1> QED
  BY <1>1, <1>3 DEF IdsInv

\* A failure or a restart makes every name unpaid again at worst.
LEMMA TroubleEffect ==
  ASSUME IdsInv, Trouble, sequence' = sequence,
         \/ burnt' = burnt
         \/ burnt' = [n \in Names |-> 0]
  PROVE  NumbersInv'
<1>1. troubles \in Nat /\ troubles' = troubles + 1 /\ sequence \in Nat /\ burnt \in [Names -> Nat]
  BY DEF Trouble, IdsInv, TableInv
<1>2. /\ Cardinality(Unpaid) \in Nat /\ Cardinality(Names) \in Nat
      /\ Cardinality(Unpaid)' \in Nat /\ Cardinality(Unpaid)' <= Cardinality(Names)
  <2>1. (IsFiniteSet(Unpaid) /\ Cardinality(Unpaid) \in Nat /\ Cardinality(Unpaid) <= Cardinality(Names))'
    BY UnpaidIsFinite, PTL
  <2> QED
    BY <2>1, UnpaidIsFinite, NamesAreFinite
<1>3. sequence <= (troubles + 1) * Cardinality(Names)
  BY <1>1, <1>2 DEF IdsInv, NumbersInv
<1>4. (troubles + 2) * Cardinality(Names) = (troubles + 1) * Cardinality(Names) + Cardinality(Names)
  BY <1>1, <1>2
<1>5. \A n \in Names : burnt'[n] \in Nat /\ burnt'[n] <= troubles + 1
  BY <1>1 DEF IdsInv, NumbersInv
<1> QED
  BY <1>1, <1>2, <1>3, <1>4, <1>5 DEF NumbersInv

LEMMA InsertStep == ASSUME IdsInv, InsertName PROVE IdsInv'
<1> DEFINE n == writing.name
<1>1. /\ writing # None /\ writing.step = "insert" /\ n \in Names /\ n \notin DOMAIN cached
      /\ sequence < MaxId /\ sequence' = sequence + 1
      /\ burnt' = [burnt EXCEPT ![n] = @ + 1]
      /\ ids' = IF n \in DOMAIN ids THEN ids ELSE Plus(ids, n, sequence + 1)
      /\ writing' = [writing EXCEPT !.step = "select"]
      /\ cached' = cached /\ used' = used /\ troubles' = troubles
  BY DEF InsertName, Conflict, IdsInv, LookupInv
<1>2. /\ \A m \in DOMAIN ids : m \in DOMAIN ids' /\ ids'[m] = ids[m]
      /\ DOMAIN ids' = DOMAIN ids \cup {n}
      /\ n \notin DOMAIN ids => ids'[n] = sequence + 1
  BY <1>1 DEF Plus
<1>3. writing' \in [name : Names, step : {"insert", "select"}] /\ writing'.name = n /\ writing'.step = "select"
  BY <1>1 DEF IdsInv, LookupInv
<1>4. TableInv'
  BY <1>1, <1>2 DEF IdsInv, TableInv
<1>5. LookupInv'
  BY <1>1, <1>2, <1>3 DEF LookupInv
<1>6. n \in Unpaid /\ Unpaid' = Unpaid \ {n}
  BY <1>1, <1>3 DEF Unpaid, Pending, Names
<1>7. Cardinality(Unpaid') = Cardinality(Unpaid) - 1 /\ Cardinality(Unpaid) \in Nat
  BY <1>6, UnpaidIsFinite, FS_RemoveElement
<1>8. NumbersInv'
  <2>1. sequence \in Nat /\ troubles \in Nat /\ burnt \in [Names -> Nat]
    BY DEF IdsInv, TableInv
  <2>2. sequence' + Cardinality(Unpaid') = sequence + Cardinality(Unpaid)
    BY <1>1, <1>7, <2>1
  <2>3. \A m \in Names : burnt'[m] + (IF m \in Unpaid' THEN 1 ELSE 0) <= troubles + 1
    BY <1>1, <1>6, <2>1 DEF IdsInv, NumbersInv
  <2> QED
    BY <1>1, <2>2, <2>3 DEF IdsInv, NumbersInv, Names
<1> QED
  BY <1>4, <1>5, <1>8 DEF IdsInv

LEMMA SelectStep == ASSUME IdsInv, SelectId PROVE IdsInv'
<1> DEFINE n == writing.name
<1>1. /\ writing # None /\ writing.step = "select" /\ n \in Names /\ n \notin DOMAIN cached
      /\ n \in DOMAIN ids
      /\ cached' = Plus(cached, n, ids[n]) /\ used' = used \cup {<<n, ids[n]>>} /\ writing' = None
      /\ ids' = ids /\ sequence' = sequence /\ burnt' = burnt /\ troubles' = troubles
  BY DEF SelectId, IdsInv, LookupInv
<1>2. /\ DOMAIN cached' = DOMAIN cached \cup {n}
      /\ \A m \in DOMAIN cached' : cached'[m] = IF m = n THEN ids[n] ELSE cached[m]
  BY <1>1 DEF Plus
<1>3. TableInv' /\ LookupInv'
  BY <1>1, <1>2 DEF IdsInv, TableInv, LookupInv
<1>4. Unpaid' = Unpaid
  BY <1>1, <1>2 DEF Unpaid, Pending, Names
<1>5. NumbersInv'
  BY <1>1, <1>4 DEF IdsInv, NumbersInv, Names
<1> QED
  BY <1>3, <1>5 DEF IdsInv

LEMMA IdsStep ==
  ASSUME IdsInv, [IdsNext]_ids_vars
  PROVE  IdsInv'
<1>1. ASSUME UNCHANGED <<ids, sequence, cached, burnt, troubles>>, Unpaid' = Unpaid
      PROVE  NumbersInv'
  BY <1>1 DEF IdsInv, NumbersInv, Names
<1>2. CASE UNCHANGED ids_vars
  <2>1. Unpaid' = Unpaid
    BY <1>2 DEF ids_vars, Unpaid, Pending, Names
  <2> QED
    BY <1>1, <1>2, <2>1 DEF IdsInv, TableInv, LookupInv, ids_vars
<1>3. ASSUME NEW s \in Spellings, LookUp(s) PROVE IdsInv'
  <2>1. Folded[s] \in Names
    BY DEF Names
  <2>2. /\ writing = None /\ UNCHANGED <<ids, sequence, cached, burnt, troubles>>
        /\ \/ /\ Folded[s] \in DOMAIN cached /\ writing' = writing
              /\ used' = used \cup {<<Folded[s], cached[Folded[s]]>>}
           \/ /\ Folded[s] \notin DOMAIN cached /\ used' = used
              /\ writing' = [name |-> Folded[s], step |-> "insert"]
    BY <1>3 DEF LookUp
  <2>3. TableInv' /\ LookupInv'
    BY <2>1, <2>2 DEF IdsInv, TableInv, LookupInv
  <2>4. Unpaid' = Unpaid
    BY <2>2 DEF Unpaid, Pending, Names
  <2> QED
    BY <1>1, <2>2, <2>3, <2>4 DEF IdsInv
<1>4. CASE InsertFails
  <2>1. Unpaid' = Unpaid
    BY <1>4 DEF InsertFails, Unpaid, Pending, Names
  <2> QED
    BY <1>1, <1>4, <2>1 DEF InsertFails, IdsInv, TableInv, LookupInv
<1>5. CASE StatementFails
  <2>1. TableInv' /\ LookupInv'
    BY <1>5 DEF StatementFails, Trouble, IdsInv, TableInv, LookupInv
  <2> QED
    BY <1>5, <2>1, TroubleEffect DEF StatementFails, IdsInv
<1>6. CASE RestartWriter
  <2>1. TableInv' /\ LookupInv'
    BY <1>6 DEF RestartWriter, Trouble, NoIds, IdsInv, TableInv, LookupInv
  <2> QED
    BY <1>6, <2>1, TroubleEffect DEF RestartWriter, IdsInv
<1> QED
  BY <1>2, <1>3, <1>4, <1>5, <1>6, InsertStep, SelectStep DEF IdsNext

LEMMA IdsHold == ASSUME IdsInv PROVE IdsTypes /\ IdsAreStable
<1>1. IdsTypes
  BY DEF IdsInv, TableInv, IdsTypes
<1>2. \A a, b \in used : (a[1] = b[1]) <=> (a[2] = b[2])
  <2> SUFFICES ASSUME NEW a \in used, NEW b \in used PROVE (a[1] = b[1]) <=> (a[2] = b[2])
    OBVIOUS
  <2>1. PICK m \in DOMAIN ids : a = <<m, ids[m]>>
    BY DEF IdsInv, TableInv
  <2>2. PICK n \in DOMAIN ids : b = <<n, ids[n]>>
    BY DEF IdsInv, TableInv
  <2> QED
    BY <2>1, <2>2 DEF IdsInv, TableInv
<1>3. \A n \in Names : burnt[n] <= troubles + 1
  BY DEF IdsInv, TableInv, NumbersInv
<1>4. sequence <= (troubles + 1) * Cardinality(Names)
  BY UnpaidIsFinite, NamesAreFinite DEF IdsInv, TableInv, NumbersInv
<1> QED
  BY <1>1, <1>2, <1>3, <1>4 DEF IdsAreStable, IdsInv, TableInv

(* The sequence stays within the SMALLINT, and only names that are stored   *)
(* are remembered (db.rs:12-43).                                            *)
THEOREM IdsTyping == IdsSpec => []IdsTypes
<1>1. IdsInit => IdsInv
  BY IdsStart
<1>2. IdsInv /\ [IdsNext]_ids_vars => IdsInv'
  BY IdsStep
<1>3. IdsInv => IdsTypes
  BY IdsHold
<1> QED
  BY <1>1, <1>2, <1>3, PTL DEF IdsSpec

(* An id means the same in every row, in every process and however the name *)
(* is spelt, and a name takes at most one number per process and failure    *)
(* (db.rs:26-49).                                                           *)
THEOREM IdsStayStable == IdsSpec => []IdsAreStable
<1>1. IdsInit => IdsInv
  BY IdsStart
<1>2. IdsInv /\ [IdsNext]_ids_vars => IdsInv'
  BY IdsStep
<1>3. IdsInv => IdsAreStable
  BY IdsHold
<1> QED
  BY <1>1, <1>2, <1>3, PTL DEF IdsSpec

-----------------------------------------------------------------------------
(* The refresh of old scores.                                              *)

Entry == [score : Scores \cup {None}, stamp : Nat \cup {NoStamp}]

(* What the processes spent today: those before the present one at most a  *)
(* limit each, the present one what its budget says.                       *)
BudgetInv ==
  /\ budget.day <= day
  /\ \E n \in Limits : spent <= boots * n + UsedToday /\ UsedToday <= n

\* An address refreshed today bears today's stamp, so it is not old.
StampInv ==
  \A a \in Addrs \ failed :
    refreshed[a] = 0 \/ (refreshed[a] = 1 /\ cache[a].stamp = day)

ScoresInv == ScoresTypes /\ BudgetInv /\ StampInv /\ LastScoreStands

LEMMA ScoresStart == ASSUME ScoresInit PROVE ScoresInv
<1>1. ScoresTypes
  BY DEF ScoresInit, ScoresTypes, NoStamp
<1>2. BudgetInv
  BY DEF ScoresInit, BudgetInv, UsedToday
<1>3. StampInv /\ LastScoreStands
  BY DEF ScoresInit, StampInv, LastScoreStands
<1> QED
  BY <1>1, <1>2, <1>3 DEF ScoresInv

LEMMA StoreEffect ==
  ASSUME day \in Nat, NEW a \in Addrs, NEW e \in Entry, NEW known \in Scores \cup {None},
         Store(a, e, known)
  PROVE  \E new \in Entry :
           /\ cache' = [cache EXCEPT ![a] = new]
           /\ \/ failed' = failed \cup {a}
              \/ /\ failed' = failed
                 /\ new.score = IF known # None THEN known ELSE e.score
                 /\ new.stamp = IF known # None THEN day ELSE e.stamp
<1>1. CASE cache' = [cache EXCEPT ![a] = Stored(e, known)] /\ UNCHANGED failed
  <2>1. /\ Stored(e, known) \in Entry
        /\ Stored(e, known).score = IF known # None THEN known ELSE e.score
        /\ Stored(e, known).stamp = IF known # None THEN day ELSE e.stamp
    BY DEF Stored, Filled, StampAfter, Entry
  <2> QED
    BY <1>1, <2>1
<1>2. CASE cache' = [cache EXCEPT ![a] = e] /\ failed' = failed \cup {a}
  BY <1>2
<1> QED
  BY <1>1, <1>2 DEF Store

(* What every pass over an address has in common: the refresh is counted,  *)
(* and unless the write fails its stamp and its score are in the cache.    *)
PassEffect(a, b, new) ==
  /\ CountRefresh(a, b)
  /\ day' = day /\ perDay' = perDay /\ boots' = boots
  /\ cache' = [cache EXCEPT ![a] = new]
  /\ asked' \in [Addrs -> Nat \cup {NoStamp}]
  /\ reports' \in [Addrs -> Scores \cup {None}]
  /\ \A x \in Addrs : x # a => reports'[x] = reports[x]
  /\ \/ failed' = failed \cup {a}
     \/ /\ failed' = failed
        /\ cache[a].score = reports[a] => new.score = reports'[a]
        /\ new.stamp \in {day, cache[a].stamp}
        /\ Refreshing(cache[a], b) => new.stamp = day

LEMMA SilentEffect ==
  ASSUME ScoresTypes, NEW a \in Addrs, NEW b \in BOOLEAN, PassSilent(a, b)
  PROVE  \E new \in Entry : PassEffect(a, b, new)
<1>1. cache[a] \in Entry /\ cache[a].score \in Scores \cup {None} /\ day \in Nat
  BY DEF ScoresTypes, Entry
<1>2. Store(a, cache[a], cache[a].score) /\ CountRefresh(a, b)
      /\ day' = day /\ perDay' = perDay /\ boots' = boots /\ asked' = asked /\ reports' = reports
  BY DEF PassSilent
<1>3. PICK new \in Entry :
        /\ cache' = [cache EXCEPT ![a] = new]
        /\ \/ failed' = failed \cup {a}
           \/ /\ failed' = failed
              /\ new.score = IF cache[a].score # None THEN cache[a].score ELSE cache[a].score
              /\ new.stamp = IF cache[a].score # None THEN day ELSE cache[a].stamp
  BY <1>1, <1>2, StoreEffect
<1>4. Refreshing(cache[a], b) => cache[a].score # None
  BY DEF Refreshing, Reaches
<1>5. PassEffect(a, b, new)
  BY <1>2, <1>3, <1>4 DEF PassEffect, ScoresTypes
<1> QED
  BY <1>5

LEMMA FoundEffect ==
  ASSUME ScoresTypes, NEW a \in Addrs, NEW score \in Scores, PassFound(a, score)
  PROVE  \E new \in Entry : PassEffect(a, TRUE, new)
<1> DEFINE known == Learned(cache[a], Refreshing(cache[a], TRUE), score)
<1>1. cache[a] \in Entry /\ cache[a].score \in Scores \cup {None} /\ day \in Nat
  BY DEF ScoresTypes, Entry
<1>2. Store(a, cache[a], known) /\ CountRefresh(a, TRUE) /\ Asks(a)
      /\ day' = day /\ perDay' = perDay /\ boots' = boots
      /\ asked' = [asked EXCEPT ![a] = day] /\ reports' = [reports EXCEPT ![a] = score]
  BY DEF PassFound
<1>3. known = score /\ known # None
  <2>1. CASE Refreshing(cache[a], TRUE)
    BY <2>1 DEF Learned
  <2>2. CASE ~Refreshing(cache[a], TRUE)
    BY <1>2, <2>2 DEF Learned, Filled, Asks
  <2> QED
    BY <2>1, <2>2
<1> HIDE DEF known
<1>4. PICK new \in Entry :
        /\ cache' = [cache EXCEPT ![a] = new]
        /\ \/ failed' = failed \cup {a}
           \/ /\ failed' = failed
              /\ new.score = IF known # None THEN known ELSE cache[a].score
              /\ new.stamp = IF known # None THEN day ELSE cache[a].stamp
  BY <1>1, <1>2, <1>3, StoreEffect
<1>5. PassEffect(a, TRUE, new)
  BY <1>1, <1>2, <1>3, <1>4 DEF PassEffect, ScoresTypes
<1> QED
  BY <1>5

LEMMA NothingEffect ==
  ASSUME ScoresTypes, NEW a \in Addrs, PassNothing(a) \/ PassExhausted(a)
  PROVE  \E new \in Entry : PassEffect(a, TRUE, new)
<1> DEFINE old == cache[a]
           tried == [old EXCEPT !.stamp = day]
<1>1. old \in Entry /\ old.score \in Scores \cup {None} /\ day \in Nat
  BY DEF ScoresTypes, Entry
<1>2. tried \in Entry /\ tried.score = old.score /\ tried.stamp = day
  BY <1>1 DEF Entry
<1>3. /\ CountRefresh(a, TRUE) /\ day' = day /\ perDay' = perDay /\ boots' = boots /\ reports' = reports
      /\ asked' \in [Addrs -> Nat \cup {NoStamp}]
      /\ Store(a, tried, old.score) \/ Store(a, old, old.score)
  <2>1. asked \in [Addrs -> Nat \cup {NoStamp}]
    BY DEF ScoresTypes
  <2>2. asked' = asked \/ asked' = [asked EXCEPT ![a] = day]
    BY DEF PassNothing, PassExhausted
  <2>3. asked' \in [Addrs -> Nat \cup {NoStamp}]
    BY <1>1, <2>1, <2>2
  <2>4. CountRefresh(a, TRUE) /\ day' = day /\ perDay' = perDay /\ boots' = boots /\ reports' = reports
    BY Zenon DEF PassNothing, PassExhausted
  <2>5. Store(a, tried, old.score) \/ Store(a, old, old.score)
    BY Zenon DEF PassNothing, PassExhausted
  <2> QED
    BY <2>3, <2>4, <2>5
<1>4. Refreshing(old, TRUE) => old.score # None
  BY DEF Refreshing, Reaches
<1> HIDE DEF old, tried
<1>5. \E new \in Entry :
        /\ cache' = [cache EXCEPT ![a] = new]
        /\ \/ failed' = failed \cup {a}
           \/ /\ failed' = failed /\ new.score = old.score
              /\ new.stamp \in {day, old.stamp}
              /\ old.score # None => new.stamp = day
  <2>1. CASE Store(a, tried, old.score)
    BY <1>1, <1>2, <2>1, StoreEffect
  <2>2. CASE Store(a, old, old.score)
    BY <1>1, <2>2, StoreEffect
  <2> QED
    BY <1>3, <2>1, <2>2
<1>6. PICK new \in Entry :
        /\ cache' = [cache EXCEPT ![a] = new]
        /\ \/ failed' = failed \cup {a}
           \/ /\ failed' = failed /\ new.score = old.score
              /\ new.stamp \in {day, old.stamp}
              /\ old.score # None => new.stamp = day
  BY <1>5
<1>7. PassEffect(a, TRUE, new)
  BY <1>3, <1>4, <1>6 DEF PassEffect, ScoresTypes, old
<1> QED
  BY <1>7

\* A larger limit for more processes: nothing decreases.
LEMMA LargerBudget ==
  ASSUME NEW s \in Nat, NEW k \in Nat, NEW n \in Nat, NEW m \in Nat, NEW u \in Nat,
         s <= k * n + u, n <= m
  PROVE  s <= k * m + u
<1>1. k * n <= k * m
  OBVIOUS
<1>2. k * n \in Nat /\ k * m \in Nat
  OBVIOUS
<1> QED
  BY <1>1, <1>2

LEMMA CountStep ==
  ASSUME ScoresTypes, BudgetInv, NEW a \in Addrs, NEW b \in BOOLEAN,
         CountRefresh(a, b), day' = day, perDay' = perDay, boots' = boots
  PROVE  /\ budget' \in [day : Nat, used : Nat] /\ spent' \in Nat
         /\ refreshed' \in [Addrs -> Nat]
         /\ BudgetInv'
<1>1. day \in Nat /\ perDay \in Limits /\ perDay \in Nat /\ boots \in Nat /\ spent \in Nat
      /\ budget \in [day : Nat, used : Nat] /\ UsedToday \in Nat /\ refreshed \in [Addrs -> Nat]
  BY DEF ScoresTypes, UsedToday
<1>2. PICK n \in Limits : spent <= boots * n + UsedToday /\ UsedToday <= n
  BY DEF BudgetInv
<1>3. n \in Nat /\ boots * n \in Nat
  BY <1>1
<1>4. CASE ~Reaches(cache[a], b)
  <2>1. budget' = budget /\ spent' = spent /\ refreshed' = refreshed
    BY <1>4 DEF CountRefresh, BudgetAfter, Refreshing
  <2> QED
    BY <1>1, <2>1 DEF BudgetInv, UsedToday
<1>5. CASE Reaches(cache[a], b) /\ ~MayTake
  <2>1. budget' = [day |-> day, used |-> UsedToday + 0] /\ spent' = spent /\ refreshed' = refreshed
    BY <1>5 DEF CountRefresh, BudgetAfter, Refreshing
  <2>2. UsedToday' = UsedToday
    BY <1>1, <2>1 DEF UsedToday
  <2> QED
    BY <1>1, <1>2, <2>1, <2>2 DEF BudgetInv
<1>6. CASE Reaches(cache[a], b) /\ MayTake
  <2>1. /\ budget' = [day |-> day, used |-> UsedToday + 1] /\ spent' = spent + 1
        /\ refreshed' = [refreshed EXCEPT ![a] = @ + 1]
    BY <1>6 DEF CountRefresh, BudgetAfter, Refreshing
  <2>2. UsedToday' = UsedToday + 1 /\ budget'.day = day
    BY <2>1 DEF UsedToday
  <2>3. UsedToday + 1 <= perDay
    BY <1>1, <1>6 DEF MayTake
  <2>4. \E m \in Limits : spent' <= boots * m + UsedToday' /\ UsedToday' <= m
    <3>1. CASE n <= perDay
      <4>1. spent <= boots * perDay + UsedToday
        BY <1>1, <1>2, <1>3, <3>1, LargerBudget
      <4>2. boots * perDay \in Nat
        BY <1>1
      <4> QED
        BY <1>1, <2>1, <2>2, <2>3, <4>1, <4>2
    <3>2. CASE ~(n <= perDay)
      BY <1>1, <1>2, <1>3, <2>1, <2>2, <2>3, <3>2
    <3> QED
      BY <3>1, <3>2
  <2> QED
    BY <1>1, <2>1, <2>2, <2>4 DEF BudgetInv
<1> QED
  BY <1>4, <1>5, <1>6

LEMMA PassStep ==
  ASSUME ScoresInv, NEW a \in Addrs, NEW b \in BOOLEAN, NEW new \in Entry, PassEffect(a, b, new)
  PROVE  ScoresInv'
<1>1. ScoresTypes /\ BudgetInv /\ StampInv /\ LastScoreStands
  BY DEF ScoresInv
<1>2. /\ day' = day /\ perDay' = perDay /\ boots' = boots /\ CountRefresh(a, b)
      /\ cache' = [cache EXCEPT ![a] = new]
      /\ failed' \in {failed, failed \cup {a}}
  BY DEF PassEffect
<1>3. /\ budget' \in [day : Nat, used : Nat] /\ spent' \in Nat
      /\ refreshed' \in [Addrs -> Nat] /\ BudgetInv'
  BY <1>1, <1>2, CountStep
<1>4. ScoresTypes'
  <2>1. /\ asked' \in [Addrs -> Nat \cup {NoStamp}]
        /\ reports' \in [Addrs -> Scores \cup {None}]
    BY DEF PassEffect
  <2>2. cache' \in [Addrs -> Entry]
    BY <1>1, <1>2 DEF ScoresTypes, Entry
  <2>3. failed' \in SUBSET Addrs /\ day' \in Nat /\ perDay' \in Limits /\ boots' \in Nat
    BY <1>1, <1>2 DEF ScoresTypes
  <2> QED
    BY <1>3, <2>1, <2>2, <2>3 DEF ScoresTypes, Entry
<1>5. ASSUME NEW x \in Addrs, x \notin failed'
      PROVE  refreshed'[x] = 0 \/ (refreshed'[x] = 1 /\ cache'[x].stamp = day')
  <2>1. x \notin failed
    BY <1>2, <1>5
  <2>2. refreshed[x] = 0 \/ (refreshed[x] = 1 /\ cache[x].stamp = day)
    BY <1>1, <2>1 DEF StampInv
  <2>3. CASE x # a
    <3>1. cache'[x] = cache[x]
      BY <1>1, <1>2, <2>3 DEF ScoresTypes
    <3>2. refreshed'[x] = refreshed[x]
      BY <1>1, <1>2, <2>3 DEF ScoresTypes, CountRefresh
    <3> QED
      BY <1>2, <2>2, <3>1, <3>2
  <2>4. CASE x = a
    <3>1. cache'[x] = new /\ new.stamp \in {day, cache[x].stamp}
          /\ (Refreshing(cache[x], b) => new.stamp = day)
      BY <1>1, <1>2, <1>5, <2>1, <2>4 DEF ScoresTypes, PassEffect
    <3>2. CASE Refreshing(cache[x], b)
      <4>1. cache[x].stamp # day
        BY <1>1, <3>2 DEF Refreshing, Reaches, Stale, ScoresTypes, NoStamp
      <4>2. refreshed'[x] = 1
        BY <1>1, <1>2, <2>2, <2>4, <3>2, <4>1 DEF CountRefresh, ScoresTypes
      <4> QED
        BY <1>2, <3>1, <3>2, <4>2
    <3>3. CASE ~Refreshing(cache[x], b)
      <4>1. refreshed'[x] = refreshed[x]
        BY <1>2, <2>4, <3>3 DEF CountRefresh
      <4> QED
        BY <1>2, <2>2, <3>1, <4>1
    <3> QED
      BY <3>2, <3>3
  <2> QED
    BY <2>3, <2>4
<1>6. ASSUME NEW x \in Addrs, x \notin failed'
      PROVE  cache'[x].score = reports'[x]
  <2>1. x \notin failed /\ cache[x].score = reports[x]
    BY <1>1, <1>2, <1>6 DEF LastScoreStands
  <2>2. CASE x # a
    BY <1>1, <1>2, <2>1, <2>2 DEF ScoresTypes, PassEffect
  <2>3. CASE x = a
    BY <1>1, <1>2, <1>6, <2>1, <2>3 DEF ScoresTypes, PassEffect
  <2> QED
    BY <2>2, <2>3
<1> QED
  BY <1>3, <1>4, <1>5, <1>6 DEF ScoresInv, StampInv, LastScoreStands

\* One more process: what the last one spent counts as a whole limit.
LEMMA OneMoreProcess ==
  ASSUME NEW s \in Nat, NEW k \in Nat, NEW n \in Nat, NEW u \in Nat,
         s <= k * n + u, u <= n
  PROVE  s <= (k + 1) * n
<1>1. (k + 1) * n = k * n + n /\ k * n \in Nat
  OBVIOUS
<1> QED
  BY <1>1

LEMMA ProcessBudget ==
  ASSUME ScoresInv
  PROVE  \E n \in Limits : spent <= (boots + 1) * n
<1>1. PICK n \in Limits : spent <= boots * n + UsedToday /\ UsedToday <= n
  BY DEF ScoresInv, BudgetInv
<1>2. n \in Nat /\ boots \in Nat /\ spent \in Nat /\ UsedToday \in Nat
  BY DEF ScoresInv, ScoresTypes, UsedToday
<1> QED
  BY <1>1, <1>2, OneMoreProcess

LEMMA OtherScoreSteps ==
  ASSUME ScoresInv, (\E n \in Limits : SetPerDay(n)) \/ NextDay \/ RestartBudget
  PROVE  ScoresInv'
<1>1. ScoresTypes /\ BudgetInv /\ StampInv /\ LastScoreStands
  BY DEF ScoresInv
<1>2. CASE \E n \in Limits : SetPerDay(n)
  <2>1. ScoresTypes'
    BY <1>1, <1>2 DEF SetPerDay, ScoresTypes
  <2>2. BudgetInv'
    BY <1>1, <1>2 DEF SetPerDay, BudgetInv, UsedToday
  <2>3. StampInv' /\ LastScoreStands'
    BY <1>1, <1>2 DEF SetPerDay, StampInv, LastScoreStands
  <2> QED
    BY <2>1, <2>2, <2>3 DEF ScoresInv
<1>3. CASE NextDay
  <2>1. ScoresTypes'
    BY <1>1, <1>3 DEF NextDay, ScoresTypes
  <2>2. BudgetInv'
    <3>1. day \in Nat /\ budget.day \in Nat /\ boots \in Nat /\ perDay \in Limits
          /\ boots' = boots /\ day' = day + 1 /\ budget' = budget /\ spent' = 0
      BY <1>1, <1>3 DEF ScoresTypes, NextDay
    <3>2. budget'.day < day'
      BY <1>1, <3>1 DEF BudgetInv
    <3>3. UsedToday' = 0
      BY <3>1, <3>2 DEF UsedToday
    <3>4. perDay \in Nat
      BY <3>1
    <3>5. boots * perDay \in Nat
      BY <3>1, <3>4
    <3> QED
      BY <3>1, <3>2, <3>3, <3>4, <3>5 DEF BudgetInv
  <2>3. StampInv' /\ LastScoreStands'
    BY <1>1, <1>3 DEF NextDay, StampInv, LastScoreStands
  <2> QED
    BY <2>1, <2>2, <2>3 DEF ScoresInv
<1>4. CASE RestartBudget
  <2>1. ScoresTypes'
    BY <1>1, <1>4 DEF RestartBudget, ScoresTypes
  <2>2. BudgetInv'
    <3>1. PICK n \in Limits : spent <= (boots + 1) * n
      BY ProcessBudget
    <3>2. /\ boots' = boots + 1 /\ day' = day /\ spent' = spent
          /\ budget' = [day |-> 0, used |-> 0] /\ day \in Nat /\ boots \in Nat /\ n \in Nat /\ spent \in Nat
      BY <1>1, <1>4 DEF RestartBudget, ScoresTypes
    <3>3. UsedToday' = 0 /\ budget'.day <= day'
      BY <3>2 DEF UsedToday
    <3>4. spent' <= boots' * n + 0
      <4>1. (boots + 1) * n \in Nat
        BY <3>2
      <4> QED
        BY <3>1, <3>2, <4>1
    <3> QED
      BY <3>2, <3>3, <3>4 DEF BudgetInv
  <2>3. StampInv' /\ LastScoreStands'
    BY <1>1, <1>4 DEF RestartBudget, StampInv, LastScoreStands
  <2> QED
    BY <2>1, <2>2, <2>3 DEF ScoresInv
<1> QED
  BY <1>2, <1>3, <1>4

LEMMA ScoresStep == ASSUME ScoresInv, [ScoresNext]_score_vars PROVE ScoresInv'
<1>1. ScoresTypes
  BY DEF ScoresInv
<1>2. ASSUME NEW a \in Addrs, NEW b \in BOOLEAN, PassSilent(a, b) PROVE ScoresInv'
  BY <1>1, <1>2, SilentEffect, PassStep
<1>3. ASSUME NEW a \in Addrs, NEW score \in Scores, PassFound(a, score) PROVE ScoresInv'
  BY <1>1, <1>3, FoundEffect, PassStep
<1>4. ASSUME NEW a \in Addrs, PassNothing(a) \/ PassExhausted(a) PROVE ScoresInv'
  BY <1>1, <1>4, NothingEffect, PassStep
<1>5. CASE (\E n \in Limits : SetPerDay(n)) \/ NextDay \/ RestartBudget
  BY <1>5, OtherScoreSteps
<1>6. CASE UNCHANGED score_vars
  BY <1>6 DEF score_vars, ScoresInv, ScoresTypes, BudgetInv, UsedToday, StampInv, LastScoreStands
<1> QED
  BY <1>2, <1>3, <1>4, <1>5, <1>6 DEF ScoresNext

LEMMA ScoresHold == ScoresSpec => []ScoresInv
<1>1. ScoresInit => ScoresInv
  BY ScoresStart
<1>2. ScoresInv /\ [ScoresNext]_score_vars => ScoresInv'
  BY ScoresStep
<1> QED
  BY <1>1, <1>2, PTL DEF ScoresSpec

(* The refresh's type invariant holds for every set of addresses, limits   *)
(* and scores (crates/uip-enrich/src/worker.rs).                           *)
THEOREM ScoresTyping == ScoresSpec => []ScoresTypes
<1>1. ScoresInv => ScoresTypes
  BY DEF ScoresInv
<1> QED
  BY <1>1, ScoresHold, PTL

(* What refreshes cost is what was allowed, and the last score given is    *)
(* the one shown: no process spends more than one limit a day, an address  *)
(* is refreshed at most once a day, and the cache holds its last report,   *)
(* unless a write of it failed (worker.rs:26-80, 218-262, 359-371).        *)
THEOREM RefreshesStayRight == ScoresSpec => []RefreshesAreRight
<1>1. ScoresInv => RefreshesAreRight
  <2> SUFFICES ASSUME ScoresInv PROVE RefreshesAreRight
    OBVIOUS
  <2>1. BudgetPerProcess
    BY ProcessBudget DEF BudgetPerProcess
  <2>2. OneRefreshADay
    BY DEF ScoresInv, StampInv, OneRefreshADay
  <2> QED
    BY <2>1, <2>2 DEF ScoresInv, RefreshesAreRight
<1> QED
  BY <1>1, ScoresHold, PTL

-----------------------------------------------------------------------------
(* The GeoLite2 files.                                                     *)

GeoFile == [build : Nat, mtime : Nat]
Loaded  == [Editions -> Nat \cup {None}]
Tasks   == {"watch", "update"}
Stamps  == UNION {[S -> Nat] : S \in SUBSET Editions}
Runs    == [dir : Dirs \cup {None}, remote : Nat \cup {None}, body : Nat \cup {None},
            failed : BOOLEAN, updated : Stamps, uptodate : Stamps]

\* Builds and files bear times that have been.
DiskInv ==
  /\ time \in Nat /\ geoip_dir \in Dirs
  /\ published \in [Editions -> Nat]
  /\ files \in [Dirs -> [Editions -> GeoFile \cup {None}]]
  /\ \A e \in Editions : published[e] <= time
  /\ \A d \in Dirs, e \in Editions : files[d][e] # None => files[d][e].mtime <= time

\* The watcher waits for what it opened, and one task has opened files
\* unless two reloads overlap.
LoadedInv ==
  /\ path \in [Editions -> Dirs \cup {None}]
  /\ reader \in Loaded /\ seen \in Loaded
  /\ opened \in [Tasks -> Loaded \cup {None}]
  /\ watching \in {"asleep", "open"}
  /\ watching = "open" => opened["watch"] = None
  /\ overlapped \in BOOLEAN
  /\ ~overlapped => opened["watch"] = None \/ opened["update"] = None

UpdaterInv ==
  /\ at \in {"idle", "head", "get", "write", "reload", "record"}
  /\ due \in {<<>>, <<"ASN">>, EDITIONS} /\ run \in Runs
  /\ at \in {"head", "get", "write"} => due # <<>> /\ run.dir \in Dirs
  /\ at = "write" => run.body \in Nat
  /\ geo_status \in {None, "RETRY_AFTER", "CHECK_EVERY"}

SeenInv == \A e \in Editions : seen[e] # None => seen[e] <= time

\* What is in memory, or about to be, is what the watcher has seen.
CurrentBuilds == [e \in Editions |-> BuildOf(File(path[e], e))]
ReloadInv ==
  seen = Mtimes /\ watching = "asleep" /\ ~overlapped
  => /\ (\A t \in Tasks : opened[t] = None) => reader = CurrentBuilds
     /\ \A t \in Tasks : opened[t] # None => opened[t] = CurrentBuilds

\* A file from after the newest build holds that build, unless it slipped in
\* while that build was being published.
FreshInv ==
  \A d \in Dirs, e \in Editions :
    /\ files[d][e] # None /\ <<d, e>> \notin slipped
    /\ published[e] <= files[d][e].mtime
    => published[e] <= files[d][e].build

HoldsBuild(d, e, build) ==
  d # None /\ files[d][e] # None /\ <<d, e>> \notin slipped => build <= files[d][e].build

RunInv ==
  \A e \in DOMAIN run.uptodate :
    /\ e \in Editions /\ run.uptodate[e] \in Nat
    /\ run.uptodate[e] <= published[e]
    /\ HoldsBuild(run.dir, e, run.uptodate[e])

GeoInv ==
  /\ DiskInv /\ LoadedInv /\ UpdaterInv /\ SeenInv
  /\ ReloadInv /\ FreshInv /\ RunInv

LEMMA NoneApart == None \notin GeoFile /\ None \notin Loaded
  BY DEF GeoFile, Loaded, Editions

LEMMA FileKinds ==
  ASSUME DiskInv, NEW d \in Dirs \cup {None}, NEW e \in Editions
  PROVE  /\ File(d, e) \in GeoFile \cup {None}
         /\ MtimeOf(File(d, e)) \in Nat \cup {None}
         /\ BuildOf(File(d, e)) \in Nat \cup {None}
         /\ MtimeOf(File(d, e)) # None => MtimeOf(File(d, e)) <= time
<1>1. File(d, e) \in GeoFile \cup {None} /\ (File(d, e) # None => File(d, e).mtime <= time)
  BY DEF DiskInv, File
<1>2. CASE File(d, e) = None
  BY <1>1, <1>2 DEF MtimeOf, BuildOf
<1>3. CASE File(d, e) # None
  BY <1>1, <1>3 DEF MtimeOf, BuildOf, GeoFile
<1> QED
  BY <1>2, <1>3

LEMMA NoStamps == Idle.updated \in Stamps /\ Idle.uptodate \in Stamps /\ DOMAIN Idle.uptodate = {}
<1>1. [e \in {} |-> 0] \in [{} -> Nat]
  OBVIOUS
<1> QED
  BY <1>1 DEF Idle, Stamps

LEMMA IdleIsRun ==
  ASSUME NEW d \in Dirs \cup {None}
  PROVE  [Idle EXCEPT !.dir = d] \in Runs /\ Idle \in Runs
  BY NoStamps DEF Idle, Runs

LEMMA GeoStart == ASSUME GeoInit PROVE GeoInv
<1>1. DiskInv
  BY DEF GeoInit, DiskInv, GeoFile
<1>2. path \in [Editions -> Dirs \cup {None}]
  BY <1>1 DEF GeoInit, DiskInv
<1>3. \A e \in Editions : files[geoip_dir][e] = File(geoip_dir, e)
  BY <1>1 DEF DiskInv, File
<1>4. reader \in Loaded /\ seen \in Loaded /\ SeenInv
  BY <1>1, <1>3, FileKinds DEF GeoInit, DiskInv, Loaded, SeenInv
<1>5. LoadedInv
  BY <1>2, <1>4 DEF GeoInit, LoadedInv, Tasks
<1>6. UpdaterInv
  BY IdleIsRun DEF GeoInit, UpdaterInv
<1>7. reader = CurrentBuilds
  BY <1>1 DEF GeoInit, DiskInv, CurrentBuilds, File, BuildOf
<1>8. ReloadInv
  BY <1>7 DEF GeoInit, ReloadInv, Tasks
<1>9. FreshInv
  <2>1. \A d \in Dirs, e \in Editions : files[d][e] # None => files[d][e].mtime = 0
    BY DEF GeoInit
  <2> QED
    BY <2>1 DEF GeoInit, FreshInv
<1>10. RunInv
  BY NoStamps DEF GeoInit, RunInv
<1> QED
  BY <1>1, <1>4, <1>5, <1>6, <1>8, <1>9, <1>10 DEF GeoInv

\* What a reload reads.
LEMMA CurrentIsLoaded ==
  ASSUME DiskInv, LoadedInv
  PROVE  CurrentBuilds \in Loaded /\ Mtimes \in Loaded
<1>1. \A e \in Editions : path[e] \in Dirs \cup {None}
  BY DEF LoadedInv
<1> QED
  BY <1>1, FileKinds DEF CurrentBuilds, Mtimes, Loaded

DiskStands == /\ time' = time /\ published' = published /\ files' = files /\ geoip_dir' = geoip_dir
              /\ slipped' = slipped

UpdaterStands == at' = at /\ due' = due /\ run' = run /\ geo_status' = geo_status

LEMMA DiskKept ==
  ASSUME DiskInv, FreshInv, DiskStands
  PROVE  DiskInv' /\ FreshInv'
  BY DEF DiskInv, FreshInv, DiskStands

LEMMA UpdaterKept ==
  ASSUME UpdaterInv, RunInv, DiskStands, UpdaterStands
  PROVE  UpdaterInv' /\ RunInv'
  BY DEF UpdaterInv, RunInv, DiskStands, UpdaterStands, HoldsBuild

LEMMA ViewKept ==
  ASSUME DiskStands, path' = path
  PROVE  CurrentBuilds' = CurrentBuilds /\ Mtimes' = Mtimes
  BY DEF CurrentBuilds, Mtimes, File, DiskStands

LEMMA OpenStep ==
  ASSUME GeoInv, NEW task \in Tasks, opened[task] = None, Open(task), path' = path,
         reader' = reader, seen' = seen, DiskStands,
         watching' = "asleep" \/ (task = "update" /\ watching' = watching)
  PROVE  LoadedInv' /\ SeenInv' /\ ReloadInv'
<1>1. DiskInv /\ LoadedInv /\ ReloadInv /\ SeenInv
  BY DEF GeoInv
<1>2. CurrentBuilds \in Loaded /\ CurrentBuilds # None
  BY <1>1, CurrentIsLoaded, NoneApart
<1>3. opened' = [opened EXCEPT ![task] = CurrentBuilds]
      /\ overlapped' = (\E t \in Tasks : opened[t] # None)
  BY <1>1 DEF Open, CurrentBuilds, LoadedInv
<1>4. opened \in [Tasks -> Loaded \cup {None}]
  BY <1>1 DEF LoadedInv
<1>5. opened' \in [Tasks -> Loaded \cup {None}] /\ opened'[task] = CurrentBuilds
      /\ \A t \in Tasks \ {task} : opened'[t] = opened[t]
  BY <1>2, <1>3, <1>4
<1>6. ~overlapped' => \A t \in Tasks \ {task} : opened'[t] = None
  BY <1>3, <1>5
<1>7. overlapped' \in BOOLEAN
  BY <1>3
<1>8. LoadedInv'
  BY <1>1, <1>5, <1>6, <1>7 DEF LoadedInv, Tasks
<1>9. CurrentBuilds' = CurrentBuilds
  BY ViewKept
<1>10. ReloadInv'
  BY <1>2, <1>5, <1>6, <1>9 DEF ReloadInv
<1>11. SeenInv'
  BY <1>1 DEF SeenInv, DiskStands
<1> QED
  BY <1>8, <1>10, <1>11

LEMMA PutStep ==
  ASSUME GeoInv, NEW task \in Tasks, Put(task), path' = path, seen' = seen, watching' = watching,
         overlapped' = overlapped, DiskStands
  PROVE  LoadedInv' /\ SeenInv' /\ ReloadInv'
<1>1. DiskInv /\ LoadedInv /\ ReloadInv /\ SeenInv
  BY DEF GeoInv
<1>2. opened \in [Tasks -> Loaded \cup {None}] /\ opened[task] # None
      /\ reader' = opened[task] /\ opened' = [opened EXCEPT ![task] = None]
  BY <1>1 DEF LoadedInv, Put
<1>3. opened' \in [Tasks -> Loaded \cup {None}] /\ opened'[task] = None /\ reader' \in Loaded
      /\ \A t \in Tasks \ {task} : opened'[t] = opened[t]
  BY <1>2
<1>4. ~overlapped => \A t \in Tasks : opened'[t] = None
  BY <1>1, <1>2, <1>3 DEF LoadedInv, Tasks
<1>5. LoadedInv'
  BY <1>1, <1>3, <1>4 DEF LoadedInv, Tasks
<1>6. CurrentBuilds' = CurrentBuilds /\ Mtimes' = Mtimes
  BY ViewKept
<1>7. ReloadInv'
  BY <1>1, <1>2, <1>4, <1>6 DEF ReloadInv
<1>8. SeenInv'
  BY <1>1 DEF SeenInv, DiskStands
<1> QED
  BY <1>5, <1>7, <1>8

LEMMA WatcherStep ==
  ASSUME GeoInv, Watch \/ WatchOpens \/ WatchPuts
  PROVE  GeoInv'
<1>1. DiskInv /\ LoadedInv /\ UpdaterInv /\ SeenInv /\ ReloadInv /\ FreshInv /\ RunInv
  BY DEF GeoInv
<1>2. DiskStands /\ UpdaterStands /\ path' = path
  BY DEF Watch, WatchOpens, WatchPuts, DiskStands, UpdaterStands, disk, settings, updater
<1>3. DiskInv' /\ FreshInv' /\ UpdaterInv' /\ RunInv'
  BY <1>1, <1>2, DiskKept, UpdaterKept
<1>4. CASE Watch
  <2>1. /\ opened["watch"] = None /\ seen' = Mtimes /\ watching' = "open"
        /\ reader' = reader /\ opened' = opened /\ overlapped' = overlapped
    BY <1>4 DEF Watch
  <2>2. LoadedInv'
    BY <1>1, <1>2, <2>1, CurrentIsLoaded DEF LoadedInv
  <2>3. SeenInv'
    <3>1. \A e \in Editions : MtimeOf(File(path[e], e)) # None => MtimeOf(File(path[e], e)) <= time
      BY <1>1, FileKinds DEF LoadedInv
    <3> QED
      BY <1>2, <2>1, <3>1 DEF SeenInv, Mtimes, DiskStands
  <2>4. ReloadInv'
    BY <2>1 DEF ReloadInv
  <2> QED
    BY <1>3, <2>2, <2>3, <2>4 DEF GeoInv
<1>5. CASE WatchOpens
  <2>1. /\ watching = "open" /\ watching' = "asleep" /\ Open("watch")
        /\ reader' = reader /\ seen' = seen
    BY <1>5 DEF WatchOpens
  <2>2. opened["watch"] = None
    BY <1>1, <2>1 DEF LoadedInv
  <2>3. "watch" \in Tasks
    BY DEF Tasks
  <2>4. LoadedInv' /\ SeenInv' /\ ReloadInv'
    BY <1>2, <2>1, <2>2, <2>3, OpenStep
  <2> QED
    BY <1>3, <2>4 DEF GeoInv
<1>6. CASE WatchPuts
  <2>1. Put("watch") /\ seen' = seen /\ watching' = watching /\ overlapped' = overlapped
    BY <1>6 DEF WatchPuts
  <2>2. LoadedInv' /\ SeenInv' /\ ReloadInv'
    BY <1>2, <2>1, PutStep DEF Tasks
  <2> QED
    BY <1>3, <2>2 DEF GeoInv
<1> QED
  BY <1>4, <1>5, <1>6

LEMMA UpdaterReloads ==
  ASSUME GeoInv, Reload \/ ReloadPuts
  PROVE  GeoInv'
<1>1. DiskInv /\ LoadedInv /\ UpdaterInv /\ SeenInv /\ ReloadInv /\ FreshInv /\ RunInv
  BY DEF GeoInv
<1>2. DiskStands /\ due' = due /\ run' = run /\ geo_status' = geo_status /\ path' = path
  BY DEF Reload, ReloadPuts, DiskStands, disk, settings, updater
<1>3. DiskInv' /\ FreshInv'
  BY <1>1, <1>2, DiskKept
<1>4. UpdaterInv' /\ RunInv'
  BY <1>1, <1>2 DEF UpdaterInv, RunInv, DiskStands, HoldsBuild, Reload, ReloadPuts, updater
<1>5. CASE Reload
  <2>1. opened["update"] = None /\ Open("update") /\ reader' = reader /\ seen' = seen /\ watching' = watching
    BY <1>5 DEF Reload
  <2>2. LoadedInv' /\ SeenInv' /\ ReloadInv'
    BY <1>2, <2>1, OpenStep DEF Tasks
  <2> QED
    BY <1>3, <1>4, <2>2 DEF GeoInv
<1>6. CASE ReloadPuts
  <2>1. Put("update") /\ seen' = seen /\ watching' = watching /\ overlapped' = overlapped
    BY <1>6 DEF ReloadPuts
  <2>2. LoadedInv' /\ SeenInv' /\ ReloadInv'
    BY <1>2, <2>1, PutStep DEF Tasks
  <2> QED
    BY <1>3, <1>4, <2>2 DEF GeoInv
<1> QED
  BY <1>5, <1>6

\* After an edition the next one is due, or the run comes to its end.
LEMMA NextEditionStep ==
  ASSUME UpdaterInv, due # <<>>, run.dir \in Dirs, NEW result \in Runs, result.dir = run.dir,
         NextEdition(result), geo_status' = geo_status
  PROVE  UpdaterInv' /\ run' = result
<1>1. due = <<"ASN">> \/ due = EDITIONS
  BY DEF UpdaterInv
<1>2. CASE due = <<"ASN">>
  <2>1. Tail(due) = <<>> /\ Len(due) = 1
    BY <1>2
  <2>2. due' = <<>> /\ at' \in {"record", "reload"} /\ run' = result
    BY <2>1 DEF NextEdition
  <2> QED
    BY <2>2 DEF UpdaterInv
<1>3. CASE due = EDITIONS
  <2>1. Tail(due) = <<"ASN">> /\ Len(due) = 2
    BY <1>3 DEF EDITIONS
  <2>2. due' = <<"ASN">> /\ at' = "head" /\ run' = result
    BY <2>1 DEF NextEdition
  <2> QED
    BY <2>2 DEF UpdaterInv
<1> QED
  BY <1>1, <1>2, <1>3

LEMMA HeadOfDue ==
  ASSUME UpdaterInv, due # <<>>
  PROVE  Head(due) \in Editions
  BY DEF UpdaterInv, EDITIONS, Editions

\* An edition more is up to date, or updated.
LEMMA MoreStamps ==
  ASSUME NEW s \in Stamps, NEW e \in Editions, NEW n \in Nat
  PROVE  [x \in DOMAIN s \cup {e} |-> IF x = e THEN n ELSE s[x]] \in Stamps
<1>1. PICK S \in SUBSET Editions : s \in [S -> Nat]
  BY DEF Stamps
<1>2. [x \in DOMAIN s \cup {e} |-> IF x = e THEN n ELSE s[x]] \in [S \cup {e} -> Nat]
  BY <1>1
<1>3. S \cup {e} \in SUBSET Editions
  OBVIOUS
<1> QED
  BY <1>2, <1>3, Zenon DEF Stamps

LEMMA UpdaterStep ==
  ASSUME GeoInv, BeginRun \/ EditionFails \/ Look \/ Download \/ Record
  PROVE  GeoInv'
<1>1. DiskInv /\ LoadedInv /\ UpdaterInv /\ SeenInv /\ ReloadInv /\ FreshInv /\ RunInv
  BY DEF GeoInv
<1>2. /\ DiskStands /\ path' = path /\ reader' = reader /\ seen' = seen /\ opened' = opened
      /\ watching' = watching /\ overlapped' = overlapped
  BY DEF BeginRun, EditionFails, Look, Download, Record, DiskStands, disk, settings, memory
<1>3. DiskInv' /\ FreshInv' /\ LoadedInv' /\ SeenInv'
  BY <1>1, <1>2, DiskKept DEF LoadedInv, SeenInv, DiskStands
<1>4. ReloadInv'
  BY <1>1, <1>2, ViewKept DEF ReloadInv
<1>5. UpdaterInv' /\ RunInv'
  <2>1. CASE BeginRun
    <3>1. at' = "head" /\ due' = EDITIONS /\ run' = [Idle EXCEPT !.dir = geoip_dir] /\ geo_status' = geo_status
      BY <2>1 DEF BeginRun
    <3>2. run' \in Runs /\ run'.dir \in Dirs /\ run'.uptodate = Idle.uptodate /\ EDITIONS # <<>>
      BY <1>1, <3>1, IdleIsRun DEF DiskInv, Idle, EDITIONS
    <3>3. UpdaterInv'
      BY <1>1, <3>1, <3>2 DEF UpdaterInv
    <3> QED
      BY <3>2, <3>3, NoStamps DEF RunInv
  <2>2. CASE EditionFails
    <3>1. /\ due # <<>> /\ run.dir \in Dirs /\ run \in Runs /\ geo_status' = geo_status
          /\ NextEdition([run EXCEPT !.failed = TRUE])
      BY <1>1, <2>2 DEF EditionFails, UpdaterInv
    <3>2. [run EXCEPT !.failed = TRUE] \in Runs /\ [run EXCEPT !.failed = TRUE].dir = run.dir
          /\ [run EXCEPT !.failed = TRUE].uptodate = run.uptodate
      BY <3>1 DEF Runs
    <3>3. UpdaterInv' /\ run' = [run EXCEPT !.failed = TRUE]
      BY <1>1, <3>1, <3>2, NextEditionStep
    <3> QED
      BY <1>1, <1>2, <3>2, <3>3 DEF RunInv, HoldsBuild, DiskStands
  <2>3. CASE Look
    <3> DEFINE e == Head(due)
    <3>1. due # <<>> /\ run.dir \in Dirs /\ run \in Runs /\ geo_status' = geo_status
      BY <1>1, <2>3 DEF Look, UpdaterInv
    <3>2. e \in Editions
      BY <1>1, <3>1, HeadOfDue
    <3> DEFINE more(remote) == [x \in DOMAIN run.uptodate \cup {e} |->
                                  IF x = e THEN remote ELSE run.uptodate[x]]
    <3>3. PICK remote \in {published[e], None} :
            IF NotNewer(remote, MtimeOf(File(run.dir, e)))
            THEN NextEdition([run EXCEPT !.uptodate = more(remote)])
            ELSE run' = [run EXCEPT !.remote = remote] /\ at' = "get" /\ UNCHANGED due
      BY <2>3 DEF Look
    <3>4. published[e] \in Nat
      BY <1>1, <3>2 DEF DiskInv
    <3>5. CASE NotNewer(remote, MtimeOf(File(run.dir, e)))
      <4>1. remote = published[e] /\ remote \in Nat /\ MtimeOf(File(run.dir, e)) # None
            /\ remote <= MtimeOf(File(run.dir, e))
        BY <3>3, <3>4, <3>5 DEF NotNewer
      <4>2. more(remote) \in Stamps
        <5>1. run.uptodate \in Stamps
          BY <3>1 DEF Runs
        <5> HIDE DEF e
        <5> QED
          BY <3>2, <4>1, <5>1, MoreStamps, Zenon
      <4>3. [run EXCEPT !.uptodate = more(remote)] \in Runs
            /\ [run EXCEPT !.uptodate = more(remote)].dir = run.dir
            /\ [run EXCEPT !.uptodate = more(remote)].uptodate = more(remote)
        BY <3>1, <4>2 DEF Runs
      <4>4. UpdaterInv' /\ run' = [run EXCEPT !.uptodate = more(remote)]
        BY <1>1, <3>1, <3>3, <3>5, <4>3, NextEditionStep
      <4>5. File(run.dir, e) = files[run.dir][e] /\ File(run.dir, e) # None
            /\ remote <= files[run.dir][e].mtime
        BY <3>1, <4>1 DEF File, MtimeOf
      <4>6. HoldsBuild(run.dir, e, remote)
        BY <1>1, <3>1, <3>2, <4>1, <4>5 DEF FreshInv, HoldsBuild
      <4>7. ASSUME NEW x \in DOMAIN run.uptodate \cup {e}
            PROVE  /\ x \in Editions /\ more(remote)[x] \in Nat /\ more(remote)[x] <= published[x]
                   /\ HoldsBuild(run.dir, x, more(remote)[x])
        <5>1. CASE x = e
          BY <3>2, <4>1, <4>6, <5>1
        <5>2. CASE x # e
          <6>1. more(remote)[x] = run.uptodate[x] /\ x \in DOMAIN run.uptodate
            BY <5>2
          <6> QED
            BY <1>1, <6>1 DEF RunInv
        <5> QED
          BY <5>1, <5>2
      <4>8. run'.dir = run.dir /\ run'.uptodate = more(remote)
            /\ DOMAIN more(remote) = DOMAIN run.uptodate \cup {e}
        BY <4>3, <4>4
      <4> HIDE DEF e, more
      <4>9. RunInv'
        BY <1>2, <4>7, <4>8 DEF RunInv, HoldsBuild, DiskStands
      <4> QED
        BY <4>4, <4>9
    <3>6. CASE ~NotNewer(remote, MtimeOf(File(run.dir, e)))
      <4>1. run' = [run EXCEPT !.remote = remote] /\ at' = "get" /\ due' = due
        BY <3>3, <3>6
      <4>2. run' \in Runs /\ run'.dir = run.dir /\ run'.uptodate = run.uptodate
        BY <3>1, <3>4, <4>1 DEF Runs
      <4>3. UpdaterInv'
        BY <1>1, <3>1, <4>1, <4>2 DEF UpdaterInv
      <4> QED
        BY <1>1, <1>2, <4>2, <4>3 DEF RunInv, HoldsBuild, DiskStands
    <3> QED
      BY <3>5, <3>6
  <2>4. CASE Download
    <3>1. at = "get" /\ at' = "write" /\ run' = [run EXCEPT !.body = published[Head(due)]] /\ due' = due
          /\ geo_status' = geo_status
      BY <2>4 DEF Download
    <3>2. due # <<>> /\ run.dir \in Dirs /\ run \in Runs /\ published[Head(due)] \in Nat
      BY <1>1, <3>1, HeadOfDue DEF UpdaterInv, DiskInv
    <3>3. run' \in Runs /\ run'.dir = run.dir /\ run'.uptodate = run.uptodate /\ run'.body \in Nat
      BY <3>1, <3>2 DEF Runs
    <3>4. UpdaterInv'
      BY <1>1, <3>1, <3>2, <3>3 DEF UpdaterInv
    <3> QED
      BY <1>1, <1>2, <3>3, <3>4 DEF RunInv, HoldsBuild, DiskStands
  <2>5. CASE Record
    <3>1. at' = "idle" /\ due' = due /\ run' = run /\ geo_status' \in {"RETRY_AFTER", "CHECK_EVERY"}
      BY <2>5 DEF Record
    <3> QED
      BY <1>1, <1>2, <3>1 DEF UpdaterInv, RunInv, HoldsBuild, DiskStands
  <2> QED
    BY <2>1, <2>2, <2>3, <2>4, <2>5
<1> QED
  BY <1>3, <1>4, <1>5 DEF GeoInv

\* A file is replaced: the watcher has yet to see it, and what it holds is
\* as new as MaxMind's, or it has slipped in.
LEMMA PutFileStep ==
  ASSUME GeoInv, NEW d \in Dirs, NEW e \in Editions, NEW build \in Nat, PutFile(d, e, build),
         published' = published, geoip_dir' = geoip_dir, path' = path, reader' = reader,
         seen' = seen, opened' = opened, watching' = watching, overlapped' = overlapped
  PROVE  /\ DiskInv' /\ LoadedInv' /\ SeenInv' /\ ReloadInv' /\ FreshInv'
         /\ \A c \in Dirs \cup {None}, x \in Editions, n \in Nat :
              n <= published[x] /\ HoldsBuild(c, x, n) => HoldsBuild(c, x, n)'
<1>1. DiskInv /\ LoadedInv /\ SeenInv /\ ReloadInv /\ FreshInv
  BY DEF GeoInv
<1> DEFINE new == [build |-> build, mtime |-> time + 1]
<1>2. /\ time \in Nat /\ time' = time + 1 /\ files' = [files EXCEPT ![d][e] = new]
      /\ slipped' = IF build < published[e] THEN slipped \cup {<<d, e>>} ELSE slipped \ {<<d, e>>}
      /\ files \in [Dirs -> [Editions -> GeoFile \cup {None}]] /\ published \in [Editions -> Nat]
  BY <1>1 DEF PutFile, DiskInv
<1>3. new \in GeoFile /\ new # None /\ new.mtime = time + 1 /\ new.build = build
  BY <1>2, NoneApart DEF GeoFile
<1> HIDE DEF new
<1>4. /\ files' \in [Dirs -> [Editions -> GeoFile \cup {None}]]
      /\ files'[d][e] = new
      /\ \A c \in Dirs, x \in Editions : <<c, x>> # <<d, e>> => files'[c][x] = files[c][x]
  BY <1>2, <1>3
<1>5. DiskInv'
  <2>1. \A c \in Dirs, x \in Editions : files'[c][x] # None => files'[c][x].mtime <= time'
    <3> SUFFICES ASSUME NEW c \in Dirs, NEW x \in Editions, files'[c][x] # None
                 PROVE  files'[c][x].mtime <= time'
      OBVIOUS
    <3>1. CASE <<c, x>> = <<d, e>>
      BY <1>2, <1>3, <1>4, <3>1
    <3>2. CASE <<c, x>> # <<d, e>>
      <4>1. files'[c][x] = files[c][x] /\ files[c][x] \in GeoFile /\ files[c][x].mtime <= time
        BY <1>1, <1>4, <3>2 DEF DiskInv
      <4>2. files[c][x].mtime \in Nat
        BY <4>1 DEF GeoFile
      <4> QED
        BY <1>2, <4>1, <4>2
    <3> QED
      BY <3>1, <3>2
  <2>2. \A x \in Editions : published'[x] <= time'
    BY <1>1, <1>2 DEF DiskInv
  <2> QED
    BY <1>1, <1>2, <1>4, <2>1, <2>2 DEF DiskInv
<1>6. LoadedInv'
  BY <1>1 DEF LoadedInv
<1>7. SeenInv'
  <2>1. \A x \in Editions : seen[x] \in Nat \cup {None}
    BY <1>1 DEF LoadedInv, Loaded
  <2> QED
    BY <1>1, <1>2, <2>1 DEF SeenInv
<1>8. ReloadInv'
  <2>1. CASE path[e] = d
    <3>1. Mtimes'[e] = time + 1
      BY <1>1, <1>3, <1>4, <2>1 DEF Mtimes, File, MtimeOf
    <3>2. seen[e] # time + 1
      <4>1. seen[e] \in Nat \cup {None} /\ (seen[e] # None => seen[e] <= time)
        BY <1>1 DEF LoadedInv, Loaded, SeenInv
      <4> QED
        BY <1>2, <4>1
    <3> QED
      BY <3>1, <3>2 DEF ReloadInv
  <2>2. CASE path[e] # d
    <3>1. \A x \in Editions : File(path[x], x)' = File(path[x], x)
      <4> SUFFICES ASSUME NEW x \in Editions PROVE File(path[x], x)' = File(path[x], x)
        OBVIOUS
      <4>1. path[x] \in Dirs \cup {None}
        BY <1>1 DEF LoadedInv
      <4>2. <<path[x], x>> # <<d, e>>
        BY <2>2
      <4> QED
        BY <1>4, <4>1, <4>2 DEF File
    <3>2. CurrentBuilds' = CurrentBuilds /\ Mtimes' = Mtimes
      BY <3>1 DEF CurrentBuilds, Mtimes
    <3> QED
      BY <1>1, <3>2 DEF ReloadInv
  <2> QED
    BY <2>1, <2>2
<1>9. FreshInv'
  <2> SUFFICES ASSUME NEW c \in Dirs, NEW x \in Editions,
                      files'[c][x] # None, <<c, x>> \notin slipped',
                      published[x] <= files'[c][x].mtime
               PROVE  published[x] <= files'[c][x].build
    BY DEF FreshInv
  <2>1. CASE <<c, x>> = <<d, e>>
    <3>1. ~(build < published[e])
      BY <1>2, <2>1
    <3> QED
      BY <1>2, <1>3, <1>4, <2>1, <3>1
  <2>2. CASE <<c, x>> # <<d, e>>
    <3>1. <<c, x>> \notin slipped
      BY <1>2, <2>2
    <3> QED
      BY <1>1, <1>4, <2>2, <3>1 DEF FreshInv
  <2> QED
    BY <2>1, <2>2
<1>10. ASSUME NEW c \in Dirs \cup {None}, NEW x \in Editions, NEW n \in Nat,
              n <= published[x], HoldsBuild(c, x, n),
              c # None, files'[c][x] # None, <<c, x>> \notin slipped'
       PROVE  n <= files'[c][x].build
  <2>1. CASE <<c, x>> = <<d, e>>
    <3>1. ~(build < published[e]) /\ x = e /\ c = d
      BY <1>2, <1>10, <2>1
    <3>2. published[e] \in Nat
      BY <1>2
    <3> QED
      BY <1>3, <1>4, <1>10, <3>1, <3>2
  <2>2. CASE <<c, x>> # <<d, e>>
    <3>1. files'[c][x] = files[c][x]
      BY <1>4, <1>10, <2>2
    <3>2. <<c, x>> \notin slipped
      BY <1>2, <1>10, <2>2
    <3> QED
      BY <1>10, <3>1, <3>2 DEF HoldsBuild
  <2> QED
    BY <2>1, <2>2
<1> QED
  BY <1>5, <1>6, <1>7, <1>8, <1>9, <1>10 DEF HoldsBuild

LEMMA ReplaceStep ==
  ASSUME GeoInv, Extract \/ (\E d \in Dirs, e \in Editions : SwapByHand(d, e))
  PROVE  GeoInv'
<1>1. DiskInv /\ LoadedInv /\ UpdaterInv /\ RunInv
  BY DEF GeoInv
<1>2. CASE Extract
  <2> DEFINE e == Head(due)
             more == [x \in DOMAIN run.updated \cup {e} |-> IF x = e THEN run.body ELSE run.updated[x]]
  <2>1. at = "write" /\ due # <<>> /\ run.dir \in Dirs /\ run \in Runs /\ run.body \in Nat /\ e \in Editions
    BY <1>1, <1>2, HeadOfDue DEF Extract, UpdaterInv
  <2>2. /\ PutFile(run.dir, e, run.body) /\ NextEdition([run EXCEPT !.updated = more])
        /\ published' = published /\ geoip_dir' = geoip_dir /\ path' = path /\ reader' = reader
        /\ seen' = seen /\ opened' = opened /\ watching' = watching /\ overlapped' = overlapped
        /\ geo_status' = geo_status
    BY <1>2 DEF Extract, settings, memory
  <2>3. more \in Stamps
    <3>1. run.updated \in Stamps
      BY <2>1 DEF Runs
    <3> HIDE DEF e
    <3> QED
      BY <2>1, <3>1, MoreStamps, Zenon
  <2> HIDE DEF e, more
  <2>4. /\ [run EXCEPT !.updated = more] \in Runs /\ [run EXCEPT !.updated = more].dir = run.dir
        /\ [run EXCEPT !.updated = more].uptodate = run.uptodate
    BY <2>1, <2>3 DEF Runs
  <2>5. UpdaterInv' /\ run' = [run EXCEPT !.updated = more]
    BY <1>1, <2>1, <2>2, <2>4, NextEditionStep
  <2>6. /\ DiskInv' /\ LoadedInv' /\ SeenInv' /\ ReloadInv' /\ FreshInv'
        /\ \A c \in Dirs \cup {None}, x \in Editions, n \in Nat :
             n <= published[x] /\ HoldsBuild(c, x, n) => HoldsBuild(c, x, n)'
    BY <2>1, <2>2, PutFileStep
  <2>7. RunInv'
    <3>1. run'.dir = run.dir /\ run'.uptodate = run.uptodate /\ run.dir \in Dirs \cup {None}
      BY <2>1, <2>4, <2>5
    <3>2. ASSUME NEW x \in DOMAIN run.uptodate, run.dir # None, files'[run.dir][x] # None,
                 <<run.dir, x>> \notin slipped'
          PROVE  run.uptodate[x] <= files'[run.dir][x].build
      <4>1. /\ x \in Editions /\ run.uptodate[x] \in Nat /\ run.uptodate[x] <= published[x]
            /\ HoldsBuild(run.dir, x, run.uptodate[x])
        BY <1>1 DEF RunInv
      <4> QED
        BY <2>6, <3>1, <3>2, <4>1 DEF HoldsBuild
    <3> QED
      BY <1>1, <2>2, <3>1, <3>2 DEF RunInv, HoldsBuild
  <2> QED
    BY <2>5, <2>6, <2>7 DEF GeoInv
<1>3. ASSUME NEW d \in Dirs, NEW e \in Editions, SwapByHand(d, e)
      PROVE  GeoInv'
  <2>1. /\ PutFile(d, e, published[e])
        /\ published' = published /\ geoip_dir' = geoip_dir /\ path' = path /\ reader' = reader
        /\ seen' = seen /\ opened' = opened /\ watching' = watching /\ overlapped' = overlapped
        /\ UpdaterStands
    BY <1>3 DEF SwapByHand, settings, memory, updater, UpdaterStands
  <2>2. published[e] \in Nat
    BY <1>1 DEF DiskInv
  <2>3. /\ DiskInv' /\ LoadedInv' /\ SeenInv' /\ ReloadInv' /\ FreshInv'
        /\ \A c \in Dirs \cup {None}, x \in Editions, n \in Nat :
             n <= published[x] /\ HoldsBuild(c, x, n) => HoldsBuild(c, x, n)'
    BY <2>1, <2>2, PutFileStep
  <2>4. UpdaterInv'
    BY <1>1, <2>1 DEF UpdaterInv, UpdaterStands
  <2>5. RunInv'
    <3>1. run' = run /\ run.dir \in Dirs \cup {None}
      BY <1>1, <2>1 DEF UpdaterInv, UpdaterStands, Runs
    <3>2. ASSUME NEW x \in DOMAIN run.uptodate
          PROVE  HoldsBuild(run.dir, x, run.uptodate[x])'
      <4>1. /\ x \in Editions /\ run.uptodate[x] \in Nat /\ run.uptodate[x] <= published[x]
            /\ HoldsBuild(run.dir, x, run.uptodate[x])
        BY <1>1 DEF RunInv
      <4> QED
        BY <2>3, <3>1, <4>1 DEF HoldsBuild
    <3> QED
      BY <1>1, <2>1, <3>1, <3>2 DEF RunInv
  <2> QED
    BY <2>3, <2>4, <2>5 DEF GeoInv
<1> QED
  BY <1>2, <1>3

\* A new build has a time of its own: no file is as new.
LEMMA PublishStep ==
  ASSUME GeoInv, NEW e \in Editions, Publish(e)
  PROVE  GeoInv'
<1>1. DiskInv /\ LoadedInv /\ UpdaterInv /\ SeenInv /\ ReloadInv /\ FreshInv /\ RunInv
  BY DEF GeoInv
<1>2. /\ time \in Nat /\ time' = time + 1 /\ published' = [published EXCEPT ![e] = time + 1]
      /\ files' = files /\ geoip_dir' = geoip_dir /\ slipped' = slipped /\ UpdaterStands
      /\ path' = path /\ reader' = reader /\ seen' = seen /\ opened' = opened
      /\ watching' = watching /\ overlapped' = overlapped
  BY <1>1 DEF Publish, DiskInv, settings, memory, updater, UpdaterStands
<1>3. /\ published' \in [Editions -> Nat] /\ published'[e] = time + 1
      /\ \A x \in Editions : published[x] <= published'[x] /\ published'[x] <= time'
                             /\ (x # e => published'[x] = published[x])
  BY <1>1, <1>2 DEF DiskInv
<1>4. \A d \in Dirs, x \in Editions :
        files[d][x] # None => files[d][x].mtime <= time /\ files[d][x] \in GeoFile
  BY <1>1 DEF DiskInv
<1>5. \A d \in Dirs, x \in Editions :
        files[d][x] # None => files[d][x].mtime <= time' /\ files[d][x].mtime < time + 1
  BY <1>2, <1>4 DEF GeoFile
<1>6. DiskInv'
  BY <1>1, <1>2, <1>3, <1>5 DEF DiskInv
<1>7. LoadedInv' /\ SeenInv'
  <2>1. \A x \in Editions : seen[x] \in Nat \cup {None}
    BY <1>1 DEF LoadedInv, Loaded
  <2> QED
    BY <1>1, <1>2, <2>1 DEF LoadedInv, SeenInv
<1>8. ReloadInv'
  <2>1. CurrentBuilds' = CurrentBuilds /\ Mtimes' = Mtimes
    BY <1>2 DEF CurrentBuilds, Mtimes, File
  <2> QED
    BY <1>1, <1>2, <2>1 DEF ReloadInv
<1>9. FreshInv'
  <2> SUFFICES ASSUME NEW d \in Dirs, NEW x \in Editions, files[d][x] # None, <<d, x>> \notin slipped,
                      published'[x] <= files[d][x].mtime
               PROVE  published'[x] <= files[d][x].build
    BY <1>2 DEF FreshInv
  <2>1. x # e
    BY <1>2, <1>3, <1>4, <1>5 DEF GeoFile
  <2> QED
    BY <1>1, <1>3, <2>1 DEF FreshInv
<1>10. RunInv'
  <2> SUFFICES ASSUME NEW x \in DOMAIN run.uptodate
               PROVE  /\ x \in Editions /\ run.uptodate[x] \in Nat
                      /\ run.uptodate[x] <= published'[x]
                      /\ HoldsBuild(run.dir, x, run.uptodate[x])
    BY <1>2 DEF RunInv, HoldsBuild, UpdaterStands
  <2>1. /\ x \in Editions /\ run.uptodate[x] \in Nat /\ run.uptodate[x] <= published[x]
        /\ HoldsBuild(run.dir, x, run.uptodate[x])
    BY <1>1 DEF RunInv
  <2>2. published[x] \in Nat /\ published'[x] \in Nat /\ published[x] <= published'[x]
    BY <1>1, <1>3, <2>1 DEF DiskInv
  <2> QED
    BY <2>1, <2>2
<1>11. UpdaterInv'
  BY <1>1, <1>2 DEF UpdaterInv, UpdaterStands
<1> QED
  BY <1>6, <1>7, <1>8, <1>9, <1>10, <1>11 DEF GeoInv

\* A new process reads the files that are there.
LEMMA RestartLookupsStep ==
  ASSUME GeoInv, RestartLookups
  PROVE  GeoInv'
<1>1. DiskInv /\ LoadedInv /\ FreshInv /\ UpdaterInv
  BY DEF GeoInv
<1>2. DiskStands /\ overlapped' = overlapped /\ geo_status' = geo_status /\ Boot
  BY DEF RestartLookups, DiskStands, disk, settings
<1>3. DiskInv' /\ FreshInv'
  BY <1>1, <1>2, DiskKept
<1>4. \A e \in Editions : files[geoip_dir][e] = File(geoip_dir, e) /\ geoip_dir \in Dirs
  BY <1>1 DEF DiskInv, File
<1>5. /\ path' \in [Editions -> Dirs \cup {None}] /\ reader' \in Loaded /\ seen' \in Loaded
      /\ \A e \in Editions : seen'[e] # None => seen'[e] <= time
  BY <1>1, <1>2, <1>4, FileKinds DEF Boot, Loaded
<1>6. /\ watching' = "asleep" /\ opened' = [t \in Tasks |-> None]
      /\ at' = "idle" /\ due' = <<>> /\ run' = Idle
  BY <1>2 DEF Boot, Tasks
<1>7. LoadedInv' /\ SeenInv'
  BY <1>1, <1>2, <1>5, <1>6 DEF LoadedInv, SeenInv, DiskStands, Tasks
<1>8. reader' = CurrentBuilds'
  BY <1>1, <1>2, <1>4 DEF Boot, CurrentBuilds, File, BuildOf, DiskStands
<1>9. ReloadInv'
  BY <1>6, <1>8 DEF ReloadInv
<1>10. UpdaterInv' /\ RunInv'
  BY <1>1, <1>2, <1>6, IdleIsRun, NoStamps DEF UpdaterInv, RunInv
<1> QED
  BY <1>3, <1>7, <1>9, <1>10 DEF GeoInv

LEMMA ConfigureStep ==
  ASSUME GeoInv, NEW d \in Dirs, NEW c \in BOOLEAN, Configure(d, c)
  PROVE  GeoInv'
<1>1. DiskInv /\ LoadedInv /\ UpdaterInv /\ SeenInv /\ ReloadInv /\ FreshInv /\ RunInv
  BY DEF GeoInv
<1>2. /\ geoip_dir' = d /\ time' = time /\ published' = published /\ files' = files
      /\ slipped' = slipped /\ UpdaterStands
      /\ path' = path /\ reader' = reader /\ seen' = seen /\ opened' = opened
      /\ watching' = watching /\ overlapped' = overlapped
  BY DEF Configure, disk, memory, updater, UpdaterStands
<1>3. DiskInv' /\ FreshInv'
  BY <1>1, <1>2 DEF DiskInv, FreshInv
<1>4. LoadedInv' /\ SeenInv'
  BY <1>1, <1>2 DEF LoadedInv, SeenInv
<1>5. ReloadInv'
  <2>1. CurrentBuilds' = CurrentBuilds /\ Mtimes' = Mtimes
    BY <1>2 DEF CurrentBuilds, Mtimes, File
  <2> QED
    BY <1>1, <1>2, <2>1 DEF ReloadInv
<1>6. UpdaterInv' /\ RunInv'
  BY <1>1, <1>2 DEF UpdaterInv, RunInv, HoldsBuild, UpdaterStands
<1> QED
  BY <1>3, <1>4, <1>5, <1>6 DEF GeoInv

LEMMA GeoStep == ASSUME GeoInv, [GeoNext]_geo_vars PROVE GeoInv'
<1>1. CASE UNCHANGED geo_vars
  <2>1. DiskStands /\ UpdaterStands /\ path' = path /\ reader' = reader /\ seen' = seen
        /\ opened' = opened /\ watching' = watching /\ overlapped' = overlapped
    BY <1>1 DEF geo_vars, disk, settings, memory, updater, DiskStands, UpdaterStands
  <2>2. DiskInv' /\ FreshInv' /\ UpdaterInv' /\ RunInv'
    BY <2>1, DiskKept, UpdaterKept DEF GeoInv
  <2>3. LoadedInv' /\ SeenInv' /\ ReloadInv'
    BY <2>1, ViewKept DEF GeoInv, LoadedInv, SeenInv, ReloadInv, DiskStands
  <2> QED
    BY <2>2, <2>3 DEF GeoInv
<1>2. CASE GeoNext
  <2>1. ASSUME NEW e \in Editions, Publish(e) PROVE GeoInv'
    BY <2>1, PublishStep
  <2>2. ASSUME NEW d \in Dirs, NEW c \in BOOLEAN, Configure(d, c) PROVE GeoInv'
    BY <2>2, ConfigureStep
  <2> QED
    BY <1>2, <2>1, <2>2, RestartLookupsStep, WatcherStep, UpdaterReloads, UpdaterStep, ReplaceStep
      DEF GeoNext
<1> QED
  BY <1>1, <1>2

LEMMA GeoHolds == GeoSpec => []GeoInv
<1>1. GeoInit => GeoInv
  BY GeoStart
<1>2. GeoInv /\ [GeoNext]_geo_vars => GeoInv'
  BY GeoStep
<1> QED
  BY <1>1, <1>2, PTL DEF GeoSpec

(* The lookups, the watcher and the updater keep their types, and the      *)
(* watcher never claims to have seen a file from the future                *)
(* (crates/uip-enrich/src/geoip.rs, maxmind.rs).                           *)
THEOREM GeoTyping == GeoSpec => []GeoTypes
<1>1. GeoInv => GeoTypes
  BY DEF GeoInv, LoadedInv, UpdaterInv, SeenInv, GeoTypes
<1> QED
  BY <1>1, GeoHolds, PTL

(* Once the watcher has seen the files as they are, the lookups use them,  *)
(* for any number of directories, builds and swaps, unless the last two    *)
(* reloads overlapped (geoip.rs:101-119).                                  *)
THEOREM ReplacementsStaySeen == GeoSpec => []ReplacementsAreSeen
<1>1. GeoInv => ReplacementsAreSeen
  <2> SUFFICES ASSUME GeoInv, seen = Mtimes, watching = "asleep", Range(opened) = {None}, ~overlapped,
                      NEW e \in Editions
               PROVE  reader[e] = BuildOf(File(path[e], e))
    BY DEF ReplacementsAreSeen
  <2>1. \A t \in Tasks : opened[t] = None
    <3>1. DOMAIN opened = Tasks
      BY DEF GeoInv, LoadedInv
    <3> QED
      BY <3>1 DEF Range
  <2>2. reader = CurrentBuilds
    BY <2>1 DEF GeoInv, ReloadInv
  <2> QED
    BY <2>2 DEF CurrentBuilds
<1> QED
  BY <1>1, GeoHolds, PTL

(* A file the updater calls up to date holds a build at least as new as    *)
(* the one it asked about, unless it slipped in while a newer build was    *)
(* being published (maxmind.rs:111).                                       *)
THEOREM UpToDateStaysCurrent == GeoSpec => []UpToDateIsCurrent
<1>1. GeoInv => UpToDateIsCurrent
  <2> SUFFICES ASSUME GeoInv, NEW e \in DOMAIN run.uptodate,
                      File(run.dir, e) # None, <<run.dir, e>> \notin slipped
               PROVE  BuildOf(File(run.dir, e)) >= run.uptodate[e]
    BY DEF UpToDateIsCurrent
  <2>1. DiskInv /\ UpdaterInv /\ RunInv
    BY DEF GeoInv
  <2>2. e \in Editions /\ run.uptodate[e] \in Nat /\ HoldsBuild(run.dir, e, run.uptodate[e])
    BY <2>1 DEF RunInv
  <2>3. run.dir \in Dirs /\ File(run.dir, e) = files[run.dir][e]
    BY <2>1 DEF UpdaterInv, Runs, File
  <2>4. files[run.dir][e] \in GeoFile
    BY <2>1, <2>2, <2>3 DEF DiskInv
  <2> QED
    BY <2>2, <2>3, <2>4 DEF HoldsBuild, BuildOf, GeoFile
<1> QED
  BY <1>1, GeoHolds, PTL

-----------------------------------------------------------------------------
(* The sync with the UniFi controller.                                     *)

HoldersInv == UnifiTypes /\ OneHolder

\* An address that is taken is nobody else's afterwards.
LEMMA TakenEffect ==
  ASSUME NEW table, NEW mac, NEW ip, \A m \in DOMAIN table : DOMAIN table[m] = {"ip", "name"}
  PROVE  /\ DOMAIN Taken(table, mac, ip) = DOMAIN table
         /\ \A m \in DOMAIN table :
              /\ DOMAIN Taken(table, mac, ip)[m] = {"ip", "name"}
              /\ Taken(table, mac, ip)[m].ip \in {table[m].ip, None}
              /\ m # mac /\ ip # None => Taken(table, mac, ip)[m].ip # ip
  BY DEF Taken

LEMMA StoreClientStep ==
  ASSUME HoldersInv, StoreClient
  PROVE  /\ \A m \in DOMAIN clients' : DOMAIN clients'[m] = {"ip", "name"}
         /\ OneHolder'
<1>1. OneHolder /\ \A m \in DOMAIN clients : DOMAIN clients[m] = {"ip", "name"}
  BY DEF HoldersInv, UnifiTypes
<1>2. PICK mac, ip, name, lost :
        LET taken == IF "take" \in lost THEN clients ELSE Taken(clients, mac, ip)
        IN /\ clients' = IF "insert" \in lost THEN taken
                         ELSE Upsert(taken, mac, [ip |-> ip, name |-> name])
           /\ unclear' = IF "take" \in lost THEN unclear \cup {ip} ELSE unclear \ {ip}
  BY DEF StoreClient
<1> DEFINE taken == IF "take" \in lost THEN clients ELSE Taken(clients, mac, ip)
<1>3. /\ DOMAIN taken = DOMAIN clients
      /\ \A m \in DOMAIN clients :
           /\ DOMAIN taken[m] = {"ip", "name"}
           /\ taken[m].ip \in {clients[m].ip, None}
           /\ "take" \notin lost /\ m # mac /\ ip # None => taken[m].ip # ip
  BY <1>1, TakenEffect
<1>4. /\ clients' = IF "insert" \in lost THEN taken
                    ELSE Upsert(taken, mac, [ip |-> ip, name |-> name])
      /\ unclear' = IF "take" \in lost THEN unclear \cup {ip} ELSE unclear \ {ip}
  BY <1>2
<1> HIDE DEF taken
<1>5. /\ DOMAIN clients' \subseteq DOMAIN clients \cup {mac}
      /\ \A m \in DOMAIN clients' :
           \/ m \in DOMAIN clients /\ clients'[m] = taken[m]
           \/ m = mac /\ clients'[m] = [ip |-> ip, name |-> name]
  BY <1>3, <1>4 DEF Upsert
<1>6. ASSUME NEW m \in DOMAIN clients', NEW n \in DOMAIN clients', m # n,
             clients'[m].ip \notin unclear' \cup {None}
      PROVE  clients'[m].ip # clients'[n].ip
  <2>1. CASE m = mac /\ clients'[m] = [ip |-> ip, name |-> name]
    <3>1. clients'[n] = taken[n] /\ n \in DOMAIN clients /\ n # mac
      BY <1>5, <1>6, <2>1
    <3>2. clients'[m].ip = ip /\ ip # None
      BY <1>6, <2>1
    <3>3. "take" \notin lost
      BY <1>4, <1>6, <3>2
    <3> QED
      BY <1>3, <3>1, <3>2, <3>3
  <2>2. CASE m \in DOMAIN clients /\ clients'[m] = taken[m]
    <3>1. taken[m].ip = clients[m].ip /\ clients[m].ip # None
      BY <1>3, <1>6, <2>2
    <3>2. CASE n = mac /\ clients'[n] = [ip |-> ip, name |-> name]
      <4>1. clients'[n].ip = ip
        BY <3>2
      <4>2. CASE "take" \in lost
        BY <1>4, <1>6, <4>1, <4>2
      <4>3. CASE "take" \notin lost
        BY <1>3, <1>6, <2>2, <3>1, <3>2, <4>1, <4>3
      <4> QED
        BY <4>2, <4>3
    <3>3. CASE n \in DOMAIN clients /\ clients'[n] = taken[n]
      <4>1. taken[n].ip \in {clients[n].ip, None}
        BY <1>3, <3>3
      <4>2. CASE clients[m].ip \in unclear
        <5>1. "take" \notin lost /\ clients[m].ip = ip
          BY <1>4, <1>6, <2>2, <3>1, <4>2
        <5>2. m = mac /\ n # mac
          BY <1>3, <1>6, <2>2, <3>1, <5>1
        <5> QED
          BY <1>3, <2>2, <3>1, <3>3, <5>1, <5>2
      <4>3. CASE clients[m].ip \notin unclear
        <5>1. clients[m].ip # clients[n].ip
          BY <1>1, <1>6, <2>2, <3>1, <3>3, <4>3 DEF OneHolder
        <5> QED
          BY <2>2, <3>1, <3>3, <4>1, <5>1
      <4> QED
        BY <4>2, <4>3
    <3> QED
      BY <1>5, <3>2, <3>3
  <2> QED
    BY <1>5, <2>1, <2>2
<1>7. ASSUME NEW m \in DOMAIN clients' PROVE DOMAIN clients'[m] = {"ip", "name"}
  <2>1. DOMAIN [ip |-> ip, name |-> name] = {"ip", "name"}
    OBVIOUS
  <2>2. CASE clients'[m] = [ip |-> ip, name |-> name]
    BY <2>1, <2>2
  <2>3. CASE m \in DOMAIN clients /\ clients'[m] = taken[m]
    BY <1>3, <2>3
  <2> QED
    BY <1>5, <2>2, <2>3
<1> QED
  BY <1>6, <1>7 DEF OneHolder

LEMMA UnifiStart == ASSUME UnifiInit PROVE HoldersInv
  BY DEF UnifiInit, HoldersInv, UnifiTypes, OneHolder, EmptyTable

ClientsStand == clients' = clients /\ unclear' = unclear

LEMMA RequireStep ==
  ASSUME HoldersInv, NEW here \in {"sta", "device"}, NEW field, NEW answer,
         NEW next \in {"device", "alluser"}, Require(here, field, answer, next)
  PROVE  HoldersInv'
<1>1. PICK result \in {"ok", "error", "unauthorized"} :
        IF result # "ok" THEN Fail(result)
        ELSE got' = [got EXCEPT ![field] = answer] /\ pc' = next /\ UNCHANGED <<todo, status>>
  BY DEF Require
<1>2. /\ pc = here /\ site' = site /\ setup' = setup /\ own_names' = own_names /\ current' = current
      /\ clients' = clients /\ unclear' = unclear
  BY DEF Require, tables
<1>3. CASE result = "ok"
  BY <1>1, <1>2, <1>3 DEF HoldersInv, UnifiTypes, OneHolder
<1>4. CASE result # "ok"
  BY <1>1, <1>2, <1>4 DEF HoldersInv, UnifiTypes, OneHolder, Fail
<1> QED
  BY <1>3, <1>4

LEMMA FetchStep ==
  ASSUME HoldersInv, FetchKnown \/ FetchNetworks \/ FetchPolicies \/ StoreWan \/ StoreDevices
  PROVE  HoldersInv'
<1>1. /\ site' = site /\ setup' = setup /\ own_names' = own_names /\ current' = current
      /\ clients' = clients /\ unclear' = unclear /\ status' = status /\ pc # "wait"
      /\ pc' \in {"networkconf", "wan", "policies", "clients", "addresses"}
  <2>1. CASE FetchKnown
    BY <2>1 DEF FetchKnown, tables
  <2>2. CASE FetchNetworks
    BY <2>2 DEF FetchNetworks
  <2>3. CASE FetchPolicies
    BY <2>3 DEF FetchPolicies
  <2>4. CASE StoreWan
    BY <2>4 DEF StoreWan, history
  <2>5. CASE StoreDevices
    BY <2>5 DEF StoreDevices
  <2> QED
    BY <2>1, <2>2, <2>3, <2>4, <2>5
<1> QED
  BY <1>1 DEF HoldersInv, UnifiTypes, OneHolder

LEMMA SettleStep ==
  ASSUME HoldersInv, StoreAddresses \/ BeginSync \/ RestartSync
  PROVE  HoldersInv'
<1>1. CASE StoreAddresses
  BY <1>1 DEF StoreAddresses, HoldersInv, UnifiTypes, OneHolder
<1>2. CASE BeginSync
  BY <1>2 DEF BeginSync, tables, HoldersInv, UnifiTypes, OneHolder
<1>3. CASE RestartSync
  BY <1>3 DEF RestartSync, tables, HoldersInv, UnifiTypes, OneHolder
<1> QED
  BY <1>1, <1>2, <1>3

LEMMA UserStep ==
  ASSUME HoldersInv,
         \/ ChangeController \/ ChangeSetup
         \/ \E iface \in LogIfaces, value \in {"text", "null", "long"} : PutName(iface, value)
  PROVE  HoldersInv'
<1>1. CASE ChangeController
  BY <1>1 DEF ChangeController, Changed, tables, HoldersInv, UnifiTypes, OneHolder
<1>2. CASE ChangeSetup
  BY <1>2 DEF ChangeSetup, Changed, tables, HoldersInv, UnifiTypes, OneHolder
<1>3. ASSUME NEW iface \in LogIfaces, NEW value \in {"text", "null", "long"}, PutName(iface, value)
      PROVE  HoldersInv'
  <2>1. DOMAIN own_names' \subseteq DOMAIN own_names \cup {iface}
    <3>1. CASE value = "text"
      BY <1>3, <3>1 DEF PutName, Upsert
    <3>2. CASE value = "null"
      BY <1>3, <3>2 DEF PutName, Without
    <3>3. CASE value = "long"
      BY <1>3, <3>3 DEF PutName
    <3> QED
      BY <3>1, <3>2, <3>3
  <2>2. /\ site' = site /\ setup' = setup /\ current' = current /\ pc' = pc /\ status' = status
        /\ clients' = clients /\ unclear' = unclear
    BY <1>3 DEF PutName, tables, history
  <2> QED
    BY <2>1, <2>2 DEF HoldersInv, UnifiTypes, OneHolder
<1> QED
  BY <1>1, <1>2, <1>3

LEMMA UnifiStep == ASSUME HoldersInv, [UnifiNext]_unifi_vars PROVE HoldersInv'
<1>1. CASE FetchClients \/ FetchDevices
  BY <1>1, RequireStep DEF FetchClients, FetchDevices
<1>2. CASE StoreClient
  <2>1. /\ site' = site /\ setup' = setup /\ own_names' = own_names /\ current' = current
        /\ pc' = pc /\ status' = status
    BY <1>2 DEF StoreClient
  <2> QED
    BY <1>2, <2>1, StoreClientStep DEF HoldersInv, UnifiTypes
<1>3. CASE UNCHANGED unifi_vars
  BY <1>3 DEF unifi_vars, tables, history, HoldersInv, UnifiTypes, OneHolder
<1> QED
  BY <1>1, <1>2, <1>3, FetchStep, SettleStep, UserStep DEF UnifiNext

LEMMA HoldersHold == UnifiSpec => []HoldersInv
<1>1. UnifiInit => HoldersInv
  BY UnifiStart
<1>2. HoldersInv /\ [UnifiNext]_unifi_vars => HoldersInv'
  BY UnifiStep
<1> QED
  BY <1>1, <1>2, PTL DEF UnifiSpec

(* The sync's type invariant holds for every controller, and it never goes *)
(* on without the settings it began with (crates/uip-enrich/src/unifi.rs). *)
THEOREM UnifiTyping == UnifiSpec => []UnifiTypes
<1>1. HoldersInv => UnifiTypes
  BY DEF HoldersInv
<1> QED
  BY <1>1, HoldersHold, PTL

(* "An address only ever belongs to one device": no two clients share one, *)
(* at any moment of a sync, whatever the controller answers, unless the    *)
(* statement that takes it away failed (unifi.rs:561-564).                 *)
THEOREM EveryAddressHasOneHolder == UnifiSpec => []OneHolder
<1>1. HoldersInv => OneHolder
  BY DEF HoldersInv
<1> QED
  BY <1>1, HoldersHold, PTL

-----------------------------------------------------------------------------
(* Lists and tables of the sync.                                           *)

\* Nothing below depends on the assumptions of the other parts.
HIDE GeoAssumption
HIDE ScoresAssumption
HIDE IdsAssumption
HIDE NamesAssumption
HIDE CacheAssumption
HIDE NullAssumption

\* A list is a sequence of whatever it holds.
Listed(list) == list \in Seq(Range(list))

LEMMA ListIs ==
  ASSUME NEW list, Listed(list)
  PROVE  /\ Len(list) \in Nat /\ DOMAIN list = 1..Len(list)
         /\ \A x : x \in Range(list) <=> \E i \in 1..Len(list) : x = list[i]
<1>1. Len(list) \in Nat /\ DOMAIN list = 1..Len(list)
  BY LenProperties DEF Listed
<1> QED
  BY <1>1 DEF Range

LEMMA ListMade ==
  ASSUME NEW n \in Nat, NEW list, list = [i \in 1..n |-> list[i]]
  PROVE  Listed(list) /\ Len(list) = n
<1>1. DOMAIN list = 1..n
  OBVIOUS
<1>2. \A i \in 1..n : list[i] \in Range(list)
  BY <1>1 DEF Range
<1>3. list \in [1..n -> Range(list)]
  BY <1>2
<1>4. list \in Seq(Range(list))
  BY <1>3, IsASeq
<1>5. Len(list) \in Nat /\ DOMAIN list = 1..Len(list)
  BY <1>4, LenProperties
<1>6. 1..n = 1..Len(list)
  BY <1>1, <1>5
<1>7. Len(list) = n
  BY <1>5, <1>6
<1> QED
  BY <1>4, <1>7 DEF Listed

\* One list after the other.
Joined(list, x, y) ==
  /\ Listed(list) /\ Len(list) = Len(x) + Len(y)
  /\ \A i \in 1..Len(x) : list[i] = x[i]
  /\ \A i \in 1..Len(y) : list[Len(x) + i] = y[i]
  /\ \A i \in 1..(Len(x) + Len(y)) :
       \/ i \in 1..Len(x) /\ list[i] = x[i]
       \/ i > Len(x) /\ i - Len(x) \in 1..Len(y) /\ list[i] = y[i - Len(x)]

LEMMA ListJoined ==
  ASSUME NEW x, NEW y, Listed(x), Listed(y)
  PROVE  Joined(x \o y, x, y)
<1> DEFINE S == Range(x) \cup Range(y)
<1>1. x \in Seq(S) /\ y \in Seq(S)
  BY SeqMonotonic DEF Listed
<1>2. Len(x) \in Nat /\ Len(y) \in Nat
  BY <1>1, LenProperties
<1> HIDE DEF S
<1>3. /\ x \o y \in Seq(S) /\ Len(x \o y) = Len(x) + Len(y)
      /\ \A i \in 1 .. Len(x) + Len(y) :
           (x \o y)[i] = IF i <= Len(x) THEN x[i] ELSE y[i - Len(x)]
  BY <1>1, ConcatProperties
<1>4. x \o y \in [1..Len(x \o y) -> S]
  BY <1>3, LenProperties
<1>5. x \o y = [i \in 1..Len(x \o y) |-> (x \o y)[i]] /\ Len(x \o y) \in Nat
  <2> DEFINE z == x \o y
  <2>1. z \in [1..Len(z) -> S]
    BY <1>4
  <2>2. Len(z) \in Nat
    BY <1>2, <1>3
  <2> HIDE DEF z
  <2>3. z = [i \in 1..Len(z) |-> z[i]]
    BY <2>1
  <2> QED
    BY <2>2, <2>3 DEF z
<1>6. Listed(x \o y)
  BY <1>5, ListMade
<1>7. \A i \in 1..Len(x) : (x \o y)[i] = x[i]
  BY <1>2, <1>3
<1>8. \A i \in 1..Len(y) : (x \o y)[Len(x) + i] = y[i]
  <2> TAKE i \in 1..Len(y)
  <2>1. Len(x) + i \in 1..(Len(x) + Len(y)) /\ ~(Len(x) + i <= Len(x)) /\ (Len(x) + i) - Len(x) = i
    BY <1>2
  <2> QED
    BY <1>3, <2>1
<1>9. \A i \in 1..(Len(x) + Len(y)) :
        \/ i \in 1..Len(x) /\ (x \o y)[i] = x[i]
        \/ i > Len(x) /\ i - Len(x) \in 1..Len(y) /\ (x \o y)[i] = y[i - Len(x)]
  BY <1>2, <1>3
<1> QED
  BY <1>3, <1>6, <1>7, <1>8, <1>9 DEF Joined

\* Whatever is in a finite set is in the list made of it.
LEMMA SetListed ==
  ASSUME NEW S, IsFiniteSet(S)
  PROVE  Listed(SetToSeq(S)) /\ Range(SetToSeq(S)) = S
<1> DEFINE n == Cardinality(S)
           list == SetToSeq(S)
<1>1. n \in Nat /\ ExistsBijection(1..n, S)
  BY FS_CardinalityType
<1>2. \E f \in [1..n -> S] : IsInjective(f)
  BY <1>1 DEF ExistsBijection, Bijection, Injection
<1>3. list \in [1..n -> S] /\ IsInjective(list)
  BY <1>2 DEF SetToSeq
<1>4. list \in Injection(1..n, S)
  BY <1>3 DEF Injection
<1>5. Cardinality(1..n) = n
  BY <1>1, FS_Interval
<1>6. list \in Surjection(1..n, S)
  BY <1>4, <1>5, FS_Injection
<1>7. Range(list) = S
  BY <1>6, Fun_SurjectionProperties
<1> HIDE DEF list
<1>8. list = [i \in 1..n |-> list[i]]
  BY <1>3
<1>9. Listed(list)
  BY <1>1, <1>8, ListMade
<1> QED
  BY <1>7, <1>9 DEF list

\* The greatest of some places of a list.
LEMMA GreatestPlace ==
  ASSUME NEW n \in Nat, NEW T, T \subseteq 1..n, T # {}
  PROVE  Max(T) \in T /\ \A y \in T : y <= Max(T)
<1> DEFINE U == {k \in Nat : n - k \in T}
<1>1. PICK t \in T : TRUE
  OBVIOUS
<1>2. n - t \in U
  BY <1>1
<1>3. PICK k \in U : \A l \in U : k <= l
  BY <1>2, LeastNumber
<1>4. n - k \in T /\ \A y \in T : n - k >= y
  <2>1. n - k \in T
    BY <1>3
  <2>2. ASSUME NEW y \in T PROVE n - k >= y
    <3>1. y \in 1..n /\ n - y \in Nat /\ n - (n - y) = y
      OBVIOUS
    <3>2. n - y \in U
      BY <3>1
    <3> QED
      BY <1>3, <3>1, <3>2
  <2> QED
    BY <2>1, <2>2
<1>5. \E x \in T : \A y \in T : x >= y
  BY <1>4
<1>6. Max(T) \in T /\ \A y \in T : Max(T) >= y
  BY <1>5 DEF Max
<1> QED
  BY <1>6

\* A table that holds what is in the list, as it is there last.
HoldsLast(list, table) ==
  /\ \A k : k \in DOMAIN table <=> k # None /\ \E i \in 1..Len(list) : list[i].key = k
  /\ \A k \in DOMAIN table : \E i \in 1..Len(list) :
       /\ list[i].key = k /\ table[k] = list[i].value
       /\ \A j \in 1..Len(list) : list[j].key = k => j <= i

\* A table that is written and pruned holds what is in the list, as it is
\* there last, and nothing else.
LEMMA WrittenIs ==
  ASSUME NEW list, Listed(list), NEW table
  PROVE  HoldsLast(list, Written(table, list, {}, Keyed(list, {})))
<1> DEFINE keys == Keyed(list, {})
           all  == [k \in DOMAIN table \cup keys |->
                      IF k \in keys THEN LastOf(list, {}, k).value ELSE table[k]]
           w    == Written(table, list, {}, keys)
<1>1. Len(list) \in Nat /\ DOMAIN list = 1..Len(list)
  BY ListIs
<1>2. w = Without(all, DOMAIN all \ keys)
  BY DEF Written
<1> HIDE DEF w
<1>3. DOMAIN w = keys /\ \A k \in keys : w[k] = LastOf(list, {}, k).value
  BY <1>2 DEF Without
<1>4. \A k : k \in keys <=> k # None /\ \E i \in 1..Len(list) : list[i].key = k
  BY <1>1 DEF Keyed
<1>5. ASSUME NEW k \in keys
      PROVE  \E i \in 1..Len(list) :
               /\ list[i].key = k /\ w[k] = list[i].value
               /\ \A j \in 1..Len(list) : list[j].key = k => j <= i
  <2> DEFINE T == {i \in DOMAIN list \ {} : list[i].key = k}
  <2>1. T \subseteq 1..Len(list) /\ T # {}
    BY <1>1, <1>4
  <2>2. Max(T) \in T /\ \A y \in T : y <= Max(T)
    BY <1>1, <2>1, GreatestPlace
  <2>3. w[k] = list[Max(T)].value
    BY <1>3 DEF LastOf
  <2> QED
    BY <1>1, <2>2, <2>3
<1> QED
  BY <1>3, <1>4, <1>5 DEF w, HoldsLast

\* by_last_seen() is in order, and holds what the list holds.
LEMMA SortedIs ==
  ASSUME NEW list, Listed(list), \A c \in Range(list) : c.last_seen \in Int
  PROVE  /\ Listed(by_last_seen(list)) /\ Len(by_last_seen(list)) = Len(list)
         /\ Range(by_last_seen(list)) = Range(list)
         /\ \A k, l \in 1..Len(list) : k <= l =>
              by_last_seen(list)[k].last_seen <= by_last_seen(list)[l].last_seen
<1> DEFINE n          == Len(list)
           when(i)    == list[i].last_seen
           upto(i)    == {j \in 1..n : when(j) < when(i) \/ (when(j) = when(i) /\ j <= i)}
           rank       == [i \in 1..n |-> Cardinality(upto(i))]
           from(k)    == CHOOSE i \in 1..n : Cardinality(upto(i)) = k
           sorted     == by_last_seen(list)
<1>1. n \in Nat /\ DOMAIN list = 1..n
  BY ListIs
<1>2. \A i \in 1..n : when(i) \in Int
  BY <1>1 DEF Range
<1>3. sorted = [k \in 1..n |-> list[from(k)]]
  BY <1>1 DEF by_last_seen
<1>4. IsFiniteSet(1..n) /\ Cardinality(1..n) = n
  <2> HIDE DEF n
  <2>1. 1 \in Int /\ n \in Int /\ (IF 1 > n THEN 0 ELSE n - 1 + 1) = n
    BY <1>1
  <2> QED
    BY <2>1, FS_Interval
<1>5. \A i \in 1..n : IsFiniteSet(upto(i)) /\ rank[i] \in 1..n
  <2> TAKE i \in 1..n
  <2>1. IsFiniteSet(upto(i)) /\ Cardinality(upto(i)) <= n
    BY <1>4, FS_Subset
  <2>2. i \in upto(i)
    BY <1>1, <1>2
  <2>3. Cardinality({i}) <= Cardinality(upto(i)) /\ Cardinality({i}) = 1
    BY <2>1, <2>2, FS_Subset, FS_Singleton
  <2>4. Cardinality(upto(i)) \in Nat
    BY <2>1, FS_CardinalityType
  <2> HIDE DEF upto
  <2> QED
    BY <1>1, <2>1, <2>3, <2>4
<1>6. ASSUME NEW i \in 1..n, NEW j \in 1..n, i # j, j \in upto(i)
      PROVE  rank[j] < rank[i]
  <2>1. upto(j) \subseteq upto(i) /\ i \notin upto(j) /\ i \in upto(i)
    BY <1>1, <1>2, <1>6
  <2> HIDE DEF upto
  <2>2. Cardinality(upto(j)) <= Cardinality(upto(i)) /\ Cardinality(upto(i)) # Cardinality(upto(j))
    BY <1>5, <2>1, FS_Subset
  <2>3. rank[j] \in Int /\ rank[i] \in Int
    BY <1>5
  <2> QED
    BY <2>2, <2>3
<1>7. \A i, j \in 1..n : j \in upto(i) \/ i \in upto(j)
  BY <1>1, <1>2
<1>8. \A i, j \in 1..n : rank[i] = rank[j] => i = j
  <2> TAKE i, j \in 1..n
  <2> HIDE DEF upto, rank
  <2>1. rank[i] \in Int /\ rank[j] \in Int
    BY <1>5
  <2> QED
    BY <1>6, <1>7, <2>1
<1>9. \A k \in 1..n : \E i \in 1..n : rank[i] = k
  <2> HIDE DEF upto
  <2>1. rank \in [1..n -> 1..n]
    BY <1>5
  <2> HIDE DEF rank
  <2>2. rank \in Injection(1..n, 1..n)
    BY <1>8, <2>1, Fun_IsInj
  <2>3. rank \in Surjection(1..n, 1..n)
    BY <1>4, <2>2, FS_Injection
  <2> QED
    BY <2>3, Fun_SurjectionProperties
<1>10. \A k \in 1..n : from(k) \in 1..n /\ rank[from(k)] = k
  <2> TAKE k \in 1..n
  <2> HIDE DEF upto
  <2>1. \E i \in 1..n : Cardinality(upto(i)) = k
    BY <1>9
  <2>2. from(k) \in 1..n /\ Cardinality(upto(from(k))) = k
    BY <2>1
  <2> QED
    BY <2>2
<1> HIDE DEF from, rank, upto
<1>11. \A k, l \in 1..n : k <= l => when(from(k)) <= when(from(l))
  <2> TAKE k, l \in 1..n
  <2> HAVE k <= l
  <2>1. CASE from(k) = from(l)
    BY <1>2, <1>10, <2>1
  <2>2. CASE from(k) # from(l)
    <3>1. from(k) \in 1..n /\ from(l) \in 1..n /\ rank[from(k)] = k /\ rank[from(l)] = l
      BY <1>10
    <3>2. from(k) \in upto(from(l)) \/ rank[from(l)] < rank[from(k)]
      BY <1>6, <1>7, <2>2, <3>1
    <3>3. from(k) \in upto(from(l))
      BY <3>1, <3>2
    <3> QED
      BY <1>2, <3>1, <3>3 DEF upto
  <2> QED
    BY <2>1, <2>2
<1> HIDE DEF sorted
<1>12. sorted = [k \in 1..n |-> sorted[k]] /\ \A k \in 1..n : sorted[k] = list[from(k)]
  BY <1>3
<1>13. Listed(sorted) /\ Len(sorted) = n
  BY <1>1, <1>12, ListMade
<1>14. \A x : x \in Range(sorted) <=> \E k \in 1..n : x = sorted[k]
  BY <1>13, ListIs
<1>15. \A x : x \in Range(list) <=> \E i \in 1..n : x = list[i]
  BY ListIs
<1>16. \A i \in 1..n : rank[i] \in 1..n /\ from(rank[i]) = i
  BY <1>5, <1>8, <1>10
<1>17. Range(sorted) = Range(list)
  <2>1. ASSUME NEW x \in Range(sorted) PROVE x \in Range(list)
    BY <1>10, <1>12, <1>14, <1>15
  <2>2. ASSUME NEW x \in Range(list) PROVE x \in Range(sorted)
    <3>1. PICK i \in 1..n : x = list[i]
      BY <1>15
    <3>2. rank[i] \in 1..n /\ sorted[rank[i]] = x
      BY <1>12, <1>16, <3>1
    <3> QED
      BY <1>14, <3>2
  <2> QED
    BY <2>1, <2>2
<1>18. \A k, l \in 1..n : k <= l => sorted[k].last_seen <= sorted[l].last_seen
  BY <1>11, <1>12
<1> QED
  BY <1>13, <1>17, <1>18 DEF sorted

\* A list of lists, one after the other.
LEMMA FlattenIs ==
  ASSUME NEW lists, Listed(lists), \A l \in Range(lists) : Listed(l)
  PROVE  /\ Listed(FlattenSeq(lists))
         /\ Range(FlattenSeq(lists)) = UNION {Range(l) : l \in Range(lists)}
<1> DEFINE n       == Len(lists)
           Upto(k, f) == /\ f = [i \in 1..n |-> f[i]]
                         /\ \A i \in 1..k : f[i] = IF i = 1 THEN lists[i] ELSE f[i-1] \o lists[i]
<1>1. n \in Nat /\ DOMAIN lists = 1..n /\ \A i \in 1..n : Listed(lists[i]) /\ lists[i] \in Range(lists)
  BY ListIs DEF Range
<1>2. CASE n = 0
  <2>1. FlattenSeq(lists) = lists /\ Range(lists) = {}
    BY <1>1, <1>2 DEF FlattenSeq, Range
  <2> QED
    BY <2>1
<1>3. CASE n > 0
  <2>1. \A k \in 0..n : \E f : Upto(k, f)
    <3> SUFFICES ASSUME NEW q \in 0..n, ~\E f : Upto(q, f) PROVE FALSE
      OBVIOUS
    <3> DEFINE T == {k \in 0..n : ~\E f : Upto(k, f)}
    <3>1. T \subseteq Nat /\ T # {}
      BY <1>1
    <3>2. PICK k \in T : \A l \in T : k <= l
      BY <3>1, LeastNumber
    <3>3. k # 0
      <4> DEFINE h == [i \in 1..n |-> i]
      <4>1. h = [i \in 1..n |-> h[i]] /\ 1..0 = {}
        OBVIOUS
      <4> HIDE DEF h
      <4>2. Upto(0, h)
        BY <4>1
      <4>3. ~\E f : Upto(k, f)
        BY <3>2
      <4> HIDE DEF Upto
      <4> QED
        BY <4>2, <4>3
    <3>4. k \in 0..n /\ k - 1 \in 0..n /\ k - 1 \notin T /\ k \in 1..n
      BY <1>1, <3>2, <3>3
    <3>5. PICK f : Upto(k - 1, f)
      BY <3>4
    <3> DEFINE last == IF k = 1 THEN lists[k] ELSE f[k-1] \o lists[k]
               g == [i \in 1..n |-> IF i = k THEN last ELSE f[i]]
    <3> HIDE DEF last
    <3>6. Upto(k, g)
      <4>1. g = [i \in 1..n |-> g[i]]
        OBVIOUS
      <4>2. ASSUME NEW i \in 1..k PROVE g[i] = IF i = 1 THEN lists[i] ELSE g[i-1] \o lists[i]
        <5>1. i \in 1..n /\ i - 1 # k /\ (i # 1 => i - 1 \in 1..n)
          BY <1>1, <3>4
        <5>2. i # 1 => g[i-1] = f[i-1]
          BY <5>1
        <5>3. CASE i = k
          BY <5>1, <5>2, <5>3 DEF last
        <5>4. CASE i # k
          <6>1. i \in 1..(k-1) /\ g[i] = f[i]
            BY <3>4, <5>1, <5>4
          <6> QED
            BY <3>5, <5>2, <6>1
        <5> QED
          BY <5>3, <5>4
      <4> QED
        BY <4>1, <4>2
    <3> QED
      BY <3>2, <3>6
  <2> DEFINE flatten == CHOOSE f : f = [i \in 1..n |-> IF i = 1 THEN lists[i] ELSE f[i-1] \o lists[i]]
  <2>2. flatten = [i \in 1..n |-> IF i = 1 THEN lists[i] ELSE flatten[i-1] \o lists[i]]
    <3>1. PICK f : Upto(n, f)
      BY <1>1, <2>1
    <3>2. f = [i \in 1..n |-> IF i = 1 THEN lists[i] ELSE f[i-1] \o lists[i]]
      BY <3>1
    <3> QED
      BY <3>2
  <2>3. FlattenSeq(lists) = flatten[n]
    BY <1>1, <1>3 DEF FlattenSeq
  <2> HIDE DEF flatten
  <2> DEFINE Whole(k) == Listed(flatten[k]) /\ Range(flatten[k]) = UNION {Range(lists[i]) : i \in 1..k}
  <2>4. \A k \in 1..n : Whole(k)
    <3> SUFFICES ASSUME NEW q \in 1..n, ~Whole(q) PROVE FALSE
      OBVIOUS
    <3> DEFINE T == {k \in 1..n : ~Whole(k)}
    <3>1. T \subseteq Nat /\ T # {}
      BY <1>1
    <3>2. PICK k \in T : \A l \in T : k <= l
      BY <3>1, LeastNumber
    <3>3. CASE k = 1
      <4>1. flatten[k] = lists[1] /\ 1..k = {1}
        BY <1>1, <2>2, <3>2, <3>3
      <4> QED
        BY <1>1, <3>2, <4>1
    <3>4. CASE k # 1
      <4>1. k - 1 \in 1..n /\ k - 1 \notin T /\ 1..k = (1..(k - 1)) \cup {k}
        BY <1>1, <3>2, <3>4
      <4>2. Whole(k - 1) /\ flatten[k] = flatten[k - 1] \o lists[k] /\ Listed(lists[k])
        BY <1>1, <2>2, <3>2, <3>4, <4>1
      <4> DEFINE x == flatten[k - 1]
                 y == lists[k]
      <4> HIDE DEF x, y
      <4>3. Listed(x) /\ Listed(y) /\ flatten[k] = x \o y
            /\ Range(x) = UNION {Range(lists[i]) : i \in 1..(k - 1)}
        BY <4>2 DEF x, y
      <4>4. Listed(x \o y)
        BY <4>3, ListJoined DEF Joined
      <4>5. Range(x \o y) = Range(x) \cup Range(y)
        <5> DEFINE S == Range(x) \cup Range(y)
        <5>1. x \in Seq(S) /\ y \in Seq(S)
          BY <4>3, SeqMonotonic DEF Listed
        <5> HIDE DEF S
        <5> QED
          BY <5>1, RangeConcatenation
      <4>6. Range(flatten[k]) = UNION {Range(lists[i]) : i \in 1..k}
        BY <4>1, <4>3, <4>5 DEF y
      <4> QED
        BY <3>2, <4>3, <4>4, <4>6
    <3> QED
      BY <3>3, <3>4
  <2>5. UNION {Range(lists[i]) : i \in 1..n} = UNION {Range(l) : l \in Range(lists)}
    BY <1>1 DEF Range
  <2> QED
    BY <1>1, <1>3, <2>3, <2>4, <2>5
<1> QED
  BY <1>1, <1>2, <1>3

-----------------------------------------------------------------------------
\* What the networks and the interfaces of an answer are called.
LansOf(answers)   == {n \in Range(answers.nets) : bridge_for(n) # None}
IfacesOf(answers) == {w.ifname : w \in UNION {Range(d.wans) : d \in Range(answers.device)}}
NetworksOf(answers, table) ==
  /\ DOMAIN table = {bridge_for(n) : n \in LansOf(answers)} \cup IfacesOf(answers)
  /\ \A n \in LansOf(answers) : table[bridge_for(n)] = n.name

\* Every interface to the internet is named, by a name that is one.
LEMMA InterfacesAreNamed ==
  ASSUME NEW answers, DevicesAreNamed(answers), NEW wans, wans = wan_interfaces(answers.device, answers.nets)
  PROVE  /\ Listed(wans) /\ \A x \in Range(wans) : x.name # None
         /\ {x.iface : x \in Range(wans)} = IfacesOf(answers) /\ None \notin IfacesOf(answers)
<1> DEFINE devs == answers.device
           name_for(group) ==
             LET first == SelectInSeq(answers.nets, LAMBDA n : n.purpose = "wan" /\ n.group = group)
             IN IF first = 0 \/ answers.nets[first].name = None THEN group ELSE answers.nets[first].name
           lists == [i \in DOMAIN devs |->
                      [j \in DOMAIN devs[i].wans |->
                        [iface |-> devs[i].wans[j].ifname, name |-> name_for(devs[i].wans[j].group)]]]
<1>1. wans = FlattenSeq(lists)
  BY DEF wan_interfaces
<1>2. \A group : group # None => name_for(group) # None
  BY DEF SelectInSeq
<1> HIDE DEF name_for
<1>3. /\ Listed(devs) /\ Len(devs) \in Nat /\ DOMAIN devs = 1..Len(devs)
      /\ \A i \in 1..Len(devs) :
           /\ Listed(devs[i].wans) /\ DOMAIN devs[i].wans = 1..Len(devs[i].wans)
           /\ Len(devs[i].wans) \in Nat
           /\ \A j \in 1..Len(devs[i].wans) : devs[i].wans[j].ifname # None /\ devs[i].wans[j].group # None
  <2>1. Listed(devs) /\ Len(devs) \in Nat /\ DOMAIN devs = 1..Len(devs)
    BY ListIs DEF DevicesAreNamed, Listed
  <2>2. \A i \in 1..Len(devs) : devs[i] \in Range(devs)
    BY <2>1 DEF Range
  <2>3. \A d \in Range(devs) : /\ Listed(d.wans)
                               /\ \A w \in Range(d.wans) : w.ifname # None /\ w.group # None
    BY DEF DevicesAreNamed, Listed
  <2>4. ASSUME NEW i \in 1..Len(devs)
        PROVE  /\ Listed(devs[i].wans) /\ DOMAIN devs[i].wans = 1..Len(devs[i].wans)
               /\ Len(devs[i].wans) \in Nat
               /\ \A j \in 1..Len(devs[i].wans) : devs[i].wans[j].ifname # None /\ devs[i].wans[j].group # None
    <3> DEFINE list == devs[i].wans
    <3>1. Listed(list) /\ \A w \in Range(list) : w.ifname # None /\ w.group # None
      BY <2>2, <2>3
    <3> HIDE DEF list
    <3>2. Len(list) \in Nat /\ DOMAIN list = 1..Len(list)
      BY <3>1, ListIs
    <3>3. \A j \in 1..Len(list) : list[j] \in Range(list)
      BY <3>2 DEF Range
    <3> QED
      BY <3>1, <3>2, <3>3 DEF list
  <2> QED
    BY <2>1, <2>4
<1>4. \A i \in 1..Len(devs) :
        /\ Listed(lists[i]) /\ DOMAIN lists[i] = 1..Len(devs[i].wans)
        /\ \A j \in 1..Len(devs[i].wans) :
             lists[i][j].iface = devs[i].wans[j].ifname /\ lists[i][j].name # None
  <2> TAKE i \in 1..Len(devs)
  <2> DEFINE list == lists[i]
             n    == Len(devs[i].wans)
  <2>1. list = [j \in 1..n |-> [iface |-> devs[i].wans[j].ifname, name |-> name_for(devs[i].wans[j].group)]]
    BY <1>3
  <2>2. n \in Nat /\ \A j \in 1..n : devs[i].wans[j].group # None
    BY <1>3
  <2> HIDE DEF list, n
  <2>3. list = [j \in 1..n |-> list[j]] /\ DOMAIN list = 1..n
    BY <2>1
  <2>4. Listed(list)
    BY <2>2, <2>3, ListMade
  <2>5. \A j \in 1..n : list[j].iface = devs[i].wans[j].ifname /\ list[j].name # None
    BY <1>2, <2>1, <2>2
  <2> QED
    BY <2>3, <2>4, <2>5 DEF list, n
<1>5. Listed(lists) /\ DOMAIN lists = 1..Len(devs)
  <2> DEFINE n == Len(devs)
  <2>1. DOMAIN lists = 1..n /\ n \in Nat
    BY <1>3
  <2>2. lists = [i \in 1..n |-> lists[i]]
    BY <2>1
  <2> HIDE DEF lists, n
  <2>3. Listed(lists)
    BY <2>1, <2>2, ListMade
  <2> QED
    BY <2>1, <2>3 DEF n
<1> HIDE DEF lists
<1>6. \A l : l \in Range(lists) <=> \E i \in 1..Len(devs) : l = lists[i]
  BY <1>5 DEF Range
<1>7. /\ Listed(FlattenSeq(lists))
      /\ Range(FlattenSeq(lists)) = UNION {Range(l) : l \in Range(lists)}
  BY <1>4, <1>5, <1>6, FlattenIs
<1>8. \A x : x \in Range(wans) <=>
             \E i \in 1..Len(devs) : \E j \in 1..Len(devs[i].wans) : x = lists[i][j]
  <2>1. \A x : x \in Range(wans) <=> \E i \in 1..Len(devs) : x \in Range(lists[i])
    BY <1>1, <1>6, <1>7
  <2>2. \A i \in 1..Len(devs) : \A x : x \in Range(lists[i]) <=>
             \E j \in 1..Len(devs[i].wans) : x = lists[i][j]
    BY <1>4 DEF Range
  <2> DEFINE At(i, x) == \E j \in 1..Len(devs[i].wans) : x = lists[i][j]
  <2>3. \A i \in 1..Len(devs) : \A x : x \in Range(lists[i]) <=> At(i, x)
    BY <2>2, Zenon
  <2> HIDE DEF At, lists, devs
  <2>4. \A x : x \in Range(wans) <=> \E i \in 1..Len(devs) : At(i, x)
    BY <2>1, <2>3
  <2> QED
    BY <2>4, Zenon DEF At
<1>9. \A f : f \in IfacesOf(answers) <=>
             \E i \in 1..Len(devs) : \E j \in 1..Len(devs[i].wans) : f = devs[i].wans[j].ifname
  <2>1. \A f : f \in IfacesOf(answers) <=> \E d \in Range(devs) : \E w \in Range(d.wans) : f = w.ifname
    BY DEF IfacesOf
  <2>2. \A d : d \in Range(devs) <=> \E i \in 1..Len(devs) : d = devs[i]
    BY <1>3 DEF Range
  <2>3. \A i \in 1..Len(devs) : \A w : w \in Range(devs[i].wans) <=>
             \E j \in 1..Len(devs[i].wans) : w = devs[i].wans[j]
    BY <1>3 DEF Range
  <2> HIDE DEF devs
  <2>4. \A f : f \in IfacesOf(answers) <=> \E i \in 1..Len(devs) : \E w \in Range(devs[i].wans) : f = w.ifname
    BY <2>1, <2>2
  <2> DEFINE At(i, f) == \E j \in 1..Len(devs[i].wans) : f = devs[i].wans[j].ifname
  <2>5. \A i \in 1..Len(devs) : \A f : At(i, f) <=> \E w \in Range(devs[i].wans) : f = w.ifname
    <3> TAKE i \in 1..Len(devs)
    <3>1. \A w : w \in Range(devs[i].wans) <=> \E j \in 1..Len(devs[i].wans) : w = devs[i].wans[j]
      BY <2>3, Zenon
    <3> QED
      BY <3>1
  <2> HIDE DEF At
  <2>6. \A f : f \in IfacesOf(answers) <=> \E i \in 1..Len(devs) : At(i, f)
    BY <2>4, <2>5
  <2> QED
    BY <2>6, Zenon DEF At
<1>10. \A x \in Range(wans) : x.name # None /\ x.iface \in IfacesOf(answers)
  <2> TAKE x \in Range(wans)
  <2>1. PICK i \in 1..Len(devs) : \E j \in 1..Len(devs[i].wans) : x = lists[i][j]
    BY <1>8, Zenon
  <2>2. PICK j \in 1..Len(devs[i].wans) : x = lists[i][j]
    BY <2>1
  <2>3. x.name # None /\ x.iface = devs[i].wans[j].ifname
    BY <1>4, <2>2
  <2>4. devs[i].wans[j].ifname \in IfacesOf(answers)
    BY <1>9, Zenon
  <2> QED
    BY <2>3, <2>4
<1>11. \A f \in IfacesOf(answers) : \E x \in Range(wans) : f = x.iface
  <2> TAKE f \in IfacesOf(answers)
  <2>1. PICK i \in 1..Len(devs) : \E j \in 1..Len(devs[i].wans) : f = devs[i].wans[j].ifname
    BY <1>9, Zenon
  <2>2. PICK j \in 1..Len(devs[i].wans) : f = devs[i].wans[j].ifname
    BY <2>1
  <2>3. lists[i][j] \in Range(wans)
    BY <1>8, Zenon
  <2>4. lists[i][j].iface = f
    BY <1>4, <2>2
  <2> QED
    BY <2>3, <2>4
<1>12. {x.iface : x \in Range(wans)} = IfacesOf(answers)
  BY <1>10, <1>11
<1>13. None \notin IfacesOf(answers)
  BY <1>3, <1>9
<1> QED
  BY <1>1, <1>7, <1>10, <1>12, <1>13

\* After a sync without a failure the networks are those of the controller.
LEMMA NetworksWritten ==
  ASSUME NEW answers, DevicesAreNamed(answers), NetworksAreNamed(answers),
         NEW list, list = NetworkEntries(answers.nets, answers.device)
  PROVE  NetworksOf(answers, store_networks(list, {}))
<1> DEFINE nets == answers.nets
           wans == wan_interfaces(answers.device, nets)
           x    == [i \in DOMAIN nets |-> Label(bridge_for(nets[i]), nets[i].name, nets[i].name)]
           y    == [i \in DOMAIN wans |-> Label(wans[i].iface, wans[i].name, wans[i].name)]
<1>1. /\ Listed(nets) /\ LansOf(answers) # {}
      /\ \A n \in LansOf(answers) : n.name # None /\ bridge_for(n) \notin IfacesOf(answers)
      /\ \A n, o \in LansOf(answers) : bridge_for(n) = bridge_for(o) => n.name = o.name
  BY DEF NetworksAreNamed, LansOf, IfacesOf, Listed
<1>2. /\ Listed(wans) /\ \A w \in Range(wans) : w.name # None
      /\ {w.iface : w \in Range(wans)} = IfacesOf(answers) /\ None \notin IfacesOf(answers)
  BY InterfacesAreNamed
<1>3. list = x \o y
  BY DEF NetworkEntries
<1> HIDE DEF nets, wans
<1>4. /\ Len(nets) \in Nat /\ DOMAIN nets = 1..Len(nets)
      /\ \A n : n \in LansOf(answers) <=> \E i \in 1..Len(nets) : n = nets[i] /\ bridge_for(nets[i]) # None
  <2>1. Len(nets) \in Nat /\ DOMAIN nets = 1..Len(nets)
    BY <1>1, ListIs
  <2>2. \A n : n \in LansOf(answers) <=> n \in Range(nets) /\ bridge_for(n) # None
    BY DEF LansOf, nets
  <2> QED
    BY <2>1, <2>2 DEF Range
<1>5. /\ Len(wans) \in Nat /\ DOMAIN wans = 1..Len(wans)
      /\ \A i \in 1..Len(wans) : wans[i].name # None /\ wans[i].iface \in IfacesOf(answers)
      /\ \A f \in IfacesOf(answers) : \E i \in 1..Len(wans) : wans[i].iface = f
  <2>1. Len(wans) \in Nat /\ DOMAIN wans = 1..Len(wans)
    BY <1>2, ListIs
  <2> QED
    BY <1>2, <2>1 DEF Range
<1>6. /\ Listed(x) /\ Len(x) = Len(nets)
      /\ \A i \in 1..Len(nets) : x[i].key = bridge_for(nets[i]) /\ x[i].value = nets[i].name
  <2>1. DOMAIN x = 1..Len(nets) /\ x = [i \in 1..Len(nets) |-> x[i]]
    BY <1>4
  <2>2. \A i \in 1..Len(nets) : bridge_for(nets[i]) # None => nets[i].name # None
    BY <1>1, <1>4
  <2>3. \A i \in 1..Len(nets) : x[i].key = bridge_for(nets[i]) /\ x[i].value = nets[i].name
    BY <1>4, <2>2 DEF Label
  <2> HIDE DEF x
  <2>4. Listed(x) /\ Len(x) = Len(nets)
    BY <1>4, <2>1, ListMade
  <2> QED
    BY <2>3, <2>4
<1>7. /\ Listed(y) /\ Len(y) = Len(wans)
      /\ \A i \in 1..Len(wans) : y[i].key = wans[i].iface
  <2>1. DOMAIN y = 1..Len(wans) /\ y = [i \in 1..Len(wans) |-> y[i]]
    BY <1>5
  <2>3. \A i \in 1..Len(wans) : y[i].key = wans[i].iface
    BY <1>5 DEF Label
  <2> HIDE DEF y
  <2>4. Listed(y) /\ Len(y) = Len(wans)
    BY <1>5, <2>1, ListMade
  <2> QED
    BY <2>3, <2>4
<1> HIDE DEF x, y
<1>8. /\ Listed(list) /\ Len(list) = Len(nets) + Len(wans)
      /\ \A i \in 1..Len(nets) : list[i] = x[i]
      /\ \A i \in 1..Len(wans) : list[Len(nets) + i] = y[i]
      /\ \A i \in 1..(Len(nets) + Len(wans)) :
           \/ i \in 1..Len(nets) /\ list[i] = x[i]
           \/ i > Len(nets) /\ i - Len(nets) \in 1..Len(wans) /\ list[i] = y[i - Len(nets)]
  <2>1. Joined(list, x, y)
    BY <1>3, <1>6, <1>7, ListJoined
  <2>2. Len(x) = Len(nets) /\ Len(y) = Len(wans)
    BY <1>6, <1>7
  <2> QED
    BY <2>1, <2>2 DEF Joined
<1> DEFINE w == store_networks(list, {})
<1>9. ASSUME NEW n \in LansOf(answers)
      PROVE  /\ bridge_for(n) # None /\ \E i \in 1..Len(list) : list[i].key = bridge_for(n)
             /\ \A i \in 1..Len(list) : list[i].key = bridge_for(n) => list[i].value = n.name
  <2>1. PICK i \in 1..Len(nets) : n = nets[i] /\ bridge_for(nets[i]) # None
    BY <1>4
  <2>2. i \in 1..Len(list) /\ list[i].key = bridge_for(n)
    BY <1>4, <1>5, <1>6, <1>8, <2>1
  <2>3. ASSUME NEW j \in 1..Len(list), list[j].key = bridge_for(n)
        PROVE  list[j].value = n.name
    <3>1. CASE j \in 1..Len(nets) /\ list[j] = x[j]
      <4>1. bridge_for(nets[j]) = bridge_for(n) /\ list[j].value = nets[j].name
        BY <1>6, <2>3, <3>1
      <4>2. nets[j] \in LansOf(answers)
        BY <1>4, <2>1, <3>1, <4>1
      <4> QED
        BY <1>1, <4>1, <4>2
    <3>2. CASE j > Len(nets) /\ j - Len(nets) \in 1..Len(wans) /\ list[j] = y[j - Len(nets)]
      <4>1. list[j].key \in IfacesOf(answers)
        BY <1>5, <1>7, <3>2
      <4> QED
        BY <1>1, <2>3, <4>1
    <3> QED
      BY <1>8, <3>1, <3>2
  <2> QED
    BY <2>1, <2>2, <2>3
<1>10. \A k : k # None /\ (\E i \in 1..Len(list) : list[i].key = k)
              <=> k \in {bridge_for(n) : n \in LansOf(answers)} \cup IfacesOf(answers)
  <2>1. ASSUME NEW k, k # None, NEW i \in 1..Len(list), list[i].key = k
        PROVE  k \in {bridge_for(n) : n \in LansOf(answers)} \cup IfacesOf(answers)
    <3>1. CASE i \in 1..Len(nets) /\ list[i] = x[i]
      <4>1. bridge_for(nets[i]) = k
        BY <1>6, <2>1, <3>1
      <4>2. nets[i] \in LansOf(answers)
        BY <1>4, <2>1, <3>1, <4>1
      <4> QED
        BY <4>1, <4>2
    <3>2. CASE i > Len(nets) /\ i - Len(nets) \in 1..Len(wans) /\ list[i] = y[i - Len(nets)]
      BY <1>5, <1>7, <2>1, <3>2
    <3> QED
      BY <1>8, <3>1, <3>2
  <2>2. ASSUME NEW k, k \in IfacesOf(answers)
        PROVE  k # None /\ \E i \in 1..Len(list) : list[i].key = k
    <3>1. PICK i \in 1..Len(wans) : wans[i].iface = k
      BY <1>5, <2>2
    <3>2. Len(nets) + i \in 1..Len(list) /\ list[Len(nets) + i].key = k
      BY <1>4, <1>5, <1>7, <1>8, <3>1
    <3> QED
      BY <1>2, <2>2, <3>2
  <2> QED
    BY <1>9, <2>1, <2>2
<1>11. w = Written(networks, list, {}, Keyed(list, {}))
  <2>1. PICK n \in LansOf(answers) : TRUE
    BY <1>1
  <2>2. DOMAIN list = 1..Len(list)
    BY <1>8, ListIs
  <2>3. Keyed(list, {}) # {}
    BY <1>9, <2>1, <2>2 DEF Keyed
  <2> QED
    BY <2>3 DEF store_networks
<1> HIDE DEF w
<1>12. /\ \A k : k \in DOMAIN w <=> k # None /\ \E i \in 1..Len(list) : list[i].key = k
       /\ \A k \in DOMAIN w : \E i \in 1..Len(list) :
            /\ list[i].key = k /\ w[k] = list[i].value
            /\ \A j \in 1..Len(list) : list[j].key = k => j <= i
  <2>1. HoldsLast(list, w)
    BY <1>8, <1>11, WrittenIs
  <2> QED
    BY <2>1 DEF HoldsLast
<1>13. DOMAIN w = {bridge_for(n) : n \in LansOf(answers)} \cup IfacesOf(answers)
  BY <1>10, <1>12
<1>14. \A n \in LansOf(answers) : w[bridge_for(n)] = n.name
  BY <1>9, <1>12
<1> QED
  BY <1>13, <1>14 DEF NetworksOf, w

\* The names of the rules of an answer, each under its own key.
PoliciesOf(answers, table) ==
  /\ Range(table) = {p.name : p \in Range(answers.policies)}
  /\ \A p \in Range(answers.policies) : \E k \in DOMAIN table :
       /\ table[k] = p.name /\ k[4] = p.index
       /\ k[1] = answers.tokens[p.src] /\ k[2] = answers.tokens[p.dst]

\* After a sync without a failure the rules are those of the controller.
LEMMA PoliciesWritten ==
  ASSUME NEW answers, PoliciesAreNamed(answers),
         NEW list, list = PolicyEntries(answers.zones, answers.policies)
  PROVE  PoliciesOf(answers, store_policies(list, {}))
<1> DEFINE pols   == answers.policies
           Key(p) == policy_key(p, answers.tokens)
           w      == store_policies(list, {})
<1>1. /\ Listed(pols) /\ pols # <<>> /\ answers.tokens = zone_tokens(answers.zones)
      /\ \A p \in Range(pols) : p.name # None /\ Key(p) # None
      /\ \A p, q \in Range(pols) : Key(p) = Key(q) => p.name = q.name
  BY DEF PoliciesAreNamed, Listed
<1>2. list = [i \in DOMAIN pols |-> Label(Key(pols[i]), pols[i].name, pols[i].name)]
  BY <1>1 DEF PolicyEntries
<1>3. \A p : Key(p) # None =>
        Key(p) = <<answers.tokens[p.src], answers.tokens[p.dst], action_letter(p.action), p.index>>
  BY DEF policy_key
<1> HIDE DEF pols, Key
<1>4. /\ Len(pols) \in Nat /\ DOMAIN pols = 1..Len(pols)
      /\ \A p : p \in Range(pols) <=> \E i \in 1..Len(pols) : p = pols[i]
  BY <1>1, ListIs
<1>5. Len(pols) # 0
  BY <1>1, <1>4, LenProperties, EmptySeq DEF Listed
<1>6. /\ Listed(list) /\ Len(list) = Len(pols)
      /\ \A i \in 1..Len(pols) : list[i].key = Key(pols[i]) /\ list[i].value = pols[i].name
  <2>1. DOMAIN list = 1..Len(pols) /\ list = [i \in 1..Len(pols) |-> list[i]]
    BY <1>2, <1>4
  <2>2. \A i \in 1..Len(pols) : pols[i].name # None
    BY <1>1, <1>4
  <2>3. \A i \in 1..Len(pols) : list[i].key = Key(pols[i]) /\ list[i].value = pols[i].name
    BY <1>2, <1>4, <2>2 DEF Label
  <2>4. Listed(list) /\ Len(list) = Len(pols)
    BY <1>4, <2>1, ListMade
  <2> QED
    BY <2>3, <2>4
<1>7. w = Written(policies, list, {}, Keyed(list, {}))
  <2>1. 1 \in 1..Len(pols) /\ pols[1] \in Range(pols)
    BY <1>4, <1>5
  <2>2. list[1].key # None /\ DOMAIN list = 1..Len(list)
    BY <1>1, <1>6, <2>1, ListIs
  <2>3. Keyed(list, {}) # {}
    BY <1>6, <2>1, <2>2 DEF Keyed
  <2> QED
    BY <2>3 DEF store_policies
<1> HIDE DEF w
<1>8. /\ \A k : k \in DOMAIN w <=> k # None /\ \E i \in 1..Len(list) : list[i].key = k
      /\ \A k \in DOMAIN w : \E i \in 1..Len(list) :
           /\ list[i].key = k /\ w[k] = list[i].value
           /\ \A j \in 1..Len(list) : list[j].key = k => j <= i
  <2>1. Listed(list)
    BY <1>6
  <2>2. HoldsLast(list, w)
    BY <1>7, <2>1, WrittenIs
  <2> QED
    BY <2>2 DEF HoldsLast
<1>9. ASSUME NEW p \in Range(pols)
      PROVE  Key(p) \in DOMAIN w /\ w[Key(p)] = p.name
  <2>1. PICK i \in 1..Len(pols) : p = pols[i]
    BY <1>4
  <2>2. Key(p) \in DOMAIN w
    BY <1>1, <1>6, <1>8, <2>1
  <2>3. PICK j \in 1..Len(list) : list[j].key = Key(p) /\ w[Key(p)] = list[j].value
    BY <1>8, <2>2
  <2>4. pols[j] \in Range(pols) /\ Key(pols[j]) = Key(p) /\ w[Key(p)] = pols[j].name
    BY <1>4, <1>6, <2>3
  <2> QED
    BY <1>1, <2>2, <2>4
<1>10. ASSUME NEW k \in DOMAIN w
       PROVE  \E p \in Range(pols) : w[k] = p.name
  <2>1. PICK j \in 1..Len(list) : w[k] = list[j].value
    BY <1>8
  <2> QED
    BY <1>4, <1>6, <2>1
<1>11. Range(w) = {p.name : p \in Range(pols)}
  BY <1>9, <1>10 DEF Range
<1>12. ASSUME NEW p \in Range(pols)
       PROVE  \E k \in DOMAIN w :
                /\ w[k] = p.name /\ k[4] = p.index
                /\ k[1] = answers.tokens[p.src] /\ k[2] = answers.tokens[p.dst]
  <2>1. Key(p) = <<answers.tokens[p.src], answers.tokens[p.dst], action_letter(p.action), p.index>>
    BY <1>1, <1>3
  <2>2. /\ Key(p)[4] = p.index
        /\ Key(p)[1] = answers.tokens[p.src] /\ Key(p)[2] = answers.tokens[p.dst]
    BY <2>1
  <2> QED
    BY <1>9, <2>2
<1> QED
  BY <1>11, <1>12 DEF PoliciesOf, w, pols

-----------------------------------------------------------------------------
\* The entries of a sync in the order in which they are written, and whom an
\* answer places at an address.
Order(answers)         == by_last_seen(answers.alluser) \o by_last_seen(answers.sta)
Macs(answers)          == {c.mac : c \in Range(answers.alluser)}
PlacedAt(list, ip)     == {c \in Range(list) : ip \in {c.ip, c.last_ip}}
Resident(answers, ip)  ==
  IF PlacedAt(answers.sta, ip) # {} THEN Latest(PlacedAt(answers.sta, ip))
  ELSE Latest(PlacedAt(answers.alluser, ip))
LastAt(order, k, i)    == \A j \in 1..k : Address(order[j]) = Address(order[i]) => j <= i

LEMMA PlacedIs ==
  ASSUME NEW list, IsClients(list), NEW ip, ip # None
  PROVE  \A c : c \in PlacedAt(list, ip) <=> c \in Range(list) /\ Address(c) = ip
<1>1. \A c \in Range(list) : {c.ip, c.last_ip} \subseteq {Address(c), None}
  BY DEF IsClients
<1>2. \A c : Address(c) \in {c.ip, c.last_ip}
  BY DEF Address
<1> QED
  BY <1>1, <1>2 DEF PlacedAt

\* Who was seen last at an address is the one.
LEMMA LatestIs ==
  ASSUME NEW list, IsClients(list), NEW ip, ip # None, NEW c \in PlacedAt(list, ip),
         \A d \in PlacedAt(list, ip) : d.last_seen <= c.last_seen
  PROVE  Latest(PlacedAt(list, ip)) = c
<1> DEFINE S == PlacedAt(list, ip)
           e == Latest(S)
<1>1. \E x \in S : \A f \in S : f.last_seen <= x.last_seen
  OBVIOUS
<1>2. e \in S /\ \A f \in S : f.last_seen <= e.last_seen
  BY <1>1 DEF Latest
<1>3. \A x : x \in S <=> x \in Range(list) /\ Address(x) = ip
  BY PlacedIs
<1> HIDE DEF S, e
<1>4. c \in S /\ \A d \in S : d.last_seen <= c.last_seen
  BY DEF S
<1>5. e \in Range(list) /\ c \in Range(list) /\ Address(e) = ip /\ Address(c) = ip
  BY <1>2, <1>3, <1>4
<1>6. e.last_seen \in Int /\ c.last_seen \in Int
  BY <1>5 DEF IsClients
<1>7. e.last_seen = c.last_seen
  <2>1. e.last_seen <= c.last_seen /\ c.last_seen <= e.last_seen
    BY <1>2, <1>4
  <2> QED
    BY <1>6, <2>1
<1>8. PICK i \in DOMAIN list : e = list[i]
  BY <1>5 DEF Range
<1>9. PICK j \in DOMAIN list : c = list[j]
  BY <1>5 DEF Range
<1>10. i = j
  BY <1>5, <1>7, <1>8, <1>9 DEF IsClients
<1> QED
  BY <1>8, <1>9, <1>10 DEF e, S

\* A list of clients, in order.
LEMMA ClientsSorted ==
  ASSUME NEW list, IsClients(list), NEW x, x = by_last_seen(list)
  PROVE  /\ Listed(list) /\ Listed(x) /\ Len(x) = Len(list) /\ Range(x) = Range(list)
         /\ \A i \in 1..Len(x) : x[i] \in Range(list) /\ x[i].last_seen \in Int
         /\ \A c \in Range(list) : \E i \in 1..Len(x) : x[i] = c
         /\ \A k, l \in 1..Len(x) : k <= l => x[k].last_seen <= x[l].last_seen
<1>1. Listed(list) /\ \A c \in Range(list) : c.last_seen \in Int
  BY DEF IsClients, Listed
<1>2. /\ Listed(x) /\ Len(x) = Len(list) /\ Range(x) = Range(list)
      /\ \A k, l \in 1..Len(list) : k <= l => x[k].last_seen <= x[l].last_seen
  BY <1>1, SortedIs
<1>3. \A c : c \in Range(x) <=> \E i \in 1..Len(x) : c = x[i]
  BY <1>2, ListIs
<1> QED
  BY <1>1, <1>2, <1>3

\* The last entry at an address, of a list in order, is its latest.
LEMMA LastIsLatest ==
  ASSUME NEW list, IsClients(list), NEW x, x = by_last_seen(list), NEW i \in 1..Len(x), NEW ip, ip # None,
         Address(x[i]) = ip, \A j \in 1..Len(x) : Address(x[j]) = ip => j <= i
  PROVE  x[i] \in PlacedAt(list, ip) /\ Latest(PlacedAt(list, ip)) = x[i]
<1>1. /\ \A k \in 1..Len(x) : x[k] \in Range(list) /\ x[k].last_seen \in Int
      /\ \A c \in Range(list) : \E k \in 1..Len(x) : x[k] = c
      /\ \A k, l \in 1..Len(x) : k <= l => x[k].last_seen <= x[l].last_seen
  BY ClientsSorted
<1>2. \A c : c \in PlacedAt(list, ip) <=> c \in Range(list) /\ Address(c) = ip
  BY PlacedIs
<1>3. x[i] \in PlacedAt(list, ip)
  BY <1>1, <1>2
<1>4. ASSUME NEW d \in PlacedAt(list, ip) PROVE d.last_seen <= x[i].last_seen
  <2>1. PICK k \in 1..Len(x) : x[k] = d
    BY <1>1, <1>2
  <2>2. k <= i
    BY <1>2, <2>1
  <2> QED
    BY <1>1, <2>1, <2>2
<1>5. Latest(PlacedAt(list, ip)) = x[i]
  BY <1>3, <1>4, LatestIs
<1> QED
  BY <1>3, <1>5

\* What is written for a controller: every client it knows, a client at one
\* address, and last at an address whom the controller places there.
InOrder(answers, order) ==
  /\ Listed(order)
  /\ \A i \in 1..Len(order) : order[i].mac \in Macs(answers)
  /\ \A m \in Macs(answers) : \E i \in 1..Len(order) : order[i].mac = m
  /\ \A i, j \in 1..Len(order) :
       order[i].mac = order[j].mac => Address(order[i]) = Address(order[j])
  /\ \A i \in 1..Len(order) : Address(order[i]) # None /\ LastAt(order, Len(order), i)
       => order[i] = Resident(answers, Address(order[i]))
  /\ \A ip : ip # None =>
       ((\E i \in 1..Len(order) : Address(order[i]) = ip)
        <=> PlacedAt(answers.sta, ip) \cup PlacedAt(answers.alluser, ip) # {})

LEMMA OrderIs ==
  ASSUME NEW answers, ClientsAreKnown(answers)
  PROVE  InOrder(answers, Order(answers))
<1> DEFINE all == answers.alluser
           sta == answers.sta
           x   == by_last_seen(all)
           y   == by_last_seen(sta)
           order == Order(answers)
<1>1. /\ IsClients(sta) /\ IsClients(all)
      /\ \A c \in Range(sta) : \E d \in Range(all) : c.mac = d.mac /\ Address(c) = Address(d)
  BY DEF ClientsAreKnown
<1>2. order = x \o y
  BY DEF Order
<1>3. x = by_last_seen(all) /\ y = by_last_seen(sta)
  OBVIOUS
<1>4. /\ Macs(answers) = {c.mac : c \in Range(all)}
      /\ \A ip : Resident(answers, ip) =
           IF PlacedAt(sta, ip) # {} THEN Latest(PlacedAt(sta, ip)) ELSE Latest(PlacedAt(all, ip))
  BY DEF Macs, Resident
<1> HIDE DEF all, sta, x, y, order
<1>5. /\ Listed(all) /\ Listed(x) /\ Len(x) = Len(all) /\ Range(x) = Range(all)
      /\ \A i \in 1..Len(x) : x[i] \in Range(all) /\ x[i].last_seen \in Int
      /\ \A c \in Range(all) : \E i \in 1..Len(x) : x[i] = c
      /\ \A k, l \in 1..Len(x) : k <= l => x[k].last_seen <= x[l].last_seen
  BY <1>1, <1>3, ClientsSorted
<1>6. /\ Listed(sta) /\ Listed(y) /\ Len(y) = Len(sta) /\ Range(y) = Range(sta)
      /\ \A i \in 1..Len(y) : y[i] \in Range(sta) /\ y[i].last_seen \in Int
      /\ \A c \in Range(sta) : \E i \in 1..Len(y) : y[i] = c
      /\ \A k, l \in 1..Len(y) : k <= l => y[k].last_seen <= y[l].last_seen
  BY <1>1, <1>3, ClientsSorted
<1>7. Len(x) \in Nat /\ Len(y) \in Nat
  BY <1>5, <1>6, ListIs
<1>8. /\ Listed(order) /\ Len(order) = Len(x) + Len(y)
      /\ \A i \in 1..Len(x) : order[i] = x[i]
      /\ \A i \in 1..Len(y) : order[Len(x) + i] = y[i]
      /\ \A i \in 1..(Len(x) + Len(y)) :
           \/ i \in 1..Len(x) /\ order[i] = x[i]
           \/ i > Len(x) /\ i - Len(x) \in 1..Len(y) /\ order[i] = y[i - Len(x)]
  <2>1. Joined(order, x, y)
    BY <1>2, <1>5, <1>6, ListJoined
  <2> QED
    BY <2>1 DEF Joined
<1>9. \A i \in 1..Len(order) : \E d \in Range(all) : order[i].mac = d.mac /\ Address(order[i]) = Address(d)
  <2> TAKE i \in 1..Len(order)
  <2>1. CASE i \in 1..Len(x) /\ order[i] = x[i]
    BY <1>5, <2>1
  <2>2. CASE i - Len(x) \in 1..Len(y) /\ order[i] = y[i - Len(x)]
    BY <1>1, <1>6, <2>2
  <2> QED
    BY <1>8, <2>1, <2>2
<1>10. \A c, d \in Range(all) : c.mac = d.mac => c = d
  <2> TAKE c, d \in Range(all)
  <2> HAVE c.mac = d.mac
  <2>1. PICK i \in DOMAIN all : c = all[i]
    BY DEF Range
  <2>2. PICK j \in DOMAIN all : d = all[j]
    BY DEF Range
  <2>3. i = j
    BY <1>1, <2>1, <2>2 DEF IsClients
  <2> QED
    BY <2>1, <2>2, <2>3
<1>11. \A i \in 1..Len(order) : order[i].mac \in Macs(answers)
  BY <1>4, <1>9
<1>12. \A m \in Macs(answers) : \E i \in 1..Len(order) : order[i].mac = m
  <2> TAKE m \in Macs(answers)
  <2>1. PICK c \in Range(all) : c.mac = m
    BY <1>4
  <2>2. PICK i \in 1..Len(x) : x[i] = c
    BY <1>5
  <2>3. i \in 1..Len(order) /\ order[i] = c
    BY <1>7, <1>8, <2>2
  <2> QED
    BY <2>1, <2>3
<1>13. \A i, j \in 1..Len(order) :
         order[i].mac = order[j].mac => Address(order[i]) = Address(order[j])
  BY <1>9, <1>10
<1>14. ASSUME NEW ip, ip # None
       PROVE  /\ \A c : c \in PlacedAt(sta, ip) <=> c \in Range(sta) /\ Address(c) = ip
              /\ \A c : c \in PlacedAt(all, ip) <=> c \in Range(all) /\ Address(c) = ip
  BY <1>1, <1>14, PlacedIs
<1>15. ASSUME NEW i \in 1..Len(order), Address(order[i]) # None, LastAt(order, Len(order), i)
       PROVE  order[i] = Resident(answers, Address(order[i]))
  <2> DEFINE ip == Address(order[i])
  <2>1. \A j \in 1..Len(order) : Address(order[j]) = ip => j <= i
    BY <1>15 DEF LastAt
  <2>2. ip # None
    BY <1>15
  <2>3. CASE i \in 1..Len(x) /\ order[i] = x[i]
    <3>1. \A j \in 1..Len(x) : Address(x[j]) = ip => j <= i
      BY <1>7, <1>8, <2>1
    <3>2. Latest(PlacedAt(all, ip)) = x[i]
      BY <1>1, <1>3, <2>2, <2>3, <3>1, LastIsLatest
    <3>3. PlacedAt(sta, ip) = {}
      <4> SUFFICES ASSUME NEW c \in PlacedAt(sta, ip) PROVE FALSE
        OBVIOUS
      <4>1. c \in Range(sta) /\ Address(c) = ip
        BY <1>14, <2>2
      <4>2. PICK j \in 1..Len(y) : y[j] = c
        BY <1>6, <4>1
      <4>3. Len(x) + j \in 1..Len(order) /\ order[Len(x) + j] = c /\ Len(x) + j > i
        BY <1>7, <1>8, <2>3, <4>2
      <4> HIDE DEF ip
      <4>4. Len(x) + j <= i
        BY <2>1, <4>1, <4>3
      <4> QED
        BY <1>7, <2>3, <4>3, <4>4
    <3> QED
      BY <1>4, <2>3, <3>2, <3>3
  <2>4. CASE i > Len(x) /\ i - Len(x) \in 1..Len(y) /\ order[i] = y[i - Len(x)]
    <3> DEFINE p == i - Len(x)
    <3>1. p \in 1..Len(y) /\ Address(y[p]) = ip /\ order[i] = y[p]
      BY <2>4
    <3>2. \A j \in 1..Len(y) : Address(y[j]) = ip => j <= p
      <4> TAKE j \in 1..Len(y)
      <4> HAVE Address(y[j]) = ip
      <4>1. Len(x) + j \in 1..Len(order) /\ order[Len(x) + j] = y[j]
        BY <1>7, <1>8
      <4>2. Len(x) + j <= i
        BY <2>1, <4>1
      <4> QED
        BY <1>7, <4>2
    <3> HIDE DEF p, ip
    <3>3. y[p] \in PlacedAt(sta, ip) /\ Latest(PlacedAt(sta, ip)) = y[p]
      BY <1>1, <1>3, <2>2, <3>1, <3>2, LastIsLatest
    <3> QED
      BY <1>4, <3>1, <3>3 DEF ip
  <2> QED
    BY <1>8, <2>3, <2>4
<1>16. ASSUME NEW ip, ip # None
       PROVE  (\E i \in 1..Len(order) : Address(order[i]) = ip)
                <=> PlacedAt(sta, ip) \cup PlacedAt(all, ip) # {}
  <2>1. ASSUME NEW i \in 1..Len(order), Address(order[i]) = ip
        PROVE  PlacedAt(sta, ip) \cup PlacedAt(all, ip) # {}
    <3>1. PICK d \in Range(all) : Address(d) = ip
      BY <1>9, <2>1
    <3>2. d \in PlacedAt(all, ip)
      BY <1>14, <1>16, <3>1
    <3> QED
      BY <3>2
  <2>2. ASSUME NEW c \in PlacedAt(sta, ip) \cup PlacedAt(all, ip)
        PROVE  \E i \in 1..Len(order) : Address(order[i]) = ip
    <3>1. PICK d \in Range(all) : Address(d) = ip
      <4>1. CASE c \in PlacedAt(sta, ip)
        BY <1>1, <1>14, <1>16, <4>1
      <4>2. CASE c \in PlacedAt(all, ip)
        BY <1>14, <1>16, <4>2
      <4> QED
        BY <4>1, <4>2
    <3>2. PICK i \in 1..Len(x) : x[i] = d
      BY <1>5
    <3>3. i \in 1..Len(order) /\ order[i] = d
      BY <1>7, <1>8, <3>2
    <3> QED
      BY <3>1, <3>3
  <2> QED
    BY <2>1, <2>2
<1> QED
  BY <1>8, <1>11, <1>12, <1>13, <1>15, <1>16 DEF all, sta, order, InOrder

\* After k entries everyone written has their address or none, and at every
\* address is who was written there last, and nobody else.
ClientsUpTo(order, k, table) ==
  /\ \A i \in 1..k :
       order[i].mac \in DOMAIN table /\ table[order[i].mac].ip \in {None, Address(order[i])}
  /\ \A i \in 1..k : Address(order[i]) # None /\ LastAt(order, k, i)
       => table[order[i].mac] = [ip |-> Address(order[i]), name |-> display_name(order[i])]
  /\ \A i \in 1..k : \A m \in DOMAIN table :
       Address(order[i]) # None /\ table[m].ip = Address(order[i])
       => \E j \in 1..k : /\ order[j].mac = m /\ Address(order[j]) = Address(order[i])
                          /\ LastAt(order, k, j)

\* One client more.
LEMMA OneClientMore ==
  ASSUME NEW order, NEW k \in Nat, NEW table, ClientsUpTo(order, k, table),
         \A m \in DOMAIN table : DOMAIN table[m] = {"ip", "name"},
         \A i, j \in 1..(k + 1) : order[i].mac = order[j].mac => Address(order[i]) = Address(order[j]),
         NEW c, c = order[k + 1], NEW ip, ip = Address(c), NEW after,
         after = Upsert(Taken(table, c.mac, ip), c.mac, [ip |-> ip, name |-> display_name(c)])
  PROVE  ClientsUpTo(order, k + 1, after)
<1>1. /\ DOMAIN after = DOMAIN table \cup {c.mac}
      /\ after[c.mac] = [ip |-> ip, name |-> display_name(c)]
      /\ \A m \in DOMAIN table \ {c.mac} : after[m] = Taken(table, c.mac, ip)[m]
  BY DEF Upsert, Taken
<1>2. \A m \in DOMAIN table \ {c.mac} :
        /\ after[m].ip \in {table[m].ip, None}
        /\ ip # None => after[m].ip # ip
        /\ table[m].ip # ip => after[m] = table[m]
  BY <1>1 DEF Taken
<1>3. after[c.mac].ip = ip /\ k + 1 \in 1..(k + 1) /\ \A i \in 1..k : i \in 1..(k + 1)
  BY <1>1
<1>4. \A i \in 1..(k + 1) : i = k + 1 \/ i \in 1..k
  OBVIOUS
<1>5. /\ \A i \in 1..k :
           order[i].mac \in DOMAIN table /\ table[order[i].mac].ip \in {None, Address(order[i])}
      /\ \A i \in 1..k : Address(order[i]) # None /\ LastAt(order, k, i)
           => table[order[i].mac] = [ip |-> Address(order[i]), name |-> display_name(order[i])]
      /\ \A i \in 1..k : \A m \in DOMAIN table :
           Address(order[i]) # None /\ table[m].ip = Address(order[i])
           => \E j \in 1..k : /\ order[j].mac = m /\ Address(order[j]) = Address(order[i])
                              /\ LastAt(order, k, j)
  BY DEF ClientsUpTo
<1>6. \A i \in 1..k : order[i].mac = c.mac => Address(order[i]) = ip
  BY <1>3
<1>7. ASSUME NEW i \in 1..(k + 1)
      PROVE  order[i].mac \in DOMAIN after /\ after[order[i].mac].ip \in {None, Address(order[i])}
  <2>1. CASE order[i].mac = c.mac
    BY <1>1, <1>3, <1>4, <1>6, <2>1
  <2>2. CASE order[i].mac # c.mac
    <3>1. i \in 1..k
      BY <1>4, <2>2
    <3> QED
      BY <1>1, <1>2, <1>5, <2>2, <3>1
  <2> QED
    BY <2>1, <2>2
<1>8. ASSUME NEW i \in 1..(k + 1), Address(order[i]) # None, LastAt(order, k + 1, i)
      PROVE  after[order[i].mac] = [ip |-> Address(order[i]), name |-> display_name(order[i])]
  <2>1. CASE i = k + 1
    BY <1>1, <2>1
  <2>2. CASE i \in 1..k
    <3>1. Address(order[i]) # ip
      <4>1. k + 1 <= i \/ Address(order[k + 1]) # Address(order[i])
        BY <1>3, <1>8 DEF LastAt
      <4> QED
        BY <2>2, <4>1
    <3>2. LastAt(order, k, i)
      BY <1>3, <1>8 DEF LastAt
    <3>3. table[order[i].mac] = [ip |-> Address(order[i]), name |-> display_name(order[i])]
      BY <1>5, <1>8, <2>2, <3>2
    <3>4. order[i].mac \in DOMAIN table \ {c.mac} /\ table[order[i].mac].ip # ip
      BY <1>5, <1>6, <2>2, <3>1, <3>3
    <3> QED
      BY <1>2, <3>3, <3>4
  <2> QED
    BY <1>4, <2>1, <2>2
<1>9. LastAt(order, k + 1, k + 1)
  BY DEF LastAt
<1>10. ASSUME NEW i \in 1..(k + 1), NEW m \in DOMAIN after,
              Address(order[i]) # None, after[m].ip = Address(order[i])
       PROVE  \E j \in 1..(k + 1) : /\ order[j].mac = m /\ Address(order[j]) = Address(order[i])
                                    /\ LastAt(order, k + 1, j)
  <2>1. CASE Address(order[i]) = ip
    <3>1. m = c.mac
      BY <1>1, <1>2, <1>10, <2>1
    <3> QED
      BY <1>3, <1>9, <2>1, <3>1
  <2>2. CASE Address(order[i]) # ip
    <3>1. i \in 1..k /\ m # c.mac /\ m \in DOMAIN table
      BY <1>1, <1>3, <1>4, <1>10, <2>2
    <3>2. table[m].ip = Address(order[i])
      BY <1>2, <1>10, <3>1
    <3>3. PICK j \in 1..k : /\ order[j].mac = m /\ Address(order[j]) = Address(order[i])
                            /\ LastAt(order, k, j)
      BY <1>5, <1>10, <3>1, <3>2
    <3>4. LastAt(order, k + 1, j)
      BY <1>4, <2>2, <3>3 DEF LastAt
    <3> QED
      BY <1>3, <3>3, <3>4
  <2> QED
    BY <2>1, <2>2
<1> QED
  BY <1>7, <1>8, <1>10 DEF ClientsUpTo

\* Every address is its resident's, and everyone is known.
ClientsOf(answers, table) ==
  /\ DOMAIN table \subseteq Macs(answers)
  /\ \A ip : ip # None =>
       IF PlacedAt(answers.sta, ip) \cup PlacedAt(answers.alluser, ip) = {}
       THEN \A m \in DOMAIN table : table[m].ip # ip
       ELSE LET c == Resident(answers, ip)
            IN /\ c.mac \in DOMAIN table /\ table[c.mac] = [ip |-> ip, name |-> display_name(c)]
               /\ \A m \in DOMAIN table : table[m].ip = ip => m = c.mac

\* When all have been written, every address is its resident's.
LEMMA ClientsWritten ==
  ASSUME NEW answers, ClientsAreKnown(answers), NEW order, order = Order(answers),
         NEW table, DOMAIN table \subseteq Macs(answers), ClientsUpTo(order, Len(order), table)
  PROVE  ClientsOf(answers, table)
<1> DEFINE n == Len(order)
<1>1. /\ Listed(order)
      /\ \A m \in Macs(answers) : \E i \in 1..n : order[i].mac = m
      /\ \A i \in 1..n : Address(order[i]) # None /\ LastAt(order, n, i)
           => order[i] = Resident(answers, Address(order[i]))
      /\ \A ip : ip # None =>
           ((\E i \in 1..n : Address(order[i]) = ip)
            <=> PlacedAt(answers.sta, ip) \cup PlacedAt(answers.alluser, ip) # {})
  <2>1. InOrder(answers, order)
    BY OrderIs
  <2> QED
    BY <2>1 DEF InOrder
<1>2. n \in Nat
  BY <1>1, ListIs
<1>3. /\ \A i \in 1..n :
           order[i].mac \in DOMAIN table /\ table[order[i].mac].ip \in {None, Address(order[i])}
      /\ \A i \in 1..n : Address(order[i]) # None /\ LastAt(order, n, i)
           => table[order[i].mac] = [ip |-> Address(order[i]), name |-> display_name(order[i])]
      /\ \A i \in 1..n : \A m \in DOMAIN table :
           Address(order[i]) # None /\ table[m].ip = Address(order[i])
           => \E j \in 1..n : /\ order[j].mac = m /\ Address(order[j]) = Address(order[i])
                              /\ LastAt(order, n, j)
  BY DEF ClientsUpTo
<1> HIDE DEF n
<1>4. ASSUME NEW ip, ip # None, \A i \in 1..n : Address(order[i]) # ip, NEW m \in DOMAIN table
      PROVE  table[m].ip # ip
  <2>1. PICK i \in 1..n : order[i].mac = m
    BY <1>1
  <2> QED
    BY <1>3, <1>4, <2>1
<1>5. ASSUME NEW ip, ip # None, NEW p \in 1..n, Address(order[p]) = ip
      PROVE  LET c == Resident(answers, ip)
             IN /\ c.mac \in DOMAIN table /\ table[c.mac] = [ip |-> ip, name |-> display_name(c)]
                /\ \A m \in DOMAIN table : table[m].ip = ip => m = c.mac
  <2> DEFINE T == {i \in 1..n : Address(order[i]) = ip}
             i == Max(T)
  <2>1. i \in T /\ \A y \in T : y <= i
    BY <1>2, <1>5, GreatestPlace
  <2> HIDE DEF T, i
  <2>2. i \in 1..n /\ Address(order[i]) = ip /\ LastAt(order, n, i)
    BY <2>1 DEF T, LastAt
  <2>3. order[i] = Resident(answers, ip)
    BY <1>1, <1>5, <2>2
  <2>4. order[i].mac \in DOMAIN table /\ table[order[i].mac] = [ip |-> ip, name |-> display_name(order[i])]
    BY <1>3, <1>5, <2>2
  <2>5. ASSUME NEW m \in DOMAIN table, table[m].ip = ip PROVE m = order[i].mac
    <3>1. PICK j \in 1..n : order[j].mac = m /\ Address(order[j]) = ip /\ LastAt(order, n, j)
      BY <1>3, <1>5, <2>2, <2>5
    <3>2. j <= i /\ i <= j
      BY <2>2, <3>1 DEF LastAt
    <3>3. i = j
      BY <1>2, <2>2, <3>1, <3>2
    <3> QED
      BY <3>1, <3>3
  <2> QED
    BY <2>3, <2>4, <2>5
<1>6. ASSUME NEW ip, ip # None
      PROVE  IF PlacedAt(answers.sta, ip) \cup PlacedAt(answers.alluser, ip) = {}
             THEN \A m \in DOMAIN table : table[m].ip # ip
             ELSE LET c == Resident(answers, ip)
                  IN /\ c.mac \in DOMAIN table /\ table[c.mac] = [ip |-> ip, name |-> display_name(c)]
                     /\ \A m \in DOMAIN table : table[m].ip = ip => m = c.mac
  <2>1. CASE \E i \in 1..n : Address(order[i]) = ip
    <3>1. PlacedAt(answers.sta, ip) \cup PlacedAt(answers.alluser, ip) # {}
      BY <1>1, <1>6, <2>1
    <3> QED
      BY <1>5, <1>6, <2>1, <3>1
  <2>2. CASE \A i \in 1..n : Address(order[i]) # ip
    <3>1. PlacedAt(answers.sta, ip) \cup PlacedAt(answers.alluser, ip) = {}
      BY <1>1, <1>6, <2>2
    <3> QED
      BY <1>4, <1>6, <2>2, <3>1
  <2> QED
    BY <2>1, <2>2
<1> QED
  BY <1>6 DEF ClientsOf

-----------------------------------------------------------------------------
\* The entry of a key that is last in a list.
IsLast(list, k, i) ==
  /\ i \in 1..Len(list) /\ list[i].key = k
  /\ \A j \in 1..Len(list) : list[j].key = k => j <= i
Has(list, k) == \E i \in 1..Len(list) : list[i].key = k

LEMMA LastJoined ==
  ASSUME NEW x, NEW y, NEW list, Listed(x), Listed(y), Joined(list, x, y), NEW k, NEW i, IsLast(list, k, i)
  PROVE  \/ \E j \in 1..Len(y) : y[j].key = k /\ list[i] = y[j]
         \/ ~Has(y, k) /\ IsLast(x, k, i) /\ list[i] = x[i]
<1>1. Len(x) \in Nat /\ Len(y) \in Nat
  BY ListIs
<1>2. CASE i > Len(x) /\ i - Len(x) \in 1..Len(y) /\ list[i] = y[i - Len(x)]
  BY <1>2 DEF IsLast
<1>3. CASE i \in 1..Len(x) /\ list[i] = x[i]
  <2>1. ~Has(y, k)
    <3> SUFFICES ASSUME NEW j \in 1..Len(y), y[j].key = k PROVE FALSE
      BY DEF Has
    <3>1. Len(x) + j \in 1..Len(list) /\ list[Len(x) + j].key = k
      BY <1>1 DEF Joined
    <3>2. Len(x) + j <= i
      BY <3>1 DEF IsLast
    <3> QED
      BY <1>1, <1>3, <3>2
  <2>2. IsLast(x, k, i)
    BY <1>1, <1>3 DEF IsLast, Joined
  <2> QED
    BY <1>3, <2>1, <2>2
<1> QED
  BY <1>2, <1>3 DEF IsLast, Joined

LEMMA HasJoined ==
  ASSUME NEW x, NEW y, NEW list, Listed(x), Listed(y), Joined(list, x, y), NEW k
  PROVE  Has(list, k) <=> Has(x, k) \/ Has(y, k)
<1>1. Len(x) \in Nat /\ Len(y) \in Nat
  BY ListIs
<1>2. ASSUME NEW i \in 1..Len(x), x[i].key = k PROVE Has(list, k)
  BY <1>1, <1>2 DEF Has, Joined
<1>3. ASSUME NEW i \in 1..Len(y), y[i].key = k PROVE Has(list, k)
  <2>1. Len(x) + i \in 1..Len(list) /\ list[Len(x) + i].key = k
    BY <1>1, <1>3 DEF Joined
  <2> QED
    BY <2>1 DEF Has
<1>4. ASSUME NEW i \in 1..Len(list), list[i].key = k PROVE Has(x, k) \/ Has(y, k)
  BY <1>4 DEF Has, Joined
<1> QED
  BY <1>2, <1>3, <1>4 DEF Has

\* Every address of the controller is named as the controller would.
AddressesOf(answers, table) ==
  \A ip \in answers.ips :
    Called(ip) = IF ip \in DOMAIN table THEN [name |-> table[ip].name, kind |-> table[ip].kind]
                 ELSE None

\* What Called() means by it.
HereAt(ip)   == {d \in Range(Answers.device) : d.ip = ip /\ display_name(d) # None}
InsideAt(ip) == {n \in Range(Answers.nets) : gateway_ip(n) = ip}
Named(name, kind) == IF name = None THEN None ELSE [name |-> name, kind |-> kind]

LEMMA CalledIs ==
  ASSUME NEW ip
  PROVE  Called(ip) =
           IF HereAt(ip) # {} THEN Named(display_name(CHOOSE d \in HereAt(ip) : TRUE), "device")
           ELSE IF InsideAt(ip) # {} /\ gateway_name(Answers.device) # None
           THEN Named(gateway_name(Answers.device), "gateway")
           ELSE IF PlacedAt(Answers.sta, ip) \cup PlacedAt(Answers.alluser, ip) = {} THEN None
           ELSE Named(display_name(Resident(Answers, ip)), "client")
<1> DEFINE g == gateway_name(Answers.device)
<1>1. Called(ip) =
        IF HereAt(ip) # {} THEN Named(display_name(CHOOSE d \in HereAt(ip) : TRUE), "device")
        ELSE IF InsideAt(ip) # {} /\ g # None THEN Named(g, "gateway")
        ELSE IF PlacedAt(Answers.sta, ip) # {}
        THEN Named(display_name(Latest(PlacedAt(Answers.sta, ip))), "client")
        ELSE IF PlacedAt(Answers.alluser, ip) # {}
        THEN Named(display_name(Latest(PlacedAt(Answers.alluser, ip))), "client") ELSE None
  BY DEF Called, HereAt, InsideAt, Named, PlacedAt
<1> HIDE DEF g
<1>2. CASE PlacedAt(Answers.sta, ip) # {}
  BY <1>1, <1>2 DEF Resident, g
<1>3. CASE PlacedAt(Answers.sta, ip) = {}
  BY <1>1, <1>3 DEF Resident, g
<1> QED
  BY <1>2, <1>3

LEMMA AddressesWritten ==
  ASSUME DevicesAreNamed(Answers), NetworksAreNamed(Answers), None \notin Answers.ips,
         got.device = Answers.device, got.nets = Answers.nets,
         ClientsOf(Answers, clients), IsFiniteSet(DOMAIN clients),
         NEW list, list = AddressEntries
  PROVE  /\ Keyed(list, {}) # {}
         /\ AddressesOf(Answers, Written(addresses, list, {}, Keyed(list, {})))
<1> DEFINE As(ip, name, kind) == Label(ip, name, [name |-> name, kind |-> kind])
           held == SetToSeq(DOMAIN clients)
           nets == Answers.nets
           devs == Answers.device
           g    == gateway_name(devs)
           x    == [i \in DOMAIN held |-> As(clients[held[i]].ip, clients[held[i]].name, "client")]
           y    == [i \in DOMAIN nets |-> As(gateway_ip(nets[i]), g, "gateway")]
           z    == [i \in DOMAIN devs |-> As(devs[i].ip, display_name(devs[i]), "device")]
           xy   == x \o y
<1>1. list = xy \o z
  BY DEF AddressEntries
<1>2. Listed(held) /\ Range(held) = DOMAIN clients
  BY SetListed
<1>3. Listed(nets) /\ Listed(devs)
  BY DEF DevicesAreNamed, NetworksAreNamed, Listed
<1> HIDE DEF held, nets, devs, g
<1>4. /\ Len(held) \in Nat /\ DOMAIN held = 1..Len(held)
      /\ \A m : m \in DOMAIN clients <=> \E i \in 1..Len(held) : m = held[i]
  BY <1>2, ListIs
<1>5. /\ Len(nets) \in Nat /\ DOMAIN nets = 1..Len(nets)
      /\ \A n : n \in Range(nets) <=> \E i \in 1..Len(nets) : n = nets[i]
  BY <1>3, ListIs
<1>6. /\ Len(devs) \in Nat /\ DOMAIN devs = 1..Len(devs)
      /\ \A n : n \in Range(devs) <=> \E i \in 1..Len(devs) : n = devs[i]
  BY <1>3, ListIs
<1>7. /\ Listed(x) /\ Len(x) = Len(held)
      /\ \A i \in 1..Len(held) : x[i] = As(clients[held[i]].ip, clients[held[i]].name, "client")
  <2>1. DOMAIN x = 1..Len(held) /\ x = [i \in 1..Len(held) |-> x[i]]
    BY <1>4
  <2>2. \A i \in 1..Len(held) : x[i] = As(clients[held[i]].ip, clients[held[i]].name, "client")
    BY <1>4
  <2> HIDE DEF x
  <2>3. Listed(x) /\ Len(x) = Len(held)
    BY <1>4, <2>1, ListMade
  <2> QED
    BY <2>2, <2>3
<1>8. /\ Listed(y) /\ Len(y) = Len(nets)
      /\ \A i \in 1..Len(nets) : y[i] = As(gateway_ip(nets[i]), g, "gateway")
  <2>1. DOMAIN y = 1..Len(nets) /\ y = [i \in 1..Len(nets) |-> y[i]]
    BY <1>5
  <2>2. \A i \in 1..Len(nets) : y[i] = As(gateway_ip(nets[i]), g, "gateway")
    BY <1>5
  <2> HIDE DEF y
  <2>3. Listed(y) /\ Len(y) = Len(nets)
    BY <1>5, <2>1, ListMade
  <2> QED
    BY <2>2, <2>3
<1>9. /\ Listed(z) /\ Len(z) = Len(devs)
      /\ \A i \in 1..Len(devs) : z[i] = As(devs[i].ip, display_name(devs[i]), "device")
  <2>1. DOMAIN z = 1..Len(devs) /\ z = [i \in 1..Len(devs) |-> z[i]]
    BY <1>6
  <2>2. \A i \in 1..Len(devs) : z[i] = As(devs[i].ip, display_name(devs[i]), "device")
    BY <1>6
  <2> HIDE DEF z
  <2>3. Listed(z) /\ Len(z) = Len(devs)
    BY <1>6, <2>1, ListMade
  <2> QED
    BY <2>2, <2>3
<1> HIDE DEF x, y, z, As
<1>10. Joined(xy, x, y)
  BY <1>7, <1>8, ListJoined
<1>11. Listed(xy)
  BY <1>10 DEF Joined
<1> HIDE DEF xy
<1>12. Joined(list, xy, z)
  BY <1>1, <1>9, <1>11, ListJoined
<1>13. Listed(list) /\ DOMAIN list = 1..Len(list)
  <2>1. Listed(list)
    BY <1>12 DEF Joined
  <2> QED
    BY <2>1, ListIs
<1>14. /\ \A ip, name, kind : As(ip, name, kind).key = IF name = None THEN None ELSE ip
       /\ \A ip, name, kind : As(ip, name, kind).value = [name |-> name, kind |-> kind]
  BY DEF As, Label
<1>15. ASSUME NEW ip, ip # None
       PROVE  Has(list, ip) <=> Has(x, ip) \/ Has(y, ip) \/ Has(z, ip)
  <2>1. Has(list, ip) <=> Has(xy, ip) \/ Has(z, ip)
    BY <1>9, <1>11, <1>12, HasJoined
  <2>2. Has(xy, ip) <=> Has(x, ip) \/ Has(y, ip)
    BY <1>7, <1>8, <1>10, HasJoined
  <2> QED
    BY <2>1, <2>2
<1>16. Keyed(list, {}) # {}
  <2>1. PICK d \in Range(devs) : d.ip # None /\ display_name(d) # None
    BY DEF DevicesAreNamed, devs
  <2>2. PICK i \in 1..Len(devs) : d = devs[i]
    BY <1>6
  <2>3. z[i].key = d.ip
    BY <1>9, <1>14, <2>1, <2>2
  <2>4. Has(z, d.ip)
    BY <1>9, <2>3 DEF Has
  <2>5. Has(list, d.ip)
    BY <1>15, <2>1, <2>4
  <2> QED
    BY <1>13, <2>1, <2>5 DEF Keyed, Has
<1> DEFINE w == Written(addresses, list, {}, Keyed(list, {}))
<1>17. HoldsLast(list, w)
  BY <1>13, WrittenIs
<1> HIDE DEF w
<1>18. ASSUME NEW ip, ip # None
       PROVE  ip \in DOMAIN w <=> Has(list, ip)
  BY <1>17, <1>18 DEF HoldsLast, Has
<1>19. ASSUME NEW ip, ip \in DOMAIN w
       PROVE  \E i : IsLast(list, ip, i) /\ w[ip] = list[i].value
  BY <1>17, <1>19 DEF HoldsLast, IsLast
<1>20. ASSUME NEW ip, ip # None
       PROVE  /\ Has(z, ip) <=> HereAt(ip) # {}
              /\ \A i \in 1..Len(z) : z[i].key = ip =>
                   /\ devs[i] \in HereAt(ip)
                   /\ z[i].value = [name |-> display_name(devs[i]), kind |-> "device"]
  <2>1. HereAt(ip) = {d \in Range(devs) : d.ip = ip /\ display_name(d) # None}
    BY DEF HereAt, devs
  <2>2. \A i \in 1..Len(z) : z[i].key = ip =>
          /\ devs[i] \in HereAt(ip)
          /\ z[i].value = [name |-> display_name(devs[i]), kind |-> "device"]
    BY <1>6, <1>9, <1>14, <1>20, <2>1
  <2>3. ASSUME NEW d \in HereAt(ip) PROVE Has(z, ip)
    <3>1. PICK i \in 1..Len(devs) : d = devs[i]
      BY <1>6, <2>1
    <3>2. z[i].key = ip
      BY <1>9, <1>14, <2>1, <3>1
    <3> QED
      BY <1>9, <3>2 DEF Has
  <2> QED
    BY <2>2, <2>3 DEF Has
<1>21. ASSUME NEW ip, ip # None
       PROVE  /\ Has(y, ip) <=> InsideAt(ip) # {} /\ g # None
              /\ \A i \in 1..Len(y) : y[i].key = ip => y[i].value = [name |-> g, kind |-> "gateway"]
  <2>1. InsideAt(ip) = {n \in Range(nets) : gateway_ip(n) = ip}
    BY DEF InsideAt, nets
  <2>2. \A i \in 1..Len(y) : y[i].key = ip =>
          /\ nets[i] \in InsideAt(ip) /\ g # None
          /\ y[i].value = [name |-> g, kind |-> "gateway"]
    BY <1>5, <1>8, <1>14, <1>21, <2>1
  <2>3. ASSUME NEW n \in InsideAt(ip), g # None PROVE Has(y, ip)
    <3>1. PICK i \in 1..Len(nets) : n = nets[i]
      BY <1>5, <2>1
    <3>2. y[i].key = ip
      BY <1>8, <1>14, <2>1, <2>3, <3>1
    <3> QED
      BY <1>8, <3>2 DEF Has
  <2> QED
    BY <2>2, <2>3 DEF Has
<1>22. ASSUME NEW ip, ip # None
       PROVE  LET there == PlacedAt(Answers.sta, ip) \cup PlacedAt(Answers.alluser, ip)
                  name  == display_name(Resident(Answers, ip))
              IN /\ Has(x, ip) <=> there # {} /\ name # None
                 /\ \A i \in 1..Len(x) : x[i].key = ip => x[i].value = [name |-> name, kind |-> "client"]
  <2> DEFINE there == PlacedAt(Answers.sta, ip) \cup PlacedAt(Answers.alluser, ip)
             c     == Resident(Answers, ip)
             name  == display_name(c)
  <2>1. IF there = {} THEN \A m \in DOMAIN clients : clients[m].ip # ip
        ELSE /\ c.mac \in DOMAIN clients /\ clients[c.mac] = [ip |-> ip, name |-> name]
             /\ \A m \in DOMAIN clients : clients[m].ip = ip => m = c.mac
    BY <1>22 DEF ClientsOf
  <2> HIDE DEF there, c, name
  <2>2. ASSUME NEW i \in 1..Len(x), x[i].key = ip
        PROVE  there # {} /\ name # None /\ x[i].value = [name |-> name, kind |-> "client"]
    <3>1. /\ clients[held[i]].ip = ip /\ clients[held[i]].name # None /\ held[i] \in DOMAIN clients
          /\ x[i].value = [name |-> clients[held[i]].name, kind |-> "client"]
      BY <1>4, <1>7, <1>14, <1>22, <2>2
    <3>2. there # {}
      BY <2>1, <3>1
    <3>3. held[i] = c.mac /\ clients[held[i]].name = name
      BY <2>1, <3>1, <3>2
    <3> QED
      BY <3>1, <3>2, <3>3
  <2>3. ASSUME there # {}, name # None PROVE Has(x, ip)
    <3>1. PICK i \in 1..Len(held) : c.mac = held[i]
      BY <1>4, <2>1, <2>3
    <3>2. x[i].key = ip
      BY <1>7, <1>14, <2>1, <2>3, <3>1
    <3> QED
      BY <1>7, <3>2 DEF Has
  <2>4. Has(x, ip) <=> there # {} /\ name # None
    BY <2>2, <2>3 DEF Has
  <2> QED
    BY <2>2, <2>4 DEF there, name, c
<1>23. ASSUME NEW ip \in Answers.ips
       PROVE  Called(ip) = IF ip \in DOMAIN w THEN [name |-> w[ip].name, kind |-> w[ip].kind] ELSE None
  <2> DEFINE there == PlacedAt(Answers.sta, ip) \cup PlacedAt(Answers.alluser, ip)
             name  == display_name(Resident(Answers, ip))
  <2>1. ip # None
    OBVIOUS
  <2>2. Called(ip) =
          IF HereAt(ip) # {} THEN Named(display_name(CHOOSE d \in HereAt(ip) : TRUE), "device")
          ELSE IF InsideAt(ip) # {} /\ g # None THEN Named(g, "gateway")
          ELSE IF there = {} THEN None ELSE Named(name, "client")
    BY CalledIs DEF g, devs
  <2>3. /\ Has(x, ip) <=> there # {} /\ name # None
        /\ \A i \in 1..Len(x) : x[i].key = ip => x[i].value = [name |-> name, kind |-> "client"]
    BY <1>22, <2>1
  <2> HIDE DEF there, name
  <2>4. CASE ip \notin DOMAIN w
    <3>1. ~Has(x, ip) /\ ~Has(y, ip) /\ ~Has(z, ip)
      BY <1>15, <1>18, <2>1, <2>4
    <3>2. HereAt(ip) = {} /\ ~(InsideAt(ip) # {} /\ g # None) /\ (there = {} \/ name = None)
      BY <1>20, <1>21, <2>1, <2>3, <3>1
    <3> QED
      BY <2>2, <2>4, <3>2 DEF Named
  <2>5. CASE ip \in DOMAIN w
    <3>1. PICK i : IsLast(list, ip, i) /\ w[ip] = list[i].value
      BY <1>19, <2>5
    <3>2. CASE \E j \in 1..Len(z) : z[j].key = ip /\ list[i] = z[j]
      <4>1. PICK j \in 1..Len(z) : z[j].key = ip /\ list[i] = z[j]
        BY <3>2
      <4>2. devs[j] \in HereAt(ip) /\ w[ip] = [name |-> display_name(devs[j]), kind |-> "device"]
        BY <1>20, <2>1, <3>1, <4>1
      <4> DEFINE d == CHOOSE d \in HereAt(ip) : TRUE
      <4>3. d \in HereAt(ip)
        BY <4>2
      <4> HIDE DEF d
      <4>4. display_name(d) = display_name(devs[j]) /\ display_name(d) # None
        BY <2>1, <4>2, <4>3 DEF DevicesAreNamed, HereAt
      <4>5. Called(ip) = [name |-> display_name(devs[j]), kind |-> "device"]
        BY <2>2, <4>2, <4>4 DEF Named, d
      <4> QED
        BY <2>5, <4>2, <4>5
    <3>3. CASE ~Has(z, ip) /\ IsLast(xy, ip, i) /\ list[i] = xy[i]
      <4>1. HereAt(ip) = {}
        BY <1>20, <2>1, <3>3
      <4>2. CASE \E j \in 1..Len(y) : y[j].key = ip /\ xy[i] = y[j]
        <5>1. w[ip] = [name |-> g, kind |-> "gateway"] /\ Has(y, ip)
          <6>1. PICK j \in 1..Len(y) : y[j].key = ip /\ xy[i] = y[j]
            BY <4>2
          <6>2. y[j].value = [name |-> g, kind |-> "gateway"]
            BY <1>21, <2>1, <6>1
          <6>3. w[ip] = y[j].value
            BY <3>1, <3>3, <6>1
          <6> QED
            BY <6>1, <6>2, <6>3 DEF Has
        <5>2. InsideAt(ip) # {} /\ g # None
          BY <1>21, <2>1, <5>1
        <5>3. Called(ip) = [name |-> g, kind |-> "gateway"]
          BY <2>2, <4>1, <5>2 DEF Named
        <5> QED
          BY <2>5, <5>1, <5>3
      <4>3. CASE ~Has(y, ip) /\ IsLast(x, ip, i) /\ xy[i] = x[i]
        <5>1. ~(InsideAt(ip) # {} /\ g # None)
          BY <1>21, <2>1, <4>3
        <5>2. w[ip] = [name |-> name, kind |-> "client"] /\ Has(x, ip)
          BY <2>3, <3>1, <3>3, <4>3 DEF IsLast, Has
        <5>3. Called(ip) = [name |-> name, kind |-> "client"]
          BY <2>2, <2>3, <4>1, <5>1, <5>2 DEF Named
        <5> QED
          BY <2>5, <5>2, <5>3
      <4> QED
        BY <1>7, <1>8, <1>10, <3>3, <4>2, <4>3, LastJoined
    <3> QED
      BY <1>9, <1>11, <1>12, <3>1, <3>2, <3>3, LastJoined
  <2> QED
    BY <2>4, <2>5
<1> QED
  BY <1>16, <1>23 DEF AddressesOf, w

-----------------------------------------------------------------------------
(* A sync that nothing disturbs.                                          *)

\* What was read so far is what the controller answers, what was written is
\* as it would have it, and what is still to be written is the rest.
RestOf(list, order, k) ==
  /\ Listed(list) /\ Len(list) = Len(order) - k
  /\ \A i \in 1..Len(list) : list[i] = order[k + i]
ReadInv ==
  /\ pc \in {"device", "alluser"} => got.sta = Answers.sta
  /\ pc \in {"alluser", "networkconf", "wan", "policies", "clients", "addresses"}
     => got.device = Answers.device
  /\ pc \in {"wan", "policies", "clients", "addresses"}
     => got.nets = Answers.nets /\ NetworksOf(Answers, networks)
  /\ pc \in {"clients", "addresses"} => PoliciesOf(Answers, policies)
WriteInv ==
  /\ pc \in {"networkconf", "wan", "policies"} => todo = Order(Answers)
  /\ pc = "clients" => \E k \in 0..Len(Order(Answers)) :
       RestOf(todo, Order(Answers), k) /\ ClientsUpTo(Order(Answers), k, clients)
  /\ pc = "addresses" => ClientsOf(Answers, clients)
  /\ pc = "wait" /\ status = "ok" /\ current # None
     => /\ NetworksOf(Answers, networks) /\ PoliciesOf(Answers, policies)
        /\ AddressesOf(Answers, addresses)

\* Whoever is written is known to the controller, whatever it was.
KnownInv ==
  /\ site \in Controller /\ got = [sta |-> got.sta, device |-> got.device, nets |-> got.nets]
  /\ got.sta = <<>> \/ \E s \in Controller : got.sta = Content[s].sta
  /\ DOMAIN clients \subseteq Macs(Answers)
  /\ Listed(todo) /\ \A c \in Range(todo) : c.mac \in Macs(Answers)
OwnInv  == \A i \in DOMAIN own_names : own_names[i] = "own"
SyncInv == KnownInv /\ OwnInv /\ (~disturbed => ReadInv /\ WriteInv)

LEMMA ControllerIs ==
  ASSUME NEW s \in Controller
  PROVE  /\ ClientsAreKnown(Content[s]) /\ DevicesAreNamed(Content[s])
         /\ NetworksAreNamed(Content[s]) /\ PoliciesAreNamed(Content[s])
         /\ None \notin Content[s].ips
         /\ \A t \in Controller : Macs(Content[t]) = Macs(Content[s])
  BY UnifiAssumption DEF Macs

\* The empty list.
LEMMA NothingListed ==
  /\ Listed(<<>>) /\ Len(<<>>) = 0 /\ Range(<<>>) = {} /\ IsClients(<<>>)
<1>1. Range(<<>>) = {} /\ Len(<<>>) = 0 /\ <<>> \in Seq({})
  BY DEF Range
<1> QED
  BY <1>1 DEF Listed, IsClients

LEMMA SyncStart == ASSUME UnifiInit PROVE SyncInv
<1>1. /\ Listed(<<>>) /\ Range(<<>>) = {}
  BY NothingListed
<1>2. KnownInv
  BY <1>1 DEF UnifiInit, KnownInv, NothingGot, EmptyTable
<1>3. OwnInv /\ ReadInv /\ WriteInv
  BY DEF UnifiInit, OwnInv, ReadInv, WriteInv, EmptyTable
<1> QED
  BY <1>2, <1>3 DEF SyncInv

\* A sync that is undisturbed has lost nothing.
LEMMA NothingLost ==
  ASSUME NEW lost, Statements(lost), ~disturbed'
  PROVE  ~disturbed /\ lost = {}
  BY DEF Statements

LEMMA NothingRefused ==
  ASSUME NEW result, Requested(result), ~disturbed'
  PROVE  ~disturbed /\ result = "ok"
<1>1. CASE result = "ok"
  BY <1>1 DEF Requested
<1>2. CASE result # "ok"
  BY <1>2 DEF Requested
<1> QED
  BY <1>1, <1>2

\* A list that is asked for and answered, or asked for in vain.
LEMMA RequireSync ==
  ASSUME SyncInv, FetchClients \/ FetchDevices PROVE SyncInv'
<1>1. ASSUME FetchClients PROVE SyncInv'
  <2>1. /\ pc = "sta" /\ site' = site /\ own_names' = own_names /\ clients' = clients /\ todo' = todo
    BY <1>1 DEF FetchClients, Require, tables, Fail
  <2>2. \/ got' = got /\ disturbed'
        \/ got' = [got EXCEPT !.sta = Answers.sta] /\ pc' = "device"
    <3>1. PICK result \in {"ok", "error", "unauthorized"} :
            /\ Requested(result)
            /\ IF result # "ok" THEN Fail(result)
               ELSE got' = [got EXCEPT !["sta"] = Answers.sta] /\ pc' = "device" /\ UNCHANGED <<todo, status>>
      BY <1>1 DEF FetchClients, Require
    <3>2. CASE result = "ok"
      BY <3>1, <3>2
    <3>3. CASE result # "ok"
      BY <3>1, <3>3, NothingRefused DEF Fail
    <3> QED
      BY <3>2, <3>3
  <2>3. Answers' = Answers
    BY <2>1 DEF Answers
  <2>4. KnownInv'
    BY <2>1, <2>2, <2>3 DEF SyncInv, KnownInv, Answers
  <2>5. ~disturbed' => ReadInv' /\ WriteInv'
    <3> SUFFICES ASSUME ~disturbed' PROVE ReadInv' /\ WriteInv'
      OBVIOUS
    <3>1. pc' = "device" /\ got'.sta = Answers.sta
      BY <2>2 DEF SyncInv, KnownInv
    <3> QED
      BY <2>3, <3>1 DEF ReadInv, WriteInv
  <2> QED
    BY <2>1, <2>4, <2>5 DEF SyncInv, OwnInv
<1>2. ASSUME FetchDevices PROVE SyncInv'
  <2>1. /\ pc = "device" /\ site' = site /\ own_names' = own_names /\ clients' = clients /\ todo' = todo
    BY <1>2 DEF FetchDevices, Require, tables, Fail
  <2>2. \/ got' = got /\ disturbed'
        \/ got' = [got EXCEPT !.device = Answers.device] /\ pc' = "alluser" /\ (~disturbed' => ~disturbed)
    <3>1. PICK result \in {"ok", "error", "unauthorized"} :
            /\ Requested(result)
            /\ IF result # "ok" THEN Fail(result)
               ELSE got' = [got EXCEPT !["device"] = Answers.device] /\ pc' = "alluser" /\ UNCHANGED <<todo, status>>
      BY <1>2 DEF FetchDevices, Require
    <3>2. CASE result = "ok"
      BY <3>1, <3>2, NothingRefused
    <3>3. CASE result # "ok"
      BY <3>1, <3>3, NothingRefused DEF Fail
    <3> QED
      BY <3>2, <3>3
  <2>3. Answers' = Answers
    BY <2>1 DEF Answers
  <2>4. KnownInv'
    BY <2>1, <2>2, <2>3 DEF SyncInv, KnownInv, Answers
  <2>5. ~disturbed' => ReadInv' /\ WriteInv'
    <3> SUFFICES ASSUME ~disturbed' PROVE ReadInv' /\ WriteInv'
      OBVIOUS
    <3>1. pc' = "alluser" /\ got'.device = Answers.device /\ got'.sta = got.sta /\ ~disturbed
      BY <2>2 DEF SyncInv, KnownInv
    <3>2. got.sta = Answers.sta
      BY <2>1, <3>1 DEF SyncInv, ReadInv
    <3> QED
      BY <2>3, <3>1, <3>2 DEF ReadInv, WriteInv
  <2> QED
    BY <2>1, <2>4, <2>5 DEF SyncInv, OwnInv
<1> QED
  BY <1>1, <1>2

\* Whoever is in a list of clients is in it in order.
LEMMA SortedAreKnown ==
  ASSUME NEW list, IsClients(list), NEW K, \A c \in Range(list) : c.mac \in K
  PROVE  Listed(by_last_seen(list)) /\ \A c \in Range(by_last_seen(list)) : c.mac \in K
  BY ClientsSorted

LEMMA FetchKnownSync == ASSUME SyncInv, FetchKnown PROVE SyncInv'
<1>1. /\ pc = "alluser" /\ pc' = "networkconf" /\ site' = site /\ got' = got
      /\ own_names' = own_names /\ clients' = clients /\ Answers' = Answers
  BY DEF FetchKnown, tables, Answers
<1>2. PICK result \in {"ok", "error"} :
        /\ Requested(result)
        /\ todo' = by_last_seen(IF result = "ok" THEN Answers.alluser ELSE <<>>) \o by_last_seen(got.sta)
  BY DEF FetchKnown
<1> DEFINE K    == Macs(Answers)
           all  == IF result = "ok" THEN Answers.alluser ELSE <<>>
           x    == by_last_seen(all)
           y    == by_last_seen(got.sta)
<1>3. KnownInv /\ ClientsAreKnown(Answers)
  BY ControllerIs DEF SyncInv, KnownInv, Answers
<1>4. IsClients(all) /\ \A c \in Range(all) : c.mac \in K
  BY <1>3, NothingListed DEF ClientsAreKnown, Macs
<1>5. IsClients(got.sta) /\ \A c \in Range(got.sta) : c.mac \in K
  <2>1. CASE got.sta = <<>>
    BY <2>1, NothingListed
  <2>2. ASSUME NEW s \in Controller, got.sta = Content[s].sta
        PROVE  IsClients(got.sta) /\ \A c \in Range(got.sta) : c.mac \in K
    <3>1. ClientsAreKnown(Content[s]) /\ Macs(Content[s]) = K
      BY <1>3, ControllerIs DEF KnownInv, Answers
    <3>2. IsClients(Content[s].sta) /\ \A c \in Range(Content[s].sta) : c.mac \in Macs(Content[s])
      BY <3>1 DEF ClientsAreKnown, Macs
    <3> QED
      BY <2>2, <3>1, <3>2
  <2> QED
    BY <1>3, <2>1, <2>2 DEF KnownInv
<1> HIDE DEF K, all
<1>6. Listed(x) /\ \A c \in Range(x) : c.mac \in K
  BY <1>4, SortedAreKnown
<1>7. Listed(y) /\ \A c \in Range(y) : c.mac \in K
  BY <1>5, SortedAreKnown
<1>8. todo' = x \o y
  BY <1>2 DEF all
<1> HIDE DEF x, y
<1>9. Joined(x \o y, x, y)
  BY <1>6, <1>7, ListJoined
<1>10. Listed(todo') /\ \A c \in Range(todo') : c.mac \in K
  <2>1. Listed(todo') /\ Len(todo') = Len(x) + Len(y)
    BY <1>8, <1>9 DEF Joined
  <2>2. ASSUME NEW c \in Range(todo') PROVE c.mac \in K
    <3>1. PICK i \in 1..Len(todo') : c = todo'[i]
      BY <2>1, <2>2, ListIs
    <3>2. \A j \in 1..Len(x) : x[j] \in Range(x)
      BY <1>6, ListIs
    <3>3. \A j \in 1..Len(y) : y[j] \in Range(y)
      BY <1>7, ListIs
    <3>4. \/ i \in 1..Len(x) /\ c = x[i]
          \/ i - Len(x) \in 1..Len(y) /\ c = y[i - Len(x)]
      BY <1>8, <1>9, <2>1, <3>1 DEF Joined
    <3> QED
      BY <1>6, <1>7, <3>2, <3>3, <3>4
  <2> QED
    BY <2>1, <2>2
<1>11. KnownInv'
  BY <1>1, <1>3, <1>10 DEF KnownInv, K
<1>12. ASSUME ~disturbed' PROVE ReadInv' /\ WriteInv'
  <2>1. ~disturbed /\ result = "ok"
    BY <1>2, <1>12, NothingRefused
  <2>2. got.sta = Answers.sta /\ got.device = Answers.device
    BY <1>1, <2>1 DEF SyncInv, ReadInv
  <2>3. todo' = Order(Answers)
    BY <1>8, <2>1, <2>2 DEF x, y, all, Order
  <2> QED
    BY <1>1, <2>2, <2>3 DEF ReadInv, WriteInv
<1> QED
  BY <1>1, <1>11, <1>12 DEF SyncInv, OwnInv

LEMMA FetchNetworksSync == ASSUME SyncInv, FetchNetworks PROVE SyncInv'
<1>1. /\ pc = "networkconf" /\ pc' = "wan" /\ site' = site /\ todo' = todo
      /\ own_names' = own_names /\ clients' = clients /\ Answers' = Answers
  BY DEF FetchNetworks, Answers
<1>2. got' = [got EXCEPT !.nets = Answers.nets] \/ got' = [got EXCEPT !.nets = <<>>]
  BY DEF FetchNetworks
<1>3. KnownInv'
  BY <1>1, <1>2 DEF SyncInv, KnownInv
<1>4. ASSUME ~disturbed' PROVE ReadInv' /\ WriteInv'
  <2> DEFINE list == NetworkEntries(Answers.nets, got.device)
  <2>1. ~Requested("error")
    BY <1>4, NothingRefused
  <2>2. PICK lost \in Lost(Steps(list)) : Statements(lost) /\ networks' = store_networks(list, lost)
    BY <2>1 DEF FetchNetworks
  <2>3. got' = [got EXCEPT !.nets = Answers.nets]
    BY <2>1 DEF FetchNetworks
  <2>4. ~disturbed /\ lost = {}
    BY <1>4, <2>2, NothingLost
  <2>5. got.device = Answers.device /\ todo = Order(Answers) /\ KnownInv
    BY <1>1, <2>4 DEF SyncInv, ReadInv, WriteInv
  <2>6. got'.nets = Answers.nets /\ got'.device = Answers.device
    BY <2>3, <2>5 DEF KnownInv
  <2>7. DevicesAreNamed(Answers) /\ NetworksAreNamed(Answers)
    BY <2>5, ControllerIs DEF KnownInv, Answers
  <2>8. NetworksOf(Answers, networks')
    BY <2>2, <2>4, <2>5, <2>7, NetworksWritten
  <2> QED
    BY <1>1, <2>5, <2>6, <2>8 DEF ReadInv, WriteInv
<1> QED
  BY <1>1, <1>3, <1>4 DEF SyncInv, OwnInv

LEMMA StoreWanSync == ASSUME SyncInv, StoreWan PROVE SyncInv'
<1>1. /\ pc = "wan" /\ pc' = "policies" /\ site' = site /\ todo' = todo /\ got' = got
      /\ own_names' = own_names /\ clients' = clients /\ Answers' = Answers
      /\ networks' = networks /\ disturbed' = disturbed
  BY DEF StoreWan, history, Answers
<1>2. KnownInv'
  BY <1>1 DEF SyncInv, KnownInv
<1>3. ASSUME ~disturbed PROVE ReadInv' /\ WriteInv'
  BY <1>1, <1>3 DEF SyncInv, ReadInv, WriteInv
<1> QED
  BY <1>1, <1>2, <1>3 DEF SyncInv, OwnInv

\* Before the first client has been written the rest is all there is.
LEMMA NothingWritten ==
  ASSUME NEW list, Listed(list), NEW table
  PROVE  RestOf(list, list, 0) /\ ClientsUpTo(list, 0, table) /\ 0 \in 0..Len(list)
<1>1. Len(list) \in Nat
  BY ListIs
<1>2. 1..0 = {}
  OBVIOUS
<1> QED
  BY <1>1, <1>2 DEF RestOf, ClientsUpTo

LEMMA FetchPoliciesSync == ASSUME SyncInv, FetchPolicies PROVE SyncInv'
<1>1. /\ pc = "policies" /\ pc' = "clients" /\ site' = site /\ todo' = todo /\ got' = got
      /\ own_names' = own_names /\ clients' = clients /\ Answers' = Answers /\ networks' = networks
  BY DEF FetchPolicies, Answers
<1>2. KnownInv'
  BY <1>1 DEF SyncInv, KnownInv
<1>3. ASSUME ~disturbed' PROVE ReadInv' /\ WriteInv'
  <2> DEFINE list == PolicyEntries(Answers.zones, Answers.policies)
  <2>1. ~Requested("error")
    BY <1>3, NothingRefused
  <2>2. PICK lost \in Lost(Steps(list)) : Statements(lost) /\ policies' = store_policies(list, lost)
    BY <2>1 DEF FetchPolicies
  <2>3. ~disturbed /\ lost = {}
    BY <1>3, <2>2, NothingLost
  <2>4. /\ got.device = Answers.device /\ got.nets = Answers.nets /\ NetworksOf(Answers, networks)
        /\ todo = Order(Answers) /\ KnownInv
    BY <1>1, <2>3 DEF SyncInv, ReadInv, WriteInv
  <2>5. PoliciesAreNamed(Answers) /\ ClientsAreKnown(Answers)
    BY <2>4, ControllerIs DEF KnownInv, Answers
  <2>6. PoliciesOf(Answers, policies')
    BY <2>2, <2>3, <2>5, PoliciesWritten
  <2>7. Listed(todo)
    BY <2>4 DEF KnownInv
  <2>8. /\ RestOf(todo, Order(Answers), 0) /\ ClientsUpTo(Order(Answers), 0, clients)
        /\ 0 \in 0..Len(Order(Answers))
    BY <2>4, <2>7, NothingWritten
  <2>9. WriteInv'
    BY <1>1, <2>8 DEF WriteInv
  <2> QED
    BY <1>1, <2>4, <2>6, <2>9 DEF ReadInv
<1> QED
  BY <1>1, <1>2, <1>3 DEF SyncInv, OwnInv

LEMMA RestIsListed ==
  ASSUME NEW list, Listed(list), list # <<>>
  PROVE  /\ Listed(Tail(list)) /\ Len(Tail(list)) = Len(list) - 1 /\ Len(list) \in Nat \ {0}
         /\ Head(list) = list[1] /\ Head(list) \in Range(list)
         /\ \A i \in 1..Len(Tail(list)) : Tail(list)[i] = list[i + 1]
         /\ \A x \in Range(Tail(list)) : x \in Range(list)
<1> DEFINE S == Range(list)
           t == Tail(list)
<1>1. list \in Seq(S)
  BY DEF Listed
<1>2. Len(list) \in Nat \ {0}
  BY <1>1, EmptySeq
<1> HIDE DEF S
<1>3. /\ t \in Seq(S) /\ Len(t) = Len(list) - 1
      /\ \A i \in 1..Len(t) : t[i] = list[i + 1]
  BY <1>1, HeadTailProperties
<1>4. Len(t) \in Nat /\ t \in [1..Len(t) -> S]
  BY <1>3, LenProperties
<1> HIDE DEF t
<1>5. t = [i \in 1..Len(t) |-> t[i]]
  BY <1>4
<1>6. Listed(t)
  BY <1>4, <1>5, ListMade
<1>7. Head(list) = list[1] /\ 1 \in 1..Len(list)
  BY <1>1, <1>2
<1>8. \A x : x \in Range(list) <=> \E i \in 1..Len(list) : x = list[i]
  BY ListIs
<1>9. \A x \in Range(t) : x \in Range(list)
  <2> TAKE x \in Range(t)
  <2>1. PICK i \in 1..Len(t) : x = t[i]
    BY <1>6, ListIs
  <2>2. i + 1 \in 1..Len(list)
    BY <1>2, <1>3
  <2> QED
    BY <1>3, <1>8, <2>1, <2>2
<1>10. Head(list) \in Range(list)
  BY <1>7, <1>8
<1> QED
  BY <1>2, <1>3, <1>6, <1>7, <1>9, <1>10 DEF t

LEMMA StoreClientSync == ASSUME HoldersInv, SyncInv, StoreClient PROVE SyncInv'
<1> DEFINE c     == Head(todo)
           ip    == Address(c)
           order == Order(Answers)
<1>1. /\ pc = "clients" /\ pc' = pc /\ todo # <<>> /\ todo' = Tail(todo) /\ site' = site /\ got' = got
      /\ own_names' = own_names /\ Answers' = Answers /\ networks' = networks /\ policies' = policies
  BY DEF StoreClient, Answers
<1>2. PICK lost \in Lost({"take", "insert"}) :
        LET taken == IF "take" \in lost THEN clients ELSE Taken(clients, c.mac, ip)
        IN /\ Statements(lost)
           /\ clients' = IF "insert" \in lost THEN taken
                         ELSE Upsert(taken, c.mac, [ip |-> ip, name |-> display_name(c)])
  BY DEF StoreClient
<1>3. KnownInv /\ \A m \in DOMAIN clients : DOMAIN clients[m] = {"ip", "name"}
  BY DEF SyncInv, HoldersInv, UnifiTypes
<1>4. Listed(todo)
  BY <1>3 DEF KnownInv
<1>5. /\ Listed(todo') /\ Len(todo') = Len(todo) - 1 /\ Len(todo) \in Nat \ {0}
      /\ c = todo[1] /\ c \in Range(todo)
      /\ \A i \in 1..Len(todo') : todo'[i] = todo[i + 1]
      /\ \A x \in Range(todo') : x \in Range(todo)
  BY <1>1, <1>4, RestIsListed
<1> HIDE DEF c
<1>6. DOMAIN clients' \subseteq DOMAIN clients \cup {c.mac}
  BY <1>2 DEF Taken, Upsert
<1>7. KnownInv'
  BY <1>1, <1>3, <1>5, <1>6 DEF KnownInv
<1>8. ASSUME ~disturbed' PROVE ReadInv' /\ WriteInv'
  <2>1. ~disturbed /\ lost = {}
    <3>1. Statements(lost)
      BY <1>2
    <3> QED
      BY <1>8, <3>1, NothingLost
  <2>2. clients' = Upsert(Taken(clients, c.mac, ip), c.mac, [ip |-> ip, name |-> display_name(c)])
    BY <1>2, <2>1
  <2>3. ReadInv /\ WriteInv
    BY <2>1 DEF SyncInv
  <2>4. PICK k \in 0..Len(order) : RestOf(todo, order, k) /\ ClientsUpTo(order, k, clients)
    BY <1>1, <2>3 DEF WriteInv
  <2>5. ClientsAreKnown(Answers)
    BY <1>3, ControllerIs DEF KnownInv, Answers
  <2>6. InOrder(Answers, order)
    BY <2>5, OrderIs
  <2> HIDE DEF order, ip
  <2>7. Len(order) \in Nat
    BY <2>6, ListIs DEF InOrder
  <2>8. /\ Len(todo) = Len(order) - k /\ \A i \in 1..Len(todo) : todo[i] = order[k + i]
    BY <2>4 DEF RestOf
  <2>9. k \in Nat /\ k + 1 \in 0..Len(order) /\ 1 \in 1..Len(todo)
    BY <1>5, <2>7, <2>8
  <2>10. c = order[k + 1]
    BY <1>5, <2>8, <2>9
  <2>11. \A i, j \in 1..(k + 1) : order[i].mac = order[j].mac => Address(order[i]) = Address(order[j])
    BY <2>6, <2>7, <2>9 DEF InOrder
  <2>12. ClientsUpTo(order, k + 1, clients')
    BY <1>3, <2>2, <2>4, <2>9, <2>10, <2>11, OneClientMore DEF ip
  <2>13. RestOf(todo', order, k + 1)
    <3>1. Len(todo') = Len(order) - (k + 1)
      BY <1>5, <2>7, <2>8, <2>9
    <3>2. ASSUME NEW i \in 1..Len(todo') PROVE todo'[i] = order[(k + 1) + i]
      <4>1. i + 1 \in 1..Len(todo) /\ k + (i + 1) = (k + 1) + i
        BY <1>5, <2>9
      <4> QED
        BY <1>5, <2>8, <4>1
    <3> QED
      BY <1>5, <3>1, <3>2 DEF RestOf
  <2>14. WriteInv'
    BY <1>1, <2>9, <2>12, <2>13 DEF WriteInv, order
  <2>15. ReadInv'
    BY <1>1, <2>3 DEF ReadInv
  <2> QED
    BY <2>14, <2>15
<1> QED
  BY <1>1, <1>7, <1>8 DEF SyncInv, OwnInv

LEMMA StoreDevicesSync == ASSUME SyncInv, StoreDevices PROVE SyncInv'
<1>1. /\ pc = "clients" /\ pc' = "addresses" /\ todo = <<>> /\ todo' = todo /\ site' = site /\ got' = got
      /\ own_names' = own_names /\ clients' = clients /\ Answers' = Answers /\ networks' = networks
      /\ policies' = policies
  BY DEF StoreDevices, Answers
<1>2. KnownInv'
  BY <1>1 DEF SyncInv, KnownInv
<1>3. ASSUME ~disturbed' PROVE ReadInv' /\ WriteInv'
  <2> DEFINE order == Order(Answers)
  <2>1. ~disturbed
    BY <1>3, NothingLost DEF StoreDevices
  <2>2. ReadInv /\ WriteInv /\ KnownInv
    BY <2>1 DEF SyncInv
  <2>3. PICK k \in 0..Len(order) : RestOf(todo, order, k) /\ ClientsUpTo(order, k, clients)
    BY <1>1, <2>2 DEF WriteInv
  <2>4. ClientsAreKnown(Answers)
    BY <2>2, ControllerIs DEF KnownInv, Answers
  <2>5. InOrder(Answers, order)
    BY <2>4, OrderIs
  <2>6. Len(order) \in Nat /\ Len(todo) = 0
    BY <1>1, <2>5, ListIs, NothingListed DEF InOrder
  <2> HIDE DEF order
  <2>7. k = Len(order)
    BY <2>3, <2>6 DEF RestOf
  <2>8. DOMAIN clients \subseteq Macs(Answers)
    BY <2>2 DEF KnownInv
  <2>9. ClientsOf(Answers, clients)
    BY <2>3, <2>4, <2>7, <2>8, ClientsWritten DEF order
  <2>10. WriteInv'
    BY <1>1, <2>9 DEF WriteInv
  <2>11. ReadInv'
    BY <1>1, <2>2 DEF ReadInv
  <2> QED
    BY <2>10, <2>11
<1> QED
  BY <1>1, <1>2, <1>3 DEF SyncInv, OwnInv

\* A controller knows finitely many clients.
LEMMA MacsAreFinite ==
  ASSUME NEW answers, ClientsAreKnown(answers)
  PROVE  IsFiniteSet(Macs(answers))
<1> DEFINE all == answers.alluser
           f   == [i \in 1..Len(all) |-> all[i].mac]
<1>1. Listed(all)
  BY DEF ClientsAreKnown, IsClients, Listed
<1>2. Macs(answers) = {c.mac : c \in Range(all)}
  BY DEF Macs
<1> HIDE DEF all
<1>3. Len(all) \in Nat /\ \A c : c \in Range(all) <=> \E i \in 1..Len(all) : c = all[i]
  BY <1>1, ListIs
<1>4. /\ \A i \in 1..Len(all) : f[i] \in Macs(answers)
      /\ \A m \in Macs(answers) : \E i \in 1..Len(all) : f[i] = m
  BY <1>2, <1>3
<1>5. f \in [1..Len(all) -> Macs(answers)]
  BY <1>4
<1> HIDE DEF f
<1>6. f \in Surjection(1..Len(all), Macs(answers))
  BY <1>4, <1>5, Fun_IsSurj
<1>7. IsFiniteSet(1..Len(all))
  BY <1>3, FS_Interval
<1> QED
  BY <1>6, <1>7, FS_Surjection

LEMMA StoreAddressesSync == ASSUME SyncInv, StoreAddresses PROVE SyncInv'
<1>1. /\ pc = "addresses" /\ pc' = "wait" /\ todo' = todo /\ site' = site /\ got' = got
      /\ own_names' = own_names /\ clients' = clients /\ Answers' = Answers /\ networks' = networks
      /\ policies' = policies
  BY DEF StoreAddresses, Answers
<1>2. KnownInv'
  BY <1>1 DEF SyncInv, KnownInv
<1>3. ASSUME ~disturbed' PROVE ReadInv' /\ WriteInv'
  <2> DEFINE list == AddressEntries
  <2>1. ~Statements({"read"})
    BY <1>3, NothingLost
  <2>2. PICK lost \in Lost(Steps(list)) :
          /\ Statements(lost)
          /\ addresses' = IF Keyed(list, {}) = {} THEN addresses
                          ELSE Written(addresses, list, lost, Keyed(list, lost))
    BY <2>1 DEF StoreAddresses
  <2>3. ~disturbed /\ lost = {}
    BY <1>3, <2>2, NothingLost
  <2>4. ReadInv /\ WriteInv /\ KnownInv
    BY <2>3 DEF SyncInv
  <2>5. /\ got.device = Answers.device /\ got.nets = Answers.nets /\ NetworksOf(Answers, networks)
        /\ PoliciesOf(Answers, policies) /\ ClientsOf(Answers, clients)
    BY <1>1, <2>4 DEF ReadInv, WriteInv
  <2>6. /\ ClientsAreKnown(Answers) /\ DevicesAreNamed(Answers) /\ NetworksAreNamed(Answers)
        /\ None \notin Answers.ips
    BY <2>4, ControllerIs DEF KnownInv, Answers
  <2>7. IsFiniteSet(DOMAIN clients)
    <3>1. IsFiniteSet(Macs(Answers)) /\ DOMAIN clients \subseteq Macs(Answers)
      BY <2>4, <2>6, MacsAreFinite DEF KnownInv
    <3> QED
      BY <3>1, FS_Subset
  <2> HIDE DEF list
  <2>8. /\ Keyed(list, {}) # {}
        /\ AddressesOf(Answers, Written(addresses, list, {}, Keyed(list, {})))
    BY <2>5, <2>6, <2>7, AddressesWritten DEF list
  <2>9. AddressesOf(Answers, addresses')
    BY <2>2, <2>3, <2>8
  <2>10. AddressesOf(Answers, addresses)' = AddressesOf(Answers, addresses')
    BY <1>1 DEF AddressesOf, Called, Answers
  <2>11. WriteInv'
    BY <1>1, <2>5, <2>9, <2>10 DEF WriteInv
  <2> QED
    BY <1>1, <2>11 DEF ReadInv
<1> QED
  BY <1>1, <1>2, <1>3 DEF SyncInv, OwnInv

LEMMA BeginSyncSync == ASSUME SyncInv, BeginSync PROVE SyncInv'
<1>1. /\ pc = "wait" /\ current' = setup /\ site' = site /\ own_names' = own_names
      /\ clients' = clients /\ Answers' = Answers
  BY DEF BeginSync, tables, Answers
<1>2. CASE setup = None
  <2>1. pc' = "wait" /\ got' = got /\ todo' = todo /\ current' = None
    BY <1>1, <1>2 DEF BeginSync
  <2>2. KnownInv'
    BY <1>1, <2>1 DEF SyncInv, KnownInv
  <2>3. ReadInv' /\ WriteInv'
    BY <2>1 DEF ReadInv, WriteInv
  <2> QED
    BY <1>1, <2>2, <2>3 DEF SyncInv, OwnInv
<1>3. CASE setup # None
  <2>1. pc' = "sta" /\ got' = NothingGot /\ todo' = <<>>
    BY <1>3 DEF BeginSync
  <2>2. Listed(todo') /\ Range(todo') = {}
    BY <2>1, NothingListed
  <2>3. KnownInv'
    BY <1>1, <2>1, <2>2 DEF SyncInv, KnownInv, NothingGot
  <2>4. ReadInv' /\ WriteInv'
    BY <2>1 DEF ReadInv, WriteInv
  <2> QED
    BY <1>1, <2>3, <2>4 DEF SyncInv, OwnInv
<1> QED
  BY <1>2, <1>3

LEMMA RestartSyncSync == ASSUME SyncInv, RestartSync PROVE SyncInv'
<1>1. /\ got' = NothingGot /\ todo' = <<>> /\ disturbed' /\ site' = site /\ own_names' = own_names
      /\ clients' = clients /\ Answers' = Answers
  BY DEF RestartSync, tables, Answers
<1>2. Listed(todo') /\ Range(todo') = {}
  BY <1>1, NothingListed
<1>3. KnownInv'
  BY <1>1, <1>2 DEF SyncInv, KnownInv, NothingGot
<1> QED
  BY <1>1, <1>3 DEF SyncInv, OwnInv

LEMMA ChangeSync == ASSUME SyncInv, ChangeController \/ ChangeSetup PROVE SyncInv'
<1>1. /\ disturbed' /\ got' = got /\ todo' = todo /\ clients' = clients /\ own_names' = own_names
      /\ site' \in Controller
  BY DEF ChangeController, ChangeSetup, Changed, tables, SyncInv, KnownInv
<1>2. Macs(Answers') = Macs(Answers)
  BY <1>1, ControllerIs DEF SyncInv, KnownInv, Answers
<1>3. KnownInv'
  BY <1>1, <1>2 DEF SyncInv, KnownInv
<1> QED
  BY <1>1, <1>3 DEF SyncInv, OwnInv

\* The user's names are apart from what the sync reads and writes.
LEMMA StillSync ==
  ASSUME SyncInv, site' = site, current' = current, pc' = pc, got' = got, todo' = todo, clients' = clients,
         addresses' = addresses, networks' = networks, policies' = policies, status' = status,
         disturbed' = disturbed, OwnInv'
  PROVE  SyncInv'
<1>1. Answers' = Answers
  BY DEF Answers
<1>2. KnownInv'
  BY <1>1 DEF SyncInv, KnownInv
<1>3. AddressesOf(Answers, addresses)' = AddressesOf(Answers, addresses)
  BY <1>1 DEF AddressesOf, Called, Answers
<1>4. ReadInv /\ WriteInv => ReadInv' /\ WriteInv'
  BY <1>1, <1>3 DEF ReadInv, WriteInv
<1> QED
  BY <1>2, <1>4 DEF SyncInv

LEMMA PutNameSync ==
  ASSUME SyncInv, NEW iface \in LogIfaces, NEW value \in {"text", "null", "long"}, PutName(iface, value)
  PROVE  SyncInv'
<1>1. OwnInv'
  <2>1. CASE value = "text"
    BY <2>1 DEF PutName, Upsert, SyncInv, OwnInv
  <2>2. CASE value = "null"
    BY <2>2 DEF PutName, Without, SyncInv, OwnInv
  <2>3. CASE value = "long"
    BY <2>3 DEF PutName, SyncInv, OwnInv
  <2> QED
    BY <2>1, <2>2, <2>3
<1> QED
  BY <1>1, StillSync DEF PutName, tables, history

LEMMA SyncStep ==
  ASSUME HoldersInv, SyncInv, [UnifiNext]_unifi_vars
  PROVE  SyncInv'
<1>1. CASE UNCHANGED unifi_vars
  <2>1. own_names' = own_names
    BY <1>1 DEF unifi_vars
  <2>2. OwnInv'
    BY <2>1 DEF SyncInv, OwnInv
  <2> QED
    BY <1>1, <2>2, StillSync DEF unifi_vars, tables, history
<1>2. CASE FetchClients \/ FetchDevices \/ FetchKnown \/ FetchNetworks \/ FetchPolicies
  BY <1>2, RequireSync, FetchKnownSync, FetchNetworksSync, FetchPoliciesSync
<1>3. CASE StoreWan \/ StoreClient \/ StoreDevices \/ StoreAddresses
  BY <1>3, StoreWanSync, StoreClientSync, StoreDevicesSync, StoreAddressesSync
<1>4. CASE BeginSync \/ RestartSync \/ ChangeController \/ ChangeSetup
  BY <1>4, BeginSyncSync, RestartSyncSync, ChangeSync
<1>5. CASE \E iface \in LogIfaces, value \in {"text", "null", "long"} : PutName(iface, value)
  BY <1>5, PutNameSync
<1> QED
  BY <1>1, <1>2, <1>3, <1>4, <1>5 DEF UnifiNext

\* What the tables hold is what the views show.
LEMMA SyncHolds == ASSUME SyncInv PROVE NamesAreCurrent
<1> SUFFICES ASSUME pc = "wait", status = "ok", ~disturbed, current # None
             PROVE  NamesAreCurrent
  BY DEF NamesAreCurrent
<1>1. /\ NetworksOf(Answers, networks) /\ PoliciesOf(Answers, policies)
      /\ AddressesOf(Answers, addresses)
  BY DEF SyncInv, WriteInv
<1>2. \A ip \in Content[site].ips :
        Called(ip) = IF ip \in DOMAIN get_devices
                     THEN [name |-> get_devices[ip], kind |-> addresses[ip].kind] ELSE None
  BY <1>1 DEF AddressesOf, get_devices, Answers
<1>3. ASSUME NEW n \in LansOf(Answers)
      PROVE  get_networks[bridge_for(n)] \in {n.name, "own"}
  <2>1. bridge_for(n) \in DOMAIN networks /\ networks[bridge_for(n)] = n.name
    BY <1>1 DEF NetworksOf
  <2>2. get_networks[bridge_for(n)] = IF bridge_for(n) \in DOMAIN own_names THEN own_names[bridge_for(n)]
                                      ELSE networks[bridge_for(n)]
    BY <2>1 DEF get_networks
  <2> QED
    BY <2>1, <2>2 DEF SyncInv, OwnInv
<1>4. DOMAIN networks = {bridge_for(n) : n \in LansOf(Answers)}
        \cup {w.ifname : w \in UNION {Range(d.wans) : d \in Range(Answers.device)}}
  BY <1>1 DEF NetworksOf, IfacesOf
<1>5. /\ Range(get_firewall_rules) = {p.name : p \in Range(Answers.policies)}
      /\ \A p \in Range(Answers.policies) : \E k \in DOMAIN policies :
           /\ policies[k] = p.name /\ k[4] = p.index
           /\ k[1] = Answers.tokens[p.src] /\ k[2] = Answers.tokens[p.dst]
  BY <1>1 DEF PoliciesOf, get_firewall_rules
<1> QED
  BY <1>2, <1>3, <1>4, <1>5 DEF NamesAreCurrent, LansOf

(* A sync in which nothing failed and nothing changed leaves every name    *)
(* that is shown as the controller has it, whatever it answers, however    *)
(* many clients, networks and rules it has and whatever was in the tables  *)
(* before: the last who was seen at an address, the gateway and the        *)
(* devices over them, and no name of what is gone (unifi.rs:463-469, 263,  *)
(* 369).                                                                   *)
THEOREM NamesStayCurrent == UnifiSpec => []NamesAreCurrent
<1>1. UnifiInit => HoldersInv /\ SyncInv
  BY UnifiStart, SyncStart
<1>2. (HoldersInv /\ SyncInv) /\ [UnifiNext]_unifi_vars => (HoldersInv /\ SyncInv)'
  BY UnifiStep, SyncStep
<1>3. SyncInv => NamesAreCurrent
  BY SyncHolds
<1> QED
  BY <1>1, <1>2, <1>3, PTL DEF UnifiSpec

-----------------------------------------------------------------------------
(* All parts.                                                              *)

(* Every part keeps its types and every cache its bound, whatever the      *)
(* order in which the parts of the process move (cache.rs:29, db.rs:12).   *)
THEOREM PartsAreTyped == PartsSpec => []PartsTypeOK
<1>1. /\ TypeOK /\ CacheTypes /\ NamesTypes /\ IdsTypes /\ ScoresTypes /\ GeoTypes /\ UnifiTypes
      => PartsTypeOK
  BY DEF PartsTypeOK
<1> QED
  BY <1>1, Typing, CacheTyping, NamesTyping, IdsTyping, ScoresTyping, GeoTyping, UnifiTyping, PTL
    DEF PartsSpec
=============================================================================
