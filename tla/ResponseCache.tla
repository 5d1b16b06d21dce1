----------------------------- MODULE ResponseCache -----------------------------
(***************************************************************************)
(* The short memory of the aggregate endpoints (cache.rs).  Requests run   *)
(* concurrently; an answer speaks of the table as it was when its query    *)
(* read it, and is kept for TTL under the text of the request.             *)
(***************************************************************************)
EXTENDS Null, Integers, FiniteSets, FiniteSetsExt

CONSTANTS
  Queries,     \* texts of requests for a cacheable endpoint
  TTL, MAX_ENTRIES,
  MaxSeconds,  \* bound of the clock
  MaxAtOnce    \* bound: requests at a time

ASSUME CacheAssumption == TTL \in Nat /\ MAX_ENTRIES \in Nat \ {0}

VARIABLES
  second,      \* the clock
  entries,     \* [key -> [at, body, took]]; a body is the moment it speaks of
  computing,   \* requests that found nothing: [n, key, since, body]
  latest,      \* history: what was just served: None or [key, body, age, took, back]
  served,      \* history: [key -> the newest moment an answer spoke of]
  crossed      \* history: keys whose answer was computed twice at a time

cache_vars == <<second, entries, computing, latest, served, crossed>>

IsFresh(e) == second - e.at <= TTL

Serve(key, body, took) ==
  /\ latest' = [key |-> key, body |-> body, age |-> second - body, took |-> took, back |-> body < served[key]]
  /\ served' = [served EXCEPT ![key] = IF body > @ THEN body ELSE @]

Found(key) == key \in DOMAIN entries /\ IsFresh(entries[key])

\* Mutant of AfterGet: what is asked for again lives on.
AfterGetRenewed(key) ==
  IF Found(key) THEN [entries EXCEPT ![key].at = second]
  ELSE [k \in DOMAIN entries \ {key} |-> entries[k]]

\* get(): an entry that has expired is removed, a fresh one stays as it is.
AfterGet(key) == IF Found(key) THEN entries ELSE [k \in DOMAIN entries \ {key} |-> entries[k]]

Unused == Min(1..MaxAtOnce \ {c.n : c \in computing})

Request(key) ==
  /\ entries' = AfterGet(key)
  /\ IF Found(key)
     THEN Serve(key, entries[key].body, entries[key].took) /\ UNCHANGED <<computing, crossed>>
     ELSE /\ Cardinality(computing) < MaxAtOnce
          /\ computing' = computing \cup {[n |-> Unused, key |-> key, since |-> second, body |-> None]}
          /\ crossed' = IF \E c \in computing : c.key = key THEN crossed \cup {key} ELSE crossed
          /\ latest' = None /\ UNCHANGED served
  /\ UNCHANGED second

\* The query reads the table.
Compute(c) ==
  /\ c.body = None
  /\ computing' = (computing \ {c}) \cup {[c EXCEPT !.body = second]}
  /\ latest' = None
  /\ UNCHANGED <<second, entries, served, crossed>>

\* put(): what has expired goes first, then the oldest.
put(key, e) ==
  LET kept   == {k \in DOMAIN entries : IsFresh(entries[k])}
      oldest == CHOOSE k \in kept : \A j \in kept : entries[k].at <= entries[j].at
      room   == IF Cardinality(kept) >= MAX_ENTRIES THEN kept \ {oldest} ELSE kept
  IN entries' = [k \in room \cup {key} |-> IF k = key THEN e ELSE entries[k]]

\* layer(): an answer of 200 that is not too large is kept and passed on.
Finish(c) ==
  /\ c.body # None
  /\ computing' = computing \ {c}
  /\ Serve(c.key, c.body, second - c.since)
  /\ put(c.key, [at |-> second, body |-> c.body, took |-> second - c.since])
  /\ UNCHANGED <<second, crossed>>

\* An error, or a body too large to collect: nothing is served or kept.
Fails(c) ==
  /\ computing' = computing \ {c}
  /\ latest' = None
  /\ UNCHANGED <<second, entries, served, crossed>>

TickSecond ==
  /\ second < MaxSeconds /\ second' = second + 1
  /\ latest' = None
  /\ UNCHANGED <<entries, computing, served, crossed>>

CacheInit ==
  /\ second = 0 /\ entries = [k \in {} |-> None] /\ computing = {}
  /\ latest = None /\ served = [k \in Queries |-> 0] /\ crossed = {}

CacheNext ==
  \/ TickSecond
  \/ \E key \in Queries : Request(key)
  \/ \E c \in computing : Compute(c) \/ Finish(c) \/ Fails(c)

CacheSpec == CacheInit /\ [][CacheNext]_cache_vars

-----------------------------------------------------------------------------
CacheTypes ==
  /\ \A k \in DOMAIN entries : entries[k].body <= entries[k].at /\ entries[k].at <= second
  /\ Cardinality(DOMAIN entries) <= MAX_ENTRIES

(* "Twenty seconds" (cache.rs:7-13): what a view is told is at most that   *)
(* old, plus the time its own query took; and a view is never told of an   *)
(* older moment than before, unless the same question was being computed   *)
(* twice at a time, when the answer asked for first may be stored last.    *)
AnswersAreRecent ==
  latest # None =>
    /\ latest.age <= TTL + latest.took
    /\ latest.back => latest.key \in crossed
=============================================================================
