------------------------------ MODULE PiholePoll ------------------------------
(***************************************************************************)
(* The Pi-hole task (crates/uip-enrich/src/pihole.rs): it reads its        *)
(* settings, asks the configured Pi-hole for the queries since a point in  *)
(* time, keeps those above the highest id it has seen, and pushes them     *)
(* into the writer's channel.                                              *)
(*                                                                         *)
(* A Pi-hole is external: a growing sequence of queries, of which only the *)
(* time matters; the index is the id.  What the session needs (log in, log *)
(* in again after a 401) only decides whether a fetch fails.  A query      *)
(* without a domain is no row and is left out.                             *)
(***************************************************************************)
EXTENDS Integers, Sequences, FiniteSets

CONSTANTS
  Hosts,        \* Pi-holes that may be configured
  Off,          \* switched off, incomplete, or the settings unreadable
  FirstSpan,    \* ticks looked back when a Pi-hole is new
  Overlap,      \* ticks looked back after a successful poll
  MaxDelay,     \* ticks a fetch may take
  FetchLimit,   \* queries one fetch returns at most
  MaxQueries,   \* bound: queries a Pi-hole sees
  MaxTime,      \* bound: the last instant
  MaxFaults,    \* bound: fetches and reads of the settings that go wrong
  MaxChanges    \* bound: changes of the settings and restarts

ASSUME PollAssumption ==
  /\ Off \notin Hosts
  /\ FirstSpan \in Nat /\ Overlap \in Nat /\ MaxDelay \in Nat
  /\ MaxDelay <= Overlap
  /\ FetchLimit \in Nat \ {0}
  /\ MaxQueries \in Nat /\ MaxTime \in Nat /\ MaxFaults \in Nat /\ MaxChanges \in Nat

VARIABLES
  now,         \* Utc::now()
  queries,     \* [Hosts -> Seq(Nat)], the times of the queries (external)
  config,      \* the configured Pi-hole, or Off
  current,     \* the one the client was built for, or Off
  since,       \* the time the next fetch starts from
  cursor,      \* the highest id seen
  pc,          \* top (it may have slept there), asked, answered
  waited,      \* ticks since the fetch under way began
  reply,       \* [kind, ids], what the Pi-hole answered
  stored,      \* [Hosts -> [1..MaxQueries -> Nat]], how often a query was pushed
  refused,     \* history: [Hosts -> SUBSET Nat], the channel was full
  wantedFrom,  \* history: the `since` the current setup began with
  setups,      \* history: [Hosts -> Nat], how often its client was built
  misled,      \* history: an error was taken for an empty list in this setup
  overflowed,  \* history: a list was cut in this setup
  faults,      \* bound counter
  changes      \* bound counter

settings == <<config, changes>>
poller   == <<current, since, cursor, pc, waited, reply>>
history  == <<refused, wantedFrom, setups, misled, overflowed>>
vars     == <<now, queries, settings, poller, stored, history, faults>>

Ids(h) == DOMAIN queries[h]
Nothing == [kind |-> "none", ids |-> {}]

Faulty == faults < MaxFaults /\ faults' = faults + 1

-----------------------------------------------------------------------------
Init ==
  /\ now = FirstSpan
  /\ queries = [h \in Hosts |-> <<>>]
  /\ config \in Hosts \cup {Off}
  /\ current = Off
  /\ since = now - FirstSpan /\ cursor = 0
  /\ pc = "top" /\ waited = 0 /\ reply = Nothing
  /\ stored = [h \in Hosts |-> [i \in 1..MaxQueries |-> 0]]
  /\ refused = [h \in Hosts |-> {}]
  /\ wantedFrom = now - FirstSpan
  /\ setups = [h \in Hosts |-> 0]
  /\ misled = FALSE /\ overflowed = FALSE
  /\ faults = 0 /\ changes = 0

\* A Pi-hole answers a DNS query.
Query(h) ==
  /\ Len(queries[h]) < MaxQueries
  /\ queries' = [queries EXCEPT ![h] = Append(@, now)]
  /\ UNCHANGED <<now, settings, poller, stored, history, faults>>

\* Time passes; a fetch is given up or answered within MaxDelay.
Tick ==
  /\ now < MaxTime
  /\ pc \in {"asked", "answered"} => waited < MaxDelay
  /\ now' = now + 1
  /\ waited' = IF pc = "top" THEN 0 ELSE waited + 1
  /\ UNCHANGED <<queries, settings, current, since, cursor, pc, reply, stored, history, faults>>

-----------------------------------------------------------------------------
(* run_pihole().                                                           *)

\* Mutant of CursorFor: the ids of the old Pi-hole are kept.
CursorForKept(h) == cursor

\* The cursor a client that was just built for h starts with.
CursorFor(h) == 0

\* config() says there is no Pi-hole, or fails to say anything.
NotConfigured ==
  /\ pc = "top"
  /\ \/ config = Off /\ UNCHANGED faults
     \/ config # Off /\ Faulty
  /\ current' = Off
  /\ pc' = "top"
  /\ UNCHANGED <<now, queries, settings, since, cursor, waited, reply, stored, history>>

\* Other settings than the client was built from: another client.
Setup ==
  /\ pc = "top"
  /\ config # Off /\ config # current
  /\ current' = config
  /\ cursor' = CursorFor(config)
  /\ since' = now - FirstSpan
  /\ wantedFrom' = now - FirstSpan
  /\ setups' = [setups EXCEPT ![config] = @ + 1]
  /\ misled' = FALSE /\ overflowed' = FALSE
  /\ pc' = "asked" /\ waited' = 0
  /\ UNCHANGED <<now, queries, settings, reply, stored, refused, faults>>

KeepClient ==
  /\ pc = "top"
  /\ config # Off /\ config = current
  /\ pc' = "asked" /\ waited' = 0
  /\ UNCHANGED <<now, queries, settings, current, since, cursor, reply, stored, history, faults>>

\* The newest queries since `since`, at most FetchLimit of them.
InSpan == {i \in Ids(current) : queries[current][i] >= since}

\* Mutant of Listed: no limit.
ListedAll == InSpan

Listed == {i \in InSpan : Cardinality({k \in InSpan : k > i}) < FetchLimit}

\* The Pi-hole answers with a list.
AnswerList ==
  /\ pc = "asked"
  /\ reply' = [kind |-> "list", ids |-> Listed]
  /\ overflowed' = (overflowed \/ Listed # InSpan)
  /\ pc' = "answered"
  /\ UNCHANGED <<now, queries, settings, current, since, cursor, waited, stored,
                 refused, wantedFrom, setups, misled, faults>>

\* It answers with an error in JSON: the status is not looked at, and a body
\* without "queries" reads as a list without queries.
AnswerError ==
  /\ pc = "asked"
  /\ Faulty
  /\ reply' = [kind |-> "error", ids |-> {}]
  /\ misled' = TRUE
  /\ pc' = "answered"
  /\ UNCHANGED <<now, queries, settings, current, since, cursor, waited, stored,
                 refused, wantedFrom, setups, overflowed>>

\* Only what we did not have yet.
IsNew(i) == i > cursor

Fresh == {i \in reply.ids : IsNew(i)}

\* The rows are pushed, except those a full channel refuses; the cursor moves
\* past all of them.
Deliver(full) ==
  /\ pc = "answered"
  /\ full \subseteq Fresh
  /\ stored' = [stored EXCEPT ![current] =
                  [i \in DOMAIN @ |-> @[i] + (IF i \in Fresh \ full THEN 1 ELSE 0)]]
  /\ refused' = [refused EXCEPT ![current] = @ \cup full]
  /\ cursor' \in {cursor} \cup reply.ids
  /\ \A i \in {cursor} \cup reply.ids : i <= cursor'
  /\ since' = now - Overlap
  /\ reply' = Nothing
  /\ pc' = "top" /\ waited' = 0
  /\ UNCHANGED <<now, queries, settings, current, wantedFrom, setups, misled,
                 overflowed, faults>>

\* The next fetch starts where the failed one did.
SinceAfterError == since

\* The fetch fails: not reachable, no session, no JSON.
FetchFails ==
  /\ pc = "asked"
  /\ Faulty
  /\ since' = SinceAfterError
  /\ pc' = "top" /\ waited' = 0
  /\ UNCHANGED <<now, queries, settings, current, cursor, reply, stored, history>>

-----------------------------------------------------------------------------
\* The operator configures another Pi-hole or none.
Configure(c) ==
  /\ changes < MaxChanges
  /\ changes' = changes + 1
  /\ c # config
  /\ config' = c
  /\ UNCHANGED <<now, queries, poller, stored, history, faults>>

\* A new process knows no cursor.
Restart ==
  /\ changes < MaxChanges
  /\ changes' = changes + 1
  /\ current' = Off
  /\ since' = now - FirstSpan /\ cursor' = 0
  /\ pc' = "top" /\ waited' = 0 /\ reply' = Nothing
  /\ UNCHANGED <<now, queries, config, stored, history, faults>>

Poll ==
  \/ NotConfigured \/ Setup \/ KeepClient
  \/ AnswerList \/ AnswerError \/ FetchFails
  \/ \E full \in SUBSET Fresh : Deliver(full)

Next ==
  \/ \E h \in Hosts : Query(h)
  \/ Tick
  \/ Poll
  \/ \E c \in Hosts \cup {Off} : Configure(c)
  \/ Restart

Spec == Init /\ [][Next]_vars

-----------------------------------------------------------------------------
TypeOK ==
  /\ now \in Nat
  /\ queries \in [Hosts -> Seq(Nat)]
  /\ config \in Hosts \cup {Off} /\ current \in Hosts \cup {Off}
  /\ since \in Int /\ cursor \in 0..MaxQueries
  /\ pc \in {"top", "asked", "answered"}
  /\ pc \in {"asked", "answered"} => current # Off
  /\ reply \in [kind : {"none", "list", "error"}, ids : SUBSET (1..MaxQueries)]
  /\ Cardinality(reply.ids) <= FetchLimit
  /\ stored \in [Hosts -> [1..MaxQueries -> Nat]]
  /\ refused \in [Hosts -> SUBSET (1..MaxQueries)]
  /\ faults \in Nat /\ changes \in Nat

Had(h, i) == stored[h][i] > 0 \/ i \in refused[h]

\* Queries of the current setup no later fetch can bring.
Passed(i) ==
  /\ queries[current][i] >= wantedFrom
  /\ queries[current][i] < since \/ i <= cursor

(* What the next fetch will not ask for any more has been pushed: the       *)
(* cursor and the start time never run ahead of the queries, through failed *)
(* fetches, late answers and another Pi-hole (pihole.rs:109-110, 310-329).  *)
(* Except when an error passed for an empty list or a list was cut.         *)
NothingMissed ==
  current # Off /\ ~misled /\ ~overflowed
  => \A i \in Ids(current) : Passed(i) => Had(current, i)

(* The same with errors that come as JSON: "so that the next fetch goes on  *)
(* from there" (pihole.rs:109-110).                                         *)
NothingMissedAfterErrors ==
  current # Off /\ ~overflowed
  => \A i \in Ids(current) : Passed(i) => Had(current, i)

(* A query is stored at most once for each time its Pi-hole was set up; the *)
(* overlap of two fetches never doubles it (pihole.rs:146-149).             *)
OncePerSetup ==
  \A h \in Hosts : \A i \in 1..MaxQueries : stored[h][i] <= setups[h]

(* Within one setup a query is fetched exactly once: none is passed over    *)
(* and none comes twice (pihole.rs:109-156, 293-338).                       *)
FetchedOnce == NothingMissed /\ OncePerSetup
=============================================================================
