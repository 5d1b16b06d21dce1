# uip-rs in TLA+

uip-rs receives the syslog of a UniFi gateway (and the DNS queries of a
Pi-hole), parses every line into a row of a TimescaleDB table, looks up who the
remote addresses belong to and what AbuseIPDB says about them, and shows the rows
in a browser, live. This directory holds its formal models: TLA+ modules, TLC
configurations that check them on small instances, and proofs checked by TLAPS.

    tlc -config Ingest_writer.cfg MCIngest.tla      one run (the root module is in PROJECT.json)
    tlapm EnrichQueue_proofs.tla                    the proofs of one module

`PROJECT.json` lists the components, the runs, for every property a mutated
definition that must break it, which source lines every definition stands for,
the hazards the properties are for, and the theorems.

## 1. The system

All crates are under `src/crates/`. One process; every "task" is a tokio task.

| part | state it keeps | what it does | talks to |
|---|---|---|---|
| Receiver (`uip-ingest/udp.rs`, `collector.rs`) | own addresses learned, counters, `drop_own` | one datagram, one line: parse, drop lines about its own syslog, `try_send` | writer (bounded channel 8192) |
| Parsers (`syslog.rs`, `parsers.rs`, `firewall.rs`, `cef.rs`) | none but `FirewallCtx` | text to `ParsedLog`; direction and action of firewall rows | receiver |
| Bookkeeping (`collector.rs`) | WAN interfaces and addresses in force | re-reads settings every round, corrects stored directions | settings, table |
| Writer (`writer.rs`) | batch of resolved rows, id cache (`uip-core/db.rs`) | batches of up to 200, or every 200 ms; INSERT, live events, wake-up | table, broadcast (1024), worker (`Notify`) |
| Enrichment worker (`uip-enrich/worker.rs`) | batch, facts of the pass, refresh budget | claims pending rows, looks addresses up, caches, writes back, announces; reopens deferred rows | table, cache, AbuseIPDB client, broadcast |
| AbuseIPDB client (`abuseipdb.rs`) | quota, reset time, pause, key | refuses or sends a lookup; reads the rate limit headers | worker |
| Reverse DNS, GeoIP (`rdns.rs`, `geoip.rs`) | name cache; opened databases and their times | sources of facts | worker |
| MaxMind updater (`maxmind.rs`) | its status | once a day: newer builds of the databases | files, GeoIP, settings |
| Pi-hole task (`pihole.rs`) | session, cursor, start time | polls queries every 30 s, pushes them into the same channel | writer |
| UniFi sync (`unifi.rs`) | client | every five minutes: clients, devices, networks, policies, WAN | settings, tables |
| API (`uip-api`) | response cache, one subscription per stream | pages, counts, export, filters, dashboards, flows, settings, SSE | table, broadcast |
| UI (`src/ui`) | rows of the page, cursor stack, filter | pages, and the stream on the newest page | API |

The row is what ties the parts together. `logs.enrich_status` is 0 pending,
1 done, 2 failed, 3 in progress, 4 deferred; the writer makes a row pending, only
the worker moves it on. What is hard here:

* **Queue under failure**: rows are claimed, enriched and written back in separate
  statements with network calls between them; statements fail, the process dies.
* **Quota**: the client decides from the headers of old replies whether the next
  request leaves; blocked rows wait, possibly for days, and must come back exactly
  when there is news.
* **Concurrency**: writer and worker run side by side over one table, one
  broadcast and one wake-up; settings change under everything; rows are on their
  way while the bookkeeping corrects the table; the watcher and the updater reload
  the same databases.
* **Order of answers**: the browser has several page requests and a stream open,
  and nothing orders what comes back.
* **Two readings of one filter**: the live stream decides in Rust, on a row as it was
  written, what the page decides in SQL, on the row as it is.
* **Loss and duplication**: the channel refuses, INSERTs fail with or without
  having happened, Pi-hole polls overlap, streams fall behind, processes end without
  waiting.

## 2. Modules

| module | models | kind |
|---|---|---|
| `RowQueue` | what the table promises as a queue | abstract specification |
| `EnrichQueue` | `worker.rs`, with an arbitrary threat source | component |
| `AbuseIpDb` | `abuseipdb.rs`, with a truthful service | component |
| `EnrichSystem` | the two composed by the loop of `run_worker` | composition |
| `ScoreRefresh` | what becomes of a score over days | component |
| `Ingest` | receiver, channel, writer, wake-up of the worker | component |
| `PiholePoll` | `run_pihole` | component |
| `Directions` | `derive_direction`, WAN settings, `correct_directions` | component |
| `Filters` | `filters.rs` and `search.rs` as predicates on a row | operators |
| `StreamVerdicts` | `matches_live` of `stream.rs` | operators |
| `LogView` | page, stream and what sends it, log view of the UI | composition |
| `Dashboards` | every aggregate of the API | operators |
| `Queries` | all views over one table that changes | composition |
| `UnifiSync` | `unifi.rs` and the endpoints that read its tables | component |
| `GeoFiles` | `geoip.rs`, `maxmind.rs` | component |
| `ResponseCache`, `NameCache`, `LookupIds` | `cache.rs`, `rdns.rs`, the ids of `db.rs` | components |
| `Lines` | the parsers | component |
| `Null`, `Parts` | the value for NULL; the parts that share no state, together | glue |
| `MC*` | constants of the instances, `MCParts` several instances in one run | TLC |
| `*_proofs` | theorems of the module they are named after; `Parts_proofs` of the components of `Parts`, `Views_proofs` of `LogView` and `Queries`, `Directions_proofs` of `Lines` too | TLAPS |

### EnrichQueue

One action per stage of a pass: `Boot` (release_stale_claims), `Pass` / `Reopen`
(top of the loop), `Claim` (claim and cached_facts), `SkipThreat`, `ThreatFound`,
`ThreatNothing`, `ThreatExhausted` (one address each), `WriteBack` and `WriteCats` (the
main UPDATE and those of the categories), `Announce`, `Wake`; `WriteFails` and the
failing disjuncts are the error paths, `Crash` the end of the process. The writer's
`Insert` and the crash interleave with everything. A claim that could not read the
cache goes on without it, as the code does. `status` is `enrich_status`, `written`
the columns a row got, `cache` the table `ip_enrichment`, `facts` the map of
`run_once`. Country, ASN and name are one bit, a report is the score with its details
and may name categories. State 2 (failed) does not occur because no statement of the
code writes it.

The order in which TLC and the code look addresses up is left open. The stale set
of addresses is read at the start of the pass; which of them are refreshed is
`ScoreRefresh`.

### AbuseIpDb

`client` is the struct, `Refuses`, `ClearAfterReset`, `Absorb`, `Paused` its methods as
functions; `Ask` sends a request, `Receive` reads the reply, the clock may pass midnight
in between. The service is external: it grants `DailyQuota` requests per key and
day, tells the truth about it, may throttle without the quota being spent (burst),
and may leave the reset time out of replies that are no 429 (`ResetHeaders`). A found reply always carries a score.

### EnrichSystem

Instantiates both and adds what `run_worker` does at its head: take the key over,
look at the quota, reopen. The lookup of `EnrichQueue` becomes "switched off", "refused"
or "asked", and a request that is under way is answered before the pass goes on.

### ScoreRefresh

Days instead of ticks. `cache[a]` has the score and its stamp; a pass over an address
finds it stale or not, may take from the budget, asks, merges and stores. `failed`
remembers addresses whose cache write was lost, because nothing can be promised then;
`spent` counts the refreshes of a day over all processes of that day.

### Ingest

A line is the n-th of its source. `Receive` is a whole datagram through `run_udp`
(blank, own syslog, refused by the channel or accepted), `Push` one query of the Pi-hole
task, `Take`/`Resolve`/`FlushTick`/`Insert`/`Send` the writer. An INSERT that fails may have
happened. `Restart` is the end of `main`, which drops the writer's handle: a shutdown
is a crash. The worker is there as far as the wake-up goes. In production the channel
never closes (both tasks hold a sender), so the writer's `None` arm is not modelled.

### PiholePoll

A Pi-hole is a growing sequence of query times; the index is the id. The fetch takes
time (`asked`, `answered`), the list is cut at the limit, an error may come as JSON.
`Deliver` pushes all new rows, some of which a full channel may refuse, and sets cursor and
start time. `MaxDelay <= Overlap` is justified by the code: four requests of at most
10 s each in the worst case against 60 s.

### Directions

A packet is what the rules tell apart: two interfaces, whether its source is one of
the WAN addresses, multicast, DNAT. `DeriveDirection` is the parser, `Corrected` the
SQL of `correct_directions`; `ReadAddrs`, `ReadIfaces`, `Correct`, `NextRound` a round of the
bookkeeping. A row is on its `way` between parser and table. Settings that cannot be
read count as empty, as `get_config` returns them.

### Filters, StreamVerdicts

A row is a record of its columns; a text column is the set of words it contains, `{}` is
NULL. `parse_search` makes typed terms of prefixed and bare words (`Tok`), one operator per
term kind gives the three-valued SQL condition (`push_term`: TRUE, FALSE or NULL, and a
negated NULL is spelt out as the code spells it), `Lists` is the WHERE clause with all
pills. `TablesNamed` and `push_joins` say which lookup tables a filter names and which are
joined for it. `StreamVerdicts.matches_live` gives "Pass", "Reject" or "Unknowable" for the
row as the writer sends it, one operator per `*_verdict` function, joined by `combine`.

### LogView

`Store`, `LookUp`, `Send` are the writer's flush of one row (the INSERT, the read of the
cache, the event), `Enrich` and `Announce` the worker's; they interleave, so a row can be
announced before it is sent. `queue` is what one subscription still has to read from the
broadcast: above `Capacity` the oldest event is lost and counted in `lagged`. `Deliver` is
one turn of the stream of `stream.rs` together with the listener of `LogsView.tsx`: a row
is passed, rejected, or answered by the one "suspended" event; an announcement fills
the rows on the screen (`applyEnrichment`). A request is read (`Read`) and answered
(`Answer`, `AnswerFails`) at any later time; the UI takes answers as they come.
`SetFilter`, `goNext`, `goPrev`, `refreshPage`, `TogglePause` are the user, `Reconnect` the
browser's EventSource. `beforeStack` and `nextCursor` are the UI's cursors, `Page` is
`get_logs` with the keyset of `logs.rs`.

### Dashboards, Queries

`Dashboards` defines every aggregate as a function of the rows and the filter: tiles,
series, top lists, the capped count with its estimate, the flows (`get_sankey` with its
limits and the node for the rest, `get_zones`), `get_points`, `get_ip_pairs`,
`get_host_detail`. Which of several groups of one size a LIMIT keeps is left open.
`Queries` lets rows be stored, plain or with facts (`Insert`), enriched later (`EnrichRow`),
and the filter change (`ChooseFilter`), and relates all these views, the export, the stream's verdicts and the joins of the
seventeen queries to each other.

### UnifiSync

`site` is what the controller is, `Content` what it answers. A sync is `BeginSync`, the five
requests (`FetchClients` ... `FetchPolicies`), then `StoreWan`, `StoreClient` (one at a
time, two statements), `StoreDevices`, `StoreAddresses`; a request or a statement may
fail, which ends the sync or is skipped exactly where the code does so. `ChangeController`
and `ChangeSetup` act between any two steps, `PutName` is the label of the user; `unclear`
remembers the addresses whose statement failed when they were last given away.
`bridge_for`, `gateway_ip`, `display_name` and the ranks of the addresses are operators;
`by_last_seen` states the stable sort by ranks, so that what it returns can be proved.

Names can only be current if the controller's answers say clearly what they are.
`UnifiAssumption` is what is assumed of them: every client of a list has a MAC of its own and
no two at one address were last seen at the same time; who is connected is also among the known,
with the same address; no client is forgotten (`unifi_clients` keeps them all); some device
has an address and a name, and an address of a device one name; networks and rules have names,
an interface has one network and a key of the log one rule. Only `NamesAreCurrent` rests on it.

### GeoFiles

Times are counted in events: each build and each write of a file has one. `Watch`,
`WatchOpens`, `WatchPuts` are `watch` and its reload, `BeginRun`, `Look`, `Download`, `Extract`,
`Reload`, `ReloadPuts`, `Record` the updater. The two reloads read the files first and put the
readers later, so they can overtake each other. `SwapByHand` and `Configure` are the user.

### ResponseCache, NameCache, LookupIds

`Request`, `Compute`, `Finish`, `Fails` are the middleware of `cache.rs` around one query;
the body of an answer is the moment it speaks of. `Lookup` and `Resolved` are `rdns.rs`, with
a resolver that answers within `Timeout`. `LookUp`, `InsertName`, `SelectId` are
`LookupCache::simple_id`: the INSERT takes a number from the sequence even when it conflicts, the
sequence ends (`InsertFails`), the process restarts with an empty cache.

### Lines

A gateway means something (`Meanings`), `LineOf` is how its program writes it down, as words
and tokens; the line arrives while the receiver's clock goes on, and `parse_log` reads it.
`Text` are the words there are. `IsMeaning` says what may be meant: the name of a rule is any
sequence of words with a letter somewhere (the last one counts) or none and a description, a
host and the reason of a refusal are any words, an event of the controller has any keys.
`parse_header` has the rule for the missing year, `derive_action` the rule names and
descriptions, `parse_dhcp`, `parse_dns`, `parse_wifi` and `parse_cef` the events. How
the words are cut out of the text is left out; which words decide, and in which order they
are tried, is not.

## 3. Runs

| run | instance | states | shows |
|---|---|---|---|
| `EnrichQueue_worker` | 3 rows, 2 addresses, batch 2, 1 failure, 1 crash, 1 window | 406 k | the queue invariants, refinement of `RowQueue`, liveness |
| `EnrichSystem_worker` | 2 blocked rows; one half 2 windows and a key change, the other a failure, a crash and a fault of the settings in one window | 2.4 M | no window passes a deferred row over; reopening needs news; only an answer closes a row |
| `Ingest_writer` | 4 + 1 lines, channel 2, batch 2, 1 failure, 1 restart | 987 k | order, accounting, stream, wake-up, every line settles |
| `PiholePoll_task` | 2 Pi-holes (symmetric), 3 queries each, 4 instants, 1 fault, 1 change | 9.7 M | nothing missed, nothing twice in one setup |
| `Directions_follow` | 3 packets, 2 WAN candidates, 2 changes or restarts, 1 fault | 851 k | stored directions follow the interfaces |
| `LogView_page` | 2 stored rows and 1 of two kinds arriving at 2 times, page of 2, ring of 2, 3 requests, 2 filters, 1 failure or pause | 1.8 M | the screen follows the filter, walking leaves no gap, facts arrive |
| `Parts` | nine small instances, one per first state | 675 k | what the nine parts promise, see below |

Deadlock is checked in every run.

`Parts` runs parts that do not interact; which one is chosen in the first state, and the
others stand still. `client`: 2 keys, a day of 2 ticks, 3 days, 1 restart. `score`: 2 addresses,
3 days, limits 0 and 1, 1 restart. `unifi`: two states of a controller with clients whose
addresses move, a gateway, networks and policies; 2 faults, 1 change at any point. `geo`: 2 directories, 2 builds or writes, 1 fault. `views`:
5 rows with and without facts under 23 filters, all subsets of the rows. `answers`: 2
requests over a cache of 1 entry, 2 at a time, 3 seconds. `names`: 2 addresses, 5 hours.
`ids`: 3 spellings of 2 names, a sequence of 5, 2 restarts or failures. `text`: every kind
of line a gateway writes, in 13 months, with the sender's clock a month ahead or not.

`LogView_page` has a constraint: of the arriving rows the packets bear the newest timestamp and the
lookups an older one, as those of a Pi-hole do. `ViewsAgreeUnseen` is `ViewsAgree` in the states
without a verdict of the stream, which it does not look at; every table meets every filter there.

*Why the bounds are enough.* The batches are smaller than the number of rows or lines,
the channel, the ring and the cache are smaller than what they are given, the quota smaller
than what is asked; every failure, crash and change occurs at every point of a pass
because one is allowed at any time; two windows, two keys, two addresses, two Pi-holes, two
filters and two clients are what it takes to confuse one with the other. Three page requests
are needed for an answer that comes after a later one and is used once more. More of the same
kind (a second crash, a third row of an address) starts from a state the first one already
reaches. What is proved (section 5) does not depend on the bounds.

Five runs show where the code does not do what its comments say:

* `ScoreRefresh_stamp`: storing a score that came out of the cache moves the stamp of the
  last question, so the score of an address that keeps appearing never gets old
  (`worker.rs:273`).
* `EnrichSystem_key`: another key is entered on the day whose reset time the queue was already
  reopened for; the rows deferred under the old key go on waiting although the new one has
  quota (`worker.rs:622` against `abuseipdb.rs:94`).
* `PiholePoll_error`: a JSON error is taken for an empty list and the start time moves on
  (`pihole.rs:140`).
* `GeoFiles_install`: a process started without database files never opens the ones it
  downloads (`geoip.rs:49` against `maxmind.rs:216-218`).
* `Queries_joins`: text in a field of addresses or ports names columns of tables that are
  not joined, and every view but the page and the export is an SQL error (`filters.rs:199`).

Smaller disagreements met on the way, not made into runs; each is an exception a property
names, or a history variable:

* The worker: a crash between the main UPDATE and the one for the categories leaves a
  finished row without them (`worker.rs:515`, `CatsFollowUndisturbed`); a failed `write_back`
  leaves its rows in progress until the next start, while the design has a state for it
  (`HeldOnlyAtWork`); a read of the key that fails for a moment switches the source off and
  blocked rows of that pass are finished without a score (`settings.rs:28`,
  `worker.rs:539`); score and categories are merged column by column (`worker.rs:287`).
* Quota: when only a 429 names the reset time, deferred rows are not reopened in the new
  window although the worker knows of quota, and a burst 429 opens "a new window"
  (`worker.rs:622`; `EnrichSystem_worker` has replies that name it); quota and pause are
  persisted and not read back (`abuseipdb.rs:53`); the guess of midnight may be a day off when
  the reply crosses midnight (`abuseipdb.rs:172`, `guessed`); the refresh budget starts anew
  with the process although the comment gives that as its reason (`BudgetPerProcess`).
* Ingest: `notify_one` is no no-op without a receiver, contrary to `writer.rs:302` (the code is
  better than its comment). A line of January from a sender whose clock is ahead over New Year
  is dated a year back (`syslog.rs:60`), and the words after a DHCPNAK are taken for a host
  name (`parsers.rs`).
* Directions: the correction also moves multicast rows and rows of the own address, which
  have a reason of their own (`collector.rs:204`), and rows that were on their way, or whose
  correction failed, stay wrong until the next change (`stale`).
* Pi-hole: more queries than one fetch returns are cut (`pihole.rs:22`, `overflowed`); settings
  that are unreadable for a moment reset the cursor and the last five minutes come twice
  (`OncePerSetup` counts setups).
* The view: an overtaken answer replaces the newer one and stays until the next request
  (`LogsView.tsx:868`, `overtaken`); a row that is announced before it is sent, or while the page
  loads, keeps its old facts (`writer.rs:296`, `excused`); a row can be on the page twice
  (`straddled`). Live and page read different columns for some words: the stream finds a free
  word in the type and the answer of a lookup and in the MAC (`stream.rs:233-252`), where the page
  does not look (`filters.rs:505-509`), although "the live stream applies the same filter" (the
  repository's `README.md:102`). `LiveSpeaksForPage` names these columns (`FoundByStreamOnly`).
* Caches and files: of two misses of one key the older answer can be stored last (`cache.rs:90`,
  `crossed`); the file time stands for the build, so a build published during a download can be
  taken for present (`slipped`), and two reloads that overlap can leave the older database in
  memory (`overlapped`).
* UniFi: when the statement that takes an address from its old client fails, two clients hold it
  until the next undisturbed sync (`unclear`).

## 4. Fairness

* `EnrichQueue`, `Ingest`, `Directions`: weak fairness of the task as a whole. Each is a
  tokio task in an endless loop with timers; when it can take a step it takes one.
  Nothing makes lines arrive, statements fail or processes crash, and the choice between
  the task's own steps is not assumed to be fair.
* `AbuseIpDb`, in `MCParts`: weak fairness of the clock, of replies (a request is given up
  after ten seconds) and of lookups: `ExhaustedAsksAgain` says what happens while blocked
  traffic goes on.
* Others: no fairness, safety only.

`EveryRowSettles` excepts a failing statement (a failed write_back is the known hole);
`EveryLineSettles` and `WorkerComesToRest` have no exception.

## 5. Proofs

Checked by TLAPS for every value of the constants that satisfies the named assumptions of the
modules (`NoKey` is no key, `None` is neither a number nor a name the code uses, a batch is not
empty, an hour is not longer than a day, and the like). TLC evaluates every one of them in the
run of its module. Each theorem `Spec => []P` below rests on an inductive invariant; its parts
are named because each says why the code is right.

**AbuseIpDb_proofs.** `TypeInv` = types, the quota of the service never negative, and
"zero has a reset time" (the last is what makes `ExhaustionEnds` inductive: every
way to a zero goes through `AbsorbHeaders`). `PauseInv` relates the history `promised` to
`pausedUntil` of the process that read it, which gives `RespectsPause`. `RefusalInv` =
what a reply in flight says is true, a reset time is never beyond the next
midnight of the day it was given on, and a zero that was not guessed belongs to a
day on which the service has none left; it needs the arithmetic of `NextMidnight`
(`DaysApart`, `DayUnique`, `MidnightMonotone`, `MidnightSoon`, `SameDay`). `QuotaStaysHonest`
joins them.

**EnrichQueue_proofs.** `PassInv` = the batch is claimed until write_back, `todo` fits the
place in the pass, and an address that is not in `todo` was learned or deferred.
`LookupEffect` and `BystanderKeepsRows` say once what a lookup and what everybody else does; the
invariants and action properties then follow action by action, and `TheBatchHolds`,
`RowsAreSettledRightly` and `NoPassUndoesAnother` join them. `NothingLeftBehind`: a worker at rest
holds no row in progress unless a statement failed, and no row is finished without the categories
of its score unless a statement failed or the process crashed. `WorkerImplementsQueue`: every step maps to a step of `RowQueue` or a
stutter, under the identity on `status`.

**EnrichSystem_proofs.** `SystemImplementsQueue`: the composition takes only steps that
`EnrichQueue` allows, so its theorems hold with the real client. `OnlyAnswersClose` joins that to
the client: a row is in `answered` only if it is in `served`. `NoWindowIsPassedOver` and
`ReopeningNeedsNews` need both halves: `PartsInv` types them together (a request under way belongs
to the lookup the worker is in), `QuotaInv` says which reset times the client can know of (the next
midnight or the end of a pause, at most a day ahead; it is here that `Hour <= Day` is used), and
`WaitInv` that rows deferred since the last reopening lie less than a day before the time it was
for. The proof corrected the model: `NoWindowPassesOver` once spoke of every reset time, and a key
that is changed within the day refutes that; the property now says "in an earlier window", and
what the comments promise beyond it is the run `EnrichSystem_key`.

**PiholePoll_proofs.** For `NothingMissed`: `ListComplete` (a list that is being delivered
lacks only queries younger than its request, and none below one it holds) with `PastInv`
(everything known lies in the past); the delay of a fetch fits into the overlap by
`PollAssumption`, so what the list lacks is asked for again. For `OncePerSetup`: `AboveIsNew`,
nothing above the cursor was pushed in the present setup. `EachQueryIsFetchedOnce` joins
them. `NothingMissed` excuses a cut list and a misread error; the second excuse is what
`PiholePoll_error` is about. `Typing` includes that a list is never longer than the limit.

**Directions_proofs.** `RowsInv`: unless a correction is due, no row that crosses the WAN, stored
or on its way, has a direction that stays inside, except the rows in `stale`. The rows on their way
belong to it because they are stored later with the direction they have. `CrossingDerived` and
`CorrectedEffect` say of the parser's rule and of the UPDATE that they agree where it matters.
`TableFollowsWan` gives both halves of `DirectionsFollowWan`, `Typing` the types.

The same module reads lines. `ReadAsMeant` is one lemma per kind of line, from what is in its words
(`WordsInWords`: which words other words contain): `LastLetter` (`SelectLastInSeq` finds the letter of
a rule whatever segments stand before it, and whatever but letters after it), `LongerFirst` and
`FirstEvent` (the list of Wi-Fi events names `disassociated` before `associated`, so an end is never
read as a beginning), `LeaseWords` (where the words of a lease are, whether it has an address, a host,
a reason or not), `FirstGiven` (the first key of three). `YearIsRight` is the arithmetic of the missing
year. The invariant of `Lines` says that what was read was read in the present month, and
`LinesReadRight` follows for lines of any length. It rests on `LinesAssumption`, that gateways mean
only what `IsMeaning` says.

**Ingest_proofs.** `LinesInv` = `LineTypes`, `HandInv` (at most one line in hand, a batch
below its limit while lines are taken), `OrderInv` (table, unsent batch, hand and
channel are each in the order of production, and pairwise one `Before` the other) and
`FateInv` (these and `gone` make up what was produced, and `gone` meets none of them).
`OrderInv` is what is inductive: `Accounted` follows because a line that is before itself
does not exist. `CatAscending`, `AppendLine` and `HeadAndTail` say what the operations on
sequences do to the order; `WayInParts` carries it over to `OnTheWay`. `NewsInv` adds
that a batch about to be sent is stored and younger than what was sent, and that an idle
worker with unclaimed rows has a permit or a writer about to give one. From them
`EveryLineHasOneFate`, `NewsFollowsTheTable` and `Typing`.

**Parts_proofs.** One section per part; `PartsAreTyped` puts their types and bounds together.

* Response cache, `AnswersStayRecent`: `TimesInv` (an entry is put after its query read the table)
  gives the age; `OrderInv` says that of a key that was never computed twice at a time there is one
  request or one entry, and either is at least as new as what was served.
* Reverse DNS, `ResolverIsSpared`: `MemoryInv` and `AnsweredInv`, every question but the one under
  way has an entry in memory that is as young, or is a lifetime old; `put` sweeps only the latter.
* Lookup ids, `IdsStayStable`: `TableInv` (the table is one to one, caches and rows agree with it),
  `LookupInv` (a lookup under way is of a name the cache lacks) and `NumbersInv`: what the sequence
  gave away and what names without an entry may still take fit into one number per name and per
  failure or restart. This is the argument why a SMALLINT lasts.
* Refresh of scores, `RefreshesStayRight`: `BudgetInv` (the processes before the present one spent at
  most a limit each, this one what its budget says: the reason for `spent`) and `StampInv` (an
  address refreshed today bears today's stamp).
* Database files, `ReplacementsStaySeen` and `UpToDateStaysCurrent`: `ReloadInv` (what is in memory
  or about to be is what the watcher has seen, unless reloads overlap), `FreshInv` (a file from
  after the newest build holds it, unless it slipped in while it was being published) and `RunInv`
  (the same for what the updater noted in this run).
* UniFi, `EveryAddressHasOneHolder`: `OneHolder` is inductive with the types once `unclear` is a set of
  addresses: with one flag for the whole sync nothing could be said of the addresses that did
  not fail.
* UniFi, `NamesStayCurrent`: as long as nothing disturbs the sync (`SyncInv`), what was read is what
  the controller answers (`ReadInv`), what was written is as it would have it, and what is to be
  written is the rest of the order (`WriteInv`). The heart is `ClientsUpTo`: after k clients every
  address is with whoever was written there last, and with nobody else; with all of them written that
  is who was seen there last (`SortedIs`: the ranks number the entries; `OrderIs`, `LastIsLatest`). The
  tables that are written in one go follow from the order of their entries (`WrittenIs`, `FlattenIs`,
  each by the least entry at which it would differ), and `AddressesWritten` from the ranks client,
  gateway, device. Of a disturbed sync `KnownInv` still says that whoever is in the table is known to
  the controller, which is what lets the next one clear every stale holder.

**Views_proofs.** `StreamSpeaksForPage`: for any rows and any filters, each clause of `push_where` and
its `*_verdict`, and each term of `push_term` and its `term_hit`, have corresponding outcomes, on
the row with and without its facts; three-valued AND and `combine` then agree.

`ViewsAgreeAlways` and `ViewsAgreeFromTheStart`: the views agree for any rows, filters and limits
(`QueriesAssumption`: rows and filters are what they are, a limit is not zero, `None` is the key of
no group). A sum over a set is a fold, which has no induction here; `SumIs` shows that the fold is
the only function with its recursion, by the smallest set on which another one differs
(`LeastNumber`), so that whatever grows element by element is the sum. From it `SumOfGroups` (the
groups of a `GroupBy` add up to the rows), `LargestIs` (there are largest groups, of any number up to
all) and `TopAdds`; `ColumnIs` and `HopCarries` carry this through the two hops of the flow view,
whose cut columns are gathered in one node. `JoinsDo` is about which tables a query names.

Of the log view:

* `ViewTyping`: types of table, channel, screen and requests; the ring keeps its capacity.
* `FactsReachTheScreen`: `FactsInv` says the same of a row that is still in the queue, with the
  announcement behind it, since the queue is handled in order.
* `ScreenStaysSound`: `OnceInv` (rows come over the stream in the order of their ids, one that is on
  the screen already is in `straddled`, no page has a row twice) and `FilterInv` (the latest
  request is the filter's, each page has the rows of its own filter).
* `WalksAreComplete`: `WalkInv`; down to every cursor on the stack, and down to the one of the page
  shown, the listed rows the walk began with have been shown. Where it failed first, the history
  `overtaken` was wrong: an answer to an older request makes the cursor worthless even if the
  newer one has not come back (`req.n < asked`).

Two things were changed so that they can be reasoned about, and mean the same: CASE arms that
overlapped in TLC's order are IF or disjoint now (a CASE whose arms overlap is any of them), and
`Page` picks rows by their rank instead of sorting, since what a recursive sort returns cannot be
proved. That a page has a row of each rank is an induction, done by the least number in a
nonempty set of naturals.

**Only model-checked.** Liveness (`WorkGetsDone`, `EveryLineSettles`, `ExhaustedAsksAgain`,
`SettingsTakeEffect`), since fairness and ENABLED are out of the prover's reach, and the five runs
that refute what a comment or doc says. Every safety property of the passing runs is a theorem.

## 6. Not modelled

Left out for good:

* how words are cut out of the text of a line, SQL text, JSON and CSV layout, formatting,
  wording, the URL of a filter: no property tells two of them apart;
* status and services (`status.rs`, `services.rs`, the router): read-only handlers over a
  table that is seeded once;
* the order in which `put_settings` writes its keys, and what `get_settings` masks. A change
  of a setting is one action of each module that reads it;
* charts and all views but the log view, the total in its header: presentation of
  what the API returns;
* archives, HTTP and JSON of the downloads, installation scripts, indexes, retention and
  compression of the database.

What could follow, in this order: `put_settings` key by key, composed with a reader between two
keys; the bound of `LookupIds` composed with `Ingest`.
