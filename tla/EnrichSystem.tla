----------------------------- MODULE EnrichSystem -----------------------------
(***************************************************************************)
(* run_worker (crates/uip-enrich/src/worker.rs) with its real threat       *)
(* source: the queue of EnrichQueue and the client of AbuseIpDb, joined by *)
(* what the loop does at its top.  There it takes over the API key from    *)
(* system_config, looks at the quota and reopens the deferred rows when it *)
(* sees a reset time it has not yet opened them for.  A lookup is refused  *)
(* by the client, or it is a request whose reply arrives later.            *)
(*                                                                         *)
(* The worker is one task, so nothing but the clock, the operator and the  *)
(* writer moves while a request is under way.                              *)
(***************************************************************************)
EXTENDS Integers, FiniteSets

CONSTANTS
  \* of EnrichQueue
  Rows, Addrs, NoAddr, Remote, Blocked, Stamp, Reports, WithCats, None,
  BatchSize, MaxFailures, MaxCrashes, MaxWindows,
  \* of AbuseIpDb
  Keys, NoKey, Day, Hour, DailyQuota, ResetHeaders, MaxTime,
  \* its own
  MaxFaults,      \* bound: failing reads of the key and failing reopenings
  MaxKeyChanges   \* bound: keys the operator enters

\* The wait the client assumes, an hour, is no longer than a day.
ASSUME SystemAssumption ==
  /\ Hour <= Day
  /\ MaxFaults \in Nat /\ MaxKeyChanges \in Nat

VARIABLES
  status, written, rowCats, cache, pc, batch, todo, facts, quotaOut, catsTodo,
  announced, answered, windows, failures, crashes,  \* of EnrichQueue
  now, client, flight, left, promised, guessed, restarts,  \* of AbuseIpDb
  configured,   \* abuseipdb_api_key in system_config
  reopenedFor,  \* the reset time the deferred rows were last reopened for
  asking,       \* the address of the request under way
  deferredAt,   \* history: when each row was last deferred
  served,       \* history: rows whose lookup was answered, or switched off
  news,         \* history: a reply was read since the last reopening
  heardAt,      \* history: when the service sent the last reply that was read
  faults,       \* bound counter
  keyChanges    \* bound counter

queueVars  == <<status, written, rowCats, cache, pc, batch, todo, facts, quotaOut,
                catsTodo, announced, answered, windows, failures, crashes>>
clientVars == <<now, client, flight, left, promised, guessed, restarts>>
history    == <<deferredAt, served, news, heardAt>>
counters   == <<faults, keyChanges>>
vars       == <<queueVars, clientVars, configured, reopenedFor, asking, history, counters>>

Q == INSTANCE EnrichQueue
A == INSTANCE AbuseIpDb WITH MaxRestarts <- MaxCrashes

ASSUME PartsAssumption ==
  Q!RowsAssumption /\ Q!BoundsAssumption /\ A!ConstantsAssumption

-----------------------------------------------------------------------------
Init ==
  /\ Q!Init
  /\ A!Init
  /\ configured = client.key
  /\ reopenedFor = A!Never
  /\ asking = NoAddr
  /\ deferredAt = [r \in Rows |-> 0]
  /\ served = {}
  /\ news = FALSE /\ heardAt = 0
  /\ faults = 0 /\ keyChanges = 0

\* apply_settings(): the configured key, or the empty one when it cannot be read.
TakeKey(k) ==
  /\ \/ k = configured /\ UNCHANGED faults
     \/ k = NoKey /\ faults < MaxFaults /\ faults' = faults + 1
  /\ \/ k = client.key /\ UNCHANGED clientVars
     \/ A!SetApiKey(k)

\* Mutants of MayReopen: at every pass; the reset time is not compared.
MayReopenAlways(c) == A!QuotaKnown(c) /\ c.remaining > 0 /\ c.resetAt # A!Never
MayReopenOnce(c) ==
  A!QuotaKnown(c) /\ c.remaining > 0 /\ c.resetAt # A!Never /\ reopenedFor = A!Never

\* A known quota that is not empty and belongs to another reset time.
MayReopen(c) ==
  /\ A!QuotaKnown(c)
  /\ c.remaining > 0
  /\ c.resetAt # A!Never
  /\ c.resetAt # reopenedFor

\* Top of the loop; the key is set before the quota is looked at.
TopReopens ==
  \E k \in Keys \cup {NoKey} :
    /\ Q!Reopen
    /\ TakeKey(k)
    /\ MayReopen(client')
    /\ reopenedFor' = client'.resetAt
    /\ news' = FALSE
    /\ UNCHANGED <<configured, asking, deferredAt, served, heardAt, keyChanges>>

TopPasses ==
  \E k \in Keys \cup {NoKey} :
    /\ Q!Pass
    /\ TakeKey(k)
    /\ ~MayReopen(client')
    /\ UNCHANGED <<configured, reopenedFor, asking, history, keyChanges>>

\* reopen_deferred() fails; the next pass tries again.
TopCannotReopen ==
  /\ Q!Pass
  /\ faults < MaxFaults /\ faults' = faults + 1
  /\ \/ client.key = configured /\ UNCHANGED clientVars
     \/ A!SetApiKey(configured)
  /\ MayReopen(client')
  /\ UNCHANGED <<configured, reopenedFor, asking, history, keyChanges>>

-----------------------------------------------------------------------------
(* A lookup of the threat source.                                          *)

RowsOf(a) == {r \in batch : Remote[r] = a}

\* The score is known or not wanted.
SkipThreat(a) ==
  /\ flight = {}
  /\ Q!SkipThreat(a)
  /\ UNCHANGED <<clientVars, configured, reopenedFor, asking, history, counters>>

\* Without a key the source is switched off.
LookupDisabled(a) ==
  /\ client.key = NoKey
  /\ Q!ThreatNothing(a)
  /\ served' = served \cup RowsOf(a)
  /\ UNCHANGED <<clientVars, configured, reopenedFor, asking, deferredAt, news, heardAt, counters>>

\* Out of quota or pausing: no request is made.
LookupRefused(a) ==
  /\ flight = {}
  /\ client.key # NoKey
  /\ A!Refuses(client, now)
  /\ client' = A!ClearAfterReset(client, now)
  /\ Q!ThreatExhausted(a)
  /\ UNCHANGED <<now, flight, left, promised, guessed, restarts>>
  /\ UNCHANGED <<configured, reopenedFor, asking, history, counters>>

\* The request goes out.
LookupAsks(a) ==
  /\ pc = "lookup" /\ a \in todo /\ Q!Wanted(a)
  /\ A!AnyAsk
  /\ asking' = a
  /\ UNCHANGED <<queueVars, configured, reopenedFor, history, counters>>

\* Its reply is read, and the address is done with.
LookupAnswered(rep) ==
  /\ A!Receive(rep)
  /\ \/ A!Outcome(rep) = "Found" /\ \E p \in Reports : Q!ThreatFound(asking, p)
     \/ A!Outcome(rep) = "NotFound" /\ Q!ThreatNothing(asking)
     \/ A!Outcome(rep) = "QuotaExhausted" /\ Q!ThreatExhausted(asking)
  /\ served' = IF rep.code = "limited" THEN served ELSE served \cup RowsOf(asking)
  /\ news' = TRUE
  /\ heardAt' = rep.sentAt
  /\ asking' = NoAddr
  /\ UNCHANGED <<configured, reopenedFor, deferredAt, counters>>

-----------------------------------------------------------------------------
WriteBack ==
  /\ Q!WriteBack
  /\ deferredAt' = [r \in Rows |-> IF r \in batch /\ Q!Defers(r) THEN now ELSE deferredAt[r]]
  /\ UNCHANGED <<clientVars, configured, reopenedFor, asking, served, news, heardAt, counters>>

\* What the loop and the writer do without the client.
QueueStep ==
  /\ \/ Q!Boot \/ Q!ClaimNothing \/ Q!WriteFails \/ Q!Announce \/ Q!Wake
     \/ \E S \in SUBSET Rows : Q!Claim(S)
     \/ \E r \in Rows : Q!WriteCats(r) \/ Q!Insert(r)
  /\ UNCHANGED <<clientVars, configured, reopenedFor, asking, history, counters>>

\* The operator enters another key, or none.
ChangeKey(k) ==
  /\ keyChanges < MaxKeyChanges
  /\ keyChanges' = keyChanges + 1
  /\ k # configured
  /\ configured' = k
  /\ UNCHANGED <<queueVars, clientVars, reopenedFor, asking, history, faults>>

\* The new process reads its first key from the settings (main.rs).
Crash ==
  /\ Q!Crash
  /\ client' = A!Fresh(configured)
  /\ flight' = {}
  /\ guessed' = FALSE
  /\ restarts' = restarts + 1
  /\ reopenedFor' = A!Never
  /\ asking' = NoAddr
  /\ UNCHANGED <<now, left, promised, configured, history, counters>>

Tick ==
  /\ A!Tick
  /\ UNCHANGED <<queueVars, configured, reopenedFor, asking, history, counters>>

LookupStep ==
  \/ \E a \in Addrs :
       SkipThreat(a) \/ LookupDisabled(a) \/ LookupRefused(a) \/ LookupAsks(a)
  \/ \E rep \in flight : LookupAnswered(rep)

Next ==
  \/ TopReopens \/ TopPasses \/ TopCannotReopen
  \/ LookupStep
  \/ WriteBack
  \/ QueueStep
  \/ \E k \in Keys \cup {NoKey} : ChangeKey(k)
  \/ Crash
  \/ Tick

Spec == Init /\ [][Next]_vars

-----------------------------------------------------------------------------
TypeOK ==
  /\ Q!TypeOK /\ A!TypeOK
  /\ configured \in Keys \cup {NoKey}
  /\ reopenedFor \in Nat
  /\ asking \in Addrs \cup {NoAddr}
  /\ flight # {} => pc = "lookup" /\ asking \in todo
  /\ deferredAt \in [Rows -> Nat]
  /\ served \subseteq Rows /\ news \in BOOLEAN /\ heardAt \in Nat
  /\ faults \in 0..MaxFaults /\ keyChanges \in 0..MaxKeyChanges

(* Deferred rows are reopened only after the service has said something new *)
(* about the quota: no pass can defer a row and the next one reopen it with *)
(* nothing learned in between, the loop of 1.4 billion updates              *)
(* (worker.rs:603-627).                                                     *)
ReopenNeedsNews == [][TopReopens => news]_vars

\* What the client knows of the quota is in force, no pause runs, and there is some.
QuotaInForce ==
  client.remaining > 0 /\ client.pausedUntil <= now /\ client.resetAt > now

(* A row deferred in an earlier quota window is no longer waiting once the  *)
(* worker has passed the top of its loop knowing that there is quota in the *)
(* present one (worker.rs:447-448, 603-627).                                *)
(* A reopening that fails is only tried again by a later pass, which finds  *)
(* nothing known if the key could not be read: such runs are left out.      *)
NoWindowPassesOver ==
  pc = "claim" /\ faults = 0 /\ QuotaInForce
  => \A r \in Q!RowsIn("deferred") : A!NextMidnight(deferredAt[r]) > now

(* No row that was deferred before the service last answered is still       *)
(* waiting while there is quota: the score follows "as soon as there is     *)
(* quota again" (worker.rs:447-448), and "another key is another quota"     *)
(* (abuseipdb.rs:94).                                                       *)
QuotaReopens ==
  pc = "claim" /\ faults = 0 /\ QuotaInForce
  => \A r \in Q!RowsIn("deferred") : deferredAt[r] >= heardAt

(* A blocked row is finished without a score only after the service itself  *)
(* was asked and had none, or while it was switched off; a 429 or a refusal *)
(* of the client never closes it (worker.rs:445-459, abuseipdb.rs:119-128). *)
OnlyAnAnswerCloses ==
  \A r \in Blocked :
    /\ status[r] = "done"
    /\ Remote[r] # NoAddr
    /\ written[r].report = None
    => r \in served

(* The composition takes only steps the queue allows with an arbitrary      *)
(* threat source, so everything shown of EnrichQueue holds here.            *)
IsEnrichQueue == Q!Spec
=============================================================================
