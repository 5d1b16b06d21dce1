------------------------------ MODULE AbuseIpDb ------------------------------
(***************************************************************************)
(* The AbuseIPDB client (crates/uip-enrich/src/abuseipdb.rs): the four     *)
(* atomics that remember what the service last said about the quota, and   *)
(* the rule that decides from them whether the next lookup reaches the     *)
(* service at all.                                                         *)
(*                                                                         *)
(* `client` is the struct AbuseIpDb without `limit`, which is only shown.  *)
(* The service itself is external: `left` counts what it still grants each *)
(* key today, and its replies are truthful about that.  A reply is in      *)
(* `flight` until the client reads it, and the clock may tick meanwhile.   *)
(* `promised` and `guessed` are history variables: until when the service  *)
(* last told the key in use to wait and which process it told, and whether *)
(* the end of the zero in force is the client's own guess.                 *)
(***************************************************************************)
EXTENDS Integers

CONSTANTS
  Keys,            \* API keys an operator may enter
  NoKey,           \* the empty key: the source is switched off
  Day,             \* ticks from one UTC midnight to the next
  Hour,            \* ticks the client waits after a 429 that names no time
  DailyQuota,      \* requests the service grants a key per day
  ResetHeaders,    \* may replies other than a 429 carry X-RateLimit-Reset?
                   \* {TRUE} all do, {FALSE} none, BOOLEAN some
  MaxTime,         \* bound: the last modelled instant, a midnight
  MaxRestarts      \* bound: restarts of the process

ASSUME ConstantsAssumption ==
  /\ NoKey \notin Keys
  /\ Day \in Nat \ {0} /\ Hour \in Nat \ {0} /\ DailyQuota \in Nat \ {0}
  /\ ResetHeaders \subseteq BOOLEAN
  /\ MaxTime \in Nat /\ MaxRestarts \in Nat

VARIABLES
  now,       \* Utc::now(), in ticks since the epoch
  client,    \* [key, remaining, resetAt, pausedUntil]
  flight,    \* the reply under way, if any: {} or {reply}
  left,      \* [Keys -> Nat], the service's own count (external)
  promised,  \* history: [until, by], the wait the service asked the key in use
             \* for, and the process that read it
  guessed,   \* history: the client computed the end of its zero itself
  restarts   \* bound counter

vars == <<now, client, flight, left, promised, guessed, restarts>>

Unknown == -1   \* `remaining` before any reply
Never   == 0    \* `reset_at` and `paused_until` when nothing is known
Absent  == -1   \* a header the reply does not carry

Fresh(k) == [key |-> k, remaining |-> Unknown,
             resetAt |-> Never, pausedUntil |-> Never]

NextMidnight(t) == (t \div Day + 1) * Day

-----------------------------------------------------------------------------
(* The client as functions of its counters, the time and a reply.          *)

LaterOf(a, b) == IF a >= b THEN a ELSE b

\* Mutant of Paused: nothing remembers the pause.
PausedNever(c, t) == FALSE

Paused(c, t) == c.pausedUntil > t

\* Mutants of ClearAfterReset: an exhausted quota stays exhausted; the count
\* is forgotten but not the zero; the wrong sentinel is written back.
ClearNever(c, t) == c
ClearTimesOnly(c, t) ==
  IF c.resetAt # Never /\ c.resetAt <= t
  THEN [c EXCEPT !.resetAt = Never, !.pausedUntil = Never] ELSE c
ClearToUnknown(c, t) ==
  IF c.resetAt # Never /\ c.resetAt <= t
  THEN [c EXCEPT !.remaining = Unknown, !.resetAt = Unknown] ELSE c

ClearAfterReset(c, t) ==
  LET until == LaterOf(c.resetAt, c.pausedUntil)
  IN  IF until # Never /\ until <= t THEN Fresh(c.key) ELSE c

\* The lookup ends before a request is made (after clear_after_reset).
Refuses(c, t) ==
  LET cleared == ClearAfterReset(c, t)
  IN  Paused(cleared, t) \/ cleared.remaining = 0

\* What quota() shows the worker: nothing before the first reply.
QuotaKnown(c) == c.key # NoKey /\ c.remaining >= 0

\* A failed reply stands for a request that got no usable answer: refused,
\* timed out, an error status or an unreadable body.
Reply == [code      : {"ok", "limited", "failed"},
          remaining : {Absent} \cup 0..DailyQuota,
          reset     : {Absent} \cup {NextMidnight(now)},
          retry     : {Absent, Hour, Day},
          sentAt    : {now}]

\* X-RateLimit-Remaining and -Reset are taken from every reply, and an empty
\* quota that names no end is taken to end at midnight.
AbsorbHeaders(c, rep, t) ==
  LET rem   == IF rep.remaining = Absent THEN c.remaining ELSE rep.remaining
      reset == IF rep.reset = Absent THEN c.resetAt ELSE rep.reset
  IN  [c EXCEPT !.remaining = rem,
                !.resetAt   = IF rem = 0 /\ reset = Never
                              THEN NextMidnight(t) ELSE reset]

\* A 429 names a time, or a duration, or nothing.
PauseEnd(rep, t) ==
  IF rep.reset # Absent THEN rep.reset
  ELSE IF rep.retry # Absent THEN t + rep.retry
  ELSE t + Hour

\* The reply empties the quota and nothing says when it is renewed.
Guesses(c, rep) ==
  /\ rep.code # "limited"
  /\ rep.reset = Absent /\ c.resetAt = Never
  /\ rep.remaining = 0

Absorb(c, rep, t) ==
  LET read == AbsorbHeaders(c, rep, t)
  IN  IF rep.code = "limited"
      THEN [read EXCEPT !.resetAt     = PauseEnd(rep, t),
                        !.pausedUntil = PauseEnd(rep, t)]
      ELSE read

\* Mutant of Outcome: a 429 is an error status like any other.
OutcomeLimitedNothing(rep) ==
  IF rep.code = "ok" THEN "Found" ELSE "NotFound"

Outcome(rep) ==
  CASE rep.code = "ok"      -> "Found"
    [] rep.code = "limited" -> "QuotaExhausted"
    [] rep.code = "failed"  -> "NotFound"

-----------------------------------------------------------------------------
(* The service, as far as its replies constrain the client.                *)

\* A request that is answered "ok" is counted; a failed one may have been.
LeftAfter(rep, k) ==
  CASE rep.code = "ok"      -> {n \in {left[k] - 1} : n >= 0}
    [] rep.code = "limited" -> {left[k]}
    [] rep.code = "failed"  -> {n \in {left[k], left[k] - 1} : n >= 0}

\* Headers tell the truth.  A 429 while there is quota left is a burst limit:
\* it names a duration, never the daily reset.  Other replies carry the reset
\* time according to ResetHeaders.
Truthful(rep, n) ==
  /\ rep.remaining \in {Absent, n}
  /\ rep.code = "ok" => rep.remaining = n
  /\ rep.code = "limited" => (n > 0 => rep.reset = Absent)
  /\ rep.code # "limited" =>
       /\ rep.retry = Absent
       /\ rep.remaining = Absent => rep.reset = Absent
       /\ rep.remaining # Absent => (rep.reset # Absent) \in ResetHeaders

\* Bound: nothing is remembered beyond the last instant, except that the
\* quota of the last day is known and not exhausted.
WithinBound(c) ==
  /\ c.pausedUntil <= MaxTime
  /\ c.resetAt > MaxTime => c.remaining # 0

-----------------------------------------------------------------------------
Init ==
  /\ now = 1
  /\ client \in {Fresh(k) : k \in Keys \cup {NoKey}}
  /\ flight = {}
  /\ left = [k \in Keys |-> DailyQuota]
  /\ promised = [until |-> Never, by |-> 0]
  /\ guessed = FALSE
  /\ restarts = 0

\* lookup() up to the request, which the service answers when it arrives.
Ask(rep) ==
  /\ flight = {}
  /\ client.key # NoKey
  /\ ~Refuses(client, now)
  /\ \E n \in LeftAfter(rep, client.key) :
       /\ Truthful(rep, n)
       /\ left' = [left EXCEPT ![client.key] = n]
  /\ client' = ClearAfterReset(client, now)
  /\ \A t \in {now, now + 1} : WithinBound(Absorb(client', rep, t))
  /\ flight' = {rep}
  /\ UNCHANGED <<now, promised, guessed, restarts>>

AnyAsk == \E rep \in Reply : Ask(rep)

\* lookup() from the reply on: what it does to the counters.
Receive(rep) ==
  /\ rep \in flight
  /\ flight' = {}
  /\ client' = Absorb(client, rep, now)
  /\ promised' = IF rep.code = "limited"
                 THEN [until |-> PauseEnd(rep, now), by |-> restarts] ELSE promised
  /\ guessed' = Guesses(client, rep)
  /\ UNCHANGED <<now, left, restarts>>

AnyReceive == \E rep \in flight : Receive(rep)

\* set_api_key(): another key is another quota.
\* The worker sets it between two passes, so never while a reply is under way.
SetApiKey(k) ==
  /\ flight = {}
  /\ k # client.key
  /\ client' = Fresh(k)
  /\ promised' = [until |-> Never, by |-> restarts]
  /\ guessed' = FALSE
  /\ UNCHANGED <<now, flight, left, restarts>>

\* A new process builds a new client; nothing of the old one is read back.
Restart ==
  /\ restarts < MaxRestarts
  /\ restarts' = restarts + 1
  /\ client' = Fresh(client.key)
  /\ flight' = {}
  /\ guessed' = FALSE
  /\ UNCHANGED <<now, left, promised>>

\* Time passes; the service refills every key at midnight.  A request is
\* given up after ten seconds, so its reply sees at most one tick.
Tick ==
  /\ now < MaxTime
  /\ \A rep \in flight : rep.sentAt = now
  /\ now' = now + 1
  /\ left' = IF now' % Day = 0 THEN [k \in Keys |-> DailyQuota] ELSE left
  /\ UNCHANGED <<client, flight, promised, guessed, restarts>>

Next ==
  \/ AnyAsk
  \/ AnyReceive
  \/ \E k \in Keys \cup {NoKey} : SetApiKey(k)
  \/ Restart
  \/ Tick

Spec == Init /\ [][Next]_vars

-----------------------------------------------------------------------------
TypeOK ==
  /\ now \in Nat
  /\ client \in [key : Keys \cup {NoKey}, remaining : Int,
                 resetAt : Nat, pausedUntil : Nat]
  /\ left \in [Keys -> Nat]
  /\ \A rep \in flight : rep.code \in {"ok", "limited", "failed"}
  /\ promised \in [until : Nat, by : 0..restarts]
  /\ guessed \in BOOLEAN
  /\ restarts \in 0..MaxRestarts

(* An exhausted quota always has a known end: the zero blocks every further *)
(* request, and only a request could lift it (abuseipdb.rs:167-173).        *)
ExhaustionEnds == client.remaining = 0 => client.resetAt # Never

(* Whenever the client turns a lookup down for want of quota, outside a     *)
(* pause and for a zero whose end the service named, the service would have *)
(* turned it down too: no request of the quota is left unused               *)
(* (abuseipdb.rs:119-128).                                                  *)
RefusalIsJustified ==
  /\ client.key # NoKey
  /\ Refuses(client, now)
  /\ ~Paused(client, now)
  /\ ~guessed
  => left[client.key] = 0

(* What the client believes of the quota costs no lookup: a zero ends, and  *)
(* until then the service would refuse as well (abuseipdb.rs:119-173).      *)
QuotaIsHonest == ExhaustionEnds /\ RefusalIsJustified

(* After a 429 no request leaves before the time the service named, for as  *)
(* long as the key stays the same and the process lives                     *)
(* (abuseipdb.rs:56-62, 175-186).                                           *)
RespectsPause ==
  [][AnyAsk /\ promised.by = restarts => promised.until <= now]_vars

(* A quota that has run out is asked for again some time after its reset;   *)
(* it does not stay at zero until somebody restarts the service             *)
(* (abuseipdb.rs:64-71).                                                    *)
ExhaustedAsksAgain == (client.remaining = 0) ~> (client.remaining # 0)

=============================================================================
