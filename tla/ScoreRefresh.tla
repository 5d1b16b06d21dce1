----------------------------- MODULE ScoreRefresh -----------------------------
(***************************************************************************)
(* How long a stored score lives: RefreshBudget, the age rule of           *)
(* cached_facts, the part of run_once that handles one address, and the    *)
(* upsert of store_facts (crates/uip-enrich/src/worker.rs).  A report is   *)
(* its score here; the table keeps, beside it, the day it believes the     *)
(* score was asked for.                                                    *)
(***************************************************************************)
EXTENDS Null, Integers

CONSTANTS
  Addrs,         \* addresses of blocked rows
  Scores,        \* scores the service gives
  Limits,        \* values of abuseipdb_refresh_per_day
  RefreshAfter,  \* REFRESH_AFTER_DAYS
  StoreFails,    \* may store_facts and touch_abuse_checked fail?
  MaxDay,        \* bound: the last day
  MaxBoots       \* bound: restarts of the process

ASSUME ScoresAssumption ==
  /\ None \notin Scores
  /\ Limits \subseteq Nat /\ RefreshAfter \in Nat /\ StoreFails \in BOOLEAN
  /\ MaxDay \in Nat /\ MaxBoots \in Nat

VARIABLES
  day,       \* today, in days since the epoch
  perDay,    \* the limit in force
  budget,    \* [day, used], RefreshBudget
  cache,     \* [Addrs -> [score, stamp]], ip_enrichment
  asked,     \* history: the day the service last answered for the address
  reports,   \* history: its last score
  refreshed, \* history: how often the address was refreshed today
  spent,     \* history: refreshes of all addresses today
  failed,    \* history: addresses one of whose cache writes failed
  boots      \* bound counter

score_vars == <<day, perDay, budget, cache, asked, reports, refreshed, spent, failed, boots>>

NoStamp == -1
Filled(new, old) == IF new # None THEN new ELSE old

-----------------------------------------------------------------------------
\* cached_facts(): a score is old if its stamp is missing or too long ago.
Stale(e) ==
  e.score # None /\ (e.stamp = NoStamp \/ day - e.stamp > RefreshAfter)

\* RefreshBudget::take(): a new day empties the count first.
UsedToday == IF budget.day = day THEN budget.used ELSE 0

MayTake == UsedToday < perDay

\* Whether take() is reached at all, and what it leaves behind.
Reaches(e, blocked) == blocked /\ e.score # None /\ Stale(e)

\* Mutant of BudgetAfter: it counts what is left, from nothing.
BudgetAfterDown(e, blocked) ==
  IF Reaches(e, blocked)
  THEN [day |-> day, used |-> UsedToday - (IF MayTake THEN 1 ELSE 0)]
  ELSE budget

BudgetAfter(e, blocked) ==
  IF Reaches(e, blocked)
  THEN [day |-> day, used |-> UsedToday + (IF MayTake THEN 1 ELSE 0)]
  ELSE budget

\* What the pass knows after asking: a refresh replaces the score, a first
\* answer fills the gap.
Learned(e, refreshing, score) == IF refreshing THEN score ELSE Filled(e.score, score)

\* store_facts(): the stamp moves whenever the stored score is not null.
StampAfter(e, known) == IF known # None THEN day ELSE e.stamp

\* Mutant of Stored: the new value fills gaps only.
StoredGaps(e, known) ==
  [score |-> Filled(e.score, known), stamp |-> StampAfter(e, known)]

\* store_facts(): the score keeps its old value where the new one is null.
Stored(e, known) ==
  [score |-> Filled(known, e.score), stamp |-> StampAfter(e, known)]

\* The upsert happens, or it fails and is only logged.
Store(a, e, known) ==
  \/ cache' = [cache EXCEPT ![a] = Stored(e, known)] /\ UNCHANGED failed
  \/ /\ StoreFails
     /\ cache' = [cache EXCEPT ![a] = e]
     /\ failed' = failed \cup {a}

-----------------------------------------------------------------------------
ScoresInit ==
  /\ day = 0
  /\ perDay \in Limits
  /\ budget = [day |-> 0, used |-> 0]
  /\ cache = [a \in Addrs |-> [score |-> None, stamp |-> NoStamp]]
  /\ asked = [a \in Addrs |-> NoStamp]
  /\ reports = [a \in Addrs |-> None]
  /\ refreshed = [a \in Addrs |-> 0] /\ spent = 0
  /\ failed = {}
  /\ boots = 0

Refreshing(e, blocked) == Reaches(e, blocked) /\ MayTake

CountRefresh(a, blocked) ==
  /\ budget' = BudgetAfter(cache[a], blocked)
  /\ refreshed' = IF Refreshing(cache[a], blocked)
                  THEN [refreshed EXCEPT ![a] = @ + 1] ELSE refreshed
  /\ spent' = IF Refreshing(cache[a], blocked) THEN spent + 1 ELSE spent

\* The address comes up in a pass that does not ask for it.
PassSilent(a, blocked) ==
  LET e == cache[a] IN
  /\ ~blocked \/ (e.score # None /\ ~Refreshing(e, blocked))
  /\ CountRefresh(a, blocked)
  /\ Store(a, e, e.score)
  /\ UNCHANGED <<day, perDay, asked, reports, boots>>

Asks(a) == cache[a].score = None \/ Refreshing(cache[a], TRUE)

\* It is asked for and the service reports.
PassFound(a, score) ==
  LET e == cache[a] IN
  /\ Asks(a)
  /\ CountRefresh(a, TRUE)
  /\ Store(a, e, Learned(e, Refreshing(e, TRUE), score))
  /\ asked' = [asked EXCEPT ![a] = day]
  /\ reports' = [reports EXCEPT ![a] = score]
  /\ UNCHANGED <<day, perDay, boots>>

\* It is asked for and there is no answer; a refresh is stamped as tried,
\* unless that statement fails too.
PassNothing(a) ==
  LET e == cache[a] IN
  /\ Asks(a)
  /\ CountRefresh(a, TRUE)
  /\ \/ Refreshing(e, TRUE) /\ Store(a, [e EXCEPT !.stamp = day], e.score)
     \/ (StoreFails \/ ~Refreshing(e, TRUE)) /\ Store(a, e, e.score)
  /\ asked' = IF Refreshing(e, TRUE) THEN [asked EXCEPT ![a] = day] ELSE asked
  /\ UNCHANGED <<day, perDay, reports, boots>>

\* It is asked for and the quota is exhausted.
PassExhausted(a) ==
  LET e == cache[a] IN
  /\ Asks(a)
  /\ CountRefresh(a, TRUE)
  /\ Store(a, e, e.score)
  /\ UNCHANGED <<day, perDay, asked, reports, boots>>

\* apply_settings() takes over a changed limit.
SetPerDay(n) ==
  /\ perDay' = n
  /\ UNCHANGED <<day, budget, cache, asked, reports, refreshed, spent, failed, boots>>

NextDay ==
  /\ day < MaxDay
  /\ day' = day + 1
  /\ refreshed' = [a \in Addrs |-> 0] /\ spent' = 0
  /\ UNCHANGED <<perDay, budget, cache, asked, reports, failed, boots>>

\* A new process starts with a new budget.
RestartBudget ==
  /\ boots < MaxBoots
  /\ boots' = boots + 1
  /\ budget' = [day |-> 0, used |-> 0]
  /\ UNCHANGED <<day, perDay, cache, asked, reports, refreshed, spent, failed>>

ScoresNext ==
  \/ \E a \in Addrs :
       \/ \E blocked \in BOOLEAN : PassSilent(a, blocked)
       \/ \E score \in Scores : PassFound(a, score)
       \/ PassNothing(a)
       \/ PassExhausted(a)
  \/ \E n \in Limits : SetPerDay(n)
  \/ NextDay
  \/ RestartBudget

ScoresSpec == ScoresInit /\ [][ScoresNext]_score_vars

-----------------------------------------------------------------------------
ScoresTypes ==
  /\ day \in Nat /\ perDay \in Limits
  /\ budget \in [day : Nat, used : Nat]
  /\ cache \in [Addrs -> [score : Scores \cup {None}, stamp : Nat \cup {NoStamp}]]
  /\ asked \in [Addrs -> Nat \cup {NoStamp}]
  /\ reports \in [Addrs -> Scores \cup {None}]
  /\ refreshed \in [Addrs -> Nat] /\ spent \in Nat
  /\ failed \in SUBSET Addrs
  /\ boots \in Nat

(* However often it is started, one process spends at most one limit a day: *)
(* the count is emptied by the calendar and, as it is not stored, by a      *)
(* restart (worker.rs:26-80).                                               *)
BudgetPerProcess ==
  \E n \in Limits : spent <= (boots + 1) * n

(* An address costs at most one refresh a day, however the lookup ends and  *)
(* however often the process starts: the attempt itself is recorded         *)
(* (worker.rs:249-262), as long as the cache can be written.                *)
OneRefreshADay == \A a \in Addrs \ failed : refreshed[a] <= 1

(* The cached score is the last one the service gave: a refresh replaces    *)
(* it (worker.rs:359-371), as long as the cache can be written.             *)
LastScoreStands ==
  \A a \in Addrs \ failed : cache[a].score = reports[a]

(* What refreshes cost is what was allowed, and they are worth it.          *)
RefreshesAreRight == BudgetPerProcess /\ OneRefreshADay /\ LastScoreStands

(* A score last asked for longer than RefreshAfter days ago counts as old   *)
(* and is due for a refresh (worker.rs:19-24, 218-224).                     *)
OldScoreIsStale ==
  \A a \in Addrs :
    cache[a].score # None /\ day - asked[a] > RefreshAfter => Stale(cache[a])
=============================================================================
