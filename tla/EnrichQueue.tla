----------------------------- MODULE EnrichQueue -----------------------------
(***************************************************************************)
(* The enrichment worker (crates/uip-enrich/src/worker.rs) on the table it *)
(* works off: it claims pending rows, looks each distinct address up once, *)
(* caches what it learned, writes the batch back in two statements and     *)
(* announces the addresses.                                                *)
(*                                                                         *)
(* The threat source is abstract here: a lookup may find a report, find    *)
(* nothing, or hit the quota, and a new quota window may open at the top   *)
(* of any pass.  EnrichSystem puts the real client in its place.  A report *)
(* stands for the score and its details; `base` for country, ASN and name. *)
(* Statements may fail and the process may crash, each a bounded number of *)
(* times.                                                                  *)
(***************************************************************************)
EXTENDS Integers, FiniteSets

CONSTANTS
  Rows,         \* log rows
  Addrs,        \* remote addresses
  NoAddr,       \* remote_ip() found none
  Remote,       \* [Rows -> Addrs \cup {NoAddr}]
  Blocked,      \* the firewall rows that were blocked (wants_threat)
  Stamp,        \* [Rows -> Nat], the timestamp the claim orders by
  Reports,      \* answers of the threat source
  WithCats,     \* the reports that name categories
  None,         \* no report
  BatchSize,    \* bound of one claim
  MaxFailures,  \* bound: statements that fail
  MaxCrashes,   \* bound: crashes of the process
  MaxWindows    \* bound: quota windows that open

ASSUME RowsAssumption ==
  /\ NoAddr \notin Addrs
  /\ Remote \in [Rows -> Addrs \cup {NoAddr}]
  /\ Blocked \subseteq Rows
  /\ None \notin Reports
  /\ WithCats \subseteq Reports
ASSUME BoundsAssumption ==
  /\ Stamp \in [Rows -> Nat]
  /\ BatchSize \in Nat \ {0}
  /\ MaxFailures \in Nat /\ MaxCrashes \in Nat /\ MaxWindows \in Nat

VARIABLES
  status,     \* enrich_status: absent, pending 0, done 1, claimed 3, deferred 4
  written,    \* [Rows -> Facts], what write_back put into the row
  rowCats,    \* [Rows -> Reports \cup {None}], its threat_categories column
  cache,      \* [Addrs -> Facts], the table ip_enrichment
  pc,         \* where run_worker is
  batch,      \* the rows of the current pass
  todo,       \* its addresses not looked up yet
  facts,      \* what the pass knows about them
  quotaOut,   \* quota_ran_out
  catsTodo,   \* rows whose categories are still to be written
  announced,  \* addresses the last pass sent as LiveEvent::Enriched
  answered,   \* history: rows whose address the source had nothing on
  windows,    \* quota windows in which deferred rows were reopened
  failures,   \* bound counter
  crashes     \* bound counter

table  == <<status, written, rowCats, cache>>
memory == <<batch, todo, facts, quotaOut, catsTodo>>
bounds == <<windows, failures, crashes>>
vars   == <<table, pc, memory, announced, answered, bounds>>

Facts == [base : BOOLEAN, report : Reports \cup {None}]
Empty == [base |-> FALSE, report |-> None]
Working == {"lookup", "write", "cats", "announce"}

RowsIn(s) == {r \in Rows : status[r] = s}
RemotesOf(S) == {Remote[r] : r \in S} \ {NoAddr}
FactsOf(r) == IF Remote[r] = NoAddr THEN Empty ELSE facts[Remote[r]]

\* One more failing statement, within the bound.
Fails == failures < MaxFailures /\ failures' = failures + 1

-----------------------------------------------------------------------------
Init ==
  /\ status = [r \in Rows |-> "absent"]
  /\ written = [r \in Rows |-> Empty]
  /\ rowCats = [r \in Rows |-> None]
  /\ cache = [a \in Addrs |-> Empty]
  /\ pc = "boot"
  /\ batch = {} /\ todo = {} /\ catsTodo = {}
  /\ facts = [a \in Addrs |-> Empty]
  /\ quotaOut = FALSE
  /\ announced = {} /\ answered = {}
  /\ windows = 0 /\ failures = 0 /\ crashes = 0

\* The writer inserts a row; enrich_status defaults to pending.
Insert(r) ==
  /\ status[r] = "absent"
  /\ status' = [status EXCEPT ![r] = "pending"]
  /\ UNCHANGED <<written, rowCats, cache, pc, memory, announced, answered, bounds>>

Released == [r \in Rows |-> IF status[r] = "claimed" THEN "pending" ELSE status[r]]

\* release_stale_claims(), once per process, its error logged and ignored.
Boot ==
  /\ pc = "boot"
  /\ pc' = "top"
  /\ \/ status' = Released /\ UNCHANGED failures
     \/ Fails /\ UNCHANGED status
  /\ UNCHANGED <<written, rowCats, cache, memory, announced, answered, windows, crashes>>

\* Top of the loop, no new quota window seen or the reopening failed.
Pass ==
  /\ pc = "top"
  /\ pc' = "claim"
  /\ UNCHANGED <<table, memory, announced, answered, bounds>>

\* reopen_deferred(), once per quota window.
Reopen ==
  /\ pc = "top"
  /\ windows < MaxWindows
  /\ windows' = windows + 1
  /\ status' = [r \in Rows |-> IF status[r] = "deferred" THEN "pending" ELSE status[r]]
  /\ pc' = "claim"
  /\ UNCHANGED <<written, rowCats, cache, memory, announced, answered, failures, crashes>>

\* claim(): the newest pending rows, at most BatchSize of them.
Claimable ==
  {S \in SUBSET RowsIn("pending") :
     /\ \/ Cardinality(S) = BatchSize
        \/ Cardinality(S) < BatchSize /\ S = RowsIn("pending")
     /\ \A r \in S, q \in RowsIn("pending") \ S : Stamp[r] >= Stamp[q]}

Taken(S) == [r \in Rows |-> IF r \in S THEN "claimed" ELSE status[r]]

\* claim() and cached_facts().  Only this worker writes the cache, so nothing
\* can happen to it between the two.  An unreadable cache counts as empty.
Claim(S) ==
  /\ pc = "claim"
  /\ S # {} /\ S \in Claimable
  /\ status' = Taken(S)
  /\ batch' = S
  /\ todo' = RemotesOf(S)
  /\ \/ /\ facts' = [a \in Addrs |-> IF a \in RemotesOf(S) THEN cache[a] ELSE Empty]
        /\ UNCHANGED failures
     \/ /\ facts' = [a \in Addrs |-> Empty]
        /\ Fails
  /\ quotaOut' = FALSE
  /\ catsTodo' = {}
  /\ announced' = {}
  /\ pc' = IF RemotesOf(S) = {} THEN "write" ELSE "lookup"
  /\ UNCHANGED <<written, rowCats, cache, answered, windows, crashes>>

\* Nothing to claim, or the claim failed: sleep.
ClaimNothing ==
  /\ pc = "claim"
  /\ \/ RowsIn("pending") = {} /\ UNCHANGED failures
     \/ Fails
  /\ pc' = "idle"
  /\ UNCHANGED <<table, memory, announced, answered, windows, crashes>>

-----------------------------------------------------------------------------
(* One address of the pass.                                                *)

Wanted(a) == \E r \in batch \cap Blocked : Remote[r] = a

\* Mutant of Coalesce: what is stored replaces what was known.
CoalesceNew(new, old) == new

\* store_facts(): a column keeps its old value where the new one is null.
Coalesce(new, old) ==
  [base   |-> new.base \/ old.base,
   report |-> IF new.report # None THEN new.report ELSE old.report]

\* The address is done with: geo and rDNS filled in where they were missing,
\* the facts cached unless there are none or the statement fails.
Learn(a, report) ==
  \E base \in {b \in BOOLEAN : facts[a].base => b} :
    LET known == [base |-> base, report |-> report] IN
    /\ facts' = [facts EXCEPT ![a] = known]
    /\ \/ /\ cache' = IF known = Empty THEN cache
                      ELSE [cache EXCEPT ![a] = Coalesce(known, cache[a])]
          /\ UNCHANGED failures
       \/ known # Empty /\ Fails /\ UNCHANGED cache
    /\ todo' = todo \ {a}
    /\ pc' = IF todo = {a} THEN "write" ELSE "lookup"

InLookup(a) ==
  /\ pc = "lookup"
  /\ a \in todo
  /\ UNCHANGED <<status, written, rowCats, batch, catsTodo, announced, windows, crashes>>

\* The threat source is not asked: no blocked row, or the score is known.
SkipThreat(a) ==
  /\ InLookup(a)
  /\ ~Wanted(a) \/ facts[a].report # None
  /\ Learn(a, facts[a].report)
  /\ UNCHANGED <<quotaOut, answered>>

\* It is asked, for the first time or to refresh an old score, and answers.
\* A first answer fills the gaps, a refresh replaces: either way the report
\* of the address is the new one.
ThreatFound(a, rep) ==
  /\ InLookup(a)
  /\ Wanted(a)
  /\ Learn(a, rep)
  /\ UNCHANGED <<quotaOut, answered>>

\* It has nothing, cannot be reached, or is switched off.
ThreatNothing(a) ==
  /\ InLookup(a)
  /\ Wanted(a)
  /\ Learn(a, facts[a].report)
  /\ answered' = answered \cup {r \in batch : Remote[r] = a}
  /\ UNCHANGED quotaOut

\* It is out of quota; the whole pass remembers that.
ThreatExhausted(a) ==
  /\ InLookup(a)
  /\ Wanted(a)
  /\ Learn(a, facts[a].report)
  /\ quotaOut' = TRUE
  /\ UNCHANGED answered

-----------------------------------------------------------------------------
(* write_back() and announce().                                            *)

\* Mutant of Defers: no row waits.
DefersNever(r) == FALSE

Defers(r) ==
  /\ quotaOut
  /\ r \in Blocked
  /\ Remote[r] # NoAddr
  /\ facts[Remote[r]].report = None

\* Mutants of Settled: a deferred row goes straight back into the queue; the
\* status is not written at all; it gets a status of its own.
SettledPending(r) == IF Defers(r) THEN "pending" ELSE "done"
SettledClaimed(r) == IF Defers(r) THEN "deferred" ELSE "claimed"
SettledFailed(r) == IF Defers(r) THEN "failed" ELSE "done"

Settled(r) == IF Defers(r) THEN "deferred" ELSE "done"

\* Mutant of NeedCats: categories belong to blocked rows only.
NeedCatsBlocked == {r \in batch \cap Blocked : FactsOf(r).report \in WithCats}

NeedCats == {r \in batch : FactsOf(r).report \in WithCats}

\* Mutant of Columns: a deferred row gets nothing yet.
ColumnsWhenDone ==
  [r \in Rows |-> IF r \in batch /\ ~Defers(r) THEN FactsOf(r) ELSE written[r]]

Columns == [r \in Rows |-> IF r \in batch THEN FactsOf(r) ELSE written[r]]

\* The main UPDATE: status and every column but the categories, one statement.
WriteBack ==
  /\ pc = "write"
  /\ status' = [r \in Rows |-> IF r \in batch THEN Settled(r) ELSE status[r]]
  /\ written' = Columns
  /\ catsTodo' = NeedCats
  /\ pc' = IF NeedCats = {} THEN "announce" ELSE "cats"
  /\ UNCHANGED <<rowCats, cache, batch, todo, facts, quotaOut, announced, answered, bounds>>

\* One UPDATE per row that has categories.
WriteCats(r) ==
  /\ pc = "cats"
  /\ r \in catsTodo
  /\ rowCats' = [rowCats EXCEPT ![r] = FactsOf(r).report]
  /\ catsTodo' = catsTodo \ {r}
  /\ pc' = IF catsTodo = {r} THEN "announce" ELSE "cats"
  /\ UNCHANGED <<status, written, cache, batch, todo, facts, quotaOut, announced, answered, bounds>>

\* Either statement fails: run_once returns the error, nothing is announced.
WriteFails ==
  /\ pc \in {"write", "cats"}
  /\ Fails
  /\ pc' = "idle"
  /\ UNCHANGED <<table, memory, announced, answered, windows, crashes>>

Announceable == {a \in RemotesOf(batch) : facts[a] # Empty}

\* announce(): one event per address about which anything is known.
Announce ==
  /\ pc = "announce"
  /\ announced' = Announceable
  /\ pc' = "top"
  /\ UNCHANGED <<table, memory, answered, bounds>>

\* The writer's signal or the two second timer.
Wake ==
  /\ pc = "idle"
  /\ pc' = "top"
  /\ UNCHANGED <<table, memory, announced, answered, bounds>>

\* The process dies and is started again; its memory is gone.
Crash ==
  /\ crashes < MaxCrashes
  /\ crashes' = crashes + 1
  /\ pc' = "boot"
  /\ batch' = {} /\ todo' = {} /\ catsTodo' = {}
  /\ facts' = [a \in Addrs |-> Empty]
  /\ quotaOut' = FALSE
  /\ announced' = {}
  /\ UNCHANGED <<table, answered, windows, failures>>

Lookup(a) ==
  \/ SkipThreat(a)
  \/ \E rep \in Reports : ThreatFound(a, rep)
  \/ ThreatNothing(a)
  \/ ThreatExhausted(a)

Worker ==
  \/ Boot \/ Pass \/ Reopen
  \/ \E S \in SUBSET Rows : Claim(S)
  \/ ClaimNothing
  \/ \E a \in Addrs : Lookup(a)
  \/ WriteBack \/ WriteFails
  \/ \E r \in Rows : WriteCats(r)
  \/ Announce \/ Wake

Next == Worker \/ Crash \/ \E r \in Rows : Insert(r)

Spec == Init /\ [][Next]_vars

\* The worker is one task that never stops; inserts and crashes just happen.
FairSpec == Spec /\ WF_vars(Worker)

-----------------------------------------------------------------------------
TypeOK ==
  /\ status \in [Rows -> {"absent", "pending", "claimed", "done", "deferred"}]
  /\ written \in [Rows -> Facts]
  /\ rowCats \in [Rows -> Reports \cup {None}]
  /\ cache \in [Addrs -> Facts]
  /\ pc \in Working \cup {"boot", "top", "claim", "idle"}
  /\ batch \in SUBSET Rows /\ todo \in SUBSET Addrs /\ catsTodo \in SUBSET Rows
  /\ facts \in [Addrs -> Facts]
  /\ quotaOut \in BOOLEAN
  /\ announced \in SUBSET Addrs /\ answered \in SUBSET Rows
  /\ windows \in Nat /\ failures \in Nat /\ crashes \in Nat

(* While a pass is on its way to write_back, every row of its batch is still *)
(* claimed: the UPDATE there names rows by key and looks at no status, so it *)
(* is only right because nobody else moves them (worker.rs:486-513).         *)
BatchIsClaimed ==
  pc \in {"lookup", "write"} => \A r \in batch : status[r] = "claimed"

(* A row waits for quota only if a score is what it lacks: it was blocked,  *)
(* has a remote address, and carries no score (worker.rs:456-459).          *)
DeferredAwaitsScore ==
  \A r \in RowsIn("deferred") :
    r \in Blocked /\ Remote[r] # NoAddr /\ written[r].report = None

(* A blocked row is finished without a score only if the source was asked   *)
(* for its address and had nothing: an exhausted quota never closes a row   *)
(* (design of phase 2, section 4; worker.rs:445-455).                       *)
ScorelessWasAnswered ==
  \A r \in Blocked :
    /\ status[r] = "done"
    /\ Remote[r] # NoAddr
    /\ written[r].report = None
    => r \in answered

(* A row comes back into the queue only at a restart or with a new quota    *)
(* window, never because a pass puts it back: that was the loop of 1.4      *)
(* billion updates (worker.rs:448-455, migrations/0011).                    *)
NoSpin ==
  [][\A r \in Rows :
       status[r] \notin {"absent", "pending"} /\ status'[r] = "pending"
       => pc = "boot" \/ (status[r] = "deferred" /\ windows' # windows)]_vars

(* The address cache never forgets a score, even when a pass that could not *)
(* read it stores what it found anew (worker.rs:264-303).                   *)
CacheNeverForgets ==
  [][\A a \in Addrs : cache[a].report # None => cache'[a].report # None]_vars

(* When the worker rests, no row is left in progress: nothing would touch   *)
(* it again before the next restart (worker.rs:116-127, 635-640).  As long  *)
(* as no statement failed: a write_back that fails leaves its rows claimed. *)
HeldOnlyAtWork == failures = 0 /\ pc = "idle" => RowsIn("claimed") = {}

\* The report of a row and its categories are the same report, or the pass is
\* on its way to write them.
CatsInStep(r) ==
  written[r].report \in WithCats =>
    rowCats[r] = written[r].report \/ (pc = "cats" /\ r \in catsTodo)

(* A finished row whose report names categories has them, as soon as the    *)
(* pass is through with it (worker.rs:415-428, 515-523).                    *)
CategoriesFollowScore == \A r \in RowsIn("done") : CatsInStep(r)

\* The same up to the first failing statement or crash.
CatsFollowUndisturbed == failures + crashes = 0 => CategoriesFollowScore

(* What the streams are told about an address is already in every row of    *)
(* the pass, so a page reloaded on the event shows it (worker.rs:382-384).  *)
AnnouncedIsOnRecord ==
  \A r \in batch : Remote[r] \in announced => written[r] = FactsOf(r)

(* From the claim to the announcement the batch is the worker's: its rows   *)
(* stay claimed until write_back names them, and what is announced of them  *)
(* is in them (worker.rs:146-166, 382-513).                                 *)
BatchHolds == BatchIsClaimed /\ AnnouncedIsOnRecord

(* A row is deferred or finished for the right reason: it waits only for a  *)
(* score it can get, and is finished without one only after an answer       *)
(* (worker.rs:445-462).                                                     *)
RowsSettleRightly == DeferredAwaitsScore /\ ScorelessWasAnswered

(* A worker at rest has left nothing behind: no row in progress, and no     *)
(* finished row without the categories of its score (worker.rs:515-523,     *)
(* 635-640).                                                                *)
NothingIsLeftBehind == HeldOnlyAtWork /\ CatsFollowUndisturbed

(* No pass undoes another: no row comes back into the queue, and the cache  *)
(* never loses a score (worker.rs:264-303, 448-455).                        *)
NothingIsUndone == NoSpin /\ CacheNeverForgets

(* Every row that enters the queue is finished or deferred, crashes or not, *)
(* unless a statement fails: "a crash costs at most a batch, never a row"   *)
(* (design of phase 2; worker.rs:116-127).                                  *)
EveryRowSettles ==
  \A r \in Rows :
    (status[r] = "pending") ~> (status[r] \in {"done", "deferred"} \/ failures > 0)

(* The worker always comes to rest again once the queue is worked off.      *)
(* It sleeps only after an empty claim, so a row that is put back by every  *)
(* pass keeps it and the database busy for ever (worker.rs:448-455).        *)
WorkerComesToRest == []<>(pc = "idle")

(* The worker gets its work done and then rests.                            *)
WorkGetsDone == EveryRowSettles /\ WorkerComesToRest

Queue == INSTANCE RowQueue

(* Seen from the table alone, the worker is the queue it promises to be.    *)
IsRowQueue == Queue!Spec
=============================================================================
